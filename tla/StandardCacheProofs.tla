-------------------------- MODULE StandardCacheProofs --------------------------
(***************************************************************************)
(* Theorems about StandardCache, for every set of processes and commits,   *)
(* every number of paths and of blob keys, and whatever an instance starts *)
(* with.                                                                   *)
(***************************************************************************)
EXTENDS StandardCache, WellFoundedInduction, NaturalsInduction, TLAPS

-----------------------------------------------------------------------------
(* The order in which paths and blobs are visited.                         *)

\* A set of natural numbers that is not empty has a least member.
LEMMA LeastMember ==
  ASSUME NEW S, S \subseteq Nat, S # {}
  PROVE  \E i \in S : \A k \in S : i <= k
<1> DEFINE R == OpToRel(<, Nat)
<1>1. IsWellFoundedOn(R, Nat)
  BY NatLessThanWellFounded
<1>2. \A m, n \in Nat : m < n => <<m, n>> \in R
  BY Zenon DEF OpToRel
<1> HIDE DEF R
<1>3. PICK x \in S : \A y \in S : ~(<<y, x>> \in R)
  BY <1>1, WFMin
<1>4. \A y \in S : ~(y < x)
  BY <1>2, <1>3
<1> QED
  BY <1>4

\* The least path or blob of what is left is one of it.
LEMMA SmallestIn ==
  ASSUME NEW S, S \subseteq Nat, S # {}
  PROVE  Smallest(S) \in S
  BY LeastMember DEF Smallest

-----------------------------------------------------------------------------
(* The parts of the invariant.                                             *)

PythonTyped ==
    /\ blob \in [Key -> Content \cup {None}]
    /\ snap \in [Commit -> [Path -> Content \cup {None, Link}]]
    /\ tree \subseteq Commit /\ ref \in Commit \cup {None}

OwnTyped ==
    /\ binding \in [Key -> Content \cup {None}]
    /\ manifest \in [Commit -> [Selection -> Record \cup {None}]]
    /\ \A c \in Commit, s \in Selection : manifest[c][s] \in [s -> Content] \cup {None}

LockTyped == lock \in [Key -> Process \cup {None}] /\ refLock \in Process \cup {None}

PlaceTyped == step \in [Process -> Steps] /\ left \in [Process -> SUBSET (Path \cup Key)]

ProcTyped ==
    /\ task \in [Process -> Task \cup {None}]
    /\ staged \in [Process -> Content \cup {None}]
    /\ prepared \in [Process -> [Key -> Content \cup {None}]]
    /\ published \in [Process -> BOOLEAN]
    /\ result \in [Process -> Report \cup {None}]

AuxTyped ==
    /\ wrote \in [Process -> BOOLEAN]
    /\ touched \in [Process -> SUBSET (Commit \X Path)] /\ handed \subseteq Key \X Content
    /\ work \in [Process -> SUBSET Task] /\ budget \in Budgets

Holds(p) ==
    /\ step[p] \in Preparing \ {"lock"} => lock[KeyTurn(p)] = p
    /\ refLock = p <=> step[p] \in {"replace ref", "read ref"}

\* Type correctness, by parts.
LEMMA TypeParts ==
  TypeOK <=> /\ PythonTyped /\ OwnTyped /\ LockTyped /\ PlaceTyped /\ ProcTyped /\ AuxTyped
             /\ \A p \in Process : Holds(p)
  BY DEF TypeOK, PythonTyped, OwnTyped, LockTyped, PlaceTyped, ProcTyped, AuxTyped, Holds

\* Type correctness of the next state, by parts.
LEMMA NextTypeParts ==
  TypeOK' <=> /\ PythonTyped' /\ OwnTyped' /\ LockTyped' /\ PlaceTyped' /\ ProcTyped' /\ AuxTyped'
              /\ \A p \in Process : Holds(p)'
  BY DEF TypeOK, PythonTyped, OwnTyped, LockTyped, PlaceTyped, ProcTyped, AuxTyped, Holds

Good(p) == Control(p) /\ Locked(p) /\ Prepared(p) /\ Exact(p) /\ Reported(p)

(* What a step of p leaves alone: the other processes and their locks, the *)
(* manifests there are, and in Python's files all there is.                *)
Frame(p) ==
    /\ \A q \in Process \ {p} :
           /\ step'[q] = step[q] /\ task'[q] = task[q] /\ left'[q] = left[q]
           /\ staged'[q] = staged[q] /\ prepared'[q] = prepared[q]
           /\ published'[q] = published[q] /\ result'[q] = result[q]
           /\ wrote'[q] = wrote[q] /\ touched'[q] = touched[q]
           /\ \A k \in Key : lock[k] = q => lock'[k] = q
           /\ refLock' = q <=> refLock = q
    /\ \A c \in Commit, s \in Selection :
           manifest[c][s] # None => manifest'[c][s] = manifest[c][s]
    /\ \A k \in Key : blob'[k] # blob[k] => blob[k] = None /\ lock[k] = p /\ blob'[k] \in Valid(k)
    /\ \A c \in Commit, x \in Path : snap[c][x] # None => snap'[c][x] = snap[c][x]

\* What a task has: a commit and paths, which are numbers, and their keys.
LEMMA TaskTyped ==
  ASSUME NEW p \in Process, TypeOK, Control(p), step[p] # "idle"
  PROVE  /\ task[p] \in Task /\ task[p].paths \in Selection /\ task[p].paths \subseteq Path
         /\ task[p].paths # {} /\ task[p].op \in {"publish", "import", "open"}
         /\ CommitOf(p) \in Commit \cup {None} /\ task[p].symbolic \in BOOLEAN
         /\ CommitOf(p) \in Commit =>
               /\ \A x \in task[p].paths : Tree[CommitOf(p)][x] \in KeysLeft(p)
               /\ \A k \in KeysLeft(p) : \E x \in task[p].paths : k = Tree[CommitOf(p)][x]
               /\ KeysLeft(p) \subseteq Key
               /\ KeysLeft(p) # {}
<1>1. task[p] \in Task
  BY DEF Control
<1>2. /\ task[p].paths \in Selection /\ task[p].paths \subseteq Path /\ task[p].paths # {}
      /\ task[p].op \in {"publish", "import", "open"} /\ task[p].commit \in Commit \cup {None}
      /\ task[p].symbolic \in BOOLEAN
  BY <1>1 DEF Task, Selection
<1>3. ASSUME CommitOf(p) \in Commit
      PROVE  /\ \A x \in task[p].paths : Tree[CommitOf(p)][x] \in KeysLeft(p)
             /\ \A k \in KeysLeft(p) : \E x \in task[p].paths : k = Tree[CommitOf(p)][x]
             /\ KeysLeft(p) \subseteq Key
             /\ KeysLeft(p) # {}
  BY <1>2, <1>3, TreeAssumption DEF KeysLeft, KeysOf
<1> QED
  BY <1>1, <1>2, <1>3 DEF CommitOf

\* The key or path whose turn it is, is one of those left.
LEMMA TurnLeft ==
  ASSUME NEW p \in Process, TypeOK, left[p] # {}
  PROVE  Turn(p) \in left[p] /\ KeyTurn(p) = Turn(p)
<1>1. left[p] \subseteq Nat
  <2>1. Path \subseteq Nat /\ Key \subseteq Nat
    BY SizeAssumption DEF Path, Key
  <2>2. left[p] \subseteq Path \cup Key
    BY DEF TypeOK
  <2> QED
    BY <2>1, <2>2
<1> QED
  BY <1>1, SmallestIn DEF Turn, KeyTurn

\* What is read of an entry is one of its blob's contents, or a refusal.
LEMMA ReadingTyped ==
  ASSUME TypeOK, NEW c \in Commit, NEW x \in Path
  PROVE  /\ Tree[c][x] \in Key
         /\ Valid(Tree[c][x]) \subseteq Content
         /\ Reading(c, x) \in Valid(Tree[c][x]) \cup {"incomplete", "corrupt"}
         /\ Reading(c, x) \in Content => Reading(c, x) \in Valid(Tree[c][x])
<1>1. Tree[c][x] \in Key
  BY TreeAssumption
<1> QED
  BY <1>1 DEF Reading, Valid, Content, Link

\* An entry that was read reads the same after a step that replaces nothing
\* and that leaves its blob alone or adds the one its key names.
LEMMA ReadingStays ==
  ASSUME TypeOK, NEW c \in Commit, NEW x \in Path, Reading(c, x) \in Content,
         snap[c][x] # None => snap'[c][x] = snap[c][x],
         blob'[Tree[c][x]] # blob[Tree[c][x]] =>
            blob[Tree[c][x]] = None /\ blob'[Tree[c][x]] \in Valid(Tree[c][x])
                /\ Tree[c][x] \notin Opaque
  PROVE  Reading(c, x)' = Reading(c, x)
<1> DEFINE k == Tree[c][x]
           entry == snap[c][x]
<1>1. None \notin Content /\ None # Link /\ Link \notin Content
      /\ "incomplete" \notin Content /\ "corrupt" \notin Content
  BY NoneAssumption DEF Content, Link
<1>2. Valid(k) \subseteq Content /\ (k \notin Opaque => Valid(k) = {"good"})
  BY DEF Valid, Content
<1> HIDE DEF k, entry
<1>3. CASE entry = Link
  BY <1>1, <1>2, <1>3 DEF Reading, k, entry
<1>4. CASE entry # Link
  <2>1. entry \in Valid(k) /\ blob[k] \in {None, entry} /\ Reading(c, x) = entry
    BY <1>1, <1>4 DEF Reading, k, entry
  <2>2. snap'[c][x] = entry
    BY <1>1, <1>2, <2>1 DEF entry
  <2>3. blob'[k] \in {None, entry}
    BY <1>2, <2>1 DEF k
  <2> QED
    BY <1>1, <1>2, <1>4, <2>1, <2>2, <2>3 DEF Reading, k, entry
<1> QED
  BY <1>3, <1>4

-----------------------------------------------------------------------------
(* What the other processes and programs do to a process.                  *)

(* p is where it was, and what it has read is as it was, or touched.       *)
Rests(p) ==
    /\ step'[p] = step[p] /\ task'[p] = task[p] /\ left'[p] = left[p]
    /\ staged'[p] = staged[p] /\ prepared'[p] = prepared[p]
    /\ published'[p] = published[p] /\ result'[p] = result[p] /\ wrote'[p] = wrote[p]
    /\ touched[p] \subseteq touched'[p]
    /\ \A k \in Key : lock[k] = p => lock'[k] = p
    /\ \A c \in Commit, s \in Selection :
           manifest[c][s] # None => manifest'[c][s] = manifest[c][s]
    /\ \A c \in Commit, x \in Path :
           (Reading(c, x) \in Content /\ (lock[Tree[c][x]] = p \/ Tree[c][x] \notin Opaque))
           => (Reading(c, x)' = Reading(c, x) \/ <<c, x>> \in touched'[p])

\* What holds of a process that rests keeps holding.
LEMMA RestGood ==
  ASSUME NEW p \in Process, IInv, Rests(p)
  PROVE  Good(p)'
<1>1. TypeOK /\ Control(p) /\ Locked(p) /\ Prepared(p) /\ Exact(p) /\ Reported(p)
  BY DEF IInv
<1>2. /\ step'[p] = step[p] /\ task'[p] = task[p] /\ left'[p] = left[p]
      /\ staged'[p] = staged[p] /\ prepared'[p] = prepared[p]
      /\ published'[p] = published[p] /\ result'[p] = result[p] /\ wrote'[p] = wrote[p]
      /\ touched[p] \subseteq touched'[p]
      /\ KeysLeft(p)' = KeysLeft(p) /\ CommitOf(p)' = CommitOf(p) /\ KeyTurn(p)' = KeyTurn(p)
      /\ Done(p)' = Done(p) /\ MayHavePublished(p)' = MayHavePublished(p)
  BY DEF Rests, KeysLeft, CommitOf, KeyTurn, Turn, Done, MayHavePublished
<1>3. Control(p)'
  BY <1>1, <1>2 DEF Control
<1>4. Prepared(p)' /\ Reported(p)'
  BY <1>1, <1>2 DEF Prepared, Reported
<1>5. Locked(p)'
  <2> SUFFICES ASSUME step[p] # "idle", task[p].op = "publish", NEW k \in Done(p)
               PROVE  lock'[k] = p
    BY <1>2 DEF Locked
  <2>1. CommitOf(p) \in Commit
    BY <1>1 DEF Control
  <2>2. k \in Key
    BY <1>1, <2>1, TaskTyped DEF Done
  <2>3. lock[k] = p
    BY <1>1 DEF Locked
  <2> QED
    BY <2>2, <2>3 DEF Rests
<1>6. Exact(p)'
  <2>1. CASE step[p] \in {"idle", "index"}
    BY <1>2, <2>1 DEF Exact, EntrySteps, RefSteps
  <2>2. CASE step[p] \notin {"idle", "index"}
    <3>1. PICK c \in Commit, s \in Selection :
             c = CommitOf(p) /\ s = task[p].paths /\ s \subseteq Path
      BY <1>1, <2>2, TaskTyped DEF Control
    <3>2. \A x \in s : Tree[c][x] \in KeysLeft(p) /\ Tree[c][x] \in Key
      BY <1>1, <2>2, <3>1, TaskTyped
    <3>3. ASSUME NEW x \in s, Reading(c, x) \in Content,
                 lock[Tree[c][x]] = p \/ Tree[c][x] \notin Opaque
          PROVE  Reading(c, x)' = Reading(c, x) \/ <<c, x>> \in touched'[p]
      BY <3>1, <3>3 DEF Rests
    <3>4. ASSUME step[p] \notin Preparing, task[p].op = "publish", NEW x \in s
          PROVE  lock[Tree[c][x]] = p
      BY <1>1, <2>2, <3>2, <3>4 DEF Locked, Done
    <3>5. ASSUME step[p] \notin Preparing, NEW x \in s, AsPrepared(p, x),
                 prepared[p][Tree[c][x]] # None
          PROVE  AsPrepared(p, x)'
      <4> SUFFICES ASSUME Lasting(p, x)
                   PROVE  Reading(c, x)' = prepared[p][Tree[c][x]] \/ <<c, x>> \in touched'[p]
        BY <1>2, <3>1 DEF AsPrepared, Lasting
      <4>1. Reading(c, x) = prepared[p][Tree[c][x]] \/ <<c, x>> \in touched[p]
        BY <3>1, <3>5 DEF AsPrepared
      <4>2. prepared[p][Tree[c][x]] \in Content
        <5>1. prepared \in [Process -> [Key -> Content \cup {None}]]
          BY <1>1 DEF TypeOK
        <5> QED
          BY <3>2, <3>5, <5>1
      <4>3. lock[Tree[c][x]] = p \/ Tree[c][x] \notin Opaque
        BY <3>1, <3>4, <3>5 DEF Lasting
      <4> QED
        BY <1>2, <3>3, <4>1, <4>2, <4>3
    <3>6. step[p] \in EntrySteps \cup {"read"} => \A x \in s \ left[p] : AsPrepared(p, x)'
      BY <1>1, <3>1, <3>2, <3>5 DEF Exact, Prepared, EntrySteps, Preparing
    <3>7. step[p] \in {"bind", "manifest"} => \A x \in s : AsPrepared(p, x)'
      BY <1>1, <3>1, <3>2, <3>5 DEF Exact, Prepared, Preparing
    <3>8. step[p] \in RefSteps \cup {"check"} =>
            manifest[c][s] # None /\ manifest'[c][s] = manifest[c][s]
      BY <1>1, <3>1 DEF Exact, Rests
    <3>9. ASSUME step[p] \in RefSteps \cup {"check"}, task[p].op = "publish", NEW x \in s,
                 Reading(c, x) = manifest[c][s][x] \/ <<c, x>> \in touched[p]
          PROVE  Reading(c, x)' = manifest'[c][s][x] \/ <<c, x>> \in touched'[p]
      <4>1. manifest[c][s][x] \in Content
        <5>1. manifest[c][s] \in [s -> Content] \cup {None}
          BY <1>1 DEF TypeOK
        <5> QED
          BY <3>8, <3>9, <5>1
      <4>2. lock[Tree[c][x]] = p
        BY <3>4, <3>9 DEF RefSteps, Preparing
      <4> QED
        BY <1>2, <3>3, <3>8, <3>9, <4>1, <4>2
    <3>10. step[p] = "check" /\ task[p].op = "publish" =>
             \A x \in s \ left[p] : Reading(c, x)' = manifest'[c][s][x] \/ <<c, x>> \in touched'[p]
      BY <1>1, <3>1, <3>9 DEF Exact, Recorded
    <3>11. step[p] \in RefSteps =>
             \A x \in s : Reading(c, x)' = manifest'[c][s][x] \/ <<c, x>> \in touched'[p]
      BY <1>1, <3>1, <3>9 DEF Exact, Readable, Control
    <3> QED
      BY <1>2, <3>1, <3>6, <3>7, <3>8, <3>10, <3>11 DEF Exact, Recorded, Readable
  <2> QED
    BY <2>1, <2>2
<1> QED
  BY <1>3, <1>4, <1>5, <1>6 DEF Good

\* Every process but the one that takes a step rests.
LEMMA OthersKept ==
  ASSUME NEW p \in Process, IInv, Frame(p), NEW q \in Process \ {p}
  PROVE  Good(q)'
<1>1. TypeOK
  BY DEF IInv
<1>2. ASSUME NEW c \in Commit, NEW x \in Path, Reading(c, x) \in Content,
             lock[Tree[c][x]] = q \/ Tree[c][x] \notin Opaque
      PROVE  Reading(c, x)' = Reading(c, x)
  <2>1. Tree[c][x] \in Key
    BY <1>1, ReadingTyped
  <2>2. blob'[Tree[c][x]] # blob[Tree[c][x]] =>
          blob[Tree[c][x]] = None /\ blob'[Tree[c][x]] \in Valid(Tree[c][x])
              /\ Tree[c][x] \notin Opaque
    BY <1>2, <2>1 DEF Frame
  <2>3. snap[c][x] # None => snap'[c][x] = snap[c][x]
    BY DEF Frame
  <2> QED
    BY <1>1, <1>2, <2>2, <2>3, ReadingStays
<1>3. Rests(q)
  BY <1>2 DEF Rests, Frame
<1> QED
  BY <1>3, RestGood

\* Spending from the budget leaves a budget.
LEMMA SpendTyped ==
  ASSUME NEW item \in {"ops", "adds", "damages", "faults", "crashes"}, TypeOK, Spend(item)
  PROVE  budget' \in Budgets
<1>1. budget \in Budgets
  BY DEF TypeOK
<1> QED
  BY <1>1 DEF Budgets, Spend

\* What another program does to Python's files is noted with everyone who
\* has read an entry that it changes.
LEMMA OutsideKeeps ==
  ASSUME IInv, OutsideOnly, PythonTyped', budget' \in Budgets,
         NEW E, E \subseteq Commit \X Path,
         touched' = [p \in Process |-> touched[p] \cup E],
         \A c \in Commit, x \in Path : Reading(c, x)' = Reading(c, x) \/ <<c, x>> \in E
  PROVE  IInv'
<1>1. TypeOK /\ Bound
  BY DEF IInv
<1>2. UNCHANGED <<binding, manifest, lock, refLock, step, task, left, staged, prepared, published,
                  result, wrote, handed, work>>
  BY DEF OutsideOnly, ownVars, lockVars, procVars
<1>3. TypeOK'
  <2>1. AuxTyped'
    BY <1>1, <1>2 DEF AuxTyped, TypeOK
  <2>2. OwnTyped' /\ LockTyped' /\ PlaceTyped' /\ ProcTyped' /\ \A p \in Process : Holds(p)'
    BY <1>1, <1>2 DEF OwnTyped, LockTyped, PlaceTyped, ProcTyped, Holds, TypeOK, KeyTurn, Turn
  <2> QED
    BY <2>1, <2>2, NextTypeParts
<1>4. Bound'
  BY <1>1, <1>2 DEF Bound
<1>5. ASSUME NEW p \in Process PROVE Good(p)'
  <2>1. touched'[p] = touched[p] \cup E
    BY <1>5
  <2>2. Rests(p)
    BY <1>2, <2>1 DEF Rests
  <2> QED
    BY <2>2, RestGood
<1> QED
  BY <1>3, <1>4, <1>5 DEF IInv, Good

\* The other programs keep the invariant.
LEMMA OutsideGood == IInv /\ Outside => IInv'
<1> SUFFICES ASSUME IInv, Outside PROVE IInv'
  OBVIOUS
<1>1. /\ TypeOK /\ blob \in [Key -> Content \cup {None}]
      /\ snap \in [Commit -> [Path -> Content \cup {None, Link}]]
      /\ tree \subseteq Commit /\ ref \in Commit \cup {None}
      /\ touched \in [Process -> SUBSET (Commit \X Path)]
  BY DEF IInv, TypeOK
<1>2. ASSUME NEW k \in Key, AddBlob(k) \/ DamageBlob(k) PROVE IInv'
  <2>1. /\ touched' = [p \in Process |-> touched[p] \cup EntriesOf(k)]
        /\ OutsideOnly /\ UNCHANGED <<snap, tree, ref>>
    BY <1>2 DEF AddBlob, DamageBlob, Touch
  <2>2. PICK content \in Content \cup {None} : blob' = [blob EXCEPT ![k] = content]
    BY <1>2 DEF AddBlob, DamageBlob, Valid, Content
  <2>3. PythonTyped' /\ budget' \in Budgets /\ EntriesOf(k) \subseteq Commit \X Path
    BY <1>1, <1>2, <2>1, <2>2, SpendTyped DEF PythonTyped, EntriesOf, AddBlob, DamageBlob
  <2>4. ASSUME NEW c \in Commit, NEW x \in Path
        PROVE  Reading(c, x)' = Reading(c, x) \/ <<c, x>> \in EntriesOf(k)
    <3>1. CASE Tree[c][x] = k
      BY <3>1 DEF EntriesOf
    <3>2. CASE Tree[c][x] # k
      <4>1. blob'[Tree[c][x]] = blob[Tree[c][x]] /\ snap' = snap
        BY <1>1, <2>1, <2>2, <3>2, ReadingTyped
      <4> QED
        BY <4>1 DEF Reading
    <3> QED
      BY <3>1, <3>2
  <2> QED
    BY <2>1, <2>3, <2>4, OutsideKeeps
<1>3. ASSUME NEW c \in Commit, NEW x \in Path, AddEntry(c, x) PROVE IInv'
  <2>1. /\ touched' = [p \in Process |-> touched[p] \cup {<<c, x>>}]
        /\ OutsideOnly /\ UNCHANGED <<blob, ref>> /\ tree' = tree \cup {c}
        /\ Spend("adds")
    BY <1>3 DEF AddEntry, Touch
  <2>2. PICK entry \in Content \cup {Link} : snap' = [snap EXCEPT ![c][x] = entry]
    BY <1>3 DEF AddEntry, Valid, Content
  <2>3. PythonTyped' /\ budget' \in Budgets /\ {<<c, x>>} \subseteq Commit \X Path
    BY <1>1, <2>1, <2>2, SpendTyped DEF PythonTyped
  <2>4. ASSUME NEW d \in Commit, NEW y \in Path
        PROVE  Reading(d, y)' = Reading(d, y) \/ <<d, y>> \in {<<c, x>>}
    <3>1. CASE d = c /\ y = x
      BY <3>1
    <3>2. CASE ~(d = c /\ y = x)
      <4>1. snap'[d][y] = snap[d][y] /\ blob' = blob
        BY <1>1, <2>1, <2>2, <3>2
      <4> QED
        BY <4>1 DEF Reading
    <3> QED
      BY <3>1, <3>2
  <2> QED
    BY <2>1, <2>3, <2>4, OutsideKeeps
<1>4. ASSUME NEW c \in Commit, MoveRef(c) PROVE IInv'
  <2>1. OutsideOnly /\ UNCHANGED <<blob, snap, tree, touched>> /\ ref' = c /\ Spend("adds")
    BY <1>4 DEF MoveRef
  <2>2. touched' = [p \in Process |-> touched[p] \cup {}]
    BY <1>1, <2>1
  <2>3. PythonTyped' /\ budget' \in Budgets
    BY <1>1, <2>1, SpendTyped DEF PythonTyped
  <2>4. \A d \in Commit, y \in Path : Reading(d, y)' = Reading(d, y) \/ <<d, y>> \in {}
    BY <2>1 DEF Reading
  <2>5. {} \subseteq Commit \X Path
    OBVIOUS
  <2> QED
    BY <2>1, <2>2, <2>3, <2>4, <2>5, OutsideKeeps
<1>5. ASSUME NEW c \in Commit, RemoveSnapshot(c) PROVE IInv'
  <2>1. /\ touched' = [p \in Process |-> touched[p] \cup ({c} \X Path)]
        /\ OutsideOnly /\ UNCHANGED blob /\ tree' = tree \ {c} /\ Spend("damages")
        /\ snap' = [snap EXCEPT ![c] = [x \in Path |-> None]]
        /\ ref' = IF ref = c THEN None ELSE ref
    BY <1>5 DEF RemoveSnapshot, Touch
  <2>2. snap' \in [Commit -> [Path -> Content \cup {None, Link}]]
    <3>1. [x \in Path |-> None] \in [Path -> Content \cup {None, Link}]
      OBVIOUS
    <3> QED
      BY <1>1, <2>1, <3>1
  <2>3. PythonTyped' /\ budget' \in Budgets /\ ({c} \X Path) \subseteq Commit \X Path
    BY <1>1, <2>1, <2>2, SpendTyped DEF PythonTyped
  <2>4. ASSUME NEW d \in Commit, NEW y \in Path
        PROVE  Reading(d, y)' = Reading(d, y) \/ <<d, y>> \in {c} \X Path
    <3>1. CASE d # c
      <4>1. snap'[d][y] = snap[d][y] /\ blob' = blob
        BY <1>1, <2>1, <3>1
      <4> QED
        BY <4>1 DEF Reading
    <3> QED
      BY <3>1
  <2> QED
    BY <2>1, <2>3, <2>4, OutsideKeeps
<1> QED
  BY <1>2, <1>3, <1>4, <1>5 DEF Outside

-----------------------------------------------------------------------------
(* The end of an operation.                                                *)

\* An operation ends and releases its locks: it says that it may have
\* published if it has written anything and failed.
LEMMA EndGood ==
  ASSUME NEW p \in Process, NEW o \in Outcomes, NEW may \in BOOLEAN, IInv, End(p, o, may),
         UNCHANGED <<pythonVars, ownVars, wrote, work>>, budget' \in Budgets,
         touched' \in [Process -> SUBSET (Commit \X Path)],
         \A q \in Process \ {p} : touched'[q] = touched[q],
         handed' \subseteq Key \X Content, \A h \in handed' : binding[h[1]] = h[2],
         wrote[p] => o = "ok" \/ may
  PROVE  TypeOK' /\ Bound' /\ Good(p)' /\ Frame(p)
<1>1. TypeOK /\ Bound
  BY DEF IInv
<1>a. /\ step \in [Process -> Steps] /\ task \in [Process -> Task \cup {None}]
      /\ left \in [Process -> SUBSET (Path \cup Key)] /\ staged \in [Process -> Content \cup {None}]
      /\ prepared \in [Process -> [Key -> Content \cup {None}]]
      /\ published \in [Process -> BOOLEAN] /\ result \in [Process -> Report \cup {None}]
      /\ refLock \in Process \cup {None} /\ lock \in [Key -> Process \cup {None}]
      /\ None \notin Process
  BY <1>1, NoneAssumption DEF TypeOK
<1>2. /\ step' = [step EXCEPT ![p] = "idle"]
      /\ result' = [result EXCEPT ![p] = [outcome |-> o, may |-> may]]
      /\ task' = [task EXCEPT ![p] = None]
      /\ left' = [left EXCEPT ![p] = {}]
      /\ staged' = [staged EXCEPT ![p] = None]
      /\ prepared' = [prepared EXCEPT ![p] = [k \in Key |-> None]]
      /\ published' = [published EXCEPT ![p] = FALSE]
      /\ lock' = [k \in Key |-> IF lock[k] = p THEN None ELSE lock[k]]
      /\ refLock' = IF refLock = p THEN None ELSE refLock
  BY DEF End, Goto
<1>3. /\ UNCHANGED <<blob, snap, tree, ref, binding, manifest>>
      /\ wrote' = wrote /\ work' = work
  BY DEF pythonVars, ownVars
<1>4. [outcome |-> o, may |-> may] \in Report
  BY DEF Report
<1>5. TypeOK'
  <2>1. PythonTyped' /\ OwnTyped' /\ AuxTyped'
    BY <1>1, <1>3 DEF PythonTyped, OwnTyped, AuxTyped, TypeOK
  <2>2. LockTyped'
    BY <1>1, <1>2 DEF LockTyped, TypeOK
  <2>3. PlaceTyped'
    BY <1>1, <1>2 DEF PlaceTyped, TypeOK, Steps
  <2>4. ProcTyped'
    <3>1. [k \in Key |-> None] \in [Key -> Content \cup {None}]
      OBVIOUS
    <3> QED
      BY <1>1, <1>2, <1>4, <3>1 DEF ProcTyped, TypeOK
  <2>5. ASSUME NEW q \in Process PROVE Holds(q)'
    <3>1. CASE q = p
      <4>1. step'[q] = "idle" /\ refLock' # p
        BY <1>a, <1>2, <3>1
      <4> QED
        BY <3>1, <4>1 DEF Holds, Preparing
    <3>2. CASE q # p
      <4>1. /\ step'[q] = step[q] /\ KeyTurn(q)' = KeyTurn(q)
            /\ refLock' = q <=> refLock = q
        BY <1>a, <1>2, <3>2 DEF KeyTurn, Turn
      <4>2. Holds(q)
        BY <1>1, TypeParts
      <4>3. step[q] \in Preparing \ {"lock"} => lock'[KeyTurn(q)] = q
        <5> SUFFICES ASSUME step[q] \in Preparing \ {"lock"} PROVE lock'[KeyTurn(q)] = q
          OBVIOUS
        <5>1. Control(q)
          BY DEF IInv
        <5>2. left[q] # {} /\ left[q] \subseteq Key
          BY <1>1, <5>1, TaskTyped DEF Control, Preparing
        <5>3. KeyTurn(q) \in Key
          BY <1>1, <5>2, TurnLeft
        <5> QED
          BY <1>2, <3>2, <4>2, <5>3 DEF Holds
      <4> QED
        BY <4>1, <4>2, <4>3 DEF Holds
    <3> QED
      BY <3>1, <3>2
  <2> QED
    BY <2>1, <2>2, <2>3, <2>4, <2>5, NextTypeParts
<1>6. Bound'
  BY <1>1, <1>3 DEF Bound
<1>7. Good(p)'
  <2>1. step'[p] = "idle" /\ result'[p] = [outcome |-> o, may |-> may] /\ wrote'[p] = wrote[p]
    BY <1>1, <1>2, <1>3 DEF TypeOK
  <2>2. Control(p)' /\ Locked(p)' /\ Prepared(p)' /\ Exact(p)'
    BY <2>1 DEF Control, Locked, Prepared, Exact, Preparing, EntrySteps, RefSteps
  <2>3. result'[p].outcome = o /\ result'[p].may = may
    BY <2>1
  <2>4. Reported(p)'
    BY <2>1, <2>3 DEF Reported
  <2> QED
    BY <2>2, <2>4 DEF Good
<1>8. Frame(p)
  <2>1. \A k \in Key, q \in Process \ {p} : lock[k] = q => lock'[k] = q
    BY <1>2
  <2>2. \A q \in Process \ {p} : refLock' = q <=> refLock = q
    BY <1>a, <1>2
  <2> QED
    BY <1>a, <1>2, <1>3, <2>1, <2>2 DEF Frame
<1> QED
  BY <1>5, <1>6, <1>7, <1>8

\* An operation fails, or a fault or a crash ends it.
LEMMA FailsGood ==
  ASSUME NEW p \in Process, NEW o \in Outcomes, IInv, step[p] # "idle",
         Fails(p, o) \/ End(p, o, TRUE),
         UNCHANGED <<pythonVars, ownVars, wrote, touched, handed, work>>, budget' \in Budgets
  PROVE  TypeOK' /\ Bound' /\ Good(p)' /\ Frame(p)
<1>1. /\ TypeOK /\ Bound /\ Control(p) /\ Reported(p)
      /\ handed' = handed /\ touched' = touched /\ UNCHANGED <<pythonVars, ownVars, wrote, work>>
  BY DEF IInv
<1>2. PICK may \in BOOLEAN : End(p, o, may) /\ (wrote[p] => may)
  <2>1. CASE End(p, o, TRUE)
    BY <2>1
  <2>2. CASE Fails(p, o)
    <3>1. MayHavePublished(p) \in BOOLEAN
      <4>1. task[p].op \in {"publish", "import", "open"} /\ published[p] \in BOOLEAN
        BY <1>1, TaskTyped DEF TypeOK
      <4> QED
        BY <4>1 DEF MayHavePublished
    <3>2. wrote[p] => MayHavePublished(p)
      BY <1>1 DEF Reported
    <3> QED
      BY <2>2, <3>1, <3>2 DEF Fails
  <2> QED
    BY <2>1, <2>2
<1>3. touched' \in [Process -> SUBSET (Commit \X Path)] /\ handed' \subseteq Key \X Content
  BY <1>1 DEF TypeOK
<1>4. \A h \in handed' : binding[h[1]] = h[2]
  BY <1>1 DEF Bound
<1>5. \A q \in Process \ {p} : touched'[q] = touched[q]
  BY <1>1
<1> QED
  BY <1>1, <1>2, <1>3, <1>4, <1>5, EndGood

-----------------------------------------------------------------------------
(* The steps of an operation, one lemma per action.                        *)

(* The rest of what a step of p leaves alone, see Frame.                   *)
Others(p) ==
    \A q \in Process \ {p} :
        /\ task'[q] = task[q] /\ staged'[q] = staged[q] /\ prepared'[q] = prepared[q]
        /\ published'[q] = published[q] /\ result'[q] = result[q]
        /\ wrote'[q] = wrote[q] /\ touched'[q] = touched[q]

Locks(p) ==
    \A q \in Process \ {p} :
        (\A k \in Key : lock[k] = q => lock'[k] = q) /\ (refLock' = q <=> refLock = q)

Files(p) ==
    /\ \A c \in Commit, s \in Selection :
           manifest[c][s] # None => manifest'[c][s] = manifest[c][s]
    /\ \A k \in Key : blob'[k] # blob[k] => blob[k] = None /\ lock[k] = p /\ blob'[k] \in Valid(k)
    /\ \A c \in Commit, x \in Path : snap[c][x] # None => snap'[c][x] = snap[c][x]

\* A step of p to another place of its operation.
LEMMA StepTyped ==
  ASSUME NEW p \in Process, NEW s \in Steps, NEW t \in SUBSET (Path \cup Key), IInv,
         step' = [step EXCEPT ![p] = s], left' = [left EXCEPT ![p] = t],
         PythonTyped', OwnTyped', LockTyped', ProcTyped', AuxTyped',
         Others(p), Locks(p), Files(p),
         s \in Preparing \ {"lock"} => lock'[Smallest(t)] = p,
         refLock' = p <=> s \in {"replace ref", "read ref"}
  PROVE  /\ TypeOK' /\ Frame(p) /\ step'[p] = s /\ left'[p] = t
<1>1. TypeOK
  BY DEF IInv
<1>2. step \in [Process -> Steps] /\ left \in [Process -> SUBSET (Path \cup Key)]
  BY <1>1 DEF TypeOK
<1>3. PlaceTyped'
  BY <1>2 DEF PlaceTyped
<1>4. step'[p] = s /\ left'[p] = t /\ \A q \in Process \ {p} : step'[q] = step[q] /\ left'[q] = left[q]
  BY <1>2
<1>5. Holds(p)'
  BY <1>4 DEF Holds, KeyTurn, Turn
<1>6. ASSUME NEW q \in Process \ {p} PROVE Holds(q)'
  <2>1. Holds(q) /\ Control(q)
    BY <1>1, TypeParts DEF IInv
  <2>2. step'[q] = step[q] /\ KeyTurn(q)' = KeyTurn(q) /\ (refLock' = q <=> refLock = q)
    BY <1>4 DEF KeyTurn, Turn, Locks
  <2>3. ASSUME step[q] \in Preparing \ {"lock"} PROVE lock'[KeyTurn(q)] = q
    <3>1. left[q] # {} /\ left[q] \subseteq Key
      BY <1>1, <2>1, <2>3, TaskTyped DEF Control, Preparing
    <3>2. KeyTurn(q) \in Key
      BY <1>1, <3>1, TurnLeft
    <3> QED
      BY <2>1, <2>3, <3>2 DEF Holds, Locks
  <2> QED
    BY <2>1, <2>2, <2>3 DEF Holds
<1>7. TypeOK'
  BY <1>3, <1>5, <1>6, NextTypeParts
<1>8. Frame(p)
  BY <1>4 DEF Frame, Others, Locks, Files
<1> QED
  BY <1>4, <1>7, <1>8

\* A step that takes no lock and leaves the records alone that Bound is
\* about.
LEMMA PlainStep ==
  ASSUME NEW p \in Process, NEW s \in Steps, NEW t \in SUBSET (Path \cup Key), IInv,
         step' = [step EXCEPT ![p] = s], left' = [left EXCEPT ![p] = t],
         UNCHANGED <<lockVars, ownVars, handed, work, budget>>,
         PythonTyped', ProcTyped', AuxTyped', Others(p),
         \A k \in Key : blob'[k] # blob[k] => blob[k] = None /\ lock[k] = p /\ blob'[k] \in Valid(k),
         \A c \in Commit, x \in Path : snap[c][x] # None => snap'[c][x] = snap[c][x],
         s \in Preparing \ {"lock"} => lock[Smallest(t)] = p,
         s \in {"replace ref", "read ref"} <=> step[p] \in {"replace ref", "read ref"}
  PROVE  /\ TypeOK' /\ Bound' /\ Frame(p) /\ step'[p] = s /\ left'[p] = t
<1>1. TypeOK /\ Bound
  BY DEF IInv
<1>2. UNCHANGED <<lock, refLock, binding, manifest, handed, work>>
  BY DEF lockVars, ownVars
<1>3. OwnTyped' /\ LockTyped'
  BY <1>1, <1>2 DEF OwnTyped, LockTyped, TypeOK
<1>4. Locks(p) /\ Files(p)
  BY <1>2 DEF Locks, Files
<1>5. Holds(p)
  BY <1>1, TypeParts
<1>6. refLock' = p <=> s \in {"replace ref", "read ref"}
  BY <1>2, <1>5 DEF Holds
<1>7. s \in Preparing \ {"lock"} => lock'[Smallest(t)] = p
  BY <1>2
<1>8. Bound'
  BY <1>1, <1>2 DEF Bound
<1> QED
  BY <1>3, <1>4, <1>6, <1>7, <1>8, StepTyped, ZenonT(40)

(* Where a pass goes, and the keys or paths it has left.                   *)
Goes(p, done, again, next, over, s, t) ==
    /\ step' = [step EXCEPT ![p] = s] /\ left' = [left EXCEPT ![p] = t]
    /\ done \in left[p]
    /\ \/ s = next /\ t = over /\ left[p] = {done}
       \/ s = again /\ t = left[p] \ {done} /\ t # {}

\* A pass goes again to what it has left, or on to the next step.
LEMMA AdvanceGoes ==
  ASSUME NEW p \in Process, IInv, NEW done \in left[p], NEW again, NEW next, NEW over,
         Advance(p, done, again, next, over)
  PROVE  \E s, t : Goes(p, done, again, next, over, s, t)
<1>1. left \in [Process -> SUBSET (Path \cup Key)]
  BY DEF IInv, TypeOK
<1>2. CASE left[p] = {done}
  BY <1>2 DEF Advance, Goes, Goto
<1>3. CASE left[p] # {done}
  <2>1. step' = [step EXCEPT ![p] = again] /\ left' = [left EXCEPT ![p] = @ \ {done}]
    BY <1>3 DEF Advance, Goto
  <2>2. left' = [left EXCEPT ![p] = left[p] \ {done}]
    BY <1>1, <2>1
  <2>3. left[p] \ {done} # {}
    BY <1>3
  <2> QED
    BY <2>1, <2>2, <2>3 DEF Goes
<1> QED
  BY <1>2, <1>3

\* What the invariant says of a process that works.
LEMMA Working ==
  ASSUME NEW p \in Process, IInv, step[p] # "idle"
  PROVE  /\ TypeOK /\ Bound /\ Control(p) /\ Locked(p) /\ Prepared(p) /\ Exact(p) /\ Reported(p)
         /\ PythonTyped /\ OwnTyped /\ LockTyped /\ PlaceTyped /\ ProcTyped /\ AuxTyped /\ Holds(p)
         /\ task[p] \in Task /\ task[p].paths \in Selection /\ task[p].paths \subseteq Path
         /\ task[p].paths # {} /\ result[p] = None
         /\ task[p].op \in {"publish", "import", "open"}
<1>1. TypeOK /\ Bound /\ Control(p) /\ Locked(p) /\ Prepared(p) /\ Exact(p) /\ Reported(p)
  BY DEF IInv
<1>2. /\ PythonTyped /\ OwnTyped /\ LockTyped /\ PlaceTyped /\ ProcTyped /\ AuxTyped /\ Holds(p)
  BY <1>1, TypeParts
<1>3. result[p] = None
  BY <1>1 DEF Control
<1> QED
  BY <1>1, <1>2, <1>3, TaskTyped

\* An operation starts.
LEMMA StartGood ==
  ASSUME NEW p \in Process, NEW t \in work[p], IInv, Start(p, t)
  PROVE  TypeOK' /\ Bound' /\ Good(p)' /\ Frame(p)
<1>1. /\ TypeOK /\ Bound /\ PythonTyped /\ OwnTyped /\ LockTyped /\ PlaceTyped /\ ProcTyped
      /\ AuxTyped /\ Holds(p)
  BY TypeParts DEF IInv
<1>2. /\ step[p] = "idle" /\ Spend("ops")
      /\ task' = [task EXCEPT ![p] = t]
      /\ step' = [step EXCEPT ![p] = IF t.op = "publish" THEN "lock" ELSE "index"]
      /\ left' = [left EXCEPT ![p] = IF t.op = "publish" THEN KeysOf(t.commit, t.paths) ELSE t.paths]
      /\ result' = [result EXCEPT ![p] = None]
      /\ wrote' = [wrote EXCEPT ![p] = FALSE]
      /\ touched' = [touched EXCEPT ![p] = {}]
      /\ UNCHANGED <<blob, snap, tree, ref, binding, manifest, lock, refLock, staged, prepared,
                     published, handed, work>>
  BY DEF Start, Goto, pythonVars, ownVars, lockVars
<1>3. /\ t \in Task /\ t.paths \in Selection /\ t.paths \subseteq Path /\ t.paths # {}
      /\ t.op \in {"publish", "import", "open"} /\ t.commit \in Commit \cup {None}
      /\ t.op = "publish" => t.commit \in Commit
  <2>1. t \in Task
    BY <1>1 DEF AuxTyped
  <2>2. t.op = "publish" => t.commit # None
    BY <1>1 DEF Bound
  <2> QED
    BY <2>1, <2>2 DEF Task, Selection
<1>4. t.op = "publish" => KeysOf(t.commit, t.paths) \subseteq Key /\ KeysOf(t.commit, t.paths) # {}
  BY <1>3, TreeAssumption DEF KeysOf
<1> DEFINE s == IF t.op = "publish" THEN "lock" ELSE "index"
           l == IF t.op = "publish" THEN KeysOf(t.commit, t.paths) ELSE t.paths
<1>5. s \in {"lock", "index"} /\ s \in Steps /\ l \in SUBSET (Path \cup Key)
  BY <1>3, <1>4 DEF Steps, Preparing
<1>6. PythonTyped' /\ OwnTyped' /\ LockTyped' /\ ProcTyped' /\ AuxTyped'
  <2>1. budget' \in Budgets
    BY <1>1, <1>2, SpendTyped
  <2>2. AuxTyped'
    BY <1>1, <1>2, <2>1 DEF AuxTyped
  <2>3. ProcTyped'
    BY <1>1, <1>2, <1>3 DEF ProcTyped
  <2> QED
    BY <1>1, <1>2, <2>2, <2>3 DEF PythonTyped, OwnTyped, LockTyped
<1>7. Others(p) /\ Locks(p) /\ Files(p)
  BY <1>1, <1>2 DEF Others, Locks, Files, ProcTyped, AuxTyped
<1>8. s \notin Preparing \ {"lock"} /\ refLock' # p /\ s \notin {"replace ref", "read ref"}
  BY <1>1, <1>2, <1>5 DEF Holds, Preparing
<1>9. step' = [step EXCEPT ![p] = s] /\ left' = [left EXCEPT ![p] = l]
  BY <1>2
<1> HIDE DEF s, l
<1>10. TypeOK' /\ Frame(p) /\ step'[p] = s /\ left'[p] = l
  BY <1>5, <1>6, <1>7, <1>8, <1>9, StepTyped
<1>11. task'[p] = t /\ result'[p] = None /\ wrote'[p] = FALSE
  BY <1>1, <1>2 DEF ProcTyped, AuxTyped
<1>12. KeysLeft(p)' = KeysOf(t.commit, t.paths) /\ CommitOf(p)' = t.commit
  BY <1>11 DEF KeysLeft, CommitOf
<1>13. s = "lock" => t.op = "publish" /\ l = KeysOf(t.commit, t.paths)
  BY DEF s, l
<1>14. s = "index" => t.op # "publish" /\ l = t.paths
  BY DEF s, l
<1>15. Control(p)'
  BY <1>3, <1>4, <1>5, <1>10, <1>11, <1>12, <1>13, <1>14
  DEF Control, Preparing, RefSteps, EntrySteps
<1>16. Locked(p)' /\ Prepared(p)' /\ Exact(p)' /\ Reported(p)'
  BY <1>5, <1>10, <1>11, <1>12, <1>13, <1>14
  DEF Locked, Prepared, Exact, Reported, Done, Preparing, RefSteps, EntrySteps
<1>17. Bound'
  BY <1>1, <1>2 DEF Bound
<1> QED
  BY <1>10, <1>15, <1>16, <1>17 DEF Good

\* The lock of the next blob is taken.
LEMMA LockBlobGood ==
  ASSUME NEW p \in Process, IInv, LockBlob(p)
  PROVE  TypeOK' /\ Bound' /\ Good(p)' /\ Frame(p)
<1>1. /\ step[p] = "lock" /\ lock[KeyTurn(p)] = None
      /\ lock' = [lock EXCEPT ![KeyTurn(p)] = p]
      /\ step' = [step EXCEPT ![p] = "examine"]
      /\ UNCHANGED <<blob, snap, tree, ref, binding, manifest, refLock, task, left, staged, prepared,
                     published, result, wrote, touched, handed, work, budget>>
  BY DEF LockBlob, Goto, pythonVars, ownVars, auxVars
<1>2. /\ TypeOK /\ Bound /\ Control(p) /\ Locked(p) /\ Prepared(p) /\ Reported(p)
      /\ PythonTyped /\ OwnTyped /\ LockTyped /\ PlaceTyped /\ ProcTyped /\ AuxTyped /\ Holds(p)
      /\ task[p] \in Task
  BY <1>1, Working
<1>3. left[p] # {} /\ left[p] \subseteq KeysLeft(p) /\ KeysLeft(p) \subseteq Key
      /\ task[p].op = "publish" /\ CommitOf(p) \in Commit
  BY <1>1, <1>2, TaskTyped DEF Control, Preparing
<1>4. KeyTurn(p) \in left[p] /\ KeyTurn(p) \in Key /\ KeyTurn(p) = Smallest(left[p])
  BY <1>2, <1>3, TurnLeft DEF Turn
<1> HIDE DEF KeyTurn
<1>5. LockTyped' /\ lock'[KeyTurn(p)] = p /\ Locks(p)
  BY <1>1, <1>2, <1>4, NoneAssumption DEF LockTyped, Locks
<1>6. left' = [left EXCEPT ![p] = left[p]] /\ left[p] \in SUBSET (Path \cup Key)
  BY <1>1, <1>2 DEF PlaceTyped
<1>7. PythonTyped' /\ OwnTyped' /\ ProcTyped' /\ AuxTyped' /\ Others(p) /\ Files(p) /\ Bound'
  BY <1>1, <1>2 DEF PythonTyped, OwnTyped, ProcTyped, AuxTyped, Others, Files, Bound
<1>8. "examine" \in Steps /\ (refLock' = p <=> "examine" \in {"replace ref", "read ref"})
  BY <1>1, <1>2 DEF Steps, Preparing, Holds
<1>9. TypeOK' /\ Frame(p) /\ step'[p] = "examine" /\ left'[p] = left[p]
  BY <1>1, <1>4, <1>5, <1>6, <1>7, <1>8, StepTyped
<1>10. KeysLeft(p)' = KeysLeft(p) /\ CommitOf(p)' = CommitOf(p) /\ Done(p)' = Done(p)
       /\ task'[p] = task[p] /\ prepared'[p] = prepared[p] /\ published'[p] = published[p]
       /\ result'[p] = result[p] /\ wrote'[p] = wrote[p]
  BY <1>1, <1>9 DEF KeysLeft, CommitOf, Done, Preparing
<1>11. Control(p)' /\ Prepared(p)' /\ Exact(p)'
  BY <1>1, <1>2, <1>9, <1>10
  DEF Control, Prepared, Exact, Preparing, RefSteps, EntrySteps
<1>12. Reported(p)'
  BY <1>1, <1>2, <1>3, <1>9, <1>10 DEF Reported, MayHavePublished, Preparing
<1>13. Locked(p)'
  <2>1. Done(p) \subseteq Key
    BY <1>1, <1>3 DEF Done
  <2>2. \A k \in Done(p) : lock'[k] = p
    BY <1>1, <1>2, <1>3, <1>4, <2>1 DEF Locked, LockTyped
  <2> QED
    BY <1>9, <1>10, <2>2 DEF Locked
<1> QED
  BY <1>7, <1>9, <1>11, <1>12, <1>13 DEF Good

\* An operation that fails and changes no file.
LEMMA RefusalGood ==
  ASSUME NEW p \in Process, NEW o \in Outcomes, IInv, step[p] # "idle", Fails(p, o),
         UNCHANGED <<pythonVars, ownVars, auxVars>>
  PROVE  TypeOK' /\ Bound' /\ Good(p)' /\ Frame(p)
<1>1. UNCHANGED <<wrote, touched, handed, work, budget>> /\ budget \in Budgets
  BY DEF auxVars, IInv, TypeOK
<1> QED
  BY <1>1, FailsGood

\* A publication that works on a blob: the key, its lock and its path.
LEMMA Blobs ==
  ASSUME NEW p \in Process, IInv, step[p] \in Preparing
  PROVE  /\ left[p] # {} /\ left[p] \subseteq KeysLeft(p) /\ KeysLeft(p) \subseteq Key
         /\ task[p].op = "publish" /\ CommitOf(p) \in Commit
         /\ KeyTurn(p) \in left[p] /\ KeyTurn(p) \in Key /\ KeyTurn(p) = Smallest(left[p])
         /\ KeyTurn(p) = Turn(p)
         /\ step[p] # "lock" => lock[KeyTurn(p)] = p
         /\ Valid(KeyTurn(p)) \subseteq Content /\ None \notin Content
<1>1. /\ TypeOK /\ Control(p) /\ Holds(p)
  BY TypeParts DEF IInv
<1>2. left[p] # {} /\ left[p] \subseteq KeysLeft(p) /\ KeysLeft(p) \subseteq Key
      /\ task[p].op = "publish" /\ CommitOf(p) \in Commit
  BY <1>1, TaskTyped DEF Control, Preparing
<1>3. KeyTurn(p) \in left[p] /\ KeyTurn(p) \in Key /\ KeyTurn(p) = Smallest(left[p])
      /\ KeyTurn(p) = Turn(p)
  BY <1>1, <1>2, TurnLeft DEF Turn
<1>4. step[p] # "lock" => lock[KeyTurn(p)] = p
  BY <1>1 DEF Holds
<1>5. Valid(KeyTurn(p)) \subseteq Content /\ None \notin Content
  BY NoneAssumption DEF Valid, Content
<1> QED
  BY <1>2, <1>3, <1>4, <1>5

\* A blob is examined, and its content taken over or staged.
LEMMA ExamineBlobGood ==
  ASSUME NEW p \in Process, IInv, ExamineBlob(p)
  PROVE  TypeOK' /\ Bound' /\ Good(p)' /\ Frame(p)
<1> DEFINE k == KeyTurn(p)
           copy == Reading(CommitOf(p), Smallest({y \in task[p].paths : Tree[CommitOf(p)][y] = k}))
<1>1. step[p] = "examine" /\ UNCHANGED <<pythonVars, ownVars, auxVars>>
  BY DEF ExamineBlob
<1>2. \/ blob[k] \in Valid(k) /\ Takes(p, blob[k], None)
      \/ blob[k] = None /\ copy \in Valid(k) /\ Takes(p, copy, copy)
      \/ \E source \in Valid(k) : Takes(p, source, source)
      \/ Fails(p, "corrupt")
  BY DEF ExamineBlob
<1>3. CASE Fails(p, "corrupt")
  BY <1>1, <1>3, RefusalGood DEF Outcomes
<1>4. CASE \E content \in Valid(k), stage \in Valid(k) \cup {None} : Takes(p, content, stage)
  <2>1. PICK content \in Valid(k), stage \in Valid(k) \cup {None} : Takes(p, content, stage)
    BY <1>4
  <2>2. /\ prepared' = [prepared EXCEPT ![p][k] = content]
        /\ staged' = [staged EXCEPT ![p] = stage]
        /\ step' = [step EXCEPT ![p] = "install"]
        /\ UNCHANGED <<lockVars, task, left, published, result>>
    BY <2>1 DEF Takes, Goto
  <2>3. /\ TypeOK /\ Bound /\ Control(p) /\ Locked(p) /\ Prepared(p) /\ Reported(p)
        /\ PythonTyped /\ PlaceTyped /\ ProcTyped /\ AuxTyped
    BY <1>1, Working
  <2>4. /\ left[p] # {} /\ left[p] \subseteq KeysLeft(p) /\ KeysLeft(p) \subseteq Key
        /\ task[p].op = "publish" /\ CommitOf(p) \in Commit
        /\ k \in left[p] /\ k \in Key /\ k = Smallest(left[p]) /\ lock[k] = p
        /\ Valid(k) \subseteq Content /\ None \notin Content
    BY <1>1, Blobs DEF Preparing
  <2> HIDE DEF k
  <2>5. UNCHANGED <<blob, snap, tree, ref, wrote, touched, handed, work, budget, ownVars>>
    BY <1>1 DEF pythonVars, auxVars
  <2>6. ProcTyped' /\ prepared'[p][k] = content /\ staged'[p] = stage
        /\ \A j \in Key : j # k => prepared'[p][j] = prepared[p][j]
    BY <2>2, <2>3, <2>4 DEF ProcTyped
  <2>7. PythonTyped' /\ AuxTyped' /\ Others(p)
    BY <2>2, <2>3, <2>5 DEF PythonTyped, AuxTyped, Others, ProcTyped
  <2>8. left' = [left EXCEPT ![p] = left[p]] /\ left[p] \in SUBSET (Path \cup Key)
    BY <2>2, <2>3 DEF PlaceTyped
  <2>9. "install" \in Steps /\ "install" \notin {"replace ref", "read ref"}
        /\ step[p] \notin {"replace ref", "read ref"}
    BY <1>1 DEF Steps, Preparing
  <2>10. TypeOK' /\ Bound' /\ Frame(p) /\ step'[p] = "install" /\ left'[p] = left[p]
    BY <2>2, <2>4, <2>5, <2>6, <2>7, <2>8, <2>9, PlainStep
  <2>11. KeysLeft(p)' = KeysLeft(p) /\ CommitOf(p)' = CommitOf(p) /\ Done(p)' = Done(p)
         /\ task'[p] = task[p] /\ published'[p] = published[p] /\ lock' = lock
         /\ result'[p] = result[p] /\ wrote'[p] = wrote[p] /\ KeyTurn(p)' = k
    BY <1>1, <2>2, <2>5, <2>10 DEF KeysLeft, CommitOf, Done, Preparing, KeyTurn, Turn, lockVars, k
  <2>12. Control(p)' /\ Exact(p)' /\ Locked(p)'
    BY <1>1, <2>3, <2>10, <2>11
    DEF Control, Locked, Exact, Preparing, RefSteps, EntrySteps
  <2>13. Reported(p)'
    BY <1>1, <2>3, <2>4, <2>10, <2>11 DEF Reported, MayHavePublished, Preparing
  <2>14. Prepared(p)'
    <3>1. \A j \in Done(p) : prepared[p][j] # None /\ j \in Key /\ j # k
      BY <1>1, <2>3, <2>4 DEF Prepared, Done, Preparing
    <3>2. \A j \in Done(p) : prepared'[p][j] # None
      BY <2>6, <3>1
    <3>3. content # None
      BY <2>4
    <3> QED
      BY <2>6, <2>10, <2>11, <3>2, <3>3 DEF Prepared, Preparing, EntrySteps
  <2> QED
    BY <2>10, <2>12, <2>13, <2>14 DEF Good
<1> QED
  BY <1>2, <1>3, <1>4

\* A staged blob is installed unless its name is taken.
LEMMA InstallBlobGood ==
  ASSUME NEW p \in Process, IInv, InstallBlob(p)
  PROVE  TypeOK' /\ Bound' /\ Good(p)' /\ Frame(p)
<1> DEFINE k == KeyTurn(p)
           created == staged[p] # None /\ blob[k] = None
<1>1. /\ step[p] = "install"
      /\ blob' = IF created THEN [blob EXCEPT ![k] = staged[p]] ELSE blob
      /\ published' = [published EXCEPT ![p] = published[p] \/ created]
      /\ wrote' = [wrote EXCEPT ![p] = @ \/ created]
      /\ staged' = [staged EXCEPT ![p] = None]
      /\ step' = [step EXCEPT ![p] = "validate"]
      /\ UNCHANGED <<snap, tree, ref, ownVars, lockVars, task, left, prepared, result,
                     touched, handed, work, budget>>
  BY DEF InstallBlob, Marks, Goto
<1>2. /\ TypeOK /\ Bound /\ Control(p) /\ Locked(p) /\ Prepared(p) /\ Reported(p)
      /\ PythonTyped /\ PlaceTyped /\ ProcTyped /\ AuxTyped
  BY <1>1, Working
<1>3. /\ left[p] # {} /\ left[p] \subseteq KeysLeft(p) /\ KeysLeft(p) \subseteq Key
      /\ task[p].op = "publish" /\ CommitOf(p) \in Commit
      /\ k \in left[p] /\ k \in Key /\ k = Smallest(left[p]) /\ lock[k] = p
      /\ Valid(k) \subseteq Content /\ None \notin Content
  BY <1>1, Blobs DEF Preparing
<1>4. prepared[p][k] # None /\ staged[p] \in Valid(k) \cup {None}
  BY <1>1, <1>2 DEF Prepared
<1> HIDE DEF k
<1>5. created \in BOOLEAN
  OBVIOUS
<1>6. PythonTyped'
  BY <1>1, <1>2, <1>3, <1>4 DEF PythonTyped
<1>7. \A j \in Key : blob'[j] # blob[j] => blob[j] = None /\ lock[j] = p /\ blob'[j] \in Valid(j)
  BY <1>1, <1>2, <1>3, <1>4 DEF PythonTyped
<1> HIDE DEF created
<1>8. ProcTyped' /\ AuxTyped' /\ Others(p)
      /\ wrote'[p] = (wrote[p] \/ created) /\ published'[p] = (published[p] \/ created)
  BY <1>1, <1>2, <1>5 DEF ProcTyped, AuxTyped, Others
<1>9. left' = [left EXCEPT ![p] = left[p]] /\ left[p] \in SUBSET (Path \cup Key)
  BY <1>1, <1>2 DEF PlaceTyped
<1>10. "validate" \in Steps /\ "validate" \notin {"replace ref", "read ref"}
       /\ step[p] \notin {"replace ref", "read ref"}
  BY <1>1 DEF Steps, Preparing
<1>11. TypeOK' /\ Bound' /\ Frame(p) /\ step'[p] = "validate" /\ left'[p] = left[p]
  BY <1>1, <1>3, <1>6, <1>7, <1>8, <1>9, <1>10, PlainStep
<1>12. KeysLeft(p)' = KeysLeft(p) /\ CommitOf(p)' = CommitOf(p) /\ Done(p)' = Done(p)
       /\ task'[p] = task[p] /\ lock' = lock /\ prepared'[p] = prepared[p]
       /\ result'[p] = result[p] /\ KeyTurn(p)' = k
  BY <1>1, <1>11 DEF KeysLeft, CommitOf, Done, Preparing, KeyTurn, Turn, lockVars, k
<1>13. Control(p)' /\ Exact(p)' /\ Locked(p)'
  BY <1>1, <1>2, <1>11, <1>12
  DEF Control, Locked, Exact, Preparing, RefSteps, EntrySteps
<1>14. Reported(p)'
  BY <1>1, <1>2, <1>3, <1>8, <1>11, <1>12 DEF Reported, MayHavePublished, Preparing
<1>15. Prepared(p)'
  BY <1>1, <1>2, <1>4, <1>11, <1>12 DEF Prepared, Preparing, EntrySteps
<1> QED
  BY <1>11, <1>13, <1>14, <1>15 DEF Good

\* An installed blob is validated, and the next one locked.
LEMMA ValidateBlobGood ==
  ASSUME NEW p \in Process, IInv, ValidateBlob(p)
  PROVE  TypeOK' /\ Bound' /\ Good(p)' /\ Frame(p)
<1> DEFINE k == KeyTurn(p)
<1>1. step[p] = "validate" /\ UNCHANGED <<pythonVars, ownVars, auxVars>>
  BY DEF ValidateBlob
<1>2. CASE Fails(p, "corrupt")
  BY <1>1, <1>2, RefusalGood DEF Outcomes
<1>3. CASE Advance(p, k, "lock", "tree", {}) /\ Keep /\ UNCHANGED staged
  <2>1. /\ TypeOK /\ Bound /\ Control(p) /\ Locked(p) /\ Prepared(p) /\ Reported(p)
        /\ PythonTyped /\ PlaceTyped /\ ProcTyped /\ AuxTyped
    BY <1>1, Working
  <2>2. /\ left[p] # {} /\ left[p] \subseteq KeysLeft(p) /\ KeysLeft(p) \subseteq Key
        /\ task[p].op = "publish" /\ CommitOf(p) \in Commit
        /\ k \in left[p] /\ k \in Key /\ k = Smallest(left[p]) /\ lock[k] = p
    BY <1>1, Blobs DEF Preparing
  <2>3. prepared[p][k] # None
    BY <1>1, <2>1 DEF Prepared
  <2> HIDE DEF k
  <2>4. PICK s, t : Goes(p, k, "lock", "tree", {}, s, t)
    BY <1>3, <2>2, AdvanceGoes
  <2>5. /\ step' = [step EXCEPT ![p] = s] /\ left' = [left EXCEPT ![p] = t]
        /\ t = left[p] \ {k}
        /\ (s = "lock" /\ t # {}) \/ (s = "tree" /\ t = {})
    BY <2>4 DEF Goes
  <2>6. UNCHANGED <<blob, snap, tree, ref, ownVars, lockVars, task, staged, prepared, published,
                    result, wrote, touched, handed, work, budget>>
    BY <1>1, <1>3 DEF Keep, pythonVars, auxVars
  <2>7. PythonTyped' /\ AuxTyped' /\ ProcTyped' /\ Others(p)
    BY <2>1, <2>6 DEF PythonTyped, AuxTyped, ProcTyped, Others
  <2>8. s \in Steps /\ t \in SUBSET (Path \cup Key) /\ s \notin Preparing \ {"lock"}
        /\ s \notin {"replace ref", "read ref"} /\ step[p] \notin {"replace ref", "read ref"}
    BY <1>1, <2>1, <2>5 DEF Steps, Preparing, PlaceTyped
  <2>9. TypeOK' /\ Bound' /\ Frame(p) /\ step'[p] = s /\ left'[p] = t
    BY <2>5, <2>6, <2>7, <2>8, PlainStep
  <2>10. KeysLeft(p)' = KeysLeft(p) /\ CommitOf(p)' = CommitOf(p)
         /\ task'[p] = task[p] /\ lock' = lock /\ prepared'[p] = prepared[p]
         /\ result'[p] = result[p] /\ published'[p] = published[p] /\ wrote'[p] = wrote[p]
    BY <2>6 DEF KeysLeft, CommitOf, lockVars
  <2>11. Control(p)' /\ Exact(p)'
    BY <1>1, <2>1, <2>2, <2>5, <2>9, <2>10
    DEF Control, Exact, Preparing, RefSteps, EntrySteps
  <2>12. Reported(p)'
    BY <1>1, <2>1, <2>2, <2>5, <2>9, <2>10 DEF Reported, MayHavePublished, Preparing
  <2>13. \A j \in KeysLeft(p) \ t : lock[j] = p /\ prepared[p][j] # None
    <3>1. \A j \in KeysLeft(p) \ left[p] : lock[j] = p /\ prepared[p][j] # None
      BY <1>1, <2>1, <2>2 DEF Locked, Prepared, Done, Preparing
    <3> QED
      BY <2>2, <2>3, <2>5, <3>1
  <2>14. \A j \in Done(p)' : lock'[j] = p /\ prepared'[p][j] # None
    BY <2>5, <2>9, <2>10, <2>13 DEF Done, Preparing
  <2>15. Locked(p)'
    BY <2>14 DEF Locked
  <2>16. Prepared(p)'
    BY <2>5, <2>9, <2>10, <2>13, <2>14 DEF Prepared, Preparing, EntrySteps
  <2> QED
    BY <2>9, <2>11, <2>12, <2>15, <2>16 DEF Good
<1> QED
  BY <1>2, <1>3 DEF ValidateBlob

\* A publication or an import that works on an entry: the path and its key.
LEMMA Entries ==
  ASSUME NEW p \in Process, IInv, step[p] \in EntrySteps \cup {"read", "check"}
  PROVE  /\ left[p] # {} /\ left[p] \subseteq task[p].paths /\ task[p].paths \subseteq Path
         /\ CommitOf(p) \in Commit
         /\ Turn(p) \in left[p] /\ Turn(p) \in Path
         /\ \A x \in task[p].paths : Tree[CommitOf(p)][x] \in KeysLeft(p)
         /\ KeysLeft(p) \subseteq Key /\ KeysLeft(p) # {}
         /\ \A k \in KeysLeft(p) : \E x \in task[p].paths : k = Tree[CommitOf(p)][x]
<1>1. TypeOK /\ Control(p)
  BY DEF IInv
<1>2. left[p] # {} /\ left[p] \subseteq task[p].paths /\ CommitOf(p) \in Commit /\ step[p] # "idle"
  BY <1>1 DEF Control, EntrySteps
<1>3. /\ task[p].paths \subseteq Path
      /\ \A x \in task[p].paths : Tree[CommitOf(p)][x] \in KeysLeft(p)
      /\ KeysLeft(p) \subseteq Key /\ KeysLeft(p) # {}
      /\ \A k \in KeysLeft(p) : \E x \in task[p].paths : k = Tree[CommitOf(p)][x]
  BY <1>1, <1>2, TaskTyped
<1>4. Turn(p) \in left[p]
  BY <1>1, <1>2, TurnLeft
<1> QED
  BY <1>2, <1>3, <1>4

\* The tree record is published, and the entries follow.
LEMMA PublishTreeGood ==
  ASSUME NEW p \in Process, IInv, PublishTree(p)
  PROVE  TypeOK' /\ Bound' /\ Good(p)' /\ Frame(p)
<1> DEFINE w == wrote[p] \/ CommitOf(p) \notin tree
<1>1. /\ step[p] = "tree"
      /\ tree' = tree \cup {CommitOf(p)}
      /\ wrote' = [wrote EXCEPT ![p] = w]
      /\ step' = [step EXCEPT ![p] = "inspect"] /\ left' = [left EXCEPT ![p] = task[p].paths]
      /\ UNCHANGED <<blob, snap, ref, ownVars, lockVars, task, staged, prepared, published, result,
                     touched, handed, work, budget>>
  BY DEF PublishTree, Keep, Goto
<1>2. /\ TypeOK /\ Bound /\ Control(p) /\ Locked(p) /\ Prepared(p)
      /\ PythonTyped /\ PlaceTyped /\ ProcTyped /\ AuxTyped
      /\ task[p].paths \subseteq Path /\ task[p].paths # {}
  BY <1>1, Working
<1>3. task[p].op = "publish" /\ CommitOf(p) \in Commit
  BY <1>1, <1>2 DEF Control
<1>4. w \in BOOLEAN
  BY <1>2 DEF AuxTyped
<1> HIDE DEF w
<1>5. PythonTyped' /\ AuxTyped' /\ ProcTyped' /\ Others(p)
  BY <1>1, <1>2, <1>3, <1>4 DEF PythonTyped, AuxTyped, ProcTyped, Others
<1>6. "inspect" \in Steps /\ "inspect" \notin Preparing \cup {"replace ref", "read ref"}
      /\ step[p] \notin {"replace ref", "read ref"}
  BY <1>1 DEF Steps, Preparing
<1>7. TypeOK' /\ Bound' /\ Frame(p) /\ step'[p] = "inspect" /\ left'[p] = task[p].paths
  BY <1>1, <1>2, <1>5, <1>6, PlainStep
<1>8. KeysLeft(p)' = KeysLeft(p) /\ CommitOf(p)' = CommitOf(p)
      /\ task'[p] = task[p] /\ lock' = lock /\ prepared'[p] = prepared[p]
      /\ result'[p] = result[p] /\ published'[p] = published[p]
  BY <1>1 DEF KeysLeft, CommitOf, lockVars
<1>9. Control(p)' /\ Exact(p)' /\ Reported(p)'
  BY <1>1, <1>2, <1>3, <1>7, <1>8
  DEF Control, Exact, Reported, MayHavePublished, Preparing, RefSteps, EntrySteps
<1>10. Done(p)' = Done(p) /\ Done(p) = KeysLeft(p)
  BY <1>1, <1>7, <1>8 DEF Done, Preparing
<1>11. Locked(p)' /\ Prepared(p)'
  BY <1>1, <1>2, <1>3, <1>7, <1>8, <1>10 DEF Locked, Prepared, Preparing, EntrySteps
<1> QED
  BY <1>7, <1>9, <1>11 DEF Good

\* A publication goes on with the entry it works on, which may have been
\* placed by then.
LEMMA EntryGoesOn ==
  ASSUME NEW p \in Process, IInv, step[p] \in EntrySteps,
         NEW s \in {"place", "recheck"}, NEW entry \in Content \cup {None, Link}, NEW w \in BOOLEAN,
         step' = [step EXCEPT ![p] = s],
         snap' = [snap EXCEPT ![CommitOf(p)][Turn(p)] = entry],
         snap[CommitOf(p)][Turn(p)] # None => entry = snap[CommitOf(p)][Turn(p)],
         wrote' = [wrote EXCEPT ![p] = w],
         Keep, UNCHANGED <<blob, tree, ref, ownVars, left, staged, touched, handed, work, budget>>
  PROVE  TypeOK' /\ Bound' /\ Good(p)' /\ Frame(p)
<1>1. /\ TypeOK /\ Bound /\ Control(p) /\ Locked(p) /\ Prepared(p) /\ Exact(p)
      /\ PythonTyped /\ PlaceTyped /\ ProcTyped /\ AuxTyped
      /\ task[p].paths \subseteq Path /\ task[p].paths # {}
  BY Working DEF EntrySteps
<1>2. task[p].op = "publish"
  BY <1>1 DEF Control
<1>3. /\ left[p] # {} /\ left[p] \subseteq task[p].paths
      /\ CommitOf(p) \in Commit /\ Turn(p) \in left[p] /\ Turn(p) \in Path
  BY Entries
<1> DEFINE x == Turn(p)
<1> HIDE DEF x
<1>4. x \in left[p] /\ x \in Path /\ snap' = [snap EXCEPT ![CommitOf(p)][x] = entry]
      /\ (snap[CommitOf(p)][x] # None => entry = snap[CommitOf(p)][x])
  BY <1>3 DEF x
<1>5. UNCHANGED <<lockVars, task, prepared, published, result>>
  BY DEF Keep
<1>6. snap \in [Commit -> [Path -> Content \cup {None, Link}]]
  BY <1>1 DEF PythonTyped
<1>7. PythonTyped'
  BY <1>1, <1>3, <1>4 DEF PythonTyped
<1>8. \A c \in Commit, y \in Path : ~(c = CommitOf(p) /\ y = x) => snap'[c][y] = snap[c][y]
  BY <1>3, <1>4, <1>6
<1>9. \A c \in Commit, y \in Path : snap[c][y] # None => snap'[c][y] = snap[c][y]
  BY <1>3, <1>4, <1>6
<1>10. AuxTyped' /\ ProcTyped' /\ Others(p)
  BY <1>1, <1>5 DEF AuxTyped, ProcTyped, Others
<1>11. s \in Steps /\ s \notin Preparing \cup {"replace ref", "read ref"}
       /\ step[p] \notin Preparing \cup {"replace ref", "read ref"}
  BY DEF Steps, Preparing, EntrySteps
<1>12. left' = [left EXCEPT ![p] = left[p]] /\ left[p] \in SUBSET (Path \cup Key)
  BY <1>1 DEF PlaceTyped
<1>13. TypeOK' /\ Bound' /\ Frame(p) /\ step'[p] = s /\ left'[p] = left[p]
  BY <1>5, <1>7, <1>9, <1>10, <1>11, <1>12, PlainStep
<1>14. KeysLeft(p)' = KeysLeft(p) /\ CommitOf(p)' = CommitOf(p)
       /\ task'[p] = task[p] /\ lock' = lock /\ prepared'[p] = prepared[p]
       /\ result'[p] = result[p] /\ published'[p] = published[p] /\ touched'[p] = touched[p]
  BY <1>5 DEF KeysLeft, CommitOf, lockVars
<1>15. Control(p)' /\ Reported(p)'
  BY <1>1, <1>2, <1>3, <1>11, <1>13, <1>14
  DEF Control, Reported, MayHavePublished, Preparing, RefSteps, EntrySteps
<1>16. Done(p)' = Done(p)
  BY <1>11, <1>13, <1>14 DEF Done
<1>17. Locked(p)' /\ Prepared(p)'
  BY <1>1, <1>2, <1>11, <1>13, <1>14, <1>16 DEF Locked, Prepared, Preparing, EntrySteps
<1>18. Exact(p)'
  <2>1. PICK c \in Commit : c = CommitOf(p)
    BY <1>3
  <2>2. ASSUME NEW y \in task[p].paths \ left[p] PROVE AsPrepared(p, y)'
    <3>1. AsPrepared(p, y) /\ y \in Path /\ y # x
      BY <1>1, <1>4, <2>2 DEF Exact
    <3>2. Reading(c, y)' = Reading(c, y)
      BY <1>8, <2>1, <3>1 DEF Reading
    <3> QED
      BY <1>14, <2>1, <3>1, <3>2 DEF AsPrepared, Lasting
  <2> QED
    BY <1>13, <1>14, <2>2 DEF Exact, EntrySteps, RefSteps
<1> QED
  BY <1>13, <1>15, <1>17, <1>18 DEF Good

\* A publication accepts an entry that has the content prepared for its key.
LEMMA AcceptsGood ==
  ASSUME NEW p \in Process, IInv, step[p] \in EntrySteps, Found(p, Turn(p)), Accepts(p, Turn(p)),
         UNCHANGED <<pythonVars, ownVars, wrote, handed, work, budget>>
  PROVE  TypeOK' /\ Bound' /\ Good(p)' /\ Frame(p)
<1>1. /\ TypeOK /\ Bound /\ Control(p) /\ Locked(p) /\ Prepared(p) /\ Exact(p)
      /\ PythonTyped /\ PlaceTyped /\ ProcTyped /\ AuxTyped
      /\ task[p].paths \subseteq Path /\ task[p].paths # {}
  BY Working DEF EntrySteps
<1>2. task[p].op = "publish"
  BY <1>1 DEF Control
<1>3. /\ left[p] # {} /\ left[p] \subseteq task[p].paths
      /\ CommitOf(p) \in Commit /\ Turn(p) \in left[p] /\ Turn(p) \in Path
      /\ KeysLeft(p) \subseteq Key /\ KeysLeft(p) # {}
  BY Entries
<1> DEFINE x == Turn(p)
<1> HIDE DEF x
<1>4. x \in left[p] /\ x \in Path /\ Found(p, x) /\ Accepts(p, x)
  BY <1>3 DEF x
<1>5. /\ Advance(p, x, "inspect", "bind", KeysLeft(p))
      /\ touched' = [touched EXCEPT ![p] = @ \ {<<CommitOf(p), x>>}]
      /\ UNCHANGED <<lockVars, task, prepared, published, result, staged>>
  BY <1>4 DEF Accepts, AfterFiles, Checked, Keep
<1>6. PICK s, t : Goes(p, x, "inspect", "bind", KeysLeft(p), s, t)
  BY <1>4, <1>5, AdvanceGoes
<1>7. /\ step' = [step EXCEPT ![p] = s] /\ left' = [left EXCEPT ![p] = t]
      /\ \/ s = "inspect" /\ t = left[p] \ {x} /\ t # {}
         \/ s = "bind" /\ t = KeysLeft(p) /\ left[p] = {x}
  BY <1>6 DEF Goes
<1>8. UNCHANGED <<blob, snap, tree, ref>>
  BY DEF pythonVars
<1>9. PythonTyped' /\ AuxTyped' /\ ProcTyped' /\ Others(p)
      /\ touched'[p] = touched[p] \ {<<CommitOf(p), x>>}
  BY <1>1, <1>5, <1>8 DEF PythonTyped, AuxTyped, ProcTyped, Others
<1>10. s \in Steps /\ t \in SUBSET (Path \cup Key) /\ s \notin Preparing
       /\ s \notin {"replace ref", "read ref"} /\ step[p] \notin {"replace ref", "read ref"}
       /\ step[p] \notin Preparing
  BY <1>1, <1>3, <1>7 DEF Steps, Preparing, PlaceTyped, EntrySteps
<1>11. TypeOK' /\ Bound' /\ Frame(p) /\ step'[p] = s /\ left'[p] = t
  BY <1>5, <1>7, <1>8, <1>9, <1>10, PlainStep
<1>12. KeysLeft(p)' = KeysLeft(p) /\ CommitOf(p)' = CommitOf(p)
       /\ task'[p] = task[p] /\ lock' = lock /\ prepared'[p] = prepared[p]
       /\ result'[p] = result[p] /\ published'[p] = published[p]
  BY <1>5 DEF KeysLeft, CommitOf, lockVars
<1>13. Control(p)' /\ Reported(p)'
  BY <1>1, <1>2, <1>3, <1>7, <1>10, <1>11, <1>12
  DEF Control, Reported, MayHavePublished, Preparing, RefSteps, EntrySteps
<1>14. Done(p)' = Done(p)
  BY <1>10, <1>11, <1>12 DEF Done
<1>15. Locked(p)' /\ Prepared(p)'
  BY <1>1, <1>2, <1>7, <1>10, <1>11, <1>12, <1>14 DEF Locked, Prepared, Preparing, EntrySteps
<1>16. Exact(p)'
  <2>1. PICK c \in Commit : c = CommitOf(p)
    BY <1>3
  <2>2. ASSUME NEW y \in Path PROVE Reading(c, y)' = Reading(c, y)
    BY <1>8 DEF Reading
  <2>3. ASSUME NEW y \in (task[p].paths \ left[p]) \cup {x} PROVE AsPrepared(p, y)'
    <3>1. y \in Path
      BY <1>1, <1>4
    <3>2. CASE y = x
      BY <1>4, <1>12, <2>1, <2>2, <3>1, <3>2 DEF AsPrepared, Found
    <3>3. CASE y # x
      <4>1. AsPrepared(p, y)
        BY <1>1, <2>3, <3>3 DEF Exact
      <4>2. <<c, y>> \in touched[p] => <<c, y>> \in touched'[p]
        BY <1>9, <2>1, <3>3
      <4> QED
        BY <1>12, <2>1, <2>2, <3>1, <4>1, <4>2 DEF AsPrepared, Lasting
    <3> QED
      BY <3>2, <3>3
  <2> QED
    BY <1>7, <1>11, <1>12, <2>3 DEF Exact, EntrySteps, RefSteps
<1> QED
  BY <1>11, <1>13, <1>15, <1>16 DEF Good

\* An entry is inspected.
LEMMA InspectEntryGood ==
  ASSUME NEW p \in Process, IInv, InspectEntry(p)
  PROVE  TypeOK' /\ Bound' /\ Good(p)' /\ Frame(p)
<1>1. step[p] = "inspect" /\ UNCHANGED <<pythonVars, ownVars, wrote, handed, work, budget>>
  BY DEF InspectEntry
<1>2. \/ Found(p, Turn(p)) /\ Accepts(p, Turn(p))
      \/ Goto(p, "place") /\ Keep /\ UNCHANGED <<left, staged, touched>>
      \/ Fails(p, "corrupt") /\ UNCHANGED touched
  BY DEF InspectEntry
<1>3. step[p] \in EntrySteps
  BY <1>1 DEF EntrySteps
<1>4. CASE Found(p, Turn(p)) /\ Accepts(p, Turn(p))
  BY <1>1, <1>3, <1>4, AcceptsGood
<1>5. CASE Goto(p, "place") /\ Keep /\ UNCHANGED <<left, staged, touched>>
  <2>1. PythonTyped /\ AuxTyped
    BY <1>1, Working
  <2>2. CommitOf(p) \in Commit /\ Turn(p) \in Path
    BY <1>3, Entries
  <2> DEFINE entry == snap[CommitOf(p)][Turn(p)]
  <2>3. snap' = [snap EXCEPT ![CommitOf(p)][Turn(p)] = entry] /\ entry \in Content \cup {None, Link}
    BY <1>1, <2>1, <2>2 DEF pythonVars, PythonTyped
  <2>4. wrote' = [wrote EXCEPT ![p] = wrote[p]] /\ wrote[p] \in BOOLEAN
    BY <1>1, <2>1 DEF AuxTyped
  <2>5. step' = [step EXCEPT ![p] = "place"] /\ Keep
        /\ UNCHANGED <<blob, tree, ref, ownVars, left, staged, touched, handed, work, budget>>
    BY <1>1, <1>5 DEF Goto, pythonVars
  <2> HIDE DEF entry
  <2>6. snap[CommitOf(p)][Turn(p)] # None => entry = snap[CommitOf(p)][Turn(p)]
    BY DEF entry
  <2> QED
    BY <1>3, <2>3, <2>4, <2>5, <2>6, EntryGoesOn
<1>6. CASE Fails(p, "corrupt") /\ UNCHANGED touched
  BY <1>1, <1>6, RefusalGood DEF Outcomes, auxVars
<1> QED
  BY <1>2, <1>4, <1>5, <1>6

\* An entry is linked or copied, unless something has its name.
LEMMA PlaceEntryGood ==
  ASSUME NEW p \in Process, IInv, PlaceEntry(p)
  PROVE  TypeOK' /\ Bound' /\ Good(p)' /\ Frame(p)
<1> DEFINE k == Tree[CommitOf(p)][Turn(p)]
           old == snap[CommitOf(p)][Turn(p)]
<1>1. step[p] = "place" /\ UNCHANGED <<blob, tree, ref, ownVars, touched, handed, work, budget>>
  BY DEF PlaceEntry
<1>2. step[p] \in EntrySteps
  BY <1>1 DEF EntrySteps
<1>3. PythonTyped /\ AuxTyped
  BY <1>1, Working
<1>4. CommitOf(p) \in Commit /\ Turn(p) \in Path /\ k \in Key
  BY <1>2, Entries, TreeAssumption
<1>5. old \in Content \cup {None, Link} /\ blob[k] \in Content \cup {None}
  BY <1>3, <1>4 DEF PythonTyped
<1>6. CASE Fails(p, "error") /\ UNCHANGED <<snap, wrote>>
  BY <1>1, <1>6, RefusalGood DEF Outcomes, pythonVars, auxVars
<1>7. CASE \E e \in Content \cup {None, Link} : Places(p, e) /\ (old # None => e = old)
  <2>1. PICK e \in Content \cup {None, Link} : Places(p, e) /\ (old # None => e = old)
    BY <1>7
  <2> DEFINE w == wrote[p] \/ snap' # snap
  <2>2. /\ snap' = [snap EXCEPT ![CommitOf(p)][Turn(p)] = e]
        /\ wrote' = [wrote EXCEPT ![p] = w]
        /\ step' = [step EXCEPT ![p] = "recheck"]
        /\ Keep /\ UNCHANGED <<left, staged>>
    BY <2>1 DEF Places, Goto
  <2>3. w \in BOOLEAN
    BY <1>3 DEF AuxTyped
  <2> HIDE DEF w
  <2> QED
    BY <1>1, <1>2, <2>1, <2>2, <2>3, EntryGoesOn
<1>8. \/ Places(p, IF old = None THEN Link ELSE old)
      \/ Places(p, IF old = None THEN blob[k] ELSE old)
      \/ Fails(p, "error") /\ UNCHANGED <<snap, wrote>>
  BY DEF PlaceEntry
<1> HIDE DEF old, k
<1>9. CASE Places(p, IF old = None THEN Link ELSE old)
  BY <1>5, <1>7, <1>9
<1>10. CASE Places(p, IF old = None THEN blob[k] ELSE old)
  BY <1>5, <1>7, <1>10
<1> QED
  BY <1>6, <1>8, <1>9, <1>10

\* The entry is read again.
LEMMA RecheckEntryGood ==
  ASSUME NEW p \in Process, IInv, RecheckEntry(p)
  PROVE  TypeOK' /\ Bound' /\ Good(p)' /\ Frame(p)
<1>1. step[p] = "recheck" /\ UNCHANGED <<pythonVars, ownVars, wrote, handed, work, budget>>
  BY DEF RecheckEntry
<1>2. \/ Found(p, Turn(p)) /\ Accepts(p, Turn(p))
      \/ Fails(p, "corrupt") /\ UNCHANGED touched
  BY DEF RecheckEntry
<1>3. step[p] \in EntrySteps
  BY <1>1 DEF EntrySteps
<1>4. CASE Found(p, Turn(p)) /\ Accepts(p, Turn(p))
  BY <1>1, <1>3, <1>4, AcceptsGood
<1>5. CASE Fails(p, "corrupt") /\ UNCHANGED touched
  BY <1>1, <1>5, RefusalGood DEF Outcomes, auxVars
<1> QED
  BY <1>2, <1>4, <1>5

\* What a process that binds or records works on.
LEMMA Records ==
  ASSUME NEW p \in Process, IInv, step[p] \in {"bind", "manifest"}
  PROVE  /\ task[p].op \in {"publish", "import"}
         /\ CommitOf(p) \in Commit /\ KeysLeft(p) \subseteq Key
         /\ task[p].paths \in Selection /\ task[p].paths \subseteq Path /\ task[p].paths # {}
         /\ \A x \in task[p].paths : Tree[CommitOf(p)][x] \in KeysLeft(p)
         /\ \A k \in KeysLeft(p) : prepared[p][k] \in Content
         /\ step[p] = "bind" => Turn(p) \in left[p] /\ left[p] \subseteq KeysLeft(p)
<1>1. TypeOK /\ Control(p) /\ Prepared(p) /\ step[p] # "idle"
  BY DEF IInv
<1>2. task[p].op # "open" /\ CommitOf(p) \in Commit
  BY <1>1 DEF Control
<1>3. /\ KeysLeft(p) \subseteq Key /\ task[p].paths \in Selection
      /\ task[p].paths \subseteq Path /\ task[p].paths # {}
      /\ \A x \in task[p].paths : Tree[CommitOf(p)][x] \in KeysLeft(p)
      /\ task[p].op \in {"publish", "import"}
  BY <1>1, <1>2, TaskTyped
<1>4. \A k \in KeysLeft(p) : prepared[p][k] \in Content
  <2>1. \A k \in KeysLeft(p) : prepared[p][k] # None
    BY <1>1 DEF Prepared
  <2>2. prepared \in [Process -> [Key -> Content \cup {None}]]
    BY <1>1 DEF TypeOK
  <2> QED
    BY <1>3, <2>1, <2>2
<1>5. step[p] = "bind" => Turn(p) \in left[p] /\ left[p] \subseteq KeysLeft(p)
  BY <1>1, TurnLeft DEF Control
<1> QED
  BY <1>2, <1>3, <1>4, <1>5

\* The binding of the next key is published, and equal if it exists.
LEMMA PublishBindingGood ==
  ASSUME NEW p \in Process, IInv, PublishBinding(p)
  PROVE  TypeOK' /\ Bound' /\ Good(p)' /\ Frame(p)
<1>1. step[p] = "bind" /\ UNCHANGED <<pythonVars, manifest, touched, handed, work, budget>>
  BY DEF PublishBinding
<1>2. CASE Fails(p, "conflict") /\ UNCHANGED <<binding, wrote>>
  BY <1>1, <1>2, RefusalGood DEF Outcomes, ownVars, auxVars
<1> DEFINE k == Turn(p)
<1>3. CASE /\ binding[k] \in {None, prepared[p][k]}
           /\ binding' = [binding EXCEPT ![k] = prepared[p][k]]
           /\ wrote' = [wrote EXCEPT ![p] = @ \/ binding' # binding]
           /\ Advance(p, k, "bind", "manifest", {}) /\ Keep /\ UNCHANGED staged
  <2> DEFINE w == wrote[p] \/ binding' # binding
  <2>1. /\ TypeOK /\ Bound /\ Control(p) /\ Locked(p) /\ Prepared(p) /\ Exact(p)
        /\ PythonTyped /\ OwnTyped /\ LockTyped /\ PlaceTyped /\ ProcTyped /\ AuxTyped /\ Holds(p)
    BY <1>1, Working
  <2>2. /\ task[p].op \in {"publish", "import"}
        /\ CommitOf(p) \in Commit /\ KeysLeft(p) \subseteq Key
        /\ task[p].paths \subseteq Path /\ task[p].paths # {}
        /\ \A j \in KeysLeft(p) : prepared[p][j] \in Content
        /\ k \in left[p] /\ left[p] \subseteq KeysLeft(p)
    BY <1>1, Records
  <2> HIDE DEF k
  <2>3. PICK s, t : Goes(p, k, "bind", "manifest", {}, s, t)
    BY <1>3, <2>2, AdvanceGoes
  <2>4. /\ step' = [step EXCEPT ![p] = s] /\ left' = [left EXCEPT ![p] = t]
        /\ t = left[p] \ {k}
        /\ (s = "bind" /\ t # {}) \/ (s = "manifest" /\ t = {})
    BY <2>3 DEF Goes
  <2>5. w \in BOOLEAN /\ wrote' = [wrote EXCEPT ![p] = w]
    BY <1>3, <2>1 DEF AuxTyped
  <2> HIDE DEF w
  <2>6. UNCHANGED <<blob, snap, tree, ref, manifest, lock, refLock, task, staged, prepared,
                    published, result, touched, handed, work, budget>>
    BY <1>1, <1>3 DEF Keep, pythonVars, lockVars
  <2>7. PythonTyped' /\ LockTyped' /\ ProcTyped' /\ AuxTyped' /\ Others(p) /\ Locks(p) /\ Files(p)
    BY <2>1, <2>5, <2>6 DEF PythonTyped, LockTyped, ProcTyped, AuxTyped, Others, Locks, Files
  <2>8. OwnTyped' /\ \A j \in Key : binding[j] # None => binding'[j] = binding[j]
    BY <1>3, <2>1, <2>2, <2>6 DEF OwnTyped
  <2>9. s \in Steps /\ t \in SUBSET (Path \cup Key) /\ s \notin Preparing
        /\ s \notin {"replace ref", "read ref"} /\ refLock' # p
    BY <1>1, <2>1, <2>4, <2>6 DEF Steps, Preparing, PlaceTyped, Holds
  <2>10. TypeOK' /\ Frame(p) /\ step'[p] = s /\ left'[p] = t
    BY <2>4, <2>7, <2>8, <2>9, StepTyped
  <2>11. Bound'
    <3>1. ASSUME NEW c \in Commit, NEW z \in Selection, manifest[c][z] # None, NEW x \in z
          PROVE  binding'[Tree[c][x]] = manifest[c][z][x]
      <4>1. manifest[c][z] \in [z -> Content] /\ Tree[c][x] \in Key
        BY <2>1, <3>1, TreeAssumption DEF OwnTyped, Selection
      <4>2. binding[Tree[c][x]] = manifest[c][z][x] /\ manifest[c][z][x] \in Content
        BY <2>1, <3>1, <4>1 DEF Bound
      <4> QED
        BY <2>8, <4>1, <4>2, NoneAssumption
    <3>2. ASSUME NEW h \in handed PROVE binding'[h[1]] = h[2]
      <4>1. h[1] \in Key /\ h[2] \in Content /\ binding[h[1]] = h[2]
        BY <2>1 DEF Bound, AuxTyped
      <4> QED
        BY <2>8, <4>1, NoneAssumption
    <3>3. \A q \in Process : \A u \in work[q] : u.op = "publish" => u.commit # None
      BY <2>1 DEF Bound
    <3> QED
      BY <2>6, <3>1, <3>2, <3>3 DEF Bound
  <2>12. KeysLeft(p)' = KeysLeft(p) /\ CommitOf(p)' = CommitOf(p)
         /\ task'[p] = task[p] /\ lock' = lock /\ prepared'[p] = prepared[p]
         /\ result'[p] = result[p] /\ published'[p] = published[p] /\ touched'[p] = touched[p]
    BY <2>6 DEF KeysLeft, CommitOf
  <2>13. Control(p)' /\ Reported(p)'
    BY <1>1, <2>1, <2>2, <2>4, <2>9, <2>10, <2>12
    DEF Control, Reported, MayHavePublished, Preparing, RefSteps, EntrySteps
  <2>14. Done(p)' = Done(p)
    BY <1>1, <2>9, <2>10, <2>12 DEF Done, Preparing
  <2>15. Locked(p)' /\ Prepared(p)'
    BY <1>1, <2>1, <2>4, <2>9, <2>10, <2>12, <2>14 DEF Locked, Prepared, Preparing, EntrySteps
  <2>16. Exact(p)'
    <3>1. PICK c \in Commit : c = CommitOf(p)
      BY <2>2
    <3>2. ASSUME NEW y \in task[p].paths PROVE AsPrepared(p, y)'
      <4>1. AsPrepared(p, y)
        BY <1>1, <2>1 DEF Exact
      <4>2. Reading(c, y)' = Reading(c, y)
        BY <2>6 DEF Reading
      <4> QED
        BY <2>12, <3>1, <4>1, <4>2 DEF AsPrepared, Lasting
    <3> QED
      BY <2>4, <2>10, <2>12, <3>2 DEF Exact, EntrySteps, RefSteps
  <2> QED
    BY <2>10, <2>11, <2>13, <2>15, <2>16 DEF Good
<1> QED
  BY <1>2, <1>3 DEF PublishBinding

\* The manifest is recorded over the bindings, once.
LEMMA PublishManifestGood ==
  ASSUME NEW p \in Process, IInv, PublishManifest(p)
  PROVE  TypeOK' /\ Bound' /\ Good(p)' /\ Frame(p)
<1>1. step[p] = "manifest" /\ UNCHANGED <<pythonVars, binding, touched, handed, work, budget>>
  BY DEF PublishManifest
<1>2. CASE Fails(p, "conflict") /\ UNCHANGED <<manifest, wrote>>
  BY <1>1, <1>2, RefusalGood DEF Outcomes, ownVars, auxVars
<1> DEFINE c == CommitOf(p)
           s == task[p].paths
<1>3. CASE /\ \A x \in s : binding[Tree[c][x]] = Contents(p)[x]
           /\ manifest[c][s] \in {None, Contents(p)}
           /\ manifest' = [manifest EXCEPT ![c][s] = Contents(p)]
           /\ wrote' = [wrote EXCEPT ![p] = @ \/ manifest' # manifest]
           /\ Goto(p, "reopen") /\ left' = [left EXCEPT ![p] = s]
           /\ Keep /\ UNCHANGED staged
  <2> DEFINE w == wrote[p] \/ manifest' # manifest
  <2>1. /\ TypeOK /\ Bound /\ Control(p) /\ Locked(p) /\ Prepared(p) /\ Exact(p)
        /\ PythonTyped /\ OwnTyped /\ LockTyped /\ PlaceTyped /\ ProcTyped /\ AuxTyped /\ Holds(p)
    BY <1>1, Working
  <2>2. /\ task[p].op \in {"publish", "import"}
        /\ c \in Commit /\ s \in Selection /\ s \subseteq Path /\ s # {}
        /\ Contents(p) \in [s -> Content]
    BY <1>1, Records DEF Contents
  <2>3. Contents(p) \in Record
    BY <2>2 DEF Record
  <2>4. w \in BOOLEAN /\ wrote' = [wrote EXCEPT ![p] = w]
    BY <1>3, <2>1 DEF AuxTyped
  <2> HIDE DEF w, c, s
  <2>5. PICK m \in Record :
           /\ m = Contents(p) /\ m \in [s -> Content] /\ manifest' = [manifest EXCEPT ![c][s] = m]
           /\ manifest[c][s] \in {None, m} /\ \A x \in s : binding[Tree[c][x]] = m[x]
    BY <1>3, <2>2, <2>3
  <2>6. UNCHANGED <<blob, snap, tree, ref, binding, lock, refLock, task, staged, prepared,
                    published, result, touched, handed, work, budget>>
    BY <1>1, <1>3 DEF Keep, pythonVars, lockVars
  <2>7. /\ step' = [step EXCEPT ![p] = "reopen"] /\ left' = [left EXCEPT ![p] = s]
    BY <1>3 DEF Goto
  <2>8. /\ \A d \in Commit, z \in Selection : ~(d = c /\ z = s) => manifest'[d][z] = manifest[d][z]
        /\ manifest'[c][s] = m
        /\ manifest' \in [Commit -> [Selection -> Record \cup {None}]]
    BY <2>1, <2>2, <2>5 DEF OwnTyped
  <2>9. OwnTyped'
    BY <2>1, <2>5, <2>6, <2>8 DEF OwnTyped
  <2>10. \A d \in Commit, z \in Selection : manifest[d][z] # None => manifest'[d][z] = manifest[d][z]
    BY <2>5, <2>8
  <2>11. PythonTyped' /\ LockTyped' /\ ProcTyped' /\ AuxTyped' /\ Others(p) /\ Locks(p) /\ Files(p)
    BY <2>1, <2>4, <2>6, <2>10 DEF PythonTyped, LockTyped, ProcTyped, AuxTyped, Others, Locks, Files
  <2>12. "reopen" \in Steps /\ s \in SUBSET (Path \cup Key) /\ "reopen" \notin Preparing
         /\ "reopen" \notin {"replace ref", "read ref"} /\ refLock' # p
    BY <1>1, <2>1, <2>2, <2>6 DEF Steps, Preparing, Holds
  <2>13. TypeOK' /\ Frame(p) /\ step'[p] = "reopen" /\ left'[p] = s
    BY <2>7, <2>9, <2>11, <2>12, StepTyped
  <2>14. Bound'
    BY <2>1, <2>5, <2>6, <2>8 DEF Bound
  <2>15. KeysLeft(p)' = KeysLeft(p) /\ CommitOf(p)' = CommitOf(p)
         /\ task'[p] = task[p] /\ lock' = lock /\ result'[p] = result[p]
    BY <2>6 DEF KeysLeft, CommitOf
  <2>16. Control(p)' /\ Reported(p)' /\ Prepared(p)' /\ Exact(p)'
    BY <1>1, <2>1, <2>2, <2>12, <2>13, <2>15
    DEF Control, Reported, Prepared, Exact, MayHavePublished, Preparing, RefSteps, EntrySteps, c, s
  <2>17. Locked(p)'
    BY <1>1, <2>1, <2>12, <2>13, <2>15 DEF Locked, Done, Preparing
  <2> QED
    BY <2>13, <2>14, <2>16, <2>17 DEF Good
<1> QED
  BY <1>2, <1>3 DEF PublishManifest

\* The ref, unless the revision is a commit, and the tree are read.
LEMMA ReadIndexGood ==
  ASSUME NEW p \in Process, IInv, ReadIndex(p)
  PROVE  TypeOK' /\ Bound' /\ Good(p)' /\ Frame(p)
<1> DEFINE c == IF CommitOf(p) = None THEN ref ELSE CommitOf(p)
           imports == step[p] = "index" /\ task[p].op = "import"
           s == IF imports THEN "read" ELSE "open"
<1>1. step[p] \in {"index", "reopen"} /\ UNCHANGED <<pythonVars, ownVars, auxVars>>
  BY DEF ReadIndex
<1>2. CASE Fails(p, "incomplete")
  BY <1>1, <1>2, RefusalGood DEF Outcomes
<1>3. CASE /\ c \in tree
           /\ task' = [task EXCEPT ![p].commit = c]
           /\ Goto(p, s)
           /\ UNCHANGED <<lockVars, left, staged, prepared, published, result>>
  <2>1. /\ TypeOK /\ Bound /\ Control(p) /\ Locked(p) /\ Reported(p)
        /\ PythonTyped /\ PlaceTyped /\ ProcTyped /\ AuxTyped
        /\ task[p] \in Task /\ task[p].op \in {"publish", "import", "open"}
        /\ task[p].paths \subseteq Path /\ task[p].paths # {} /\ result[p] = None
    BY <1>1, Working
  <2>2. /\ step[p] = "index" => task[p].op \in {"import", "open"}
        /\ step[p] = "reopen" => task[p].op \in {"publish", "import"} /\ CommitOf(p) \in Commit
        /\ left[p] = task[p].paths
    BY <1>1, <2>1 DEF Control
  <2>3. c \in Commit
    BY <1>3, <2>1 DEF PythonTyped
  <2>4. task[p].op = "publish" => c = CommitOf(p)
    BY <1>1, <2>2, NoneAssumption
  <2>5. s \in {"read", "open"} /\ (s = "read" => task[p].op = "import" /\ step[p] = "index")
        /\ (s = "open" => step[p] = "reopen" \/ task[p].op = "open")
    BY <1>1, <2>2
  <2>6. step' = [step EXCEPT ![p] = s]
    BY <1>3 DEF Goto
  <2> HIDE DEF s
  <2>7. PICK d \in Commit : task' = [task EXCEPT ![p].commit = d]
                            /\ (task[p].op = "publish" => d = CommitOf(p))
    BY <1>3, <2>3, <2>4
  <2> DEFINE u == [task[p] EXCEPT !.commit = d]
  <2>8. u \in Task /\ u.op = task[p].op /\ u.paths = task[p].paths /\ u.commit = d
    BY <2>1, <2>7 DEF Task
  <2>9. task' = [task EXCEPT ![p] = u]
    BY <2>7
  <2> HIDE DEF u
  <2>10. UNCHANGED <<blob, snap, tree, ref, ownVars, lockVars, left, staged, prepared, published,
                     result, wrote, touched, handed, work, budget>>
    BY <1>1, <1>3 DEF pythonVars, auxVars
  <2>11. ProcTyped' /\ task'[p] = u /\ Others(p)
    BY <2>1, <2>8, <2>9, <2>10 DEF ProcTyped, Others
  <2>12. PythonTyped' /\ AuxTyped'
    BY <2>1, <2>10 DEF PythonTyped, AuxTyped
  <2>13. left' = [left EXCEPT ![p] = left[p]] /\ left[p] \in SUBSET (Path \cup Key)
    BY <2>1, <2>10 DEF PlaceTyped
  <2>14. s \in Steps /\ s \notin Preparing /\ step[p] \notin Preparing
         /\ s \notin {"replace ref", "read ref"} /\ step[p] \notin {"replace ref", "read ref"}
    BY <1>1, <2>5 DEF Steps, Preparing
  <2>15. TypeOK' /\ Bound' /\ Frame(p) /\ step'[p] = s /\ left'[p] = left[p]
    BY <2>6, <2>10, <2>11, <2>12, <2>13, <2>14, PlainStep
  <2>16. CommitOf(p)' = d /\ result'[p] = result[p] /\ wrote'[p] = wrote[p] /\ lock' = lock
    BY <2>8, <2>10, <2>11 DEF CommitOf, lockVars
  <2>17. Control(p)'
    BY <2>1, <2>2, <2>5, <2>8, <2>11, <2>14, <2>15, <2>16
    DEF Control, Preparing, RefSteps, EntrySteps
  <2>18. Reported(p)'
    BY <1>1, <2>1, <2>2, <2>5, <2>8, <2>11, <2>14, <2>15, <2>16 DEF Reported, MayHavePublished, Preparing
  <2>19. Prepared(p)' /\ Exact(p)'
    BY <2>2, <2>5, <2>8, <2>11, <2>14, <2>15 DEF Prepared, Exact, Preparing, EntrySteps, RefSteps
  <2>20. Locked(p)'
    <3> SUFFICES ASSUME task[p].op = "publish" PROVE \A k \in Done(p)' : lock[k] = p
      BY <2>8, <2>11, <2>16 DEF Locked
    <3>1. CommitOf(p)' = CommitOf(p) /\ KeysLeft(p)' = KeysLeft(p)
      BY <2>7, <2>8, <2>11, <2>16 DEF KeysLeft
    <3>2. Done(p)' = Done(p)
      BY <2>14, <2>15, <3>1 DEF Done
    <3> QED
      BY <1>1, <2>1, <3>2 DEF Locked
  <2> QED
    BY <2>15, <2>17, <2>18, <2>19, <2>20 DEF Good
<1> QED
  BY <1>2, <1>3 DEF ReadIndex

\* An import reads the next entry.
LEMMA ReadEntryGood ==
  ASSUME NEW p \in Process, IInv, ReadEntry(p)
  PROVE  TypeOK' /\ Bound' /\ Good(p)' /\ Frame(p)
<1>1. step[p] = "read" /\ UNCHANGED <<pythonVars, ownVars, wrote, handed, work, budget>>
  BY DEF ReadEntry
<1>2. CASE Fails(p, "corrupt") /\ UNCHANGED touched
  BY <1>1, <1>2, RefusalGood DEF Outcomes, auxVars
<1> DEFINE x == Turn(p)
           k == Tree[CommitOf(p)][x]
           content == Reading(CommitOf(p), x)
<1>3. CASE /\ content \in Content /\ prepared[p][k] \in {None, content}
           /\ prepared' = [prepared EXCEPT ![p][k] = content]
           /\ Advance(p, x, "read", "bind", KeysLeft(p)) /\ Checked(p, x)
           /\ UNCHANGED <<lockVars, task, staged, published, result>>
  <2>1. /\ TypeOK /\ Bound /\ Control(p) /\ Prepared(p) /\ Exact(p) /\ Reported(p)
        /\ PythonTyped /\ PlaceTyped /\ ProcTyped /\ AuxTyped
        /\ task[p] \in Task /\ result[p] = None /\ task[p].paths # {}
    BY <1>1, Working
  <2>2. /\ left[p] # {} /\ left[p] \subseteq task[p].paths /\ task[p].paths \subseteq Path
        /\ CommitOf(p) \in Commit /\ x \in left[p] /\ x \in Path
        /\ \A y \in task[p].paths : Tree[CommitOf(p)][y] \in KeysLeft(p)
        /\ KeysLeft(p) \subseteq Key /\ KeysLeft(p) # {}
        /\ \A j \in KeysLeft(p) : \E y \in task[p].paths : j = Tree[CommitOf(p)][y]
    BY <1>1, Entries
  <2>3. task[p].op = "import" /\ \A y \in task[p].paths \ left[p] :
            prepared[p][Tree[CommitOf(p)][y]] # None /\ AsPrepared(p, y)
    BY <1>1, <2>1 DEF Control, Prepared, Exact
  <2>4. k \in KeysLeft(p) /\ k \in Key
    BY <2>2
  <2> HIDE DEF k, content, x
  <2>5. PICK s, t : Goes(p, x, "read", "bind", KeysLeft(p), s, t)
    BY <1>3, <2>2, AdvanceGoes
  <2>6. /\ step' = [step EXCEPT ![p] = s] /\ left' = [left EXCEPT ![p] = t]
        /\ \/ s = "read" /\ t = left[p] \ {x} /\ t # {}
           \/ s = "bind" /\ t = KeysLeft(p) /\ left[p] = {x}
    BY <2>5 DEF Goes
  <2>7. touched' = [touched EXCEPT ![p] = @ \ {<<CommitOf(p), x>>}]
        /\ UNCHANGED <<blob, snap, tree, ref>>
    BY <1>1, <1>3 DEF Checked, pythonVars
  <2>8. ProcTyped' /\ prepared'[p][k] = content /\ content # None
        /\ \A j \in Key : prepared[p][j] # None \/ j # k => prepared'[p][j] = prepared[p][j]
    BY <1>3, <2>1, <2>4, NoneAssumption DEF ProcTyped
  <2>9. PythonTyped' /\ AuxTyped' /\ Others(p)
        /\ touched'[p] = touched[p] \ {<<CommitOf(p), x>>}
    BY <1>1, <1>3, <2>1, <2>7 DEF PythonTyped, AuxTyped, Others, ProcTyped
  <2>10. s \in Steps /\ t \in SUBSET (Path \cup Key) /\ s \notin Preparing
         /\ s \notin {"replace ref", "read ref"} /\ step[p] \notin {"replace ref", "read ref"}
         /\ step[p] \notin Preparing
    BY <1>1, <2>1, <2>2, <2>6 DEF Steps, Preparing, PlaceTyped
  <2>11. TypeOK' /\ Bound' /\ Frame(p) /\ step'[p] = s /\ left'[p] = t
    BY <1>1, <1>3, <2>6, <2>7, <2>8, <2>9, <2>10, PlainStep
  <2>12. KeysLeft(p)' = KeysLeft(p) /\ CommitOf(p)' = CommitOf(p)
         /\ task'[p] = task[p] /\ result'[p] = result[p] /\ wrote'[p] = wrote[p]
    BY <1>1, <1>3 DEF KeysLeft, CommitOf
  <2>13. Control(p)' /\ Reported(p)' /\ Locked(p)'
    BY <1>1, <2>1, <2>2, <2>3, <2>6, <2>10, <2>11, <2>12
    DEF Control, Reported, Locked, MayHavePublished, Preparing, RefSteps, EntrySteps
  <2>14. PICK c \in Commit : c = CommitOf(p)
    BY <2>2
  <2>15. ASSUME NEW y \in (task[p].paths \ left[p]) \cup {x}
         PROVE  prepared'[p][Tree[c][y]] # None /\ AsPrepared(p, y)'
    <3>1. y \in Path /\ Tree[c][y] \in Key
      BY <2>2, <2>14, TreeAssumption
    <3>2. Reading(c, y)' = Reading(c, y)
      BY <2>7 DEF Reading
    <3>3. CASE y = x
      <4>1. prepared'[p][Tree[c][y]] = Reading(c, y)
        BY <2>8, <2>14, <3>3 DEF k, content
      <4> QED
        BY <2>8, <2>12, <2>14, <3>2, <3>3, <4>1 DEF AsPrepared, k
    <3>4. CASE y # x
      <4>1. AsPrepared(p, y) /\ prepared[p][Tree[c][y]] # None
        BY <2>3, <2>14, <2>15, <3>4
      <4>2. prepared'[p][Tree[c][y]] = prepared[p][Tree[c][y]]
        BY <2>8, <3>1, <4>1
      <4>3. <<c, y>> \in touched[p] => <<c, y>> \in touched'[p]
        BY <2>9, <2>14, <3>4
      <4> QED
        BY <2>12, <2>14, <3>2, <4>1, <4>2, <4>3 DEF AsPrepared, Lasting
    <3> QED
      BY <3>3, <3>4
  <2>16. Exact(p)'
    BY <2>6, <2>11, <2>12, <2>15 DEF Exact, EntrySteps, RefSteps
  <2>17. Prepared(p)'
    <3>1. s = "read" => \A y \in task[p].paths \ t : prepared'[p][Tree[c][y]] # None
      BY <2>6, <2>15
    <3>2. s = "bind" => \A j \in KeysLeft(p) : prepared'[p][j] # None
      BY <2>2, <2>6, <2>14, <2>15
    <3> QED
      BY <2>6, <2>10, <2>11, <2>12, <2>14, <3>1, <3>2 DEF Prepared, EntrySteps, Preparing
  <2> QED
    BY <2>11, <2>13, <2>16, <2>17 DEF Good
<1> QED
  BY <1>2, <1>3 DEF ReadEntry

\* A task whose commit is known is opened on a manifest.
LEMMA LoadManifestGood ==
  ASSUME NEW p \in Process, IInv, LoadManifest(p)
  PROVE  TypeOK' /\ Bound' /\ Good(p)' /\ Frame(p)
<1>1. step[p] = "open" /\ UNCHANGED <<pythonVars, ownVars, auxVars>>
  BY DEF LoadManifest
<1>2. CASE Fails(p, "incomplete")
  BY <1>1, <1>2, RefusalGood DEF Outcomes
<1>3. CASE /\ manifest[CommitOf(p)][task[p].paths] # None
           /\ Goto(p, "check") /\ Keep /\ UNCHANGED <<left, staged>>
  <2>1. /\ TypeOK /\ Bound /\ Control(p) /\ Locked(p) /\ Reported(p)
        /\ PythonTyped /\ PlaceTyped /\ ProcTyped /\ AuxTyped
        /\ task[p] \in Task /\ task[p].paths # {} /\ result[p] = None
    BY <1>1, Working
  <2>2. left[p] = task[p].paths /\ CommitOf(p) \in Commit
    BY <1>1, <2>1 DEF Control
  <2>3. UNCHANGED <<blob, snap, tree, ref, ownVars, lockVars, task, left, staged, prepared, published,
                    result, wrote, touched, handed, work, budget>>
    BY <1>1, <1>3 DEF Keep, pythonVars, auxVars
  <2>4. PythonTyped' /\ AuxTyped' /\ ProcTyped' /\ Others(p)
    BY <2>1, <2>3 DEF PythonTyped, AuxTyped, ProcTyped, Others
  <2>5. step' = [step EXCEPT ![p] = "check"] /\ left' = [left EXCEPT ![p] = left[p]]
        /\ left[p] \in SUBSET (Path \cup Key)
    BY <1>3, <2>1, <2>3 DEF Goto, PlaceTyped
  <2>6. "check" \in Steps /\ "check" \notin Preparing \cup {"replace ref", "read ref"}
        /\ step[p] \notin {"replace ref", "read ref"}
    BY <1>1 DEF Steps, Preparing
  <2>7. TypeOK' /\ Bound' /\ Frame(p) /\ step'[p] = "check" /\ left'[p] = left[p]
    BY <2>3, <2>4, <2>5, <2>6, PlainStep
  <2>8. KeysLeft(p)' = KeysLeft(p) /\ CommitOf(p)' = CommitOf(p) /\ task'[p] = task[p]
        /\ result'[p] = result[p] /\ wrote'[p] = wrote[p] /\ lock' = lock /\ manifest' = manifest
    BY <2>3 DEF KeysLeft, CommitOf, lockVars, ownVars
  <2>9. Control(p)' /\ Reported(p)' /\ Prepared(p)'
    BY <1>1, <2>1, <2>2, <2>7, <2>8
    DEF Control, Reported, Prepared, MayHavePublished, Preparing, RefSteps, EntrySteps
  <2>10. Locked(p)'
    BY <1>1, <2>1, <2>7, <2>8 DEF Locked, Done, Preparing
  <2>11. Exact(p)'
    BY <1>3, <2>2, <2>7, <2>8 DEF Exact, EntrySteps, RefSteps
  <2> QED
    BY <2>7, <2>9, <2>10, <2>11 DEF Good
<1> QED
  BY <1>2, <1>3 DEF LoadManifest

\* An operation that succeeds stands for the contents its manifest records,
\* which are the ones bound to its keys.
LEMMA FinishGood ==
  ASSUME NEW p \in Process, IInv, step[p] # "idle", CommitOf(p) \in Commit,
         manifest[CommitOf(p)][task[p].paths] # None, Finish(p),
         UNCHANGED <<pythonVars, ownVars, wrote, work, budget>>,
         touched' \in [Process -> SUBSET (Commit \X Path)],
         \A q \in Process \ {p} : touched'[q] = touched[q]
  PROVE  TypeOK' /\ Bound' /\ Good(p)' /\ Frame(p)
<1>1. /\ TypeOK /\ Bound /\ OwnTyped /\ AuxTyped
      /\ task[p].paths \in Selection /\ task[p].paths \subseteq Path
  BY Working
<1>2. PICK c \in Commit, s \in Selection : c = CommitOf(p) /\ s = task[p].paths
  BY <1>1
<1>3. handed' = handed \cup {<<Tree[c][x], manifest[c][s][x]>> : x \in s} /\ End(p, "ok", FALSE)
  BY <1>2 DEF Finish, Recorded
<1>4. ASSUME NEW x \in s
      PROVE  /\ <<Tree[c][x], manifest[c][s][x]>> \in Key \X Content
             /\ binding[Tree[c][x]] = manifest[c][s][x]
  <2>1. manifest[c][s] \in [s -> Content]
    BY <1>1, <1>2 DEF OwnTyped
  <2>2. Tree[c][x] \in Key
    BY <1>1, <1>2, TreeAssumption
  <2>3. binding[Tree[c][x]] = manifest[c][s][x]
    BY <1>1, <1>2 DEF Bound
  <2> QED
    BY <2>1, <2>2, <2>3
<1>5. handed' \subseteq Key \X Content
  BY <1>1, <1>3, <1>4 DEF AuxTyped
<1>6. \A h \in handed' : binding[h[1]] = h[2]
  BY <1>1, <1>3, <1>4 DEF Bound
<1>7. "ok" \in Outcomes /\ budget' \in Budgets
  BY <1>1 DEF Outcomes, AuxTyped
<1> QED
  BY <1>3, <1>5, <1>6, <1>7, EndGood

\* An entry is checked against its binding and the manifest.
LEMMA CheckEntryGood ==
  ASSUME NEW p \in Process, IInv, CheckEntry(p)
  PROVE  TypeOK' /\ Bound' /\ Good(p)' /\ Frame(p)
<1> DEFINE x == Turn(p)
           activates == task[p].op = "publish" /\ task[p].symbolic
<1>1. step[p] = "check" /\ UNCHANGED <<pythonVars, ownVars, wrote, work, budget>>
  BY DEF CheckEntry
<1>2. CASE Fails(p, "corrupt") /\ UNCHANGED <<touched, handed>>
  BY <1>1, <1>2, RefusalGood DEF Outcomes, auxVars
<1>a. /\ TypeOK /\ Bound /\ Control(p) /\ Locked(p) /\ Exact(p) /\ Reported(p)
      /\ PythonTyped /\ OwnTyped /\ PlaceTyped /\ ProcTyped /\ AuxTyped
      /\ task[p] \in Task /\ task[p].paths \in Selection /\ result[p] = None
  BY <1>1, Working
<1>b. /\ left[p] # {} /\ left[p] \subseteq task[p].paths /\ task[p].paths \subseteq Path
      /\ CommitOf(p) \in Commit /\ x \in left[p] /\ x \in Path
  BY <1>1, Entries
<1>c. manifest[CommitOf(p)][task[p].paths] # None
  BY <1>1, <1>a DEF Exact
<1>3. CASE /\ Checked(p, x)
           /\ Finish(p)
  <2>1. touched' = [touched EXCEPT ![p] = @ \ {<<CommitOf(p), x>>}]
    BY <1>3 DEF Checked
  <2>2. touched' \in [Process -> SUBSET (Commit \X Path)]
        /\ \A q \in Process \ {p} : touched'[q] = touched[q]
    BY <1>a, <2>1 DEF AuxTyped
  <2> QED
    BY <1>1, <1>3, <1>b, <1>c, <2>2, FinishGood
<1>4. CASE /\ binding[Tree[CommitOf(p)][x]] = Recorded(p)[x] /\ Reading(CommitOf(p), x) = Recorded(p)[x]
           /\ Checked(p, x) /\ ~(left[p] = {x} /\ ~activates)
           /\ Advance(p, x, "check", "ref lock", {}) /\ Keep
           /\ UNCHANGED <<staged, handed>>
  <2> HIDE DEF x
  <2>1. PICK s, t : Goes(p, x, "check", "ref lock", {}, s, t)
    BY <1>4, <1>b, AdvanceGoes
  <2>2. /\ step' = [step EXCEPT ![p] = s] /\ left' = [left EXCEPT ![p] = t]
        /\ t = left[p] \ {x}
        /\ (s = "check" /\ t # {}) \/ (s = "ref lock" /\ t = {} /\ left[p] = {x})
    BY <2>1 DEF Goes
  <2>3. s = "ref lock" => task[p].op = "publish" /\ left[p] = {x}
    BY <1>4, <2>2
  <2>4. touched' = [touched EXCEPT ![p] = @ \ {<<CommitOf(p), x>>}]
        /\ UNCHANGED <<blob, snap, tree, ref, ownVars, lockVars, task, staged, prepared, published,
                        result, wrote, handed, work, budget>>
    BY <1>1, <1>4 DEF Checked, Keep, pythonVars
  <2>5. PythonTyped' /\ ProcTyped' /\ AuxTyped' /\ Others(p)
        /\ touched'[p] = touched[p] \ {<<CommitOf(p), x>>}
    BY <1>a, <2>4 DEF PythonTyped, AuxTyped, Others, ProcTyped
  <2>6. s \in Steps /\ t \in SUBSET (Path \cup Key) /\ s \notin Preparing
        /\ s \notin {"replace ref", "read ref"} /\ step[p] \notin {"replace ref", "read ref"}
        /\ step[p] \notin Preparing
    BY <1>1, <1>a, <1>b, <2>2 DEF Steps, Preparing, PlaceTyped
  <2>7. TypeOK' /\ Bound' /\ Frame(p) /\ step'[p] = s /\ left'[p] = t
    BY <2>2, <2>4, <2>5, <2>6, PlainStep
  <2>8. KeysLeft(p)' = KeysLeft(p) /\ CommitOf(p)' = CommitOf(p) /\ task'[p] = task[p]
        /\ result'[p] = result[p] /\ wrote'[p] = wrote[p] /\ lock' = lock /\ manifest' = manifest
    BY <2>4 DEF KeysLeft, CommitOf, lockVars, ownVars
  <2>9. Control(p)' /\ Prepared(p)'
    BY <1>1, <1>a, <1>b, <2>2, <2>3, <2>6, <2>7, <2>8
    DEF Control, Prepared, Preparing, RefSteps, EntrySteps
  <2>10. Reported(p)'
    BY <1>1, <1>a, <2>2, <2>3, <2>6, <2>7, <2>8 DEF Reported, MayHavePublished, Preparing
  <2>11. Locked(p)'
    BY <1>1, <1>a, <2>6, <2>7, <2>8 DEF Locked, Done, Preparing
  <2>12. Exact(p)'
    <3>1. PICK c \in Commit, z \in Selection : c = CommitOf(p) /\ z = task[p].paths /\ z \subseteq Path
      BY <1>a, <1>b
    <3>2. ASSUME task[p].op = "publish", NEW y \in (z \ left[p]) \cup {x}
          PROVE  Reading(c, y)' = manifest'[c][z][y] \/ <<c, y>> \in touched'[p]
      <4>1. Reading(c, y)' = Reading(c, y)
        BY <2>4 DEF Reading
      <4>2. CASE y = x
        BY <1>4, <2>8, <3>1, <4>1, <4>2 DEF Recorded
      <4>3. CASE y # x
        <5>1. Reading(c, y) = manifest[c][z][y] \/ <<c, y>> \in touched[p]
          BY <1>1, <1>a, <3>1, <3>2, <4>3 DEF Exact, Recorded
        <5>2. <<c, y>> \in touched[p] => <<c, y>> \in touched'[p]
          BY <2>5, <3>1, <4>3
        <5> QED
          BY <2>8, <4>1, <5>1, <5>2
      <4> QED
        BY <4>2, <4>3
    <3>3. s = "check" /\ task[p].op = "publish" => \A y \in z \ t :
            Reading(c, y)' = manifest'[c][z][y] \/ <<c, y>> \in touched'[p]
      BY <2>2, <3>2
    <3>4. s = "ref lock" => \A y \in z : Reading(c, y)' = manifest'[c][z][y] \/ <<c, y>> \in touched'[p]
      BY <2>3, <3>2
    <3> QED
      BY <1>c, <2>2, <2>7, <2>8, <3>1, <3>3, <3>4
      DEF Exact, EntrySteps, RefSteps, Recorded, Readable
  <2> QED
    BY <2>7, <2>9, <2>10, <2>11, <2>12 DEF Good
<1>5. \/ Fails(p, "corrupt") /\ UNCHANGED <<touched, handed>>
      \/ Checked(p, x) /\ Finish(p)
      \/ /\ binding[Tree[CommitOf(p)][x]] = Recorded(p)[x] /\ Reading(CommitOf(p), x) = Recorded(p)[x]
         /\ Checked(p, x) /\ ~(left[p] = {x} /\ ~activates)
         /\ Advance(p, x, "check", "ref lock", {}) /\ Keep
         /\ UNCHANGED <<staged, handed>>
  BY DEF CheckEntry
<1> QED
  BY <1>2, <1>3, <1>4, <1>5

\* A publication that activates: what the invariant says of it.
LEMMA Activates ==
  ASSUME NEW p \in Process, IInv, step[p] \in RefSteps
  PROVE  /\ task[p].op = "publish" /\ CommitOf(p) \in Commit /\ task[p].paths \in Selection
         /\ manifest[CommitOf(p)][task[p].paths] # None
         /\ Readable(p, CommitOf(p), task[p].paths)
<1>1. TypeOK /\ Control(p) /\ Exact(p) /\ step[p] # "idle"
  BY DEF IInv, RefSteps
<1> QED
  BY <1>1, TaskTyped DEF Control, Exact

\* The ref's lock is taken, or the ref replaced under it.
LEMMA RefGood ==
  ASSUME NEW p \in Process, IInv, LockRef(p) \/ ReplaceRef(p)
  PROVE  TypeOK' /\ Bound' /\ Good(p)' /\ Frame(p)
<1> DEFINE s == IF step[p] = "ref lock" THEN "replace ref" ELSE "read ref"
<1>1. /\ step[p] \in {"ref lock", "replace ref"}
      /\ step' = [step EXCEPT ![p] = s]
      /\ s \in {"replace ref", "read ref"}
  BY DEF LockRef, ReplaceRef, Goto
<1> HIDE DEF s
<1>2. step[p] \in RefSteps
  BY <1>1 DEF RefSteps
<1>3. /\ TypeOK /\ Bound /\ Control(p) /\ Locked(p) /\ Exact(p) /\ PythonTyped /\ OwnTyped
      /\ LockTyped /\ PlaceTyped /\ ProcTyped /\ AuxTyped /\ Holds(p)
      /\ task[p] \in Task /\ result[p] = None
  BY <1>1, Working
<1>4. /\ task[p].op = "publish" /\ CommitOf(p) \in Commit /\ task[p].paths \in Selection
      /\ manifest[CommitOf(p)][task[p].paths] # None
      /\ Readable(p, CommitOf(p), task[p].paths)
  BY <1>2, Activates
<1>5. /\ UNCHANGED <<blob, snap, tree, ownVars, lock, task, left, staged, prepared, published, result,
                    touched, handed, work, budget>>
      /\ refLock' = p /\ (refLock = None \/ refLock = p)
      /\ ref' \in Commit \cup {None} /\ wrote' \in [Process -> BOOLEAN]
      /\ \A q \in Process \ {p} : wrote'[q] = wrote[q]
  <2>1. CASE LockRef(p)
    BY <1>3, <2>1 DEF LockRef, pythonVars, auxVars, PythonTyped, AuxTyped
  <2>2. CASE ReplaceRef(p)
    <3>1. /\ UNCHANGED <<blob, snap, tree, ownVars, lock, refLock, task, left, staged, prepared,
                          published, result, touched, handed, work, budget>>
          /\ ref' = CommitOf(p) /\ wrote' = [wrote EXCEPT ![p] = TRUE] /\ step[p] = "replace ref"
      BY <2>2 DEF ReplaceRef, Keep, Wrote, lockVars
    <3> QED
      BY <1>3, <1>4, <3>1 DEF AuxTyped, Holds
  <2> QED
    BY <2>1, <2>2
<1>6. PythonTyped' /\ OwnTyped' /\ LockTyped' /\ ProcTyped' /\ AuxTyped' /\ Others(p)
  BY <1>3, <1>5 DEF PythonTyped, OwnTyped, ownVars, LockTyped, ProcTyped, AuxTyped, Others
<1>7. Locks(p) /\ Files(p)
  BY <1>5, NoneAssumption DEF Locks, Files, ownVars
<1>8. left' = [left EXCEPT ![p] = left[p]] /\ left[p] \in SUBSET (Path \cup Key)
  BY <1>3, <1>5 DEF PlaceTyped
<1>9. s \in Steps /\ s \notin Preparing /\ step[p] \notin Preparing
  BY <1>1 DEF Steps, Preparing
<1>10. TypeOK' /\ Frame(p) /\ step'[p] = s /\ left'[p] = left[p]
  BY <1>1, <1>5, <1>6, <1>7, <1>8, <1>9, StepTyped
<1>11. Bound'
  BY <1>3, <1>5 DEF Bound, ownVars
<1>12. KeysLeft(p)' = KeysLeft(p) /\ CommitOf(p)' = CommitOf(p) /\ task'[p] = task[p]
       /\ result'[p] = result[p] /\ lock' = lock /\ manifest' = manifest /\ touched'[p] = touched[p]
  BY <1>5 DEF KeysLeft, CommitOf, ownVars
<1>13. Control(p)' /\ Reported(p)' /\ Prepared(p)'
  BY <1>1, <1>3, <1>4, <1>9, <1>10, <1>12
  DEF Control, Reported, Prepared, MayHavePublished, Preparing, RefSteps, EntrySteps
<1>14. Locked(p)'
  BY <1>1, <1>3, <1>9, <1>10, <1>12 DEF Locked, Done
<1>15. Exact(p)'
  <2>1. PICK c \in Commit, z \in Selection : c = CommitOf(p) /\ z = task[p].paths
    BY <1>4
  <2>2. \A y \in z : Reading(c, y)' = Reading(c, y)
    BY <1>5 DEF Reading
  <2>3. \A y \in z : Reading(c, y) = manifest[c][z][y] \/ <<c, y>> \in touched[p]
    BY <1>4, <2>1 DEF Readable
  <2> QED
    BY <1>1, <1>4, <1>10, <1>12, <2>1, <2>2, <2>3 DEF Exact, EntrySteps, RefSteps, Readable
<1> QED
  BY <1>10, <1>11, <1>13, <1>14, <1>15 DEF Good

\* The ref is read back.
LEMMA ReadRefGood ==
  ASSUME NEW p \in Process, IInv, ReadRef(p)
  PROVE  TypeOK' /\ Bound' /\ Good(p)' /\ Frame(p)
<1>1. step[p] = "read ref" /\ UNCHANGED <<pythonVars, ownVars, wrote, touched, work, budget>>
  BY DEF ReadRef
<1>2. CASE Fails(p, "corrupt") /\ UNCHANGED handed
  BY <1>1, <1>2, RefusalGood DEF Outcomes, auxVars
<1>3. CASE Finish(p)
  <2>1. CommitOf(p) \in Commit /\ manifest[CommitOf(p)][task[p].paths] # None
    BY <1>1, Activates DEF RefSteps
  <2>2. touched' \in [Process -> SUBSET (Commit \X Path)]
        /\ \A q \in Process \ {p} : touched'[q] = touched[q]
    BY <1>1 DEF IInv, TypeOK
  <2> QED
    BY <1>1, <1>3, <2>1, <2>2, FinishGood
<1> QED
  BY <1>2, <1>3 DEF ReadRef

\* A fault or a crash ends an operation.
LEMMA LossGood ==
  ASSUME NEW p \in Process, IInv, Fault(p) \/ Crash(p)
  PROVE  TypeOK' /\ Bound' /\ Good(p)' /\ Frame(p)
<1>1. TypeOK
  BY DEF IInv
<1>2. budget' \in Budgets /\ step[p] # "idle"
      /\ UNCHANGED <<pythonVars, ownVars, wrote, touched, handed, work>>
  BY <1>1, SpendTyped DEF Fault, Crash
<1>3. Fails(p, "error") \/ End(p, "crashed", TRUE)
  BY DEF Fault, Crash
<1> QED
  BY <1>2, <1>3, FailsGood DEF Outcomes

-----------------------------------------------------------------------------
(* The invariant.                                                          *)

\* Whatever step p takes keeps what holds of p, and leaves the others alone.
LEMMA ActGood ==
  ASSUME NEW p \in Process, IInv,
         (\E t \in work[p] : Start(p, t)) \/ Proceed(p) \/ Fault(p) \/ Crash(p)
  PROVE  TypeOK' /\ Bound' /\ Good(p)' /\ Frame(p)
<1>1. CASE \E t \in work[p] : Start(p, t)
  BY <1>1, StartGood
<1>2. CASE Proceed(p)
  BY <1>2, LockBlobGood, ExamineBlobGood, InstallBlobGood, ValidateBlobGood, PublishTreeGood,
     InspectEntryGood, PlaceEntryGood, RecheckEntryGood, PublishBindingGood, PublishManifestGood,
     ReadIndexGood, ReadEntryGood, LoadManifestGood, CheckEntryGood, RefGood, ReadRefGood
  DEF Proceed
<1>3. CASE Fault(p) \/ Crash(p)
  BY <1>3, LossGood
<1> QED
  BY <1>1, <1>2, <1>3

\* An instance starts with the invariant.
LEMMA InvInit == Init => IInv
<1> SUFFICES ASSUME NEW o \in Openings, InitWith(o) PROVE IInv
  BY DEF Init
<1>1. /\ o.work \in [Process -> SUBSET Task] /\ o.budget \in Budgets
      /\ \A p \in Process : \A t \in o.work[p] : t.op = "publish" => t.commit # None
  BY OpeningAssumption
<1>2. /\ work = o.work /\ budget = o.budget
      /\ blob = [k \in Key |-> None]
      /\ snap = [c \in Commit |-> [x \in Path |-> None]]
      /\ tree = {} /\ ref = None
      /\ binding = [k \in Key |-> None]
      /\ manifest = [c \in Commit |-> [s \in Selection |-> None]]
      /\ lock = [k \in Key |-> None] /\ refLock = None
      /\ step = [p \in Process |-> "idle"]
      /\ task = [p \in Process |-> None]
      /\ left = [p \in Process |-> {}]
      /\ staged = [p \in Process |-> None]
      /\ prepared = [p \in Process |-> [k \in Key |-> None]]
      /\ published = [p \in Process |-> FALSE]
      /\ result = [p \in Process |-> None]
      /\ wrote = [p \in Process |-> FALSE]
      /\ touched = [p \in Process |-> {}]
      /\ handed = {}
  BY DEF InitWith
<1>3. PythonTyped /\ LockTyped /\ PlaceTyped
  BY <1>2 DEF PythonTyped, LockTyped, PlaceTyped, Steps
<1>4. OwnTyped
  BY <1>2 DEF OwnTyped
<1>5. ProcTyped
  BY <1>2 DEF ProcTyped
<1>6. AuxTyped
  BY <1>1, <1>2 DEF AuxTyped
<1>7. \A p \in Process : Holds(p)
  BY <1>2, NoneAssumption DEF Holds, Preparing
<1>8. Bound
  BY <1>1, <1>2 DEF Bound
<1>9. ASSUME NEW p \in Process PROVE Good(p)
  <2>1. step[p] = "idle" /\ wrote[p] = FALSE
    BY <1>2
  <2> QED
    BY <2>1 DEF Good, Control, Locked, Prepared, Exact, Reported, Preparing, EntrySteps, RefSteps
<1> QED
  BY <1>3, <1>4, <1>5, <1>6, <1>7, <1>8, <1>9, TypeParts DEF IInv, Good

\* Nothing is said of a step in which nothing happens but what was known.
LEMMA InvStutter == IInv /\ UNCHANGED vars => IInv'
<1> SUFFICES ASSUME IInv, UNCHANGED vars PROVE IInv'
  OBVIOUS
<1>1. UNCHANGED <<blob, snap, tree, ref, binding, manifest, lock, refLock, step, task, left, staged,
                  prepared, published, result, wrote, touched, handed, work, budget>>
  BY DEF vars, pythonVars, ownVars, lockVars, procVars, auxVars
<1>2. TypeOK' /\ Bound'
  <2>1. TypeOK /\ Bound
    BY DEF IInv
  <2>2. /\ PythonTyped' /\ OwnTyped' /\ LockTyped' /\ PlaceTyped' /\ ProcTyped' /\ AuxTyped'
        /\ \A p \in Process : Holds(p)'
    BY <1>1, <2>1, TypeParts
    DEF PythonTyped, OwnTyped, LockTyped, PlaceTyped, ProcTyped, AuxTyped, Holds, KeyTurn, Turn
  <2> QED
    BY <1>1, <2>1, <2>2, NextTypeParts DEF Bound
<1>3. ASSUME NEW p \in Process PROVE Good(p)'
  <2>1. \A c \in Commit, x \in Path : Reading(c, x)' = Reading(c, x)
    BY <1>1 DEF Reading
  <2>2. Rests(p)
    BY <1>1, <2>1 DEF Rests
  <2> QED
    BY <2>2, RestGood
<1> QED
  BY <1>2, <1>3 DEF IInv, Good

\* Every step keeps the invariant.
LEMMA InvStep == IInv /\ [Next]_vars => IInv'
<1> SUFFICES ASSUME IInv, [Next]_vars PROVE IInv'
  OBVIOUS
<1>1. ASSUME NEW p \in Process,
             (\E t \in work[p] : Start(p, t)) \/ Proceed(p) \/ Fault(p) \/ Crash(p)
      PROVE  IInv'
  <2>1. TypeOK' /\ Bound' /\ Good(p)' /\ Frame(p)
    BY <1>1, ActGood
  <2>2. \A q \in Process \ {p} : Good(q)'
    BY <2>1, OthersKept
  <2> QED
    BY <2>1, <2>2 DEF IInv, Good
<1> QED
  BY <1>1, OutsideGood, InvStutter DEF Next

\* The invariant of the compatible view: see IInv in StandardCache.
THEOREM Inductive == Spec => []IInv
<1>1. Init => IInv
  BY InvInit
<1>2. IInv /\ [Next]_vars => IInv'
  BY InvStep
<1> QED
  BY <1>1, <1>2, PTL DEF Spec

\* Every variable keeps its type, and whoever works on a blob or on the ref
\* holds its lock.
THEOREM TypeCorrect == Spec => []TypeOK
<1>1. IInv => TypeOK
  BY DEF IInv
<1> QED
  BY <1>1, Inductive, PTL

\* An error that says nothing was published says the truth (see
\* with_may_have_published in standard_cache.rs).
THEOREM ErrorsTell == Spec => []ErrorsTellOfPublication
<1>1. IInv => ErrorsTellOfPublication
  <2> SUFFICES ASSUME IInv, NEW p \in Process, result[p] # None, result[p].outcome # "ok",
                      ~result[p].may, wrote[p]
               PROVE  FALSE
    BY DEF ErrorsTellOfPublication
  <2>1. Control(p) /\ Reported(p)
    BY DEF IInv
  <2>2. step[p] = "idle"
    BY <2>1 DEF Control
  <2> QED
    BY <2>1, <2>2 DEF Reported
<1> QED
  BY <1>1, Inductive, PTL

\* What operations that succeeded stand for is what is bound to its keys,
\* and a binding is never replaced: they agree.
THEOREM Agree == Spec => []OpensAgree
<1>1. IInv => OpensAgree
  BY DEF IInv, Bound, OpensAgree
<1> QED
  BY <1>1, Inductive, PTL

\* The ref is the last thing a publication writes.
THEOREM RefLast == Spec => RefPublishedLast
<1>1. IInv => RefStep
  <2> SUFFICES ASSUME IInv, NEW p \in Process, step[p] = "replace ref"
               PROVE  /\ manifest[task[p].commit][task[p].paths] # None
                      /\ \A x \in task[p].paths : binding[Tree[task[p].commit][x]]
                            = manifest[task[p].commit][task[p].paths][x]
                      /\ Readable(p, task[p].commit, task[p].paths)
    BY DEF RefStep
  <2>1. /\ task[p].commit \in Commit /\ task[p].paths \in Selection
        /\ manifest[task[p].commit][task[p].paths] # None
        /\ Readable(p, task[p].commit, task[p].paths)
    BY Activates DEF RefSteps, CommitOf
  <2>2. Bound
    BY DEF IInv
  <2> QED
    BY <2>1, <2>2 DEF Bound
<1>2. IInv /\ [Next]_vars => [RefStep]_vars
  BY <1>1
<1> QED
  BY <1>2, Inductive, PTL DEF Spec, RefPublishedLast

\* A step in which the place of a process changes is a step of that process.
LEMMA ActorMoves ==
  ASSUME IInv, Next, NEW p \in Process, step'[p] # step[p]
  PROVE  ((\E t \in work[p] : Start(p, t)) \/ Proceed(p) \/ Fault(p) \/ Crash(p)) /\ Frame(p)
<1>1. ~Outside
  BY DEF Outside, AddBlob, DamageBlob, AddEntry, MoveRef, RemoveSnapshot, OutsideOnly, procVars
<1>2. PICK q \in Process :
         (\E t \in work[q] : Start(q, t)) \/ Proceed(q) \/ Fault(q) \/ Crash(q)
  BY <1>1 DEF Next
<1>3. Frame(q)
  BY <1>2, ActGood
<1>4. q = p
  BY <1>3 DEF Frame
<1> QED
  BY <1>2, <1>3, <1>4

\* No process removes a tree record.
LEMMA TreeGrows ==
  ASSUME NEW p \in Process,
         (\E t \in work[p] : Start(p, t)) \/ Proceed(p) \/ Fault(p) \/ Crash(p)
  PROVE  tree \subseteq tree'
<1>1. CASE (\E t \in work[p] : Start(p, t)) \/ Fault(p) \/ Crash(p)
  BY <1>1 DEF Start, Fault, Crash, pythonVars
<1>2. CASE LockBlob(p) \/ ExamineBlob(p) \/ InstallBlob(p) \/ ValidateBlob(p)
  BY <1>2 DEF LockBlob, ExamineBlob, InstallBlob, ValidateBlob, pythonVars
<1>3. CASE PublishTree(p) \/ InspectEntry(p) \/ PlaceEntry(p) \/ RecheckEntry(p)
  BY <1>3 DEF PublishTree, InspectEntry, PlaceEntry, RecheckEntry, pythonVars
<1>4. CASE PublishBinding(p) \/ PublishManifest(p) \/ ReadIndex(p) \/ ReadEntry(p)
  BY <1>4 DEF PublishBinding, PublishManifest, ReadIndex, ReadEntry, pythonVars
<1>5. CASE LoadManifest(p) \/ CheckEntry(p) \/ LockRef(p) \/ ReplaceRef(p) \/ ReadRef(p)
  BY <1>5 DEF LoadManifest, CheckEntry, LockRef, ReplaceRef, ReadRef, pythonVars
<1> QED
  BY <1>1, <1>2, <1>3, <1>4, <1>5 DEF Proceed

\* The library never replaces or removes a blob, a snapshot entry or a tree
\* record of Python's cache, whoever put it there (adr/0003).
THEOREM PythonBytes == Spec => PythonBytesKept
<1>1. IInv /\ [Next]_vars => [PythonBytesStep]_vars
  <2> SUFFICES ASSUME IInv, Next, NEW p \in Process, step'[p] # step[p]
               PROVE  /\ \A k \in Key : blob[k] # None => blob'[k] = blob[k]
                      /\ \A c \in Commit, x \in Path : snap[c][x] # None => snap'[c][x] = snap[c][x]
                      /\ tree \subseteq tree'
    BY DEF PythonBytesStep
  <2>1. Frame(p) /\ tree \subseteq tree'
    BY ActorMoves, TreeGrows
  <2> QED
    BY <2>1 DEF Frame
<1> QED
  BY <1>1, Inductive, PTL DEF Spec, PythonBytesKept

\* Only the publication of a manifest leads from "manifest" to "reopen".
LEMMA ManifestPublished ==
  ASSUME NEW p \in Process, IInv, step[p] = "manifest", step'[p] = "reopen",
         (\E t \in work[p] : Start(p, t)) \/ Proceed(p) \/ Fault(p) \/ Crash(p)
  PROVE  manifest' = [manifest EXCEPT ![CommitOf(p)][task[p].paths] = Contents(p)]
<1>1. step \in [Process -> Steps]
  BY DEF IInv, TypeOK
<1>2. ASSUME NEW o, NEW may, End(p, o, may) PROVE FALSE
  BY <1>1, <1>2 DEF End, Goto
<1>3. PublishManifest(p)
  BY <1>2 DEF Start, Fault, Crash, Fails, Proceed, LockBlob, ExamineBlob, InstallBlob, ValidateBlob,
     PublishTree, InspectEntry, PlaceEntry, RecheckEntry, PublishBinding, ReadIndex, ReadEntry,
     LoadManifest, CheckEntry, LockRef, ReplaceRef, ReadRef
<1> QED
  BY <1>2, <1>3 DEF PublishManifest, Fails

\* A publication writes a manifest only over entries that read back as it
\* says, what others touched since they were validated apart.
THEOREM Stand == Spec => ManifestsStand
<1>1. IInv /\ [Next]_vars => [ManifestStep]_vars
  <2> SUFFICES ASSUME IInv, Next, NEW p \in Process, step[p] = "manifest", step'[p] = "reopen",
                      NEW x \in task[p].paths,
                      task[p].op = "publish" \/ Tree[task[p].commit][x] \notin Opaque
               PROVE  Reading(task[p].commit, x) = manifest'[task[p].commit][task[p].paths][x]
                         \/ <<task[p].commit, x>> \in touched[p]
    BY DEF ManifestStep
  <2>1. manifest' = [manifest EXCEPT ![CommitOf(p)][task[p].paths] = Contents(p)]
    BY ActorMoves, ManifestPublished
  <2>2. OwnTyped /\ CommitOf(p) \in Commit /\ task[p].paths \in Selection
    BY Records, TypeParts DEF IInv
  <2>3. manifest'[CommitOf(p)][task[p].paths] = Contents(p)
    BY <2>1, <2>2 DEF OwnTyped
  <2>4. AsPrepared(p, x) /\ Lasting(p, x)
    BY DEF IInv, Exact, Lasting, CommitOf
  <2> QED
    BY <2>3, <2>4 DEF AsPrepared, Contents, CommitOf
<1> QED
  BY <1>1, Inductive, PTL DEF Spec, ManifestsStand
===============================================================================

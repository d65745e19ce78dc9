--------------------------- MODULE StagedFileProofs ---------------------------
(***************************************************************************)
(* Theorems about StagedFile, for every set of processes and values,       *)
(* every choice of protocols and every bound.                              *)
(***************************************************************************)
EXTENDS StagedFile, FiniteSetTheorems, TLAPS

-----------------------------------------------------------------------------
(* The order of the calls.                                                 *)

\* In calls without repetition, each is followed by the next.
LEMMA Follows ==
  ASSUME NEW c, c = Calls[protocol], NEW i \in DOMAIN c,
         \A j \in DOMAIN c : c[j] = c[i] => j = i
  PROVE  NextCall(c[i]) = c[i + 1]
<1>1. (CHOOSE j \in DOMAIN c : c[j] = c[i]) = i
  OBVIOUS
<1> QED
  BY <1>1 DEF NextCall

\* What follows each call of create_once.
LEMMA CreateCalls ==
  ASSUME protocol = "create"
  PROVE  /\ FirstCall = "look"
         /\ NextCall("look") = "stage" /\ NextCall("stage") = "write"
         /\ NextCall("write") = "install" /\ NextCall("install") = "reread"
         /\ NextCall("reread") = "clean"
<1> DEFINE c == Calls[protocol]
<1>1. c = <<"look", "stage", "write", "install", "reread", "clean">>
  BY DEF Calls
<1>2. DOMAIN c = 1 .. 6 /\ FirstCall = c[1]
  BY <1>1 DEF FirstCall
<1>3. /\ c[1] = "look" /\ c[2] = "stage" /\ c[3] = "write"
      /\ c[4] = "install" /\ c[5] = "reread" /\ c[6] = "clean"
  BY <1>1
<1> HIDE DEF c
<1>4. \A i, j \in DOMAIN c : c[j] = c[i] => j = i
  BY <1>2, <1>3
<1>5. \A i \in DOMAIN c : NextCall(c[i]) = c[i + 1]
  BY <1>4, Follows DEF c
<1> QED
  BY <1>2, <1>3, <1>5

\* What follows each call of publish_encoded_immutable_record.
LEMMA RecordCalls ==
  ASSUME protocol = "record"
  PROVE  /\ FirstCall = "lock"
         /\ NextCall("lock") = "look" /\ NextCall("look") = "stage"
         /\ NextCall("stage") = "write" /\ NextCall("write") = "install"
         /\ NextCall("install") = "reread" /\ NextCall("reread") = "clean"
         /\ NextCall("clean") = "sync"
<1> DEFINE c == Calls[protocol]
<1>1. c = <<"lock", "look", "stage", "write", "install", "reread", "clean", "sync">>
  BY DEF Calls
<1>2. DOMAIN c = 1 .. 8 /\ FirstCall = c[1]
  BY <1>1 DEF FirstCall
<1>3. /\ c[1] = "lock" /\ c[2] = "look" /\ c[3] = "stage"
      /\ c[4] = "write" /\ c[5] = "install" /\ c[6] = "reread"
      /\ c[7] = "clean" /\ c[8] = "sync"
  BY <1>1
<1> HIDE DEF c
<1>4. \A i, j \in DOMAIN c : c[j] = c[i] => j = i
  BY <1>2, <1>3
<1>5. \A i \in DOMAIN c : NextCall(c[i]) = c[i + 1]
  BY <1>4, Follows DEF c
<1> QED
  BY <1>2, <1>3, <1>5

\* What follows each call of replace_from_staging and replace_record.
LEMMA MutableCalls ==
  ASSUME protocol \in {"replace", "etag"}
  PROVE  /\ FirstCall = "lock"
         /\ NextCall("lock") = "stage" /\ NextCall("stage") = "write"
         /\ NextCall("write") = "install" /\ NextCall("install") = "reread"
         /\ NextCall("reread") = "sync"
<1> DEFINE c == Calls[protocol]
<1>1. c = <<"lock", "stage", "write", "install", "reread", "sync">>
  BY DEF Calls
<1>2. DOMAIN c = 1 .. 6 /\ FirstCall = c[1]
  BY <1>1 DEF FirstCall
<1>3. /\ c[1] = "lock" /\ c[2] = "stage" /\ c[3] = "write"
      /\ c[4] = "install" /\ c[5] = "reread" /\ c[6] = "sync"
  BY <1>1
<1> HIDE DEF c
<1>4. \A i, j \in DOMAIN c : c[j] = c[i] => j = i
  BY <1>2, <1>3
<1>5. \A i \in DOMAIN c : NextCall(c[i]) = c[i + 1]
  BY <1>4, Follows DEF c
<1> QED
  BY <1>2, <1>3, <1>5

\* What follows each call of publish_blob.
LEMMA BlobCalls ==
  ASSUME protocol = "blob"
  PROVE  /\ FirstCall = "stage"
         /\ NextCall("stage") = "write" /\ NextCall("write") = "lock"
         /\ NextCall("lock") = "look" /\ NextCall("look") = "install"
         /\ NextCall("install") = "reread" /\ NextCall("reread") = "clean"
         /\ NextCall("clean") = "sync"
<1> DEFINE c == Calls[protocol]
<1>1. c = <<"stage", "write", "lock", "look", "install", "reread", "clean", "sync">>
  BY DEF Calls
<1>2. DOMAIN c = 1 .. 8 /\ FirstCall = c[1]
  BY <1>1 DEF FirstCall
<1>3. /\ c[1] = "stage" /\ c[2] = "write" /\ c[3] = "lock"
      /\ c[4] = "look" /\ c[5] = "install" /\ c[6] = "reread"
      /\ c[7] = "clean" /\ c[8] = "sync"
  BY <1>1
<1> HIDE DEF c
<1>4. \A i, j \in DOMAIN c : c[j] = c[i] => j = i
  BY <1>2, <1>3
<1>5. \A i \in DOMAIN c : NextCall(c[i]) = c[i + 1]
  BY <1>4, Follows DEF c
<1> QED
  BY <1>2, <1>3, <1>5

\* What follows each call of write_tree_hint.
LEMMA HintCalls ==
  ASSUME protocol = "hint"
  PROVE  /\ FirstCall = "lock"
         /\ NextCall("lock") = "look" /\ NextCall("look") = "stage"
         /\ NextCall("stage") = "write" /\ NextCall("write") = "install"
         /\ NextCall("install") = "reread" /\ NextCall("reread") = "sync"
<1> DEFINE c == Calls[protocol]
<1>1. c = <<"lock", "look", "stage", "write", "install", "reread", "sync">>
  BY DEF Calls
<1>2. DOMAIN c = 1 .. 7 /\ FirstCall = c[1]
  BY <1>1 DEF FirstCall
<1>3. /\ c[1] = "lock" /\ c[2] = "look" /\ c[3] = "stage"
      /\ c[4] = "write" /\ c[5] = "install" /\ c[6] = "reread"
      /\ c[7] = "sync"
  BY <1>1
<1> HIDE DEF c
<1>4. \A i, j \in DOMAIN c : c[j] = c[i] => j = i
  BY <1>2, <1>3
<1>5. \A i \in DOMAIN c : NextCall(c[i]) = c[i + 1]
  BY <1>4, Follows DEF c
<1> QED
  BY <1>2, <1>3, <1>5

-----------------------------------------------------------------------------
(* The parts of the invariant.                                             *)

\* What can be written to a file is a value.
LEMMA WritableValue == Writable \subseteq Value
BY ValueAssumption DEF Writable

\* What the invariant says of one process.
Own(p) ==
    /\ Placed(p) /\ Staging(p) /\ Knowing(p) /\ Settled(p)
    /\ step[p] \in Guarded => lock = p

\* A step that is a call of p.
CallOf(p) ==
    /\ step' = [step EXCEPT ![p] = step'[p]]
    /\ task' = [task EXCEPT ![p] = task'[p]]
    /\ staged' = [staged EXCEPT ![p] = staged'[p]]
    /\ found' = [found EXCEPT ![p] = found'[p]]
    /\ protocol' = protocol
    /\ spent'.foreign = spent.foreign
    /\ lock' = lock \/ lock \in {None, p}

\* The types of the variables that the calls change.
LEMMA Types ==
  ASSUME TypeOK
  PROVE  /\ protocol \in AllProtocols
         /\ step \in [Process -> Steps]
         /\ task \in [Process -> Tasks \cup {None}]
         /\ staged \in [Process -> Nat]
         /\ found \in [Process -> Nat]
         /\ answer \in [Process -> Answers \cup {None}]
         /\ content \in [Inode -> Value \cup {None, Torn}]
         /\ dest \in Nat /\ debris \in Nat
         /\ lock \in Process \cup {None}
         /\ spent \in [ops : Nat, faults : Nat, crashes : Nat, removals : Nat, foreign : Nat]
         /\ \A p \in Process : ~Idle(p) => task[p] \in Tasks
BY ProtocolsAssumption DEF TypeOK

\* A call of p fills its own staging file, and changes no other that was made.
Fills(p) ==
    \A n \in Inode :
        content[n] # None /\ ~(step[p] = "write" /\ n = staged[p]) => content'[n] = content[n]

\* What the file and the open files hold is not what p fills.
LEMMA HeldStays ==
  ASSUME IInv, NEW p \in Process, Fills(p)
  PROVE  /\ dest # 0 => content'[dest] = content[dest] /\ content[dest] \in Value
         /\ \A q \in Process : found[q] # 0 =>
              content'[found[q]] = content[found[q]] /\ content[found[q]] \in Value
         /\ \A q \in Process \ {p} : staged[q] # 0 => content'[staged[q]] = content[staged[q]]
<1>1. TypeOK /\ Whole /\ \A q \in Process : Staging(q)
  BY DEF IInv
<1>2. /\ dest # 0 => dest \in Inode /\ content[dest] \in Value
      /\ \A q \in Process : found[q] # 0 => found[q] \in Inode /\ content[found[q]] \in Value
      /\ \A q \in Process : staged[q] # 0 => staged[q] \in Inode /\ content[staged[q]] # None
  <2>1. \A n \in 0 .. (MaxOps + MaxForeign) : n # 0 => n \in Inode
    BY BoundsAssumption DEF Inode
  <2> QED
    BY <1>1, <2>1, WritableValue DEF TypeOK, Whole, Staging
<1>3. step[p] = "write" =>
        /\ staged[p] # 0 /\ staged[p] # dest
        /\ \A q \in Process : found[q] # staged[p]
  BY <1>1 DEF Staging
<1>4. \A q \in Process \ {p} : staged[q] # 0 => staged[q] # staged[p]
  BY <1>1 DEF TypeOK
<1>5. \A n \in Inode : content[n] \in Value => content[n] # None
  BY NoneAssumption
<1> QED
  BY <1>2, <1>3, <1>4, <1>5 DEF Fills

\* A call of p that leaves the file alone takes nothing from another process.
LEMMA OthersCalm ==
  ASSUME IInv, NEW p \in Process, NEW q \in Process \ {p}, CallOf(p), Fills(p),
         dest' = dest, found'[p] \in {0, dest, found[p]}
  PROVE  Own(q)'
<1>1. TypeOK /\ Own(q) /\ Whole
  BY DEF IInv, Own
<1>2. /\ step'[q] = step[q] /\ task'[q] = task[q] /\ staged'[q] = staged[q] /\ found'[q] = found[q]
      /\ protocol' = protocol /\ spent'.foreign = spent.foreign
      /\ \A r \in Process \ {p} : found'[r] = found[r]
  BY <1>1, Types DEF CallOf
<1>3. Guarded' = Guarded /\ Route' = Route /\ Writable' = Writable
  BY <1>2 DEF Guarded, Route, Writable
<1>4. /\ HeldBy(dest)' = HeldBy(dest) /\ HeldBy(found[q])' = HeldBy(found[q])
      /\ staged[q] # 0 => content'[staged[q]] = content[staged[q]]
  BY <1>2, HeldStays DEF HeldBy
<1>5. Placed(q)'
  BY <1>1, <1>2, <1>3 DEF Own, Placed, Idle
<1>6. Staging(q)'
  <2>1. Unmade(q)' = Unmade(q) /\ Written(q)' = Written(q)
    BY <1>2 DEF Unmade, Written, Renames
  <2>2. step[q] = "write" => \A r \in Process : found'[r] # staged[q]
    BY <1>1, <1>2 DEF Own, Staging
  <2>3. Written(q) => staged[q] # 0 /\ content[staged[q]] = task[q].arg
    BY <1>1 DEF Own, Staging
  <2> QED
    BY <1>1, <1>2, <1>4, <2>1, <2>2, <2>3 DEF Own, Staging
<1>7. Knowing(q)'
  BY <1>1, <1>2, <1>4 DEF Own, Knowing
<1>8. Settled(q)'
  BY <1>1, <1>2, <1>4 DEF Own, Settled
<1>9. (step[q] \in Guarded => lock = q)'
  BY <1>1, <1>2, <1>3, NoneAssumption DEF Own, CallOf
<1> QED
  BY <1>5, <1>6, <1>7, <1>8, <1>9 DEF Own

\* So it keeps the invariant where it keeps what concerns p.
LEMMA CalmCall ==
  ASSUME IInv, NEW p \in Process, CallOf(p), Fills(p),
         dest' = dest, found'[p] \in {0, dest, found[p]},
         TypeOK', UndisturbedLeavesNothing', Counted', Own(p)'
  PROVE  IInv'
<1>1. \A q \in Process : Own(q)'
  BY OthersCalm
<1>2. Whole'
  <2>1. TypeOK /\ Whole
    BY DEF IInv
  <2>2. Writable' = Writable
    BY DEF CallOf, Writable
  <2>3. \A q \in Process : found'[q] # 0 => content'[found'[q]] \in Value
    BY <2>1, Types, HeldStays DEF CallOf
  <2>4. dest # 0 => content'[dest] \in Writable
    BY <2>1, HeldStays DEF Whole
  <2> QED
    BY <2>2, <2>3, <2>4 DEF Whole
<1> QED
  BY <1>1, <1>2 DEF IInv, Own

-----------------------------------------------------------------------------
(* Counting what is staged.                                                *)

\* The counts are numbers.
LEMMA Counts ==
  ASSUME TypeOK, Counted
  PROVE  /\ Cardinality(Made) \in Nat /\ Cardinality(Unstaged) \in Nat
         /\ Cardinality(Owing) \in Nat
         /\ IsFiniteSet(Made) /\ IsFiniteSet(Unstaged) /\ IsFiniteSet(Owing)
<1>1. Made \subseteq 1 .. (MaxOps + MaxForeign) /\ MaxOps + MaxForeign \in Nat
  BY BoundsAssumption DEF Made, Inode
<1>2. IsFiniteSet(1 .. (MaxOps + MaxForeign))
  BY <1>1, FS_Interval
<1>3. IsFiniteSet(Made)
  BY <1>1, <1>2, FS_Subset
<1>4. Unstaged \subseteq Owing /\ IsFiniteSet(Owing)
  BY DEF Owing, Counted
<1>5. IsFiniteSet(Unstaged)
  BY <1>4, FS_Subset
<1> QED
  BY <1>3, <1>4, <1>5, FS_CardinalityType

\* A call that stages nothing keeps the counts, if what it leaves behind it owed.
LEMMA KeepsCount ==
  ASSUME IInv, NEW p \in Process, Made' = Made,
         Unstaged' \subseteq Unstaged, Owing' \subseteq Owing,
         \/ debris' = debris
         \/ debris' = debris + 1 /\ p \in Owing \ Owing',
         spent'.ops = spent.ops, spent'.foreign = spent.foreign
  PROVE  Counted' /\ debris' <= spent.ops /\ debris' \in Nat
<1>1. TypeOK /\ Counted
  BY DEF IInv
<1>2. spent.ops \in Nat /\ spent.foreign \in Nat /\ debris \in Nat
  BY <1>1, Types
<1>4. Cardinality(Unstaged') <= Cardinality(Unstaged) /\ Cardinality(Unstaged') \in Nat
  BY <1>1, Counts, FS_Subset, FS_CardinalityType
<1>5. /\ IsFiniteSet(Owing') /\ Cardinality(Owing') \in Nat
      /\ Cardinality(Owing') <= Cardinality(Owing)
  BY <1>1, Counts, FS_Subset, FS_CardinalityType
<1>6. p \in Owing \ Owing' => Cardinality(Owing') <= Cardinality(Owing) - 1
  <2> SUFFICES ASSUME p \in Owing, p \notin Owing'
               PROVE  Cardinality(Owing') <= Cardinality(Owing) - 1
    OBVIOUS
  <2>1. Owing' \subseteq Owing \ {p}
    OBVIOUS
  <2>2. IsFiniteSet(Owing \ {p}) /\ Cardinality(Owing \ {p}) = Cardinality(Owing) - 1
    BY <1>1, Counts, FS_RemoveElement
  <2> QED
    BY <2>1, <2>2, FS_Subset
<1>7. debris' + Cardinality(Owing') <= spent.ops /\ debris' \in Nat
  BY <1>1, <1>2, <1>5, <1>6, Counts DEF Counted
<1> QED
  BY <1>1, <1>2, <1>4, <1>5, <1>7, Counts, SMTT(30) DEF Counted

-----------------------------------------------------------------------------
(* Steps that end an operation.                                            *)

Spending ==
    [ops : 0..MaxOps, faults : 0..MaxFaults, crashes : 0..MaxCrashes,
     removals : 0..MaxRemovals, foreign : 0..MaxForeign]

\* What is counted only grows.
Spends ==
    /\ spent' \in Spending
    /\ spent'.ops = spent.ops /\ spent'.foreign = spent.foreign
    /\ spent.faults <= spent'.faults /\ spent.crashes <= spent'.crashes

\* The guard of the staging name is dropped, which leaves the name behind
\* only for a hint, or where a call failed or the process died.
Parts(p) ==
    /\ staged' = [staged EXCEPT ![p] = 0]
    /\ \/ debris' = debris
       \/ /\ debris' = debris + 1 /\ staged[p] # 0
          /\ protocol = "hint" \/ spent'.faults # 0 \/ spent'.crashes # 0

\* The lock of a process that works is its own, if it is anyone's.
LEMMA HolderWorks ==
  ASSUME IInv, NEW p \in Process
  PROVE  lock = p => ~Idle(p)
BY NoneAssumption DEF IInv, TypeOK

\* An operation that ends keeps the invariant, however it ends.
LEMMA Returns ==
  ASSUME IInv, NEW p \in Process, ~Idle(p), NEW a \in Answers, Return(p, a),
         Parts(p), Spends,
         a.outcome = "error" => \/ spent'.faults # 0 \/ spent'.crashes # 0
                                \/ spent'.foreign # 0
  PROVE  IInv'
<1>1. TypeOK /\ Counted /\ UndisturbedLeavesNothing
  BY DEF IInv
<1>2. /\ step' = [step EXCEPT ![p] = "idle"]
      /\ task' = [task EXCEPT ![p] = None]
      /\ found' = [found EXCEPT ![p] = 0]
      /\ answer' = [answer EXCEPT ![p] = a]
      /\ lock' = IF lock = p THEN None ELSE lock
      /\ UNCHANGED <<protocol, dest, content>>
  BY DEF Return, Goto, Unlock
<1>3. /\ step'[p] = "idle" /\ task'[p] = None /\ staged'[p] = 0 /\ found'[p] = 0
      /\ \A q \in Process \ {p} :
           /\ step'[q] = step[q] /\ task'[q] = task[q] /\ staged'[q] = staged[q]
           /\ found'[q] = found[q] /\ answer'[q] = answer[q]
      /\ answer'[p] = a
  BY <1>1, <1>2, Types DEF Parts
<1>4. CallOf(p)
  BY <1>2, <1>3 DEF CallOf, Parts, Spends
<1>5. Unstaged' \subseteq Unstaged /\ Owing' \subseteq Owing /\ p \notin Owing'
  BY <1>3 DEF Unstaged, Owing
<1>6. staged[p] # 0 => p \in Owing
  BY DEF Owing
<1>7. Counted' /\ debris' <= spent.ops /\ debris' \in Nat
  BY <1>2, <1>5, <1>6, KeepsCount DEF Parts, Spends, Made
<1>8. TypeOK'
  <2>1. debris' \in 0 .. MaxOps
    <3>1. spent.ops \in Nat /\ spent.ops <= MaxOps /\ MaxOps \in Nat
      BY <1>1, BoundsAssumption DEF TypeOK
    <3> QED
      BY <1>7, <3>1
  <2>2. /\ protocol' \in Protocols
        /\ dest' \in 0 .. (MaxOps + MaxForeign) /\ content' \in [Inode -> Value \cup {None, Torn}]
        /\ dest' # 0 => content'[dest'] # None
    BY <1>1, <1>2 DEF TypeOK
  <2>3. staged' \in [Process -> 0 .. (MaxOps + MaxForeign)]
    BY <1>1, BoundsAssumption DEF TypeOK, Parts
  <2>4. \A q, r \in Process : staged'[q] = staged'[r] /\ q # r => staged'[q] = 0
    BY <1>1, <1>3 DEF TypeOK
  <2>5. lock' \in Process \cup {None} /\ (lock' # None => lock' = lock /\ lock # p)
    BY <1>1, <1>2 DEF TypeOK
  <2>6. lock' # None => step'[lock'] # "idle"
    BY <1>1, <1>3, <2>5, NoneAssumption DEF TypeOK, Idle
  <2>7. /\ step' \in [Process -> Steps] /\ task' \in [Process -> Tasks \cup {None}]
        /\ found' \in [Process -> 0 .. (MaxOps + MaxForeign)]
        /\ answer' \in [Process -> Answers \cup {None}]
    <3>1. "idle" \in Steps
      BY DEF Steps
    <3> QED
      BY <1>1, <1>2, <3>1, BoundsAssumption DEF TypeOK
  <2>8. \A q \in Process : (Idle(q) <=> task[q] = None)'
    BY <1>1, <1>3 DEF TypeOK, Idle
  <2> QED
    BY <2>1, <2>2, <2>3, <2>4, <2>5, <2>6, <2>7, <2>8 DEF TypeOK, Spends, Spending, Idle
<1>9. UndisturbedLeavesNothing'
  <2> SUFFICES ASSUME spent'.faults = 0, spent'.crashes = 0, spent'.foreign = 0
               PROVE  /\ \A q \in Process : answer'[q] # None => answer'[q].outcome # "error"
                      /\ protocol' # "hint" => debris' = 0
                      /\ \A q \in Process : Idle(q)' => staged'[q] = 0
    BY DEF UndisturbedLeavesNothing
  <2>1. spent.faults = 0 /\ spent.crashes = 0 /\ spent.foreign = 0
    BY <1>1, Types DEF Spends
  <2> QED
    BY <1>1, <1>2, <1>3, <2>1 DEF UndisturbedLeavesNothing, Parts, Idle
<1>10. Own(p)'
  <2>1. Placed(p)' /\ Knowing(p)' /\ Settled(p)'
    BY <1>3 DEF Placed, Idle, Knowing, Settled
  <2>2. Staging(p)'
    BY <1>3 DEF Staging, Written
  <2>3. step'[p] \notin Guarded'
    BY <1>1, <1>2, <1>3, Types DEF Guarded, Route, AllProtocols
  <2> QED
    BY <2>1, <2>2, <2>3 DEF Own
<1> QED
  BY <1>2, <1>3, <1>4, <1>7, <1>8, <1>9, <1>10, CalmCall DEF Fills

-----------------------------------------------------------------------------
(* Steps that go on with an operation.                                     *)

\* The staging name is kept, or its guard is dropped.
KeepsOrParts(p) == UNCHANGED <<staged, debris>> \/ Parts(p)

\* A call that goes on and leaves the file alone keeps the invariant where it
\* keeps what concerns its process.
LEMMA Goes ==
  ASSUME IInv, NEW p \in Process, ~Idle(p),
         NEW s \in Steps \ {"idle"}, step' = [step EXCEPT ![p] = s],
         NEW t \in Tasks, task' = [task EXCEPT ![p] = t],
         NEW f \in {0, dest, found[p]}, found' = [found EXCEPT ![p] = f],
         UNCHANGED <<protocol, dest, content, answer>>,
         lock' = lock \/ (lock = None /\ lock' = p),
         KeepsOrParts(p), Spends,
         s \in {"lock", "look", "stage"} /\ staged'[p] = 0 => p \in Unstaged,
         Own(p)'
  PROVE  IInv'
<1>1. TypeOK /\ Counted /\ UndisturbedLeavesNothing
  BY DEF IInv
<1>2. /\ step'[p] = s /\ task'[p] = t /\ found'[p] = f
      /\ staged'[p] \in {0, staged[p]}
      /\ \A q \in Process \ {p} :
           /\ step'[q] = step[q] /\ task'[q] = task[q] /\ staged'[q] = staged[q]
           /\ found'[q] = found[q]
  BY <1>1, Types DEF KeepsOrParts, Parts
<1>3. CallOf(p)
  BY <1>1, <1>2, Types DEF CallOf, KeepsOrParts, Parts, Spends
<1>4. Unstaged' \subseteq Unstaged /\ Owing' \subseteq Owing
  BY <1>2 DEF Unstaged, Owing
<1>5. debris' = debris \/ (debris' = debris + 1 /\ p \in Owing)
  BY DEF Owing, KeepsOrParts, Parts
<1>6. debris' # debris => staged[p] # 0 /\ staged'[p] = 0
  BY <1>1, Types DEF KeepsOrParts, Parts
<1>7. debris' # debris => p \notin Owing'
  BY <1>2, <1>6 DEF Owing, Unstaged
<1>8. Counted' /\ debris' <= spent.ops /\ debris' \in Nat
  BY <1>4, <1>5, <1>7, KeepsCount DEF Spends, Made
<1>9. TypeOK'
  <2>1. debris' \in 0 .. MaxOps
    <3>1. spent.ops \in Nat /\ spent.ops <= MaxOps /\ MaxOps \in Nat
      BY <1>1, BoundsAssumption DEF TypeOK
    <3> QED
      BY <1>8, <3>1
  <2>2. /\ protocol' \in Protocols
        /\ dest' \in 0 .. (MaxOps + MaxForeign) /\ content' \in [Inode -> Value \cup {None, Torn}]
        /\ dest' # 0 => content'[dest'] # None
        /\ answer' \in [Process -> Answers \cup {None}]
    BY <1>1 DEF TypeOK
  <2>3. staged' \in [Process -> 0 .. (MaxOps + MaxForeign)]
    BY <1>1, BoundsAssumption DEF TypeOK, KeepsOrParts, Parts
  <2>4. \A q, r \in Process : staged'[q] = staged'[r] /\ q # r => staged'[q] = 0
    BY <1>1, <1>2 DEF TypeOK
  <2>5. lock' \in Process \cup {None} /\ (lock' # None => step'[lock'] # "idle")
    BY <1>1, <1>2 DEF TypeOK, Idle
  <2>6. /\ step' \in [Process -> Steps] /\ task' \in [Process -> Tasks \cup {None}]
        /\ found' \in [Process -> 0 .. (MaxOps + MaxForeign)]
    <3>1. f \in 0 .. (MaxOps + MaxForeign)
      BY <1>1, BoundsAssumption DEF TypeOK
    <3> QED
      BY <1>1, <3>1 DEF TypeOK
  <2>7. \A q \in Process : (Idle(q) <=> task[q] = None)'
    BY <1>1, <1>2, NoneAssumption DEF TypeOK, Idle
  <2> QED
    BY <2>1, <2>2, <2>3, <2>4, <2>5, <2>6, <2>7 DEF TypeOK, Spends, Spending, Idle
<1>10. UndisturbedLeavesNothing'
  <2> SUFFICES ASSUME spent'.faults = 0, spent'.crashes = 0, spent'.foreign = 0
               PROVE  /\ \A q \in Process : answer'[q] # None => answer'[q].outcome # "error"
                      /\ protocol' # "hint" => debris' = 0
                      /\ \A q \in Process : Idle(q)' => staged'[q] = 0
    BY DEF UndisturbedLeavesNothing
  <2>1. spent.faults = 0 /\ spent.crashes = 0 /\ spent.foreign = 0
    BY <1>1, Types DEF Spends
  <2>2. protocol # "hint" => debris' = debris
    BY DEF KeepsOrParts, Parts
  <2> QED
    BY <1>1, <1>2, <2>1, <2>2 DEF UndisturbedLeavesNothing, Idle
<1> QED
  BY <1>2, <1>3, <1>8, <1>9, <1>10, CalmCall DEF Fills

\* The names of the calls.
LEMMA StepNames ==
  {"idle", "lock", "look", "stage", "write", "install", "reread", "clean", "sync",
   "compare", "again", "discard", "open", "read"} \subseteq Steps
<1>1. /\ "create" \in AllProtocols /\ "record" \in AllProtocols
      /\ DOMAIN Calls["create"] = 1 .. 6 /\ DOMAIN Calls["record"] = 1 .. 8
  BY DEF AllProtocols, Calls
<1>2. /\ Calls["create"][1] = "look" /\ Calls["create"][2] = "stage" /\ Calls["create"][3] = "write"
      /\ Calls["create"][4] = "install" /\ Calls["create"][5] = "reread" /\ Calls["create"][6] = "clean"
      /\ Calls["record"][1] = "lock" /\ Calls["record"][8] = "sync"
  BY DEF Calls
<1>3. \A w \in AllProtocols : \A i \in DOMAIN Calls[w] : Calls[w][i] \in Steps
  BY DEF Steps
<1>4. {"look", "stage", "write", "install", "reread", "clean", "lock", "sync"} \subseteq Steps
  <2>1. \A i \in 1 .. 6 : Calls["create"][i] \in Steps
    BY <1>1, <1>3
  <2>2. \A i \in 1 .. 8 : Calls["record"][i] \in Steps
    BY <1>1, <1>3
  <2> QED
    BY <1>2, <2>1, <2>2
<1> QED
  BY <1>4 DEF Steps, OtherCalls

\* What a call finds: the types, and what the invariant says of its process.
LEMMA AtCall ==
  ASSUME IInv, NEW p \in Process, ~Idle(p)
  PROVE  /\ TypeOK /\ Whole /\ Own(p) /\ task[p] \in Tasks
         /\ task[p].write \/ step[p] \in {"open", "read"}
         /\ task[p].write => step[p] \in Route /\ task[p].arg \in Writable /\ task[p].arg \in Value
         /\ found[p] \in {0, dest, found[p]}
         /\ found = [found EXCEPT ![p] = found[p]]
         /\ task = [task EXCEPT ![p] = task[p]]
         /\ protocol \in AllProtocols
         /\ spent \in Spending
         /\ step[p] \in Steps
BY Types, WritableValue DEF IInv, Own, Placed, TypeOK, Spending

\* A call that costs nothing.
LEMMA SpendsNothing ==
  ASSUME TypeOK, UNCHANGED spent
  PROVE  Spends
BY BoundsAssumption DEF TypeOK, Spends, Spending

\* Taking the lock keeps the invariant (publication locks).
LEMMA LockFileInv ==
  ASSUME IInv, NEW p \in Process, LockFile(p)
  PROVE  IInv'
<1>1. step[p] = "lock" /\ ~Idle(p)
  BY DEF LockFile, Idle
<1>2. /\ TypeOK /\ Own(p) /\ task[p].write /\ "lock" \in Route /\ task[p].arg \in Writable
      /\ protocol \in AllProtocols
  BY <1>1, AtCall
<1>3. protocol # "create"
  BY <1>2 DEF Route
<1>4. NextCall("lock") = IF protocol \in {"replace", "etag"} THEN "stage" ELSE "look"
  BY <1>2, <1>3, RecordCalls, MutableCalls, BlobCalls, HintCalls DEF AllProtocols
<1> DEFINE s == NextCall("lock")
<1>5. /\ s \in Steps \ {"idle"} /\ s \in Route
  BY <1>2, <1>3, <1>4, StepNames DEF Route, AllProtocols
<1>6. /\ step' = [step EXCEPT ![p] = s] /\ lock = None /\ lock' = p
      /\ UNCHANGED <<protocol, dest, content, staged, debris, task, found, answer, spent>>
  BY <1>1 DEF LockFile, Advance, Goto
<1>7. step'[p] = s
  BY <1>2, <1>6, Types
<1>8. s \in {"lock", "look", "stage"} /\ staged'[p] = 0 => p \in Unstaged
  BY <1>1, <1>6 DEF Unstaged
<1>9. Own(p)'
  <2>1. Route' = Route /\ Guarded' = Guarded /\ Writable' = Writable
    BY <1>6 DEF Route, Guarded, Writable
  <2>2. Placed(p)'
    BY <1>2, <1>5, <1>6, <1>7, <2>1 DEF Placed, Idle
  <2>3. Staging(p)' /\ Knowing(p)' /\ Settled(p)'
    BY <1>1, <1>2, <1>4, <1>6, <1>7 DEF Own, Staging, Knowing, Settled, Unmade, Written, Renames
  <2> QED
    BY <1>6, <2>2, <2>3 DEF Own
<1> HIDE DEF s
<1> QED
  BY <1>1, <1>2, <1>5, <1>6, <1>8, <1>9, AtCall, SpendsNothing, Goes DEF KeepsOrParts

\* Finding no file keeps the invariant (entry_kind).
LEMMA LookMissingInv ==
  ASSUME IInv, NEW p \in Process, LookMissing(p)
  PROVE  IInv'
<1>1. step[p] = "look" /\ dest = 0 /\ ~Idle(p)
  BY DEF LookMissing, Idle
<1>2. /\ TypeOK /\ Own(p) /\ task[p].write /\ "look" \in Route /\ task[p].arg \in Writable
      /\ protocol \in AllProtocols
  BY <1>1, AtCall
<1>3. protocol \in {"create", "record", "blob", "hint"}
  BY <1>2 DEF Route, AllProtocols
<1>4. NextCall("look") = IF protocol = "blob" THEN "install" ELSE "stage"
  BY <1>3, CreateCalls, RecordCalls, BlobCalls, HintCalls
<1> DEFINE s == NextCall("look")
<1>5. /\ s \in Steps \ {"idle"} /\ s \in Route
      /\ s \in Guarded => "look" \in Guarded
  BY <1>3, <1>4, StepNames DEF Route, Guarded
<1>6. /\ step' = [step EXCEPT ![p] = s]
      /\ UNCHANGED <<protocol, dest, content, staged, debris, lock, task, found, answer, spent>>
  BY <1>1 DEF LookMissing, Advance, Goto
<1>7. step'[p] = s
  BY <1>2, <1>6, Types
<1>8. s \in {"lock", "look", "stage"} /\ staged'[p] = 0 => p \in Unstaged
  BY <1>1, <1>6 DEF Unstaged
<1>9. Own(p)'
  <2>1. Route' = Route /\ Guarded' = Guarded /\ Writable' = Writable
    BY <1>6 DEF Route, Guarded, Writable
  <2>2. Placed(p)'
    BY <1>2, <1>5, <1>6, <1>7, <2>1 DEF Placed, Idle
  <2>3. Staging(p)' /\ Knowing(p)' /\ Settled(p)'
    BY <1>1, <1>2, <1>4, <1>6, <1>7 DEF Own, Staging, Knowing, Settled, Unmade, Written, Renames
  <2>4. (step[p] \in Guarded => lock = p)'
    BY <1>1, <1>2, <1>5, <1>6, <1>7, <2>1 DEF Own
  <2> QED
    BY <2>2, <2>3, <2>4 DEF Own
<1> HIDE DEF s
<1> QED
  BY <1>1, <1>2, <1>5, <1>6, <1>8, <1>9, AtCall, SpendsNothing, Goes DEF KeepsOrParts

\* A process that sees what the file holds has seen a value of it.
LEMMA Seeing ==
  ASSUME IInv, NEW p \in Process, ~Idle(p), dest # 0
  PROVE  /\ HeldBy(dest) \in Value /\ HeldBy(dest) \in Writable
         /\ [task[p] EXCEPT !.saw = HeldBy(dest)] \in Tasks
         /\ \A x : Sees(p, x) =>
              /\ task' = [task EXCEPT ![p] = [task[p] EXCEPT !.saw = x]]
              /\ task'[p].saw = x /\ (task'[p].write <=> task[p].write)
              /\ task'[p].arg = task[p].arg /\ (task'[p].did <=> task[p].did)
<1>1. TypeOK /\ Whole /\ task[p] \in Tasks
  BY AtCall
<1>2. HeldBy(dest) \in Value /\ HeldBy(dest) \in Writable
  BY <1>1, WritableValue DEF Whole, HeldBy
<1>3. [task[p] EXCEPT !.saw = HeldBy(dest)] \in Tasks
  BY <1>1, <1>2 DEF Tasks
<1>4. ASSUME NEW x, Sees(p, x)
      PROVE  /\ task' = [task EXCEPT ![p] = [task[p] EXCEPT !.saw = x]]
             /\ task'[p].saw = x /\ (task'[p].write <=> task[p].write)
             /\ task'[p].arg = task[p].arg /\ (task'[p].did <=> task[p].did)
  <2>1. task' = [task EXCEPT ![p] = [task[p] EXCEPT !.saw = x]]
    BY <1>4 DEF Sees
  <2>2. task'[p] = [task[p] EXCEPT !.saw = x]
    BY <1>1, <2>1, Types
  <2> QED
    BY <1>1, <2>1, <2>2 DEF Tasks
<1> QED
  BY <1>2, <1>3, <1>4

\* Finding a file keeps the invariant (entry_kind).
LEMMA LookExistingInv ==
  ASSUME IInv, NEW p \in Process, LookExisting(p)
  PROVE  IInv'
<1>1. step[p] = "look" /\ dest # 0 /\ protocol # "create" /\ ~Idle(p)
  BY DEF LookExisting, Idle
<1>2. /\ TypeOK /\ Own(p) /\ task[p].write /\ "look" \in Route /\ task[p].arg \in Writable
      /\ protocol \in AllProtocols
  BY <1>1, AtCall
<1>3. protocol \in {"record", "blob", "hint"}
  BY <1>1, <1>2 DEF Route, AllProtocols
<1>4. /\ "compare" \in Steps \ {"idle"} /\ "compare" \in Route /\ "look" \in Guarded
  BY <1>3, StepNames DEF Route, Guarded
<1>5. /\ step' = [step EXCEPT ![p] = "compare"] /\ Sees(p, HeldBy(dest))
      /\ UNCHANGED <<protocol, dest, content, staged, debris, lock, found, answer, spent>>
  BY DEF LookExisting, Goto
<1>6. step'[p] = "compare"
  BY <1>2, <1>5, Types
<1> DEFINE t == [task[p] EXCEPT !.saw = HeldBy(dest)]
<1>7. /\ t \in Tasks /\ task' = [task EXCEPT ![p] = t]
      /\ (task'[p].write <=> task[p].write)
      /\ task'[p].arg = task[p].arg /\ (task'[p].did <=> task[p].did)
  BY <1>1, <1>5, Seeing
<1> HIDE DEF t
<1>8. Own(p)'
  <2>1. Route' = Route /\ Guarded' = Guarded /\ Writable' = Writable
    BY <1>5 DEF Route, Guarded, Writable
  <2>2. Placed(p)'
    BY <1>2, <1>4, <1>6, <1>7, <2>1 DEF Placed, Idle
  <2>3. Staging(p)' /\ Knowing(p)' /\ Settled(p)'
    BY <1>1, <1>2, <1>5, <1>6, <1>7 DEF Own, Staging, Knowing, Settled, Unmade, Written, Renames
  <2>4. (step[p] \in Guarded => lock = p)'
    BY <1>1, <1>2, <1>4, <1>5 DEF Own
  <2> QED
    BY <2>2, <2>3, <2>4 DEF Own
<1> QED
  BY <1>1, <1>2, <1>4, <1>5, <1>7, <1>8, AtCall, SpendsNothing, Goes DEF KeepsOrParts

\* Losing the race for the name keeps the invariant (install_staged_create_once).
LEMMA InstallFindsFileInv ==
  ASSUME IInv, NEW p \in Process, InstallFindsFile(p)
  PROVE  IInv'
<1>1. step[p] = "install" /\ dest # 0 /\ ~Renames /\ ~Idle(p)
  BY DEF InstallFindsFile, Idle
<1>2. /\ TypeOK /\ Own(p) /\ task[p].write /\ "install" \in Route /\ task[p].arg \in Writable
      /\ protocol \in AllProtocols
  BY <1>1, AtCall
<1>3. protocol \in {"create", "blob"}
  BY <1>1, <1>2 DEF Own, Settled, Renames, AllProtocols
<1> DEFINE s == AfterExisting
<1>4. /\ s = IF protocol = "create" THEN "clean" ELSE "compare"
      /\ s \in Steps \ {"idle"} /\ s \in Route
      /\ s \in Guarded => "install" \in Guarded
  BY <1>3, StepNames DEF Route, Guarded, AfterExisting
<1>5. /\ step' = [step EXCEPT ![p] = s] /\ Sees(p, HeldBy(dest))
      /\ UNCHANGED <<protocol, dest, content, staged, debris, lock, found, answer, spent>>
  BY DEF InstallFindsFile, Goto
<1>6. step'[p] = s
  BY <1>2, <1>5, Types
<1> DEFINE t == [task[p] EXCEPT !.saw = HeldBy(dest)]
<1>7. /\ t \in Tasks /\ task' = [task EXCEPT ![p] = t]
      /\ (task'[p].write <=> task[p].write) /\ task'[p].saw \in Value
      /\ task'[p].arg = task[p].arg /\ (task'[p].did <=> task[p].did)
  BY <1>1, <1>5, Seeing
<1> HIDE DEF t
<1>8. Own(p)'
  <2>1. Route' = Route /\ Guarded' = Guarded /\ Writable' = Writable
    BY <1>5 DEF Route, Guarded, Writable
  <2>2. Placed(p)'
    BY <1>2, <1>4, <1>6, <1>7, <2>1 DEF Placed, Idle
  <2>3. Staging(p)' /\ Knowing(p)' /\ Settled(p)'
    BY <1>1, <1>2, <1>3, <1>4, <1>5, <1>6, <1>7
    DEF Own, Staging, Knowing, Settled, Unmade, Written, Renames
  <2>4. (step[p] \in Guarded => lock = p)'
    BY <1>1, <1>2, <1>4, <1>5, <1>6, <2>1 DEF Own
  <2> QED
    BY <2>2, <2>3, <2>4 DEF Own
<1>9. s \notin {"lock", "look", "stage"}
  BY <1>4
<1> HIDE DEF s
<1> QED
  BY <1>1, <1>2, <1>4, <1>5, <1>7, <1>8, <1>9, AtCall, SpendsNothing, Goes DEF KeepsOrParts

\* Reading back what was written keeps the invariant.
LEMMA RereadSameInv ==
  ASSUME IInv, NEW p \in Process, RereadSame(p)
  PROVE  IInv'
<1>1. step[p] = "reread" /\ HeldBy(dest) = task[p].arg /\ ~Idle(p)
  BY DEF RereadSame, Idle
<1>2. /\ TypeOK /\ Own(p) /\ task[p].write /\ "reread" \in Route /\ task[p].arg \in Writable
      /\ protocol \in AllProtocols /\ task[p].arg \in Value
  BY <1>1, AtCall
<1>3. dest # 0
  BY <1>1, <1>2, NoneAssumption DEF HeldBy
<1>4. NextCall("reread") = IF protocol \in {"create", "record", "blob"} THEN "clean" ELSE "sync"
  BY <1>2, CreateCalls, RecordCalls, MutableCalls, BlobCalls, HintCalls DEF AllProtocols
<1> DEFINE s == NextCall("reread")
<1>5. /\ s \in Steps \ {"idle"} /\ s \in Route
      /\ s \in Guarded => "reread" \in Guarded
      /\ s \notin {"lock", "look", "stage"}
  BY <1>2, <1>4, StepNames DEF Route, Guarded, AllProtocols
<1>6. /\ step' = [step EXCEPT ![p] = s] /\ Sees(p, HeldBy(dest))
      /\ UNCHANGED <<protocol, dest, content, staged, debris, lock, found, answer, spent>>
  BY <1>1 DEF RereadSame, Advance, Goto
<1>7. step'[p] = s
  BY <1>2, <1>6, Types
<1> DEFINE t == [task[p] EXCEPT !.saw = HeldBy(dest)]
<1>8. /\ t \in Tasks /\ task' = [task EXCEPT ![p] = t]
      /\ (task'[p].write <=> task[p].write) /\ task'[p].saw = task[p].arg
      /\ task'[p].arg = task[p].arg /\ (task'[p].did <=> task[p].did)
  BY <1>1, <1>3, <1>6, Seeing
<1> HIDE DEF t
<1>9. Own(p)'
  <2>1. Route' = Route /\ Guarded' = Guarded /\ Writable' = Writable
    BY <1>6 DEF Route, Guarded, Writable
  <2>2. Placed(p)'
    BY <1>2, <1>5, <1>7, <1>8, <2>1 DEF Placed, Idle
  <2>3. task[p].did
    BY <1>1, <1>2 DEF Own, Knowing
  <2>4. Staging(p)' /\ Knowing(p)' /\ Settled(p)'
    BY <1>1, <1>2, <1>4, <1>6, <1>7, <1>8, <2>3
    DEF Own, Staging, Knowing, Settled, Unmade, Written, Renames, AllProtocols
  <2>5. (step[p] \in Guarded => lock = p)'
    BY <1>1, <1>2, <1>5, <1>6, <1>7, <2>1 DEF Own
  <2> QED
    BY <2>2, <2>4, <2>5 DEF Own
<1> HIDE DEF s
<1> QED
  BY <1>1, <1>2, <1>5, <1>6, <1>8, <1>9, AtCall, SpendsNothing, Goes DEF KeepsOrParts

-----------------------------------------------------------------------------
(* Dropping the guard of the staging name.                                 *)

\* Each way of dropping the guard is one of those counted.
LEMMA Guards ==
  ASSUME TypeOK, NEW p \in Process
  PROVE  /\ Cleanup(p) => Parts(p)
         /\ NoCleanup /\ staged[p] = 0 => Parts(p)
         /\ Abandon(p) /\ (protocol = "hint" \/ spent'.faults # 0 \/ spent'.crashes # 0) => Parts(p)
         /\ DropGuard(p) => Parts(p)
<1>1. debris \in Nat /\ staged \in [Process -> Nat]
  BY Types
<1>2. Cleanup(p) => Parts(p)
  BY DEF Cleanup, Parts
<1>3. NoCleanup /\ staged[p] = 0 => Parts(p)
  BY <1>1 DEF NoCleanup, Parts
<1>4. Abandon(p) /\ (protocol = "hint" \/ spent'.faults # 0 \/ spent'.crashes # 0) => Parts(p)
  BY <1>1 DEF Abandon, Parts
<1> QED
  BY <1>2, <1>3, <1>4 DEF DropGuard

\* An answer of a process that does not read carries no value.
LEMMA Saying ==
  ASSUME NEW o \in {"done", "existing", "conflict", "read", "error", "crashed"},
         NEW x \in Value \cup {None, Torn}, NEW m \in BOOLEAN
  PROVE  Says(o, x, m) \in Answers /\ Says(o, x, m).outcome = o
BY DEF Says, Answers

\* Finding the file that create_once was to make keeps the invariant.
LEMMA CreateExistsInv ==
  ASSUME IInv, NEW p \in Process, CreateExists(p)
  PROVE  IInv'
<1>1. step[p] = "look" /\ protocol = "create" /\ ~Idle(p)
  BY DEF CreateExists, Idle
<1>2. TypeOK /\ Own(p)
  BY <1>1, AtCall
<1>3. staged[p] = 0
  BY <1>1, <1>2 DEF Own, Staging, Unmade
<1>4. Parts(p) /\ Spends
  BY <1>2, <1>3, Guards, SpendsNothing DEF CreateExists
<1> DEFINE a == Says("existing", None, FALSE)
<1>5. a \in Answers /\ a.outcome # "error" /\ Return(p, a)
  BY Saying DEF CreateExists
<1> HIDE DEF a
<1> QED
  BY <1>1, <1>4, <1>5, Returns

\* Reading back something else keeps the invariant; where no other program
\* writes the file it does not happen.
LEMMA RereadDiffersInv ==
  ASSUME IInv, NEW p \in Process, RereadDiffers(p)
  PROVE  IInv'
<1>1. step[p] = "reread" /\ HeldBy(dest) # task[p].arg /\ ~Idle(p) /\ spent' = spent
  BY DEF RereadDiffers, Idle
<1>2. TypeOK /\ Own(p)
  BY <1>1, AtCall
<1>3. spent'.foreign # 0
  BY <1>1, <1>2 DEF Own, Settled
<1>4. Parts(p) /\ Spends
  BY <1>1, <1>2, Guards, SpendsNothing DEF RereadDiffers
<1> DEFINE a == Says("error", None, MayHavePublished(p))
<1>5. a \in Answers /\ Return(p, a)
  BY Saying DEF RereadDiffers, MayHavePublished
<1> HIDE DEF a
<1> QED
  BY <1>1, <1>3, <1>4, <1>5, Returns

\* Going on once the staging name of a link is gone keeps the invariant.
LEMMA CleanedInv ==
  ASSUME IInv, NEW p \in Process, step[p] = "clean", Cleaned(p), Parts(p), Spends
  PROVE  IInv'
<1>1. ~Idle(p)
  BY DEF Idle
<1>2. /\ TypeOK /\ Own(p) /\ task[p].write /\ "clean" \in Route /\ task[p].arg \in Writable
      /\ protocol \in AllProtocols /\ task[p] \in Tasks
  BY <1>1, AtCall
<1>3. CASE protocol = "create"
  <2> DEFINE a == Says(IF task[p].did THEN "done" ELSE "existing", None, FALSE)
  <2>1. a \in Answers /\ a.outcome # "error" /\ Return(p, a)
    BY <1>3, Saying DEF Cleaned
  <2> HIDE DEF a
  <2> QED
    BY <1>1, <2>1, Returns
<1>4. CASE protocol # "create"
  <2>1. protocol \in {"record", "blob"}
    BY <1>2, <1>4 DEF Route, AllProtocols
  <2>2. task[p].did /\ task[p].saw = task[p].arg
    BY <1>2, <1>4 DEF Own, Knowing
  <2>3. /\ step' = [step EXCEPT ![p] = "sync"]
        /\ UNCHANGED <<protocol, dest, content, lock, task, found, answer>>
    BY <1>4, <2>2 DEF Cleaned, Goto
  <2>4. step'[p] = "sync" /\ staged'[p] = 0
    BY <1>2, <2>3, Types DEF Parts
  <2>5. "sync" \in Steps \ {"idle"} /\ "sync" \in Route /\ "clean" \in Guarded
    BY <2>1, StepNames DEF Route, Guarded
  <2>6. Own(p)'
    <3>1. Route' = Route /\ Guarded' = Guarded /\ Writable' = Writable
      BY <2>3 DEF Route, Guarded, Writable
    <3>2. Placed(p)'
      BY <1>2, <2>3, <2>4, <2>5, <3>1 DEF Placed, Idle
    <3>3. Staging(p)' /\ Knowing(p)' /\ Settled(p)'
      BY <1>2, <2>2, <2>3, <2>4 DEF Own, Staging, Knowing, Settled, Unmade, Written, Renames
    <3>4. (step[p] \in Guarded => lock = p)'
      BY <1>2, <2>3, <2>5 DEF Own
    <3> QED
      BY <3>2, <3>3, <3>4 DEF Own
  <2> QED
    BY <1>1, <1>2, <2>3, <2>5, <2>6, AtCall, Goes DEF KeepsOrParts
<1> QED
  BY <1>3, <1>4

\* Removing the staging name keeps the invariant, whether it works or not.
LEMMA CleanInv ==
  ASSUME IInv, NEW p \in Process, Clean(p) \/ CleanIgnored(p)
  PROVE  IInv'
<1>1. TypeOK /\ step[p] = "clean" /\ Cleaned(p) /\ spent \in Spending
  BY AtCall DEF IInv, Clean, CleanIgnored, TypeOK, Spending
<1>2. CASE Clean(p)
  BY <1>1, <1>2, Guards, SpendsNothing, CleanedInv DEF Clean
<1>3. CASE CleanIgnored(p)
  <2>1. Spends /\ spent'.faults # 0
    BY <1>1, <1>3, BoundsAssumption DEF CleanIgnored, Spends, Spending
  <2> QED
    BY <1>1, <1>3, <2>1, Guards, CleanedInv DEF CleanIgnored
<1> QED
  BY <1>2, <1>3

\* Returning success keeps the invariant.
LEMMA DoneInv ==
  ASSUME IInv, NEW p \in Process, ~Idle(p), Done(p), Parts(p), UNCHANGED spent
  PROVE  IInv'
<1>1. Spends
  BY SpendsNothing DEF IInv
<1> DEFINE a == Says("done", None, FALSE)
<1>2. a \in Answers /\ a.outcome # "error" /\ Return(p, a)
  BY Saying DEF Done
<1> HIDE DEF a
<1> QED
  BY <1>1, <1>2, Returns

\* The last call keeps the invariant.
LEMMA SyncInv ==
  ASSUME IInv, NEW p \in Process, Sync(p)
  PROVE  IInv'
BY Guards, DoneInv DEF Sync, Idle, IInv

\* Discarding what a blob that was there already makes useless keeps the invariant.
LEMMA DiscardInv ==
  ASSUME IInv, NEW p \in Process, Discard(p)
  PROVE  IInv'
BY Guards, DoneInv DEF Discard, Idle, IInv

\* Before a writer compares with a file that was there already it has staged
\* nothing, unless it is a blob.
LEMMA ComparesUnstaged ==
  ASSUME IInv, NEW p \in Process, step[p] \in {"compare", "again"}
  PROVE  /\ step[p] = "compare" /\ ~Idle(p) /\ dest # 0
         /\ protocol # "blob" => staged[p] = 0
<1>1. ~Idle(p)
  BY DEF Idle
<1>2. TypeOK /\ Own(p) /\ step[p] \in Route /\ protocol \in AllProtocols
  BY <1>1, AtCall
<1>3. step[p] = "compare"
  BY <1>2 DEF Route, AllProtocols
<1> QED
  BY <1>1, <1>2, <1>3 DEF Own, Staging, Unmade, Settled

\* Reusing a record that was there already keeps the invariant.
LEMMA ReuseRecordInv ==
  ASSUME IInv, NEW p \in Process, ReuseRecord(p)
  PROVE  IInv'
<1>1. staged[p] = 0 /\ ~Idle(p)
  BY ComparesUnstaged DEF ReuseRecord
<1> QED
  BY <1>1, Guards, DoneInv DEF ReuseRecord, IInv

\* Refusing a record that was there already keeps the invariant.
LEMMA RefuseRecordInv ==
  ASSUME IInv, NEW p \in Process, RefuseRecord(p)
  PROVE  IInv'
<1>1. staged[p] = 0 /\ ~Idle(p) /\ dest # 0
  BY ComparesUnstaged DEF RefuseRecord
<1>2. Parts(p) /\ Spends
  BY <1>1, Guards, SpendsNothing DEF RefuseRecord, IInv
<1> DEFINE a == Says("conflict", None, FALSE)
<1>3. a \in Answers /\ a.outcome # "error" /\ Return(p, a)
  BY <1>1, Saying DEF RefuseRecord
<1> HIDE DEF a
<1> QED
  BY <1>1, <1>2, <1>3, Returns

\* Comparing a blob with the one that was there already keeps the invariant:
\* they are the same.
LEMMA CompareBlobInv ==
  ASSUME IInv, NEW p \in Process, CompareBlob(p)
  PROVE  IInv'
<1>1. step[p] = "compare" /\ protocol = "blob" /\ ~Idle(p) /\ dest # 0
  BY ComparesUnstaged DEF CompareBlob
<1>2. /\ TypeOK /\ Own(p) /\ task[p].write /\ task[p].arg \in Writable
      /\ protocol \in AllProtocols
  BY <1>1, AtCall
<1>3. HeldBy(dest) = task[p].arg
  BY <1>1, <1>2, Seeing DEF Writable
<1>4. /\ step' = [step EXCEPT ![p] = "discard"] /\ Sees(p, HeldBy(dest))
      /\ UNCHANGED <<protocol, dest, content, staged, debris, lock, found, answer, spent>>
  BY <1>3 DEF CompareBlob, Same, Goto, NoCleanup
<1>5. step'[p] = "discard"
  BY <1>2, <1>4, Types
<1>6. "discard" \in Steps \ {"idle"} /\ "discard" \in Route /\ "compare" \in Guarded
  BY <1>1, StepNames DEF Route, Guarded
<1> DEFINE t == [task[p] EXCEPT !.saw = HeldBy(dest)]
<1>7. /\ t \in Tasks /\ task' = [task EXCEPT ![p] = t]
      /\ (task'[p].write <=> task[p].write) /\ task'[p].saw = task[p].arg
      /\ task'[p].arg = task[p].arg /\ (task'[p].did <=> task[p].did)
  BY <1>1, <1>3, <1>4, Seeing
<1> HIDE DEF t
<1>8. Own(p)'
  <2>1. Route' = Route /\ Guarded' = Guarded /\ Writable' = Writable
    BY <1>4 DEF Route, Guarded, Writable
  <2>2. Placed(p)'
    BY <1>2, <1>5, <1>6, <1>7, <2>1 DEF Placed, Idle
  <2>3. Staging(p)' /\ Knowing(p)' /\ Settled(p)'
    BY <1>1, <1>2, <1>4, <1>5, <1>7
    DEF Own, Staging, Knowing, Settled, Unmade, Written, Renames
  <2>4. (step[p] \in Guarded => lock = p)'
    BY <1>1, <1>2, <1>4, <1>6 DEF Own
  <2> QED
    BY <2>2, <2>3, <2>4 DEF Own
<1> QED
  BY <1>1, <1>2, <1>4, <1>6, <1>7, <1>8, AtCall, SpendsNothing, Goes DEF KeepsOrParts

\* Opening the file keeps the invariant.
LEMMA OpenInv ==
  ASSUME IInv, NEW p \in Process, Open(p)
  PROVE  IInv'
<1>1. step[p] = "open" /\ ~Idle(p)
  BY DEF Open, Idle
<1>2. TypeOK /\ Own(p) /\ Whole /\ task[p] \in Tasks /\ protocol \in AllProtocols
  BY <1>1, AtCall
<1>3. ~task[p].write /\ ~task[p].did /\ "read" \notin Route /\ "read" \notin Guarded
  BY <1>1, <1>2 DEF Own, Placed, Idle, Route, Guarded, AllProtocols
<1>4. /\ step' = [step EXCEPT ![p] = "read"] /\ Sees(p, HeldBy(dest))
      /\ found' = [found EXCEPT ![p] = dest]
      /\ UNCHANGED <<protocol, dest, content, staged, debris, lock, answer, spent>>
  BY DEF Open, Goto
<1>5. step'[p] = "read" /\ found'[p] = dest
  BY <1>2, <1>4, Types
<1> DEFINE t == [task[p] EXCEPT !.saw = HeldBy(dest)]
<1>6. /\ t \in Tasks /\ task' = [task EXCEPT ![p] = t]
      /\ ~task'[p].write /\ ~task'[p].did /\ task'[p].saw = HeldBy(dest)
  <2>1. HeldBy(dest) \in Value \cup {None}
    BY <1>1, Seeing DEF HeldBy
  <2>2. t \in Tasks /\ ~t.write /\ ~t.did /\ t.saw = HeldBy(dest)
    BY <1>2, <1>3, <2>1 DEF Tasks
  <2>3. task' = [task EXCEPT ![p] = t]
    BY <1>4 DEF Sees
  <2> HIDE DEF t
  <2> QED
    BY <1>2, <2>2, <2>3, Types
<1> HIDE DEF t
<1>7. Own(p)'
  <2>1. Route' = Route /\ Guarded' = Guarded
    BY <1>4 DEF Route, Guarded
  <2>2. Placed(p)'
    BY <1>5, <1>6 DEF Placed, Idle
  <2>3. Staging(p)' /\ Knowing(p)' /\ Settled(p)'
    BY <1>1, <1>2, <1>4, <1>5, <1>6
    DEF Own, Staging, Knowing, Settled, Unmade, Written, Renames, HeldBy
  <2> QED
    BY <1>3, <1>5, <2>1, <2>2, <2>3 DEF Own
<1>8. "read" \in Steps \ {"idle"}
  BY StepNames
<1> QED
  BY <1>1, <1>2, <1>4, <1>6, <1>7, <1>8, SpendsNothing, Goes DEF KeepsOrParts

\* Reading what was opened keeps the invariant.
LEMMA ReadInv ==
  ASSUME IInv, NEW p \in Process, Read(p)
  PROVE  IInv'
<1>1. step[p] = "read" /\ ~Idle(p)
  BY DEF Read, Idle
<1>2. TypeOK /\ Own(p) /\ Whole
  BY <1>1, AtCall
<1>3. staged[p] = 0 /\ HeldBy(found[p]) \in Value \cup {None}
  BY <1>1, <1>2 DEF Own, Staging, Unmade, Whole, HeldBy
<1>4. Parts(p) /\ Spends
  BY <1>2, <1>3, Guards, SpendsNothing DEF Read
<1> DEFINE a == Says("read", HeldBy(found[p]), FALSE)
<1>5. a \in Answers /\ a.outcome # "error" /\ Return(p, a)
  BY <1>3, Saying DEF Read
<1> HIDE DEF a
<1> QED
  BY <1>1, <1>4, <1>5, Returns

\* A call that fails keeps the invariant.
LEMMA FailInv ==
  ASSUME IInv, NEW p \in Process, Fail(p)
  PROVE  IInv'
<1>1. TypeOK /\ ~Idle(p) /\ spent \in Spending
  BY AtCall DEF Fail
<1>2. /\ Spends /\ spent'.faults # 0
      /\ DropGuard(p) \/ Abandon(p)
  BY <1>1, BoundsAssumption DEF Fail, Faulty, Spends, Spending
<1>3. Parts(p)
  BY <1>1, <1>2, Guards
<1> DEFINE a == Says("error", None, MayHavePublished(p))
<1>4. a \in Answers /\ Return(p, a)
  BY Saying DEF Fail, MayHavePublished
<1> HIDE DEF a
<1> QED
  BY <1>1, <1>2, <1>3, <1>4, Returns

\* A process that dies keeps the invariant.
LEMMA CrashInv ==
  ASSUME IInv, NEW p \in Process, Crash(p)
  PROVE  IInv'
<1>1. TypeOK /\ ~Idle(p) /\ spent \in Spending
  BY AtCall DEF Crash
<1>2. Spends /\ spent'.crashes # 0
  BY <1>1, BoundsAssumption DEF Crash, Spends, Spending
<1>3. Parts(p)
  BY <1>1, <1>2, Guards DEF Crash
<1> DEFINE a == Says("crashed", None, FALSE)
<1>4. a \in Answers /\ a.outcome # "error" /\ Return(p, a)
  BY Saying DEF Crash
<1> HIDE DEF a
<1> QED
  BY <1>1, <1>2, <1>3, <1>4, Returns

-----------------------------------------------------------------------------
(* Steps that make or change a file.                                       *)

\* What holds where no call has failed and nobody interfered stays so where
\* nothing is answered and nothing left behind.
LEMMA StaysUndisturbed ==
  ASSUME IInv, protocol' = protocol, debris' = debris,
         \A q \in Process :
             /\ answer'[q] = answer[q] \/ answer'[q] = None
             /\ Idle(q)' => staged'[q] = staged[q] /\ Idle(q),
         spent'.faults = 0 /\ spent'.crashes = 0 /\ spent'.foreign = 0 =>
             spent.faults = 0 /\ spent.crashes = 0 /\ spent.foreign = 0
  PROVE  UndisturbedLeavesNothing'
<1>1. UndisturbedLeavesNothing
  BY DEF IInv
<1> QED
  BY <1>1 DEF UndisturbedLeavesNothing

\* A set has at most one member more with one more element.
LEMMA OneMore ==
  ASSUME NEW S, NEW x, IsFiniteSet(S), NEW T, T \subseteq S \cup {x}
  PROVE  /\ IsFiniteSet(T) /\ Cardinality(T) \in Nat /\ Cardinality(S) \in Nat
         /\ Cardinality(T) <= Cardinality(S) + 1
<1>1. Cardinality(S) \in Nat
  BY FS_CardinalityType
<1>2. IsFiniteSet(S \cup {x})
  BY FS_AddElement
<1>3. Cardinality(S \cup {x}) = IF x \in S THEN Cardinality(S) ELSE Cardinality(S) + 1
  BY FS_AddElement, Zenon
<1>4. Cardinality(S \cup {x}) \in Nat /\ Cardinality(S \cup {x}) <= Cardinality(S) + 1
  BY <1>1, <1>3
<1>5. IsFiniteSet(T) /\ Cardinality(T) <= Cardinality(S \cup {x})
  BY <1>2, FS_Subset
<1>6. Cardinality(T) \in Nat
  BY <1>5, FS_CardinalityType
<1> QED
  BY <1>1, <1>4, <1>5, <1>6

\* An operation that begins may stage a file, and leave its name behind.
LEMMA BeginCount ==
  ASSUME IInv, NEW p \in Process, Made' = Made, debris' = debris,
         Unstaged' \subseteq Unstaged \cup {p}, Owing' \subseteq Owing \cup {p},
         spent'.ops = spent.ops + 1, spent'.foreign = spent.foreign
  PROVE  Counted'
<1>1. TypeOK /\ Counted
  BY DEF IInv
<1>2. spent.ops \in Nat /\ spent.foreign \in Nat /\ debris \in Nat
  BY <1>1, Types
<1>3. /\ Cardinality(Unstaged') <= Cardinality(Unstaged) + 1 /\ Cardinality(Unstaged') \in Nat
      /\ Cardinality(Owing') <= Cardinality(Owing) + 1 /\ Cardinality(Owing') \in Nat
      /\ IsFiniteSet(Owing')
  BY <1>1, Counts, OneMore
<1>4. Cardinality(Made) \in Nat /\ Cardinality(Unstaged) \in Nat /\ Cardinality(Owing) \in Nat
  BY <1>1, Counts
<1>5. Made' = 1 .. Cardinality(Made') /\ Cardinality(Made') = Cardinality(Made)
  BY <1>1 DEF Counted
<1>6. Cardinality(Made') + Cardinality(Unstaged') <= spent'.ops + spent'.foreign
  BY <1>1, <1>2, <1>3, <1>4, <1>5, SMTT(30) DEF Counted
<1>7. debris' + Cardinality(Owing') <= spent'.ops
  BY <1>1, <1>2, <1>3, <1>4, SMTT(30) DEF Counted
<1> QED
  BY <1>3, <1>5, <1>6, <1>7 DEF Counted

\* Beginning an operation keeps the invariant.
LEMMA BeginInv ==
  ASSUME IInv, NEW p \in Process, NEW write \in BOOLEAN,
         NEW v, IF write THEN v \in Writable ELSE v = None, Begin(p, write, v)
  PROVE  IInv'
<1>1. TypeOK /\ Counted /\ Own(p) /\ Idle(p)
  BY DEF IInv, Own, Begin
<1> DEFINE s == IF write THEN FirstCall ELSE "open"
           t == [write |-> write, arg |-> v, did |-> FALSE, saw |-> Nothing]
<1>2. /\ step' = [step EXCEPT ![p] = s] /\ task' = [task EXCEPT ![p] = t]
      /\ spent' = [spent EXCEPT !.ops = @ + 1] /\ spent.ops < MaxOps
      /\ answer' = [answer EXCEPT ![p] = None]
      /\ UNCHANGED <<protocol, dest, content, staged, debris, lock, found>>
  BY DEF Begin, Goto
<1>3. /\ t \in Tasks /\ (t.write <=> write) /\ t.arg = v /\ ~t.did
  BY WritableValue DEF Tasks
<1>4. protocol \in AllProtocols /\ spent \in Spending
  BY <1>1, Types DEF TypeOK, Spending
<1>5. s \in Steps \ {"idle"} /\ s \in {"lock", "look", "stage", "open"}
  BY <1>4, StepNames, CreateCalls, RecordCalls, MutableCalls, BlobCalls, HintCalls DEF AllProtocols
<1>6. write => s \in Route /\ s \notin Guarded /\ (protocol = "blob" => s = "stage")
  BY <1>4, CreateCalls, RecordCalls, MutableCalls, BlobCalls, HintCalls
  DEF AllProtocols, Route, Guarded
<1>7. ~write => s = "open" /\ s \notin Guarded
  BY <1>4 DEF Guarded, Route, AllProtocols
<1> HIDE DEF s, t
<1>8. /\ step'[p] = s /\ task'[p] = t
      /\ \A q \in Process \ {p} : step'[q] = step[q] /\ task'[q] = task[q] /\ answer'[q] = answer[q]
      /\ answer'[p] = None
  BY <1>1, <1>2, Types
<1>9. /\ spent' \in Spending /\ spent'.ops = spent.ops + 1 /\ spent'.foreign = spent.foreign
      /\ spent'.faults = spent.faults /\ spent'.crashes = spent.crashes
      /\ spent.ops \in Nat
  BY <1>2, <1>4, BoundsAssumption DEF Spending
<1>10. CallOf(p) /\ Fills(p)
  BY <1>1, <1>2, <1>8, <1>9, Types DEF CallOf, Fills
<1>11. staged[p] = 0
  BY <1>1 DEF Own, Staging, Unmade, Idle
<1>12. Counted'
  <2>1. Unstaged' \subseteq Unstaged \cup {p} /\ Owing' \subseteq Owing \cup {p}
    BY <1>2, <1>8 DEF Unstaged, Owing
  <2>2. Made' = Made /\ debris' = debris
    BY <1>2 DEF Made
  <2> QED
    BY <1>9, <2>1, <2>2, BeginCount
<1>13. TypeOK'
  <2>1. step' \in [Process -> Steps] /\ task' \in [Process -> Tasks \cup {None}]
        /\ answer' \in [Process -> Answers \cup {None}]
    BY <1>1, <1>2, <1>3, <1>5, Types
  <2>2. \A q \in Process : (Idle(q) <=> task[q] = None)'
    BY <1>1, <1>3, <1>5, <1>8, NoneAssumption DEF TypeOK, Idle
  <2>3. lock # None => step'[lock] # "idle"
    BY <1>1, <1>5, <1>8 DEF TypeOK, Idle
  <2> QED
    BY <1>1, <1>2, <1>9, <2>1, <2>2, <2>3 DEF TypeOK, Spending, Idle
<1>14. Own(p)'
  <2>1. Route' = Route /\ Guarded' = Guarded /\ Writable' = Writable
    BY <1>2 DEF Route, Guarded, Writable
  <2>2. Placed(p)'
    BY <1>3, <1>5, <1>6, <1>7, <1>8, <2>1 DEF Placed, Idle
  <2>3. Staging(p)' /\ Knowing(p)'
    BY <1>2, <1>3, <1>5, <1>6, <1>7, <1>8, <1>11 DEF Staging, Knowing, Unmade, Written
  <2>4. Settled(p)'
    <3>1. protocol \in {"record", "hint"} => s # "stage"
      BY <1>4, <1>7, RecordCalls, HintCalls DEF s
    <3> QED
      BY <1>2, <1>5, <1>8, <3>1 DEF Settled
  <2> QED
    BY <1>6, <1>7, <1>8, <2>1, <2>2, <2>3, <2>4 DEF Own
<1>15. UndisturbedLeavesNothing'
  BY <1>2, <1>5, <1>8, <1>9, StaysUndisturbed DEF Idle
<1>16. found'[p] \in {0, dest, found[p]} /\ dest' = dest
  BY <1>2
<1> QED
  BY <1>10, <1>12, <1>13, <1>14, <1>15, <1>16, CalmCall

\* A new inode is the next of those that are made.
LEMMA FreshInode ==
  ASSUME IInv, Cardinality(Made) < MaxOps + MaxForeign,
         NEW x \in Value \cup {Torn}, content' = [content EXCEPT ![Fresh] = x]
  PROVE  /\ Fresh \in Inode /\ Fresh \in Nat /\ Fresh # 0
         /\ content[Fresh] = None /\ content'[Fresh] = x
         /\ \A n \in Inode : content[n] # None => n # Fresh /\ content'[n] = content[n]
         /\ Made' = 1 .. Cardinality(Made') /\ Cardinality(Made') = Cardinality(Made) + 1
         /\ content' \in [Inode -> Value \cup {None, Torn}]
<1>1. TypeOK /\ Counted
  BY DEF IInv
<1> DEFINE k == Cardinality(Made)
<1>2. k \in Nat /\ Made = 1 .. k /\ IsFiniteSet(Made)
  BY <1>1, Counts DEF Counted
<1>3. Fresh = k + 1
  BY DEF Fresh, Made
<1>4. MaxOps + MaxForeign \in Nat /\ Inode = 1 .. (MaxOps + MaxForeign)
  BY BoundsAssumption DEF Inode
<1> HIDE DEF k
<1>5. Fresh \in Inode /\ Fresh \notin Made /\ Fresh \in Nat /\ Fresh # 0
  <2>1. k < MaxOps + MaxForeign
    BY DEF k
  <2> QED
    BY <1>2, <1>3, <1>4, <2>1
<1>6. content \in [Inode -> Value \cup {None, Torn}] /\ x # None
  BY <1>1, NoneAssumption, Types
<1>7. Made' = Made \cup {Fresh}
  BY <1>5, <1>6 DEF Made
<1>8. Made \cup {Fresh} = 1 .. (k + 1)
  BY <1>2, <1>3
<1>9. Cardinality(Made') = k + 1
  <2>1. Cardinality(Made \cup {Fresh}) = k + 1
    BY <1>2, <1>5, FS_AddElement DEF k
  <2> QED
    BY <1>7, <2>1
<1>10. content[Fresh] = None
  BY <1>5 DEF Made
<1> QED
  BY <1>5, <1>6, <1>7, <1>8, <1>9, <1>10 DEF k

\* There is an inode left for a writer that has yet to stage.
LEMMA RoomToStage ==
  ASSUME IInv, NEW p \in Unstaged
  PROVE  Cardinality(Made) < MaxOps + MaxForeign
<1>1. TypeOK /\ Counted
  BY DEF IInv
<1>2. /\ spent.ops \in Nat /\ spent.foreign \in Nat
      /\ spent.ops <= MaxOps /\ spent.foreign <= MaxForeign /\ MaxOps \in Nat /\ MaxForeign \in Nat
  BY <1>1, BoundsAssumption DEF TypeOK
<1>3. Cardinality(Unstaged \ {p}) = Cardinality(Unstaged) - 1 /\ Cardinality(Unstaged \ {p}) \in Nat
  BY <1>1, Counts, FS_RemoveElement, FS_CardinalityType
<1> QED
  BY <1>1, <1>2, <1>3, Counts DEF Counted

\* There is an inode left for another program.
LEMMA RoomForForeign ==
  ASSUME IInv, NEW v \in Value, Foreign(v)
  PROVE  Cardinality(Made) < MaxOps + MaxForeign
<1>1. TypeOK /\ Counted /\ spent.foreign < MaxForeign
  BY DEF IInv, Foreign
<1>2. /\ spent.ops \in Nat /\ spent.foreign \in Nat
      /\ spent.ops <= MaxOps /\ MaxOps \in Nat /\ MaxForeign \in Nat
  BY <1>1, BoundsAssumption DEF TypeOK
<1> QED
  BY <1>1, <1>2, Counts DEF Counted

\* Making the staging file keeps the invariant (create_new).
LEMMA StageInv ==
  ASSUME IInv, NEW p \in Process, Stage(p)
  PROVE  IInv'
<1>1. step[p] = "stage" /\ ~Idle(p)
  BY DEF Stage, Idle
<1>2. /\ TypeOK /\ Own(p) /\ Whole /\ Counted
      /\ task[p].write /\ "stage" \in Route /\ task[p].arg \in Writable
      /\ protocol \in AllProtocols
  BY <1>1, AtCall DEF IInv
<1>3. staged[p] = 0 /\ p \in Unstaged
  BY <1>1, <1>2 DEF Own, Staging, Unmade, Unstaged
<1>4. /\ spent.ops \in Nat /\ spent.foreign \in Nat /\ debris \in Nat
      /\ spent.ops <= MaxOps /\ spent.foreign <= MaxForeign /\ MaxOps \in Nat /\ MaxForeign \in Nat
  BY <1>2, BoundsAssumption DEF TypeOK
<1>5. /\ IsFiniteSet(Unstaged \ {p}) /\ Cardinality(Unstaged \ {p}) = Cardinality(Unstaged) - 1
      /\ Cardinality(Unstaged \ {p}) \in Nat
  BY <1>2, <1>3, Counts, FS_RemoveElement, FS_CardinalityType
<1>6. Cardinality(Made) < MaxOps + MaxForeign
  BY <1>3, RoomToStage
<1>7. NextCall("stage") = "write"
  BY <1>2, CreateCalls, RecordCalls, MutableCalls, BlobCalls, HintCalls DEF AllProtocols
<1>8. /\ step' = [step EXCEPT ![p] = "write"]
      /\ staged' = [staged EXCEPT ![p] = Fresh]
      /\ content' = [content EXCEPT ![Fresh] = Torn]
      /\ UNCHANGED <<protocol, dest, debris, lock, task, found, answer, spent>>
  BY <1>1, <1>7 DEF Stage, Advance, Goto
<1>9. /\ Fresh \in Inode /\ Fresh \in Nat /\ Fresh # 0
      /\ content[Fresh] = None /\ content'[Fresh] = Torn
      /\ \A n \in Inode : content[n] # None => n # Fresh /\ content'[n] = content[n]
      /\ Made' = 1 .. Cardinality(Made') /\ Cardinality(Made') = Cardinality(Made) + 1
      /\ content' \in [Inode -> Value \cup {None, Torn}]
  BY <1>6, <1>8, FreshInode
<1>10. /\ step'[p] = "write" /\ staged'[p] = Fresh
       /\ \A q \in Process \ {p} : step'[q] = step[q] /\ staged'[q] = staged[q]
  BY <1>2, <1>8, Types
<1>11. CallOf(p) /\ Fills(p)
  BY <1>2, <1>8, <1>9, <1>10, Types DEF CallOf, Fills
<1>12. /\ dest # Fresh
       /\ \A q \in Process : found[q] # Fresh
       /\ \A q \in Process : staged[q] # Fresh
  <2>1. \A n \in 0 .. (MaxOps + MaxForeign) : n # 0 => n \in Inode
    BY <1>4 DEF Inode
  <2>2. /\ dest # 0 => dest \in Inode /\ content[dest] # None
        /\ \A q \in Process : found[q] # 0 => found[q] \in Inode /\ content[found[q]] # None
        /\ \A q \in Process : staged[q] # 0 => staged[q] \in Inode /\ content[staged[q]] # None
    <3>1. \A q \in Process : Staging(q)
      BY DEF IInv
    <3> QED
      BY <1>2, <2>1, <3>1, NoneAssumption DEF TypeOK, Whole, Staging
  <2> QED
    BY <1>9, <2>2
<1>13. Counted'
  <2>1. Unstaged' = Unstaged \ {p} /\ Owing' = Owing
    BY <1>3, <1>9, <1>10 DEF Unstaged, Owing
  <2> QED
    BY <1>2, <1>4, <1>5, <1>8, <1>9, <2>1, Counts DEF Counted
<1>14. TypeOK'
  <2>1. step' \in [Process -> Steps] /\ staged' \in [Process -> 0 .. (MaxOps + MaxForeign)]
    BY <1>2, <1>4, <1>8, <1>9, StepNames, Types DEF TypeOK, Inode
  <2>2. \A q, r \in Process : staged'[q] = staged'[r] /\ q # r => staged'[q] = 0
    BY <1>2, <1>10, <1>12 DEF TypeOK
  <2>3. \A q \in Process : (Idle(q) <=> task[q] = None)'
    BY <1>1, <1>2, <1>8, <1>10 DEF TypeOK, Idle
  <2>4. lock # None => step'[lock] # "idle"
    BY <1>2, <1>10 DEF TypeOK, Idle
  <2>5. dest # 0 => content'[dest] # None
    BY <1>2, HeldStays, <1>11, NoneAssumption
  <2> QED
    BY <1>2, <1>8, <1>9, <2>1, <2>2, <2>3, <2>4, <2>5 DEF TypeOK, Idle
<1>15. Own(p)'
  <2>1. Route' = Route /\ Guarded' = Guarded /\ Writable' = Writable
    BY <1>8 DEF Route, Guarded, Writable
  <2>2. "write" \in Route /\ ("write" \in Guarded => "stage" \in Guarded)
    BY <1>2 DEF Route, Guarded, AllProtocols
  <2>3. Placed(p)'
    BY <1>2, <1>8, <1>10, <2>1, <2>2 DEF Placed, Idle
  <2>4. Staging(p)'
    BY <1>8, <1>9, <1>10, <1>12, NoneAssumption DEF Staging, Unmade, Written
  <2>5. Knowing(p)' /\ Settled(p)'
    BY <1>1, <1>2, <1>8, <1>10 DEF Own, Knowing, Settled
  <2>6. (step[p] \in Guarded => lock = p)'
    BY <1>1, <1>2, <1>8, <1>10, <2>1, <2>2 DEF Own
  <2> QED
    BY <2>3, <2>4, <2>5, <2>6 DEF Own
<1>16. UndisturbedLeavesNothing'
  BY <1>8, <1>10, StaysUndisturbed DEF Idle
<1>17. found'[p] \in {0, dest, found[p]} /\ dest' = dest
  BY <1>8
<1> QED
  BY <1>11, <1>13, <1>14, <1>15, <1>16, <1>17, CalmCall

\* Filling the staging file keeps the invariant.
LEMMA WriteInv ==
  ASSUME IInv, NEW p \in Process, Write(p)
  PROVE  IInv'
<1>1. step[p] = "write" /\ ~Idle(p)
  BY DEF Write, Idle
<1>2. /\ TypeOK /\ Own(p) /\ Whole /\ Counted
      /\ task[p].write /\ "write" \in Route /\ task[p].arg \in Writable /\ task[p].arg \in Value
      /\ protocol \in AllProtocols
  BY <1>1, AtCall DEF IInv
<1> DEFINE n == staged[p]
           s == NextCall("write")
<1>3. /\ n # 0 /\ n # dest /\ n \in Inode /\ content[n] # None
      /\ \A q \in Process : found[q] # n
      /\ content \in [Inode -> Value \cup {None, Torn}]
  BY <1>1, <1>2, BoundsAssumption, SMTT(30) DEF Own, Staging, TypeOK, Inode
<1>4. s = IF protocol = "blob" THEN "lock" ELSE "install"
  BY <1>2, CreateCalls, RecordCalls, MutableCalls, BlobCalls, HintCalls DEF AllProtocols
<1>5. /\ step' = [step EXCEPT ![p] = s]
      /\ content' = [content EXCEPT ![n] = task[p].arg]
      /\ UNCHANGED <<protocol, dest, staged, debris, lock, task, found, answer, spent>>
  BY <1>1 DEF Write, Advance, Goto
<1>6. /\ s \in Steps \ {"idle"} /\ s \in Route
      /\ s \in Guarded => "write" \in Guarded
  BY <1>2, <1>4, StepNames DEF Route, Guarded, AllProtocols
<1>7. /\ content'[n] = task[p].arg
      /\ \A m \in Inode \ {n} : content'[m] = content[m]
      /\ content' \in [Inode -> Value \cup {None, Torn}]
  BY <1>2, <1>3, <1>5
<1> HIDE DEF n, s
<1>8. /\ step'[p] = s
      /\ \A q \in Process \ {p} : step'[q] = step[q]
  BY <1>2, <1>5, Types
<1>9. CallOf(p) /\ Fills(p)
  BY <1>1, <1>2, <1>5, <1>7, <1>8, Types DEF CallOf, Fills, n
<1>10. Counted' /\ debris' \in Nat
  <2>1. Unstaged' \subseteq Unstaged /\ Owing' \subseteq Owing
    BY <1>3, <1>5, <1>8 DEF Unstaged, Owing, n
  <2>2. Made' = Made
    BY <1>2, <1>3, <1>7, NoneAssumption DEF Made
  <2> QED
    BY <1>5, <2>1, <2>2, KeepsCount
<1>11. TypeOK'
  <2>1. step' \in [Process -> Steps]
    BY <1>2, <1>5, <1>6, Types
  <2>2. \A q \in Process : (Idle(q) <=> task[q] = None)'
    BY <1>1, <1>2, <1>5, <1>6, <1>8 DEF TypeOK, Idle
  <2>3. lock # None => step'[lock] # "idle"
    BY <1>2, <1>6, <1>8 DEF TypeOK, Idle
  <2>4. dest # 0 => content'[dest] # None
    BY <1>2, HeldStays, <1>9, NoneAssumption
  <2> QED
    BY <1>2, <1>5, <1>7, <2>1, <2>2, <2>3, <2>4 DEF TypeOK, Idle
<1>12. Own(p)'
  <2>1. Route' = Route /\ Guarded' = Guarded /\ Writable' = Writable
    BY <1>5 DEF Route, Guarded, Writable
  <2>2. Placed(p)'
    BY <1>2, <1>5, <1>6, <1>8, <2>1 DEF Placed, Idle
  <2>3. Staging(p)'
    BY <1>2, <1>3, <1>4, <1>5, <1>7, <1>8, NoneAssumption DEF Staging, Unmade, Written, n
  <2>4. Knowing(p)' /\ Settled(p)'
    BY <1>1, <1>2, <1>4, <1>5, <1>8 DEF Own, Knowing, Settled
  <2>5. (step[p] \in Guarded => lock = p)'
    BY <1>1, <1>2, <1>5, <1>6, <1>8, <2>1 DEF Own
  <2> QED
    BY <2>2, <2>3, <2>4, <2>5 DEF Own
<1>13. UndisturbedLeavesNothing'
  BY <1>5, <1>6, <1>8, StaysUndisturbed DEF Idle
<1>14. found'[p] \in {0, dest, found[p]} /\ dest' = dest
  BY <1>5
<1> QED
  BY <1>9, <1>10, <1>11, <1>12, <1>13, <1>14, CalmCall

-----------------------------------------------------------------------------
(* Steps that change what is under the name.                               *)

\* A process that does not move keeps its part of the invariant when the file
\* changes, where the change is not one that its calls exclude.
LEMMA Remains ==
  ASSUME IInv, NEW q \in Process, protocol' = protocol,
         step'[q] = step[q], task'[q] = task[q], staged'[q] = staged[q], found' = found,
         found[q] # 0 => content'[found[q]] = content[found[q]],
         staged[q] # 0 => content'[staged[q]] = content[staged[q]] /\ dest' # staged[q],
         lock' = lock, Settled(q)'
  PROVE  Own(q)'
<1>1. Own(q)
  BY DEF IInv, Own
<1>2. Route' = Route /\ Guarded' = Guarded /\ Writable' = Writable
  BY DEF Route, Guarded, Writable
<1>3. Placed(q)'
  BY <1>1, <1>2 DEF Own, Placed, Idle
<1>4. Staging(q)'
  BY <1>1 DEF Own, Staging, Unmade, Written, Renames
<1>5. Knowing(q)'
  BY <1>1 DEF Own, Knowing, HeldBy
<1> QED
  BY <1>1, <1>2, <1>3, <1>4, <1>5 DEF Own

\* Only the holder of the lock makes the calls that are made under it.
LEMMA OneGuarded ==
  ASSUME IInv, NEW p \in Process, NEW q \in Process,
         step[p] \in Guarded, step[q] \in Guarded
  PROVE  p = q
BY DEF IInv

\* Installing the staging file keeps the invariant (install_staged_replace,
\* install_staged_create_once).
LEMMA InstallInv ==
  ASSUME IInv, NEW p \in Process, Install(p)
  PROVE  IInv'
<1>1. step[p] = "install" /\ ~Idle(p) /\ (Renames \/ dest = 0)
  BY DEF Install, Idle
<1>2. /\ TypeOK /\ Own(p) /\ Whole /\ Counted /\ task[p] \in Tasks
      /\ task[p].write /\ "install" \in Route /\ task[p].arg \in Writable /\ task[p].arg \in Value
      /\ protocol \in AllProtocols
  BY <1>1, AtCall DEF IInv
<1> DEFINE n == staged[p]
           t == [task[p] EXCEPT !.did = TRUE, !.saw = content[n]]
<1>3. /\ n # 0 /\ n \in Inode /\ content[n] = task[p].arg /\ n \in 0 .. (MaxOps + MaxForeign)
  BY <1>1, <1>2, BoundsAssumption DEF Own, Staging, Written, TypeOK, Inode
<1>4. NextCall("install") = "reread"
  BY <1>2, CreateCalls, RecordCalls, MutableCalls, BlobCalls, HintCalls DEF AllProtocols
<1>5. /\ step' = [step EXCEPT ![p] = "reread"]
      /\ dest' = n /\ task' = [task EXCEPT ![p] = t]
      /\ staged' = [staged EXCEPT ![p] = IF Renames THEN 0 ELSE @]
      /\ UNCHANGED <<protocol, content, debris, lock, found, answer, spent>>
  BY <1>1, <1>4 DEF Install, Advance, Goto
<1>6. /\ "reread" \in Steps \ {"idle"} /\ "reread" \in Route
      /\ "reread" \in Guarded => "install" \in Guarded
      /\ protocol # "create" => "install" \in Guarded
  BY <1>2, StepNames DEF Route, Guarded, AllProtocols
<1>7. t \in Tasks /\ t.write /\ t.did /\ t.arg = task[p].arg
  BY <1>2, <1>3 DEF Tasks
<1> HIDE DEF n, t
<1>8. /\ step'[p] = "reread" /\ task'[p] = t /\ staged'[p] = IF Renames THEN 0 ELSE staged[p]
      /\ \A q \in Process \ {p} :
           step'[q] = step[q] /\ task'[q] = task[q] /\ staged'[q] = staged[q]
  BY <1>2, <1>5, Types
<1>9. HeldBy(dest)' = task[p].arg
  BY <1>3, <1>5 DEF HeldBy
<1>10. ASSUME NEW q \in Process \ {p} PROVE Own(q)'
  <2>1. Own(q) /\ (staged[q] # 0 => staged[q] # n)
    BY <1>2 DEF IInv, Own, TypeOK, n
  <2>2. Settled(q)'
    <3>1. protocol \in {"record", "hint"} => step[q] \notin {"stage", "write", "install"}
      <4>1. protocol \in {"record", "hint"} =>
              {"stage", "write", "install"} \subseteq Guarded
        BY DEF Guarded, Route
      <4> QED
        BY <1>1, <1>6, <4>1, OneGuarded
    <3>2. step[q] = "reread" => spent.foreign # 0
      <4> SUFFICES ASSUME step[q] = "reread", spent.foreign = 0 PROVE FALSE
        OBVIOUS
      <4>1. ~Idle(q)
        BY DEF Idle
      <4>2. task[q].arg \in Value
        BY <4>1, <2>1, WritableValue DEF Own, Placed
      <4>3. HeldBy(dest) = task[q].arg
        BY <2>1 DEF Own, Settled
      <4>4. dest # 0
        BY <4>2, <4>3, NoneAssumption DEF HeldBy
      <4>5. Renames
        BY <1>1, <4>4
      <4>6. {"reread", "install"} \subseteq Guarded
        BY <4>5 DEF Renames, Guarded, Route
      <4> QED
        BY <1>1, <4>6, OneGuarded
    <3> QED
      BY <1>3, <1>5, <1>8, <3>1, <3>2 DEF Settled
  <2> QED
    BY <1>5, <1>8, <2>1, <2>2, Remains
<1>11. Own(p)'
  <2>1. Route' = Route /\ Guarded' = Guarded /\ Writable' = Writable
    BY <1>5 DEF Route, Guarded, Writable
  <2>2. Placed(p)'
    BY <1>2, <1>6, <1>7, <1>8, <2>1 DEF Placed, Idle
  <2>3. Staging(p)'
    BY <1>2, <1>3, <1>5, <1>8 DEF Own, Staging, Unmade, Written, Renames, n
  <2>4. Knowing(p)'
    BY <1>7, <1>8 DEF Knowing
  <2>5. Settled(p)'
    BY <1>7, <1>8, <1>9 DEF Settled
  <2>6. (step[p] \in Guarded => lock = p)'
    BY <1>1, <1>2, <1>5, <1>6, <2>1 DEF Own
  <2> QED
    BY <2>2, <2>3, <2>4, <2>5, <2>6 DEF Own
<1>12. Whole'
  <2>1. Writable' = Writable
    BY <1>5 DEF Writable
  <2> QED
    BY <1>2, <1>3, <1>5, <2>1 DEF Whole
<1>13. Counted'
  <2>1. Unstaged' \subseteq Unstaged /\ Owing' \subseteq Owing
    BY <1>8 DEF Unstaged, Owing
  <2>2. Made' = Made
    BY <1>5 DEF Made
  <2> QED
    BY <1>5, <2>1, <2>2, KeepsCount
<1>14. TypeOK'
  <2>1. step' \in [Process -> Steps] /\ task' \in [Process -> Tasks \cup {None}]
    BY <1>2, <1>5, <1>6, <1>7, Types
  <2>2. staged' \in [Process -> 0 .. (MaxOps + MaxForeign)]
    BY <1>2, <1>5, BoundsAssumption DEF TypeOK
  <2>3. \A q, r \in Process : staged'[q] = staged'[r] /\ q # r => staged'[q] = 0
    BY <1>2, <1>8 DEF TypeOK
  <2>4. \A q \in Process : (Idle(q) <=> task[q] = None)'
    BY <1>1, <1>2, <1>7, <1>8, NoneAssumption DEF TypeOK, Idle
  <2>5. lock # None => step'[lock] # "idle"
    BY <1>2, <1>8 DEF TypeOK, Idle
  <2>6. dest' # 0 => content[dest'] # None
    BY <1>2, <1>3, <1>5, NoneAssumption
  <2> QED
    BY <1>2, <1>3, <1>5, <2>1, <2>2, <2>3, <2>4, <2>5, <2>6 DEF TypeOK, Idle
<1>15. UndisturbedLeavesNothing'
  BY <1>5, <1>8, StaysUndisturbed DEF Idle
<1> QED
  BY <1>10, <1>11, <1>12, <1>13, <1>14, <1>15 DEF IInv, Own

\* A collector that takes a blob away keeps the invariant.
LEMMA CollectInv ==
  ASSUME IInv, Collect
  PROVE  IInv'
<1>1. /\ protocol = "blob" /\ lock = None /\ dest' = 0
      /\ spent.removals < MaxRemovals /\ spent' = [spent EXCEPT !.removals = @ + 1]
      /\ UNCHANGED <<protocol, content, staged, debris, lock, step, task, found, answer>>
  BY DEF Collect
<1>2. TypeOK /\ Counted /\ Whole /\ spent \in Spending
  BY DEF IInv, TypeOK, Spending
<1>3. /\ spent' \in Spending /\ spent'.ops = spent.ops /\ spent'.foreign = spent.foreign
      /\ spent'.faults = spent.faults /\ spent'.crashes = spent.crashes
  BY <1>1, <1>2, BoundsAssumption DEF Spending
<1>4. ASSUME NEW q \in Process PROVE Own(q)'
  <2>1. step[q] \notin {"compare", "reread"}
    BY <1>1, NoneAssumption DEF IInv, Guarded, Route
  <2>2. Settled(q)'
    BY <1>1, <2>1 DEF Settled
  <2> QED
    BY <1>1, <2>2, Remains
<1>5. Counted'
  <2>1. Made' = Made /\ Unstaged' = Unstaged /\ Owing' = Owing
    BY <1>1 DEF Made, Unstaged, Owing
  <2> QED
    BY <1>1, <1>2, <1>3, <2>1 DEF Counted
<1>6. Whole'
  BY <1>1, <1>2 DEF Whole
<1>7. TypeOK'
  BY <1>1, <1>2, <1>3, BoundsAssumption DEF TypeOK, Spending, Idle
<1>8. UndisturbedLeavesNothing'
  BY <1>1, <1>3, StaysUndisturbed DEF Idle
<1> QED
  BY <1>4, <1>5, <1>6, <1>7, <1>8 DEF IInv, Own

\* Another program that writes a mutable file keeps the invariant.
LEMMA ForeignInv ==
  ASSUME IInv, NEW v \in Value, Foreign(v)
  PROVE  IInv'
<1>1. /\ protocol \in {"replace", "etag"}
      /\ spent.foreign < MaxForeign /\ spent' = [spent EXCEPT !.foreign = @ + 1]
      /\ content' = [content EXCEPT ![Fresh] = v] /\ dest' = Fresh
      /\ UNCHANGED <<protocol, staged, debris, lock, step, task, found, answer>>
  BY DEF Foreign
<1>2. TypeOK /\ Counted /\ Whole /\ spent \in Spending
  BY DEF IInv, TypeOK, Spending
<1>3. /\ spent' \in Spending /\ spent'.ops = spent.ops /\ spent'.foreign = spent.foreign + 1
      /\ spent'.faults = spent.faults /\ spent'.crashes = spent.crashes
      /\ spent.foreign \in Nat /\ spent.ops \in Nat /\ spent.ops <= MaxOps
      /\ MaxOps \in Nat /\ MaxForeign \in Nat
  BY <1>1, <1>2, BoundsAssumption DEF Spending
<1>4. Cardinality(Made) < MaxOps + MaxForeign
  BY RoomForForeign
<1>5. /\ Fresh \in Inode /\ Fresh \in Nat /\ Fresh # 0
      /\ content'[Fresh] = v
      /\ \A n \in Inode : content[n] # None => n # Fresh /\ content'[n] = content[n]
      /\ Made' = 1 .. Cardinality(Made') /\ Cardinality(Made') = Cardinality(Made) + 1
      /\ content' \in [Inode -> Value \cup {None, Torn}]
  BY <1>1, <1>4, FreshInode
<1>6. /\ \A q \in Process : found[q] # 0 =>
           content'[found[q]] = content[found[q]] /\ content[found[q]] \in Value
      /\ \A q \in Process : staged[q] # 0 =>
           content'[staged[q]] = content[staged[q]] /\ staged[q] # Fresh
  <2>1. \A n \in 0 .. (MaxOps + MaxForeign) : n # 0 => n \in Inode
    BY <1>3 DEF Inode
  <2>2. /\ \A q \in Process : found[q] # 0 =>
             found[q] \in Inode /\ content[found[q]] # None /\ content[found[q]] \in Value
        /\ \A q \in Process : staged[q] # 0 => staged[q] \in Inode /\ content[staged[q]] # None
    <3>1. \A q \in Process : Staging(q)
      BY DEF IInv
    <3> QED
      BY <1>2, <2>1, <3>1, NoneAssumption DEF TypeOK, Whole, Staging
  <2> QED
    BY <1>5, <2>2
<1>7. ASSUME NEW q \in Process PROVE Own(q)'
  <2>1. Settled(q)'
    BY <1>1, <1>3, <1>5 DEF Settled
  <2> QED
    BY <1>1, <1>6, <2>1, Remains
<1>8. Counted'
  <2>1. Unstaged' = Unstaged /\ Owing' = Owing
    BY <1>1 DEF Unstaged, Owing
  <2> QED
    BY <1>1, <1>2, <1>3, <1>5, <2>1, Counts DEF Counted
<1>9. Whole'
  <2>1. v \in Writable'
    BY <1>1 DEF Writable
  <2> QED
    BY <1>1, <1>5, <1>6, <2>1 DEF Whole
<1>10. TypeOK'
  <2>1. dest' \in 0 .. (MaxOps + MaxForeign) /\ content'[dest'] # None
    BY <1>1, <1>3, <1>5, NoneAssumption DEF Inode
  <2> QED
    BY <1>1, <1>2, <1>3, <1>5, <2>1 DEF TypeOK, Spending, Idle
<1>11. UndisturbedLeavesNothing'
  BY <1>1, <1>3, StaysUndisturbed DEF Idle
<1> QED
  BY <1>7, <1>8, <1>9, <1>10, <1>11 DEF IInv, Own

-----------------------------------------------------------------------------
(* The invariant.                                                          *)

\* The invariant holds initially.
LEMMA InitInv == Init => IInv
<1> SUFFICES ASSUME Init PROVE IInv
  OBVIOUS
<1>1. TypeOK
  <2>1. /\ spent \in Spending /\ "idle" \in Steps
        /\ 0 \in 0 .. (MaxOps + MaxForeign) /\ 0 \in 0 .. MaxOps
    BY BoundsAssumption, StepNames DEF Init, Spending
  <2> QED
    BY <2>1 DEF Init, TypeOK, Spending, Idle
<1>2. UndisturbedLeavesNothing
  BY DEF Init, UndisturbedLeavesNothing
<1>3. Counted
  <2>1. Made = {} /\ Owing = {} /\ Unstaged = {}
    BY DEF Init, Made, Owing, Unstaged
  <2>2. IsFiniteSet({}) /\ Cardinality({}) = 0
    BY FS_EmptySet
  <2>3. 1 .. 0 = {}
    OBVIOUS
  <2> QED
    BY <2>1, <2>2, <2>3 DEF Init, Counted
<1>4. Whole
  BY DEF Init, Whole
<1>5. ASSUME NEW p \in Process PROVE Own(p)
  <2>1. "idle" \notin Guarded
    BY ProtocolsAssumption DEF Init, Guarded, Route, AllProtocols
  <2>2. step[p] = "idle" /\ staged[p] = 0
    BY DEF Init
  <2> QED
    BY <2>1, <2>2 DEF Own, Placed, Idle, Staging, Written, Knowing, Settled
<1> QED
  BY <1>1, <1>2, <1>3, <1>4, <1>5 DEF IInv, Own

\* Every call of a process keeps the invariant.
LEMMA CallInv ==
  ASSUME IInv, NEW p \in Process, Writer(p) \/ Reader(p)
  PROVE  IInv'
<1>1. CASE LockFile(p) BY <1>1, LockFileInv
<1>2. CASE LookMissing(p) BY <1>2, LookMissingInv
<1>3. CASE LookExisting(p) BY <1>3, LookExistingInv
<1>4. CASE CreateExists(p) BY <1>4, CreateExistsInv
<1>5. CASE Stage(p) BY <1>5, StageInv
<1>6. CASE Write(p) BY <1>6, WriteInv
<1>7. CASE Install(p) BY <1>7, InstallInv
<1>8. CASE InstallFindsFile(p) BY <1>8, InstallFindsFileInv
<1>9. CASE RereadSame(p) BY <1>9, RereadSameInv
<1>10. CASE RereadDiffers(p) BY <1>10, RereadDiffersInv
<1>11. CASE Clean(p) \/ CleanIgnored(p) BY <1>11, CleanInv
<1>12. CASE Sync(p) BY <1>12, SyncInv
<1>13. CASE ReuseRecord(p) BY <1>13, ReuseRecordInv
<1>14. CASE RefuseRecord(p) BY <1>14, RefuseRecordInv
<1>15. CASE CompareBlob(p) BY <1>15, CompareBlobInv
<1>16. CASE Discard(p) BY <1>16, DiscardInv
<1>17. CASE Open(p) BY <1>17, OpenInv
<1>18. CASE Read(p) BY <1>18, ReadInv
<1> QED
  BY <1>1, <1>2, <1>3, <1>4, <1>5, <1>6, <1>7, <1>8, <1>9, <1>10, <1>11, <1>12,
     <1>13, <1>14, <1>15, <1>16, <1>17, <1>18 DEF Writer, Reader

\* A step that changes nothing keeps the invariant.
LEMMA StutterInv == IInv /\ UNCHANGED vars => IInv'
<1> SUFFICES ASSUME IInv, UNCHANGED vars PROVE IInv'
  OBVIOUS
<1>1. TypeOK' /\ UndisturbedLeavesNothing' /\ Whole'
  BY DEF IInv, vars, TypeOK, Idle, UndisturbedLeavesNothing, Whole, Writable
<1>2. Counted'
  <2>1. Made' = Made /\ Unstaged' = Unstaged /\ Owing' = Owing
    BY DEF vars, Made, Unstaged, Owing
  <2> QED
    BY <2>1 DEF IInv, vars, Counted
<1>3. ASSUME NEW q \in Process PROVE Own(q)'
  <2>1. Settled(q)'
    BY DEF IInv, vars, Settled, HeldBy
  <2>2. UNCHANGED <<protocol, dest, content, staged, lock, step, task, found>>
    BY DEF vars
  <2>3. Route' = Route /\ Guarded' = Guarded /\ Writable' = Writable
    BY <2>2 DEF Route, Guarded, Writable
  <2>4. Placed(q)' /\ Knowing(q)'
    BY <2>2, <2>3 DEF IInv, Placed, Idle, Knowing, HeldBy
  <2>5. Staging(q)'
    BY <2>2 DEF IInv, Staging, Unmade, Written, Renames
  <2> QED
    BY <2>1, <2>2, <2>3, <2>4, <2>5 DEF IInv, Own
<1> QED
  BY <1>1, <1>2, <1>3 DEF IInv, Own

\* Every step keeps the invariant.
LEMMA NextInv == IInv /\ [Next]_vars => IInv'
<1> SUFFICES ASSUME IInv, [Next]_vars PROVE IInv'
  OBVIOUS
<1>1. ASSUME NEW p \in Process, NEW v \in Writable, Begin(p, TRUE, v) PROVE IInv'
  BY <1>1, BeginInv
<1>2. ASSUME NEW p \in Process, Begin(p, FALSE, None) PROVE IInv'
  BY <1>2, BeginInv
<1>3. ASSUME NEW p \in Process, Writer(p) \/ Reader(p) PROVE IInv'
  BY <1>3, CallInv
<1>4. ASSUME NEW p \in Process, Fail(p) \/ Crash(p) PROVE IInv'
  BY <1>4, FailInv, CrashInv
<1>5. ASSUME Collect \/ \E v \in Value : Foreign(v) PROVE IInv'
  BY <1>5, CollectInv, ForeignInv
<1>6. CASE UNCHANGED vars
  BY <1>6, StutterInv
<1> QED
  BY <1>1, <1>2, <1>3, <1>4, <1>5, <1>6 DEF Next

\* What ties the calls of the writers to each other always holds: a staging
\* name is its writer's own and whole before it is installed, what is under
\* the name or open is whole, and the calls under the lock are its holder's.
THEOREM Inductive == Spec => []IInv
<1> QED
  BY InitInv, NextInv, PTL DEF Spec

\* Every variable has its type, no two writers share a staging file, and what
\* is under the name was made (StagingCleanup, OsRootedLockGuard).
THEOREM TypeCorrect == Spec => []TypeOK
<1>1. IInv => TypeOK
  BY DEF IInv
<1> QED
  BY <1>1, Inductive, PTL

\* Where no call fails, no process dies and no other program interferes, no
\* writer fails and none but that of a hint leaves its staging name
\* (StagingCleanup, BookkeepingStagingCleanup).
THEOREM LeavesNothing == Spec => []UndisturbedLeavesNothing
<1>1. IInv => UndisturbedLeavesNothing
  BY DEF IInv
<1> QED
  BY <1>1, Inductive, PTL

-----------------------------------------------------------------------------
(* Every way of writing implements an atomic write.                        *)

AtomicStep == [Atomic!Next]_<<Discipline, HeldBy(dest), task, answer>>

\* A call that changes nothing a reader or a caller can see.
LEMMA HiddenCall ==
  ASSUME IInv, NEW p \in Process, Fills(p), UNCHANGED <<protocol, dest, task, answer>>
  PROVE  AtomicStep
<1>1. HeldBy(dest)' = HeldBy(dest)
  BY HeldStays DEF HeldBy
<1>2. Discipline' = Discipline
  BY DEF Discipline
<1> QED
  BY <1>1, <1>2 DEF AtomicStep

\* A call that sees what the file holds.
LEMMA LookCall ==
  ASSUME IInv, NEW p \in Process, ~Idle(p), Sees(p, HeldBy(dest)),
         UNCHANGED <<protocol, dest, content, answer>>
  PROVE  AtomicStep
<1>1. task[p] # None
  BY DEF IInv, TypeOK
<1>2. Discipline' = Discipline /\ HeldBy(dest)' = HeldBy(dest)
  BY DEF Discipline, HeldBy
<1>3. Atomic!Look(p)
  BY <1>1, <1>2 DEF Atomic!Look, Sees
<1> QED
  BY <1>3 DEF AtomicStep, Atomic!Next

\* A call that ends an operation with an answer that is true.
LEMMA AnswerCall ==
  ASSUME IInv, NEW p \in Process, ~Idle(p),
         NEW a \in Atomic!Answers, Return(p, a),
         \/ Atomic!Truthful(task[p], a)
         \/ Atomic!Truthful([task[p] EXCEPT !.saw = HeldBy(dest)], a)
  PROVE  AtomicStep
<1>1. task[p] # None
  BY DEF IInv, TypeOK
<1>2. Discipline' = Discipline /\ HeldBy(dest)' = HeldBy(dest)
  BY DEF Discipline, HeldBy, Return
<1>3. Atomic!Answer(p, a)
  BY <1>1, <1>2 DEF Atomic!Answer, Return
<1> QED
  BY <1>3 DEF AtomicStep, Atomic!Next

\* An error tells whether the operation may have published.
LEMMA ErrorCall ==
  ASSUME IInv, NEW p \in Process, ~Idle(p),
         Return(p, Says("error", None, MayHavePublished(p)))
  PROVE  AtomicStep
<1>1. /\ Own(p)
      /\ task[p].write => step[p] \in Route
      /\ protocol \in AllProtocols
  BY AtCall
<1>2. task[p].did => MayHavePublished(p)
  <2>1. task[p].did => task[p].write /\ step[p] \in {"reread", "clean", "sync"}
    BY <1>1 DEF Own, Placed, Knowing, Route, AllProtocols
  <2>2. Denying \cap {"reread", "clean", "sync"} = {}
    BY <1>1 DEF Denying, AllProtocols
  <2> QED
    BY <2>1, <2>2 DEF MayHavePublished
<1> DEFINE m == MayHavePublished(p)
           a == Says("error", None, m)
<1>3. m \in BOOLEAN
  BY DEF MayHavePublished
<1>4. a \in Atomic!Answers /\ a.outcome = "error" /\ a.may = m
  BY <1>3 DEF Says, Atomic!Answers, Atomic!Outcome
<1>5. Atomic!Truthful(task[p], a)
  BY <1>2, <1>4 DEF Atomic!Truthful
<1> QED
  BY <1>4, <1>5, AnswerCall

\* Success: the writer has seen its value in the file.
LEMMA DoneCall ==
  ASSUME IInv, NEW p \in Process, ~Idle(p), Done(p), task[p].write,
         task[p].saw = task[p].arg \/ HeldBy(dest) = task[p].arg
  PROVE  AtomicStep
<1> DEFINE a == Says("done", None, FALSE)
<1>1. a \in Atomic!Answers /\ a.outcome = "done"
  BY DEF Says, Atomic!Answers, Atomic!Outcome
<1>2. /\ [task[p] EXCEPT !.saw = HeldBy(dest)].saw = HeldBy(dest)
      /\ [task[p] EXCEPT !.saw = HeldBy(dest)].arg = task[p].arg
      /\ [task[p] EXCEPT !.saw = HeldBy(dest)].write = task[p].write
  BY AtCall DEF Tasks
<1>3. \/ Atomic!Truthful(task[p], a)
      \/ Atomic!Truthful([task[p] EXCEPT !.saw = HeldBy(dest)], a)
  BY <1>1, <1>2 DEF Atomic!Truthful
<1> QED
  BY <1>1, <1>3, AnswerCall DEF Done

\* Every call of a writer implements the atomic write or does nothing to it.
LEMMA WriterRefines ==
  ASSUME IInv, NEW p \in Process, Writer(p)
  PROVE  AtomicStep
<1>1. ~Idle(p)
  BY DEF Writer, LockFile, LookMissing, LookExisting, CreateExists, Stage, Write, Install,
         InstallFindsFile, RereadSame, RereadDiffers, Clean, CleanIgnored, Sync,
         ReuseRecord, RefuseRecord, CompareBlob, Discard, Idle
<1>2. /\ TypeOK /\ Own(p) /\ Whole /\ Counted /\ task[p] \in Tasks
      /\ protocol \in AllProtocols
  BY <1>1, AtCall DEF IInv
<1>3. step[p] \notin {"open", "read"}
  BY DEF Writer, LockFile, LookMissing, LookExisting, CreateExists, Stage, Write, Install,
         InstallFindsFile, RereadSame, RereadDiffers, Clean, CleanIgnored, Sync,
         ReuseRecord, RefuseRecord, CompareBlob, Discard
<1>4. task[p].write /\ step[p] \in Route /\ task[p].arg \in Value
  BY <1>1, <1>3, AtCall
<1>5. CASE LockFile(p) \/ LookMissing(p)
  <2>1. UNCHANGED <<protocol, dest, content, task, answer>>
    BY <1>5 DEF LockFile, LookMissing
  <2> QED
    BY <2>1, HiddenCall DEF Fills
<1>6. CASE LookExisting(p) \/ InstallFindsFile(p) \/ RereadSame(p)
  <2>1. Sees(p, HeldBy(dest)) /\ UNCHANGED <<protocol, dest, content, answer>>
    BY <1>6 DEF LookExisting, InstallFindsFile, RereadSame
  <2> QED
    BY <1>1, <2>1, LookCall
<1>7. CASE CreateExists(p)
  <2> DEFINE a == Says("existing", None, FALSE)
             o == [task[p] EXCEPT !.saw = HeldBy(dest)]
  <2>1. a \in Atomic!Answers /\ a.outcome = "existing"
    BY DEF Says, Atomic!Answers, Atomic!Outcome
  <2>2. dest # 0 /\ step[p] = "look"
    BY <1>7 DEF CreateExists
  <2>3. ~task[p].did /\ HeldBy(dest) \in Value
    BY <1>1, <1>2, <2>2, Seeing DEF Own, Knowing
  <2>4. ~o.did /\ o.saw \in Value
    BY <1>2, <2>3 DEF Tasks
  <2>5. Atomic!Truthful(o, a)
    BY <2>1, <2>4 DEF Atomic!Truthful
  <2> QED
    BY <1>1, <1>7, <2>1, <2>5, AnswerCall DEF CreateExists
<1>8. CASE Stage(p)
  <2>1. p \in Unstaged /\ step[p] = "stage"
    BY <1>2, <1>8 DEF Stage, Own, Staging, Unmade, Unstaged
  <2>2. /\ content' = [content EXCEPT ![Fresh] = Torn]
        /\ UNCHANGED <<protocol, dest, task, answer>>
    BY <1>8 DEF Stage
  <2>3. Cardinality(Made) < MaxOps + MaxForeign
    BY <2>1, RoomToStage
  <2>4. Fills(p)
    BY <2>2, <2>3, FreshInode DEF Fills
  <2> QED
    BY <2>2, <2>4, HiddenCall
<1>9. CASE Write(p)
  <2>1. /\ step[p] = "write" /\ content' = [content EXCEPT ![staged[p]] = task[p].arg]
        /\ UNCHANGED <<protocol, dest, task, answer>>
    BY <1>9 DEF Write
  <2>2. Fills(p)
    BY <1>2, <2>1, Types DEF Fills
  <2> QED
    BY <2>1, <2>2, HiddenCall
<1>10. CASE Install(p)
  <2>1. /\ step[p] = "install" /\ (Renames \/ dest = 0) /\ dest' = staged[p]
        /\ task' = [task EXCEPT ![p].did = TRUE, ![p].saw = content[staged[p]]]
        /\ UNCHANGED <<protocol, content, answer>>
    BY <1>10 DEF Install
  <2>2. staged[p] # 0 /\ content[staged[p]] = task[p].arg /\ ~task[p].did
    BY <1>2, <2>1 DEF Own, Staging, Written, Knowing
  <2>3. HeldBy(dest)' = task[p].arg
    BY <2>1, <2>2 DEF HeldBy
  <2>4. Discipline' = Discipline /\ (Discipline = "mutable" \/ HeldBy(dest) = None)
    BY <2>1 DEF Discipline, Renames, HeldBy
  <2>5. task[p] # None
    BY <1>2, NoneAssumption
  <2>6. task' = [task EXCEPT ![p].did = TRUE, ![p].saw = HeldBy(dest)']
    BY <2>1, <2>2, <2>3
  <2>7. Atomic!Put(p)
    BY <1>4, <2>1, <2>2, <2>3, <2>4, <2>5, <2>6 DEF Atomic!Put
  <2> QED
    BY <2>7 DEF AtomicStep, Atomic!Next
<1>11. CASE RereadDiffers(p)
  BY <1>1, <1>11, ErrorCall DEF RereadDiffers
<1>12. CASE Clean(p) \/ CleanIgnored(p)
  <2>1. step[p] = "clean" /\ Cleaned(p)
    BY <1>12 DEF Clean, CleanIgnored
  <2>2. /\ task[p].saw \in Value
        /\ task[p].did => task[p].saw = task[p].arg
    BY <1>2, <2>1 DEF Own, Knowing
  <2>3. CASE protocol # "create"
    <3>1. UNCHANGED <<protocol, dest, content, task, answer>>
      BY <2>1, <2>3 DEF Cleaned
    <3> QED
      BY <3>1, HiddenCall DEF Fills
  <2>4. CASE protocol = "create" /\ task[p].did
    <3>1. Done(p)
      BY <2>1, <2>4 DEF Cleaned, Done
    <3> QED
      BY <1>1, <1>4, <2>2, <2>4, <3>1, DoneCall
  <2>5. CASE protocol = "create" /\ ~task[p].did
    <3> DEFINE a == Says("existing", None, FALSE)
    <3>1. a \in Atomic!Answers /\ a.outcome = "existing"
      BY DEF Says, Atomic!Answers, Atomic!Outcome
    <3>2. Return(p, a)
      BY <2>1, <2>5 DEF Cleaned
    <3>3. Atomic!Truthful(task[p], a)
      BY <2>2, <2>5, <3>1 DEF Atomic!Truthful
    <3> QED
      BY <1>1, <3>1, <3>2, <3>3, AnswerCall
  <2> QED
    BY <2>3, <2>4, <2>5
<1>13. CASE Sync(p) \/ Discard(p)
  <2>1. step[p] \in {"sync", "discard"} /\ Done(p)
    BY <1>13 DEF Sync, Discard
  <2>2. task[p].saw = task[p].arg
    BY <1>2, <2>1 DEF Own, Knowing
  <2> QED
    BY <1>1, <1>4, <2>1, <2>2, DoneCall
<1>14. CASE ReuseRecord(p)
  BY <1>1, <1>4, <1>14, DoneCall DEF ReuseRecord, Same
<1>15. CASE RefuseRecord(p)
  <2> DEFINE a == Says("conflict", None, FALSE)
             o == [task[p] EXCEPT !.saw = HeldBy(dest)]
  <2>1. step[p] = "compare" /\ dest # 0
    BY <1>15, ComparesUnstaged DEF RefuseRecord
  <2>2. HeldBy(dest) # task[p].arg /\ Return(p, a)
    BY <1>15, <2>1 DEF RefuseRecord, Same
  <2>3. a \in Atomic!Answers /\ a.outcome = "conflict"
    BY DEF Says, Atomic!Answers, Atomic!Outcome
  <2>4. ~task[p].did /\ HeldBy(dest) \in Value
    BY <1>1, <1>2, <2>1, Seeing DEF Own, Knowing
  <2>5. ~o.did /\ o.saw = HeldBy(dest) /\ o.arg = task[p].arg
    BY <1>2, <2>4 DEF Tasks
  <2>6. Atomic!Truthful(o, a)
    BY <2>2, <2>3, <2>4, <2>5 DEF Atomic!Truthful
  <2> HIDE DEF a, o
  <2> QED
    BY <1>1, <2>2, <2>3, <2>6, AnswerCall DEF o
<1>16. CASE CompareBlob(p)
  <2>1. CASE Same(p)
    <3>1. Sees(p, HeldBy(dest)) /\ UNCHANGED <<protocol, dest, content, answer>>
      BY <1>16, <2>1 DEF CompareBlob
    <3> QED
      BY <1>1, <3>1, LookCall
  <2>2. CASE ~Same(p)
    BY <1>1, <1>16, <2>2, ErrorCall DEF CompareBlob
  <2> QED
    BY <2>1, <2>2
<1> QED
  BY <1>5, <1>6, <1>7, <1>8, <1>9, <1>10, <1>11, <1>12, <1>13, <1>14, <1>15, <1>16 DEF Writer

\* What a reader reads was in the file when it opened it.
LEMMA ReaderRefines ==
  ASSUME IInv, NEW p \in Process, Reader(p)
  PROVE  AtomicStep
<1>1. ~Idle(p)
  BY DEF Reader, Open, Read, Idle
<1>2. TypeOK /\ Own(p) /\ Whole /\ task[p] \in Tasks /\ protocol \in AllProtocols
  BY <1>1, AtCall
<1>3. CASE Open(p)
  <2>1. Sees(p, HeldBy(dest)) /\ UNCHANGED <<protocol, dest, content, answer>>
    BY <1>3 DEF Open
  <2> QED
    BY <1>1, <2>1, LookCall
<1>4. CASE Read(p)
  <2> DEFINE x == HeldBy(found[p])
             a == Says("read", x, FALSE)
  <2>1. step[p] = "read" /\ Return(p, a)
    BY <1>4 DEF Read
  <2>2. task[p].saw = x /\ x \in Value \cup {None}
    BY <1>2, <2>1 DEF Own, Knowing, Whole, HeldBy
  <2>3. ~task[p].write
    BY <1>2, <2>1 DEF Own, Placed, Idle, Route, AllProtocols
  <2> HIDE DEF x
  <2>4. a \in Atomic!Answers /\ a.outcome = "read" /\ a.value = x
    BY <2>2 DEF Says, Atomic!Answers, Atomic!Outcome
  <2>5. Atomic!Truthful(task[p], a)
    BY <2>2, <2>3, <2>4 DEF Atomic!Truthful
  <2> HIDE DEF a
  <2> QED
    BY <1>1, <2>1, <2>4, <2>5, AnswerCall
<1> QED
  BY <1>3, <1>4 DEF Reader

\* Every way of writing is one atomic write: whatever other writers, readers,
\* failures, crashes and collections do in between, nobody reads a file half
\* written, what is written once is never replaced, and every answer is true
\* (create_once_from_staging, replace_from_staging, publish_blob).
THEOREM Implements == Spec => ImplementsAtomicFile
<1>1. Init => Atomic!Init
  BY ProtocolsAssumption DEF Init, Atomic!Init, Discipline, AllProtocols, HeldBy
<1>2. IInv /\ [Next]_vars => AtomicStep
  <2> SUFFICES ASSUME IInv, [Next]_vars PROVE AtomicStep
    OBVIOUS
  <2>1. ASSUME NEW p \in Process, NEW w \in BOOLEAN, NEW v,
               IF w THEN v \in Value ELSE v = None, Begin(p, w, v)
        PROVE  AtomicStep
    <3>1. task[p] = None
      BY <2>1 DEF IInv, TypeOK, Begin
    <3>2. Discipline' = Discipline /\ HeldBy(dest)' = HeldBy(dest)
      BY <2>1 DEF Begin, Discipline, HeldBy
    <3>3. Atomic!Invoke(p, w, v)
      BY <2>1, <3>1, <3>2, Zenon DEF Begin, Atomic!Invoke, Atomic!Operation, Atomic!Nothing, Nothing
    <3> QED
      BY <2>1, <3>3 DEF AtomicStep, Atomic!Next
  <2>2. ASSUME NEW p \in Process, Writer(p) PROVE AtomicStep
    BY <2>2, WriterRefines
  <2>3. ASSUME NEW p \in Process, Reader(p) PROVE AtomicStep
    BY <2>3, ReaderRefines
  <2>4. ASSUME NEW p \in Process, Fail(p) PROVE AtomicStep
    BY <2>4, ErrorCall DEF Fail
  <2>5. ASSUME NEW p \in Process, Crash(p) PROVE AtomicStep
    <3> DEFINE a == Says("crashed", None, FALSE)
    <3>1. a \in Atomic!Answers /\ a.outcome = "crashed" /\ Return(p, a) /\ ~Idle(p)
      BY <2>5 DEF Crash, Says, Atomic!Answers, Atomic!Outcome
    <3>2. Atomic!Truthful(task[p], a)
      BY <3>1 DEF Atomic!Truthful
    <3> HIDE DEF a
    <3> QED
      BY <3>1, <3>2, AnswerCall
  <2>6. ASSUME Collect PROVE AtomicStep
    <3>1. /\ Discipline = "blob" /\ HeldBy(dest)' = None
          /\ Discipline' = Discipline /\ task' = task /\ answer' = answer
      BY <2>6 DEF Collect, Discipline, HeldBy
    <3> QED
      BY <3>1 DEF AtomicStep, Atomic!Next, Atomic!Remove
  <2>7. ASSUME NEW v \in Value, Foreign(v) PROVE AtomicStep
    <3>1. content' = [content EXCEPT ![Fresh] = v] /\ dest' = Fresh
      BY <2>7 DEF Foreign
    <3>2. Cardinality(Made) < MaxOps + MaxForeign
      BY <2>7, RoomForForeign
    <3>3. HeldBy(dest)' = v
      BY <3>1, <3>2, FreshInode DEF HeldBy
    <3>4. Discipline = "mutable" /\ Discipline' = Discipline /\ task' = task /\ answer' = answer
      BY <2>7 DEF Foreign, Discipline
    <3> QED
      BY <3>3, <3>4 DEF AtomicStep, Atomic!Next, Atomic!Overwrite
  <2>8. CASE UNCHANGED vars
    BY <2>8 DEF vars, AtomicStep, Discipline, HeldBy
  <2> QED
    BY <2>1, <2>2, <2>3, <2>4, <2>5, <2>6, <2>7, <2>8, WritableValue DEF Next
<1> QED
  BY <1>1, <1>2, Inductive, PTL DEF Spec, ImplementsAtomicFile, Atomic!Spec, AtomicStep
=============================================================================

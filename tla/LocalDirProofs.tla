---------------------------- MODULE LocalDirProofs ----------------------------
(***************************************************************************)
(* Theorems about LocalDirReconcile, for every set of processes, number of *)
(* paths, contents and commits, and whatever an instance starts with.      *)
(***************************************************************************)
EXTENDS LocalDirReconcile, WellFoundedInduction, NaturalsInduction, TLAPS

-----------------------------------------------------------------------------
(* The order in which paths are visited.                                   *)

\* A set of natural numbers that is not empty has a least member.
LEMMA Least ==
  ASSUME NEW T, T \subseteq Nat, T # {}
  PROVE  \E x \in T : \A y \in T : x <= y
<1> DEFINE R == OpToRel(<, Nat)
<1>1. IsWellFoundedOn(R, Nat)
  BY NatLessThanWellFounded
<1>2. \A m, n \in Nat : m < n => <<m, n>> \in R
  BY Zenon DEF OpToRel
<1> HIDE DEF R
<1>3. PICK x \in T : \A y \in T : ~(<<y, x>> \in R)
  BY <1>1, WFMin
<1>4. \A y \in T : ~(y < x)
  BY <1>2, <1>3
<1> QED
  BY <1>4

\* A process that works visits one of the paths it has left.
LEMMA VisitedLeft ==
  ASSUME NEW p \in Process, TypeOK, Control(p), Working(p)
  PROVE  /\ Visited(p) \in todo[p]
         /\ Visited(p) \in Path
         /\ request[p] \in Request
         /\ Visited(p) \in request[p].paths
         /\ request[p].paths \subseteq Path
         /\ request[p].paths # {}
<1>1. todo[p] \subseteq Nat /\ todo[p] # {}
  BY DEF TypeOK, Control, Path
<1>2. \E x \in todo[p] : \A y \in todo[p] : x <= y
  BY <1>1, Least
<1>3. Visited(p) \in todo[p]
  BY <1>2 DEF Visited
<1> QED
  BY <1>3 DEF Control, TypeOK, Request, Working

\* What a commit has at a path is the content of a regular file.
LEMMA TargetContent ==
  ASSUME NEW p \in Process, request[p] \in Request, NEW x \in Path
  PROVE  Target(p, x) \in Content /\ Target(p, x) \in Entry
  BY TreeAssumption DEF Target, Request, Entry

\* What a completion record identifies a request by.
LEMMA IdentityTyped ==
  ASSUME NEW r \in Request
  PROVE  IdentityOf(r) \in Identity
  BY DEF IdentityOf, Request, Identity

-----------------------------------------------------------------------------
(* Type correctness.                                                       *)

\* The directory an instance starts with is well typed.
LEMMA TypeInit == Init => TypeOK
  BY OpeningAssumption, NoneAssumption
  DEF Init, TypeOK, Working, Steps, Budgets, Path

\* The end of an operation, whatever its outcome.
LEMMA TypeEnd ==
  ASSUME NEW p \in Process, NEW o \in Outcomes, NEW may \in BOOLEAN,
         TypeOK, End(p, o, may)
  PROVE  /\ lock' \in {None} \cup Process
         /\ step' \in [Process -> Steps]
         /\ request' \in [Process -> {None} \cup Request]
         /\ todo' \in [Process -> SUBSET Path]
         /\ pass' \in [Process -> 1 .. 2]
         /\ seen' \in [Process -> [Path -> {"unseen", "missing", "exact", "different", "conflict"}]]
         /\ prepared' \in [Process -> SUBSET Path]
         /\ result' \in [Process -> {None} \cup Report]
         /\ \A q \in Process : Working(q)' <=> lock' = q
<1>1. step' = [step EXCEPT ![p] = "idle"] /\ lock' = IF lock = p THEN None ELSE lock
  BY DEF End, Goto
<1>2. \A q \in Process : Working(q)' <=> lock' = q
  BY <1>1, NoneAssumption DEF TypeOK, Working
<1>3. step' \in [Process -> Steps] /\ lock' \in {None} \cup Process
  BY <1>1 DEF TypeOK, Steps
<1>4. /\ request' \in [Process -> {None} \cup Request]
      /\ todo' \in [Process -> SUBSET Path]
      /\ pass' \in [Process -> 1 .. 2]
      /\ prepared' \in [Process -> SUBSET Path]
  BY DEF TypeOK, End
<1>5. seen' \in [Process -> [Path -> {"unseen", "missing", "exact", "different", "conflict"}]]
  <2>1. [x \in Path |-> "unseen"] \in [Path -> {"unseen", "missing", "exact", "different", "conflict"}]
    OBVIOUS
  <2> QED
    BY <2>1 DEF TypeOK, End
<1>6. result' \in [Process -> {None} \cup Report]
  <2>1. [outcome |-> o, may |-> may] \in Report
    BY DEF Report
  <2> QED
    BY <2>1 DEF TypeOK, End
<1> QED
  BY <1>2, <1>3, <1>4, <1>5, <1>6

-----------------------------------------------------------------------------
(* One step of one process.                                                *)

Good(p) == Control(p) /\ RecordMarked(p) /\ ChangeReported(p) /\ ReadExact(p)

(* What a step of p leaves alone: all that the other processes keep.       *)
Frame(p) ==
    \A q \in Process \ {p} :
        /\ step'[q] = step[q] /\ request'[q] = request[q] /\ todo'[q] = todo[q]
        /\ result'[q] = result[q] /\ touched'[q] = touched[q] /\ changed'[q] = changed[q]

\* The path a process visits is a matter of the paths it has left.
LEMMA SameVisited ==
  ASSUME NEW p \in Process, todo'[p] = todo[p]
  PROVE  Visited(p)' = Visited(p)
  BY DEF Visited

\* What holds of the other processes survives a step of p that changes the
\* directory only under the lock.
LEMMA OthersKept ==
  ASSUME NEW p \in Process, IInv, Frame(p), Working(p) \/ UNCHANGED <<file, record>>
  PROVE  \A q \in Process \ {p} : Good(q)'
<1> SUFFICES ASSUME NEW q \in Process \ {p}
             PROVE  Good(q)'
  OBVIOUS
<1>1. /\ step'[q] = step[q] /\ request'[q] = request[q] /\ todo'[q] = todo[q]
      /\ result'[q] = result[q] /\ touched'[q] = touched[q] /\ changed'[q] = changed[q]
  BY DEF Frame
<1>2. Good(q) /\ q \in Process
  BY DEF IInv, Good
<1>3. CASE UNCHANGED <<file, record>>
  <2>1. Visited(q)' = Visited(q)
    BY <1>1, SameVisited
  <2> HIDE DEF Visited
  <2> QED
    BY <1>1, <1>2, <1>3, <2>1 DEF Good, Control, RecordMarked, ChangeReported, ReadExact,
         Working, ExactOrTouched, Target
<1>4. CASE Working(p)
  <2>1. step[q] \in {"idle", "lock", "open lock"}
    BY <1>2, <1>4 DEF IInv, TypeOK, Working
  <2> QED
    BY <1>1, <1>2, <2>1 DEF Good, Control, RecordMarked, ChangeReported, ReadExact, Working,
         Marked, AllExact
<1> QED
  BY <1>3, <1>4

\* Reading a path forgets, for p alone, that others have edited it.
LEMMA ReadTouched ==
  ASSUME NEW p \in Process, TypeOK, (touched' = touched) \/ Read(p)
  PROVE  /\ touched' \in [Process -> SUBSET Path]
         /\ \A q \in Process \ {p} : touched'[q] = touched[q]
         /\ \A x \in touched[p] : x # Visited(p) => x \in touched'[p]
<1> HIDE DEF Visited
<1>1. CASE touched' = touched
  BY <1>1 DEF TypeOK
<1>2. CASE Read(p)
  BY <1>2 DEF TypeOK, Read
<1> QED
  BY <1>1, <1>2

\* A step of p that ends its operation and tells of what it has changed.
LEMMA EndGood ==
  ASSUME NEW p \in Process, NEW o \in Outcomes, NEW may \in BOOLEAN, IInv, End(p, o, may),
         UNCHANGED dirVars, changed' = changed, (touched' = touched) \/ Read(p),
         budget' \in Budgets, changed[p] => may
  PROVE  TypeOK' /\ Good(p)' /\ Frame(p)
<1>1. TypeOK /\ touched' \in [Process -> SUBSET Path]
      /\ \A q \in Process \ {p} : touched'[q] = touched[q]
  BY ReadTouched DEF IInv
<1>2. TypeOK'
  <2>1. /\ file' \in [Path -> Entry]
        /\ record' \in {None} \cup [request : Identity, complete : BOOLEAN]
        /\ treeHint' \in [Commit -> {None} \cup SUBSET Path]
        /\ fileHint' \in [Path -> {None} \cup Commit]
        /\ changed' \in [Process -> BOOLEAN]
    BY <1>1 DEF TypeOK, dirVars
  <2>2. /\ lock' \in {None} \cup Process
        /\ step' \in [Process -> Steps]
        /\ request' \in [Process -> {None} \cup Request]
        /\ todo' \in [Process -> SUBSET Path]
        /\ pass' \in [Process -> 1 .. 2]
        /\ seen' \in [Process -> [Path -> {"unseen", "missing", "exact", "different", "conflict"}]]
        /\ prepared' \in [Process -> SUBSET Path]
        /\ result' \in [Process -> {None} \cup Report]
        /\ \A q \in Process : Working(q)' <=> lock' = q
    BY <1>1, TypeEnd
  <2> QED
    BY <1>1, <2>1, <2>2 DEF TypeOK
<1>3. step'[p] = "idle" /\ result'[p] = [outcome |-> o, may |-> may] /\ changed'[p] = changed[p]
  BY <1>1 DEF TypeOK, End, Goto
<1>4. Control(p)' /\ RecordMarked(p)' /\ ReadExact(p)'
  BY <1>3 DEF Control, RecordMarked, ReadExact, Working, Marked, AllExact
<1>5. result'[p] # None
  BY <1>3, NoneAssumption DEF Report
<1>6. ChangeReported(p)'
  <2>1. result'[p].may = may
    BY <1>3
  <2> QED
    BY <1>3, <1>5, <2>1 DEF ChangeReported
<1>7. Frame(p)
  BY <1>1 DEF Frame, TypeOK, End, Goto
<1> QED
  BY <1>2, <1>4, <1>6, <1>7 DEF Good

Resting == {"idle", "lock", "open lock"}
Findings == {"unseen", "missing", "exact", "different", "conflict"}

(* The parts of TypeOK.                                                    *)
DirTyped ==
    /\ file \in [Path -> Entry]
    /\ record \in {None} \cup [request : Identity, complete : BOOLEAN]
    /\ treeHint \in [Commit -> {None} \cup SUBSET Path]
    /\ fileHint \in [Path -> {None} \cup Commit]

PassTyped ==
    /\ pass \in [Process -> 1 .. 2]
    /\ seen \in [Process -> [Path -> Findings]]
    /\ prepared \in [Process -> SUBSET Path]

\* A step of p that goes on with its operation under the lock.
LEMMA StayTyped ==
  ASSUME NEW p \in Process, NEW s \in Steps \ Resting, NEW t \in SUBSET Path, NEW b \in BOOLEAN,
         IInv, Working(p), UNCHANGED <<lock, request, result, budget>>,
         step' = [step EXCEPT ![p] = s], todo' = [todo EXCEPT ![p] = t],
         changed' = [changed EXCEPT ![p] = b], (touched' = touched) \/ Read(p),
         DirTyped', PassTyped'
  PROVE  /\ TypeOK' /\ Frame(p)
         /\ step'[p] = s /\ todo'[p] = t /\ changed'[p] = b
         /\ request'[p] = request[p] /\ result'[p] = result[p]
         /\ request[p] \in Request /\ result[p] = None
<1>1. TypeOK /\ Control(p) /\ touched' \in [Process -> SUBSET Path]
      /\ \A q \in Process \ {p} : touched'[q] = touched[q]
  BY ReadTouched DEF IInv
<1>2. /\ step' \in [Process -> Steps] /\ todo' \in [Process -> SUBSET Path]
      /\ changed' \in [Process -> BOOLEAN]
  BY <1>1 DEF TypeOK
<1>3. \A q \in Process : Working(q)' <=> lock' = q
  BY <1>1 DEF TypeOK, Working, Resting
<1>4. TypeOK'
  BY <1>1, <1>2, <1>3 DEF TypeOK, DirTyped, PassTyped, Findings
<1>5. Frame(p)
  BY <1>1 DEF Frame, TypeOK
<1> QED
  BY <1>1, <1>4, <1>5 DEF TypeOK, Control, Working

(* Where a pass over the paths goes, and the paths it has left.            *)
Goes(p, again, next, s, t) ==
    /\ step' = [step EXCEPT ![p] = s] /\ todo' = [todo EXCEPT ![p] = t]
    /\ t # {} /\ t \subseteq request[p].paths /\ t \in SUBSET Path
    /\ Visited(p) \in todo[p] /\ Visited(p) \in Path
    /\ request[p] \in Request /\ Visited(p) \in request[p].paths
    /\ \/ s = next /\ t = request[p].paths /\ todo[p] = {Visited(p)}
       \/ s = again /\ t = todo[p] \ {Visited(p)}

\* A pass over the paths goes again to its next path, or starts the next
\* pass over all of them once it has visited the last.
LEMMA AdvanceGoes ==
  ASSUME NEW p \in Process, NEW again, NEW next, IInv, Working(p), Advance(p, again, next)
  PROVE  \E s, t : Goes(p, again, next, s, t)
<1>1. TypeOK /\ Control(p)
  BY DEF IInv
<1>2. /\ Visited(p) \in todo[p] /\ request[p].paths # {} /\ Visited(p) \in Path
      /\ todo[p] \subseteq request[p].paths
      /\ request[p] \in Request /\ Visited(p) \in request[p].paths
      /\ request[p].paths \subseteq Path
  BY <1>1, VisitedLeft DEF Control
<1> HIDE DEF Visited
<1>3. CASE Last(p)
  BY <1>2, <1>3 DEF Advance, Goto, Last, Goes
<1>4. CASE ~Last(p)
  <2>1. step' = [step EXCEPT ![p] = again] /\ todo' = [todo EXCEPT ![p] = @ \ {Visited(p)}]
    BY <1>4 DEF Advance, Goto
  <2>2. todo' = [todo EXCEPT ![p] = todo[p] \ {Visited(p)}]
    BY <1>1, <2>1 DEF TypeOK
  <2>3. todo[p] \ {Visited(p)} # {}
    BY <1>2, <1>4 DEF Last
  <2> QED
    BY <1>2, <2>1, <2>2, <2>3 DEF Goes
<1> QED
  BY <1>3, <1>4

\* An operation that fails says what it has changed.
LEMMA FailsGood ==
  ASSUME NEW p \in Process, NEW o \in Outcomes, IInv, step[p] # "idle", Fails(p, o),
         UNCHANGED dirVars, changed' = changed, (touched' = touched) \/ Read(p),
         budget' \in Budgets
  PROVE  TypeOK' /\ Good(p)' /\ Frame(p)
<1>1. WithChange(p) \in BOOLEAN /\ End(p, o, WithChange(p))
  BY DEF Fails, WithChange
<1>2. changed[p] => WithChange(p)
  BY DEF IInv, ChangeReported, WithChange
<1> QED
  BY <1>1, <1>2, EndGood

\* Spending from the budget leaves a budget.
LEMMA SpendTyped ==
  ASSUME NEW item \in {"ops", "edits", "faults", "cancels", "crashes"}, TypeOK, Spend(item)
  PROVE  budget' \in Budgets
  BY DEF TypeOK, Budgets, Spend

\* What an inspection finds.
LEMMA InspectionFinds ==
  ASSUME NEW p \in Process, TypeOK, request[p] \in Request, NEW x \in Path
  PROVE  /\ Inspection(p, x) \in Findings \ {"unseen"}
         /\ Inspection(p, x) = "exact" <=> file[x] = Target(p, x)
         /\ Inspection(p, x) = "missing" <=> file[x] = Missing
         /\ Inspection(p, x) = "conflict" <=> file[x] \in {Directory, Special}
<1>1. Target(p, x) \in Content
  BY TargetContent
<1> QED
  BY <1>1, EntryAssumption DEF Inspection, Findings

-----------------------------------------------------------------------------
(* The steps, one lemma per action.                                        *)

\* A process starts an operation.
LEMMA StartsGood ==
  ASSUME NEW p \in Process, NEW r \in Request, NEW s \in {"lock", "open lock"}, IInv,
         Starts(p, r, s)
  PROVE  TypeOK' /\ Good(p)' /\ Frame(p) /\ UNCHANGED <<file, record>>
<1>1. TypeOK
  BY DEF IInv
<1>2. /\ step' = [step EXCEPT ![p] = s] /\ request' = [request EXCEPT ![p] = r]
      /\ result' = [result EXCEPT ![p] = None] /\ changed' = [changed EXCEPT ![p] = FALSE]
      /\ touched' = [touched EXCEPT ![p] = {}] /\ step[p] = "idle"
      /\ UNCHANGED <<dirVars, lock, todo, pass, seen, prepared>>
  BY DEF Starts, Goto
<1>3. budget' \in Budgets
  BY <1>1, SpendTyped DEF Starts
<1>4. \A q \in Process : Working(q)' <=> lock' = q
  BY <1>1, <1>2 DEF TypeOK, Working
<1>5. TypeOK'
  BY <1>1, <1>2, <1>3, <1>4 DEF TypeOK, dirVars, Steps
<1>6. Frame(p)
  BY <1>1, <1>2 DEF Frame, TypeOK
<1>7. step'[p] = s /\ request'[p] = r /\ result'[p] = None /\ changed'[p] = FALSE
  BY <1>1, <1>2 DEF TypeOK
<1>8. Good(p)'
  BY <1>7 DEF Good, Control, RecordMarked, ChangeReported, ReadExact, Working, Marked, AllExact
<1> QED
  BY <1>2, <1>5, <1>6, <1>8 DEF dirVars

\* A process takes the coordination lock.
LEMMA AcquireLockGood ==
  ASSUME NEW p \in Process, IInv, AcquireLock(p)
  PROVE  TypeOK' /\ Good(p)' /\ Frame(p) /\ UNCHANGED <<file, record>>
<1> DEFINE s == IF step[p] = "lock" THEN "inspect" ELSE "read"
<1>1. TypeOK /\ Control(p) /\ ChangeReported(p)
  BY DEF IInv
<1>2. /\ step[p] \in {"lock", "open lock"} /\ lock = None /\ lock' = p
      /\ step' = [step EXCEPT ![p] = s] /\ todo' = [todo EXCEPT ![p] = request[p].paths]
      /\ UNCHANGED <<dirVars, request, result, pass, seen, prepared, auxVars>>
  BY DEF AcquireLock, Goto, Keep
<1>3. /\ s \in {"inspect", "read"} /\ request[p] \in Request /\ result[p] = None
      /\ request[p].paths \subseteq Path /\ request[p].paths # {}
  <2>1. step[p] # "idle"
    BY <1>2
  <2>2. request[p] \in Request /\ result[p] = None
    BY <1>1, <2>1 DEF Control
  <2>3. request[p].paths \subseteq Path /\ request[p].paths # {}
    BY <2>2 DEF Request
  <2>4. s \in {"inspect", "read"}
    OBVIOUS
  <2> QED
    BY <2>2, <2>3, <2>4
<1> HIDE DEF s
<1>4. \A q \in Process : Working(q)' <=> lock' = q
  BY <1>1, <1>2, <1>3, NoneAssumption DEF TypeOK, Working
<1>5. TypeOK'
  BY <1>1, <1>2, <1>3, <1>4 DEF TypeOK, dirVars, auxVars, Steps
<1>6. Frame(p)
  BY <1>1, <1>2 DEF Frame, TypeOK, auxVars
<1>7. /\ step'[p] = s /\ request'[p] = request[p] /\ result'[p] = None /\ changed'[p] = FALSE
      /\ todo'[p] = request[p].paths
  BY <1>1, <1>2, <1>3 DEF TypeOK, auxVars, ChangeReported, Marked
<1>8. Good(p)'
  BY <1>3, <1>7 DEF Good, Control, RecordMarked, ChangeReported, ReadExact, Working, Marked,
       AllExact
<1> QED
  BY <1>2, <1>5, <1>6, <1>8 DEF dirVars

\* A step at which p goes on without having changed anything: the places
\* where nothing is known yet of the files.
LEMMA QuietGood ==
  ASSUME NEW p \in Process, NEW s \in {"inspect", "prepare", "begin"},
         NEW t \in (SUBSET Path) \ {{}},
         IInv, Working(p), ~WithChange(p), t \subseteq request[p].paths,
         UNCHANGED <<dirVars, lock, request, result, budget, changed>>,
         step' = [step EXCEPT ![p] = s], todo' = [todo EXCEPT ![p] = t],
         (touched' = touched) \/ Read(p), PassTyped'
  PROVE  TypeOK' /\ Good(p)' /\ Frame(p)
<1>1. TypeOK /\ Control(p) /\ ChangeReported(p)
  BY DEF IInv
<1>2. DirTyped'
  BY <1>1 DEF TypeOK, DirTyped, dirVars
<1>3. changed[p] = FALSE
  BY <1>1 DEF TypeOK, ChangeReported, WithChange, Working
<1>4. changed' = [changed EXCEPT ![p] = FALSE]
  BY <1>1, <1>3 DEF TypeOK
<1>5. s \in Steps \ Resting
  BY DEF Steps, Resting
<1>6. /\ TypeOK' /\ Frame(p)
      /\ step'[p] = s /\ todo'[p] = t /\ changed'[p] = FALSE
      /\ request'[p] = request[p] /\ result'[p] = result[p]
      /\ request[p] \in Request /\ result[p] = None
  BY <1>2, <1>4, <1>5, StayTyped
<1>7. Good(p)'
  BY <1>6 DEF Good, Control, RecordMarked, ChangeReported, ReadExact, Working, Marked, AllExact
<1> QED
  BY <1>6, <1>7

\* An inspection pass looks at a path.
LEMMA InspectNextGood ==
  ASSUME NEW p \in Process, IInv, InspectNext(p)
  PROVE  TypeOK' /\ Good(p)' /\ Frame(p)
<1>1. /\ step[p] = "inspect" /\ Advance(p, "inspect", "prepare") /\ Read(p)
      /\ seen' = [seen EXCEPT ![p][Visited(p)] = Inspection(p, Visited(p))]
      /\ UNCHANGED <<dirVars, lock, pass, prepared, changed, budget, request, result>>
  BY DEF InspectNext, Keep
<1>2. Working(p) /\ ~WithChange(p) /\ TypeOK
  BY <1>1 DEF Working, WithChange, Marked, IInv
<1>a. PICK s, t : Goes(p, "inspect", "prepare", s, t)
  BY <1>1, <1>2, AdvanceGoes
<1>3. /\ step' = [step EXCEPT ![p] = s] /\ todo' = [todo EXCEPT ![p] = t]
      /\ t # {} /\ t \subseteq request[p].paths /\ t \in SUBSET Path
      /\ Visited(p) \in Path /\ request[p] \in Request
      /\ s \in {"prepare", "inspect"}
  BY <1>a DEF Goes
<1>4. Inspection(p, Visited(p)) \in Findings
  BY <1>2, <1>3, InspectionFinds
<1> HIDE DEF Visited
<1>5. PassTyped'
  BY <1>1, <1>2, <1>3, <1>4 DEF PassTyped, TypeOK, Findings
<1> QED
  BY <1>1, <1>2, <1>3, <1>5, QuietGood

\* The sources of what is missing or different are prepared.
LEMMA PrepareSourcesGood ==
  ASSUME NEW p \in Process, IInv, PrepareSources(p)
  PROVE  TypeOK' /\ Good(p)' /\ Frame(p)
<1>1. step[p] = "prepare" /\ UNCHANGED <<dirVars, auxVars>> /\ Working(p) /\ ~WithChange(p)
      /\ TypeOK /\ Control(p) /\ ChangeReported(p)
  BY DEF PrepareSources, Working, WithChange, Marked, IInv
<1>2. budget' \in Budgets /\ changed' = changed /\ touched' = touched /\ UNCHANGED dirVars
  BY <1>1 DEF TypeOK, auxVars
<1>3. CASE Fails(p, "conflict")
  BY <1>1, <1>2, <1>3, FailsGood DEF Outcomes
<1>4. CASE End(p, "needs transport", FALSE)
  <2>1. ~changed[p]
    BY <1>1 DEF ChangeReported, WithChange
  <2> QED
    BY <1>2, <1>4, <2>1, EndGood DEF Outcomes
<1>5. CASE /\ prepared' = [prepared EXCEPT ![p] = @ \cup Sources(p)]
           /\ pass' = [pass EXCEPT ![p] = 2]
           /\ Goto(p, IF pass[p] = 1 THEN "inspect" ELSE "begin")
           /\ Keep /\ UNCHANGED <<lock, todo, seen>>
  <2> DEFINE s == IF pass[p] = 1 THEN "inspect" ELSE "begin"
  <2>1. s \in {"inspect", "begin"}
    OBVIOUS
  <2>2. step' = [step EXCEPT ![p] = s]
    BY <1>5 DEF Goto
  <2> HIDE DEF s
  <2>3. todo[p] \in (SUBSET Path) \ {{}} /\ todo[p] \subseteq request[p].paths
    BY <1>1 DEF Control, TypeOK
  <2>4. todo' = [todo EXCEPT ![p] = todo[p]]
    BY <1>1, <1>5 DEF TypeOK
  <2>5. Sources(p) \subseteq Path
    <3>1. request[p] \in Request
      BY <1>1 DEF Control
    <3> QED
      BY <3>1 DEF Sources, Needs, Request
  <2>6. PassTyped'
    BY <1>1, <1>5, <2>5 DEF PassTyped, TypeOK, Findings
  <2> QED
    BY <1>1, <1>2, <1>5, <2>1, <2>2, <2>3, <2>4, <2>6, QuietGood DEF Keep, auxVars
<1> QED
  BY <1>3, <1>4, <1>5 DEF PrepareSources

\* The in-progress record is published.
LEMMA PublishInProgressGood ==
  ASSUME NEW p \in Process, IInv, PublishInProgress(p)
  PROVE  TypeOK' /\ Good(p)' /\ Frame(p)
<1>1. /\ step[p] = "begin" /\ Working(p) /\ TypeOK /\ Control(p)
      /\ record' = [request |-> IdentityOf(request[p]), complete |-> FALSE]
      /\ step' = [step EXCEPT ![p] = "materialize"]
      /\ changed' = [changed EXCEPT ![p] = TRUE]
      /\ UNCHANGED <<file, treeHint, fileHint, lock, todo, pass, seen, prepared, touched, budget,
                     request, result>>
  BY DEF PublishInProgress, Working, IInv, Goto, Changes, Keep
<1>2. /\ todo[p] \in SUBSET Path /\ todo[p] # {} /\ todo[p] \subseteq request[p].paths
      /\ request[p] \in Request
  BY <1>1 DEF TypeOK, Control
<1>3. DirTyped'
  <2>1. IdentityOf(request[p]) \in Identity
    BY <1>2, IdentityTyped
  <2> QED
    BY <1>1, <2>1 DEF DirTyped, TypeOK
<1>4. PassTyped' /\ todo' = [todo EXCEPT ![p] = todo[p]]
  BY <1>1 DEF PassTyped, TypeOK, Findings
<1>5. "materialize" \in Steps \ Resting
  BY DEF Steps, Resting, Marked
<1>6. /\ TypeOK' /\ Frame(p)
      /\ step'[p] = "materialize" /\ todo'[p] = todo[p] /\ changed'[p] = TRUE
      /\ request'[p] = request[p] /\ result'[p] = result[p] /\ result[p] = None
  BY <1>1, <1>2, <1>3, <1>4, <1>5, StayTyped
<1>7. Good(p)'
  BY <1>1, <1>2, <1>6 DEF Good, Control, RecordMarked, ChangeReported, ReadExact, Working,
       Marked, AllExact
<1> QED
  BY <1>6, <1>7

\* A step of p between two places after its in-progress record.
LEMMA MarkedGood ==
  ASSUME NEW p \in Process, NEW s \in Marked, NEW t \in (SUBSET Path) \ {{}}, NEW b \in BOOLEAN,
         IInv, step[p] \in Marked, t \subseteq request[p].paths,
         UNCHANGED <<record, lock, pass, seen, prepared, request, result, budget>>,
         step' = [step EXCEPT ![p] = s], todo' = [todo EXCEPT ![p] = t],
         changed' = [changed EXCEPT ![p] = b], (touched' = touched) \/ Read(p),
         file' \in [Path -> Entry], treeHint' \in [Commit -> {None} \cup SUBSET Path],
         fileHint' \in [Path -> {None} \cup Commit],
         s \in {"replace", "rename"} => request[p].policy = "replace",
         s = "rename" =>
            t = todo[p] /\ (file'[Visited(p)] # Special \/ Visited(p) \in touched'[p]),
         s = "validate" =>
            \A x \in request[p].paths \ t : file'[x] = Target(p, x) \/ x \in touched'[p],
         s \in AllExact => \A x \in request[p].paths : file'[x] = Target(p, x) \/ x \in touched'[p]
  PROVE  TypeOK' /\ Good(p)' /\ Frame(p)
<1>1. TypeOK /\ Control(p) /\ RecordMarked(p)
  BY DEF IInv
<1>2. DirTyped' /\ PassTyped' /\ Working(p)
  BY <1>1 DEF DirTyped, PassTyped, TypeOK, Findings, Working, Marked
<1>3. s \in Steps \ Resting
  BY DEF Steps, Resting, Marked
<1>4. /\ TypeOK' /\ Frame(p)
      /\ step'[p] = s /\ todo'[p] = t /\ changed'[p] = b
      /\ request'[p] = request[p] /\ result'[p] = result[p]
      /\ request[p] \in Request /\ result[p] = None
  BY <1>2, <1>3, StayTyped
<1>5. Control(p)' /\ RecordMarked(p)' /\ ChangeReported(p)'
  BY <1>1, <1>4 DEF Control, RecordMarked, ChangeReported, Working, Marked
<1>6. ReadExact(p)'
  <2>1. s = "rename" => Visited(p)' = Visited(p)
    BY <1>4, SameVisited
  <2> HIDE DEF Visited
  <2> QED
    BY <1>4, <2>1 DEF ReadExact, ExactOrTouched, Target, Marked
<1> QED
  BY <1>4, <1>5, <1>6 DEF Good

\* What a process has left when it works.
LEMMA Left ==
  ASSUME NEW p \in Process, IInv, Working(p)
  PROVE  /\ todo[p] \in (SUBSET Path) \ {{}} /\ todo[p] \subseteq request[p].paths
         /\ Visited(p) \in todo[p] /\ Visited(p) \in Path
         /\ request[p] \in Request /\ Visited(p) \in request[p].paths
         /\ request[p].paths \subseteq Path
         /\ request[p].policy \in Policies
<1>1. TypeOK /\ Control(p)
  BY DEF IInv
<1>2. request[p] \in Request
  BY <1>1 DEF Control, Working
<1> QED
  BY <1>1, <1>2, VisitedLeft DEF Control, TypeOK, Request

\* Work under an in-progress record that leaves the directory alone and
\* looks at a path: it goes on to another step with the same paths left.
LEMMA LooksGood ==
  ASSUME NEW p \in Process, NEW s \in {"install", "existing", "replace", "rename", "verify"},
         IInv, step[p] \in {"materialize", "install", "existing", "replace"},
         UNCHANGED <<dirVars, lock, todo, pass, seen, prepared, request, result, budget, changed>>,
         step' = [step EXCEPT ![p] = s], (touched' = touched) \/ Read(p),
         s \in {"replace", "rename"} => request[p].policy = "replace",
         s = "rename" => file[Visited(p)] # Special
  PROVE  TypeOK' /\ Good(p)' /\ Frame(p)
<1>1. TypeOK /\ Working(p) /\ step[p] \in Marked /\ s \in Marked
  BY DEF IInv, Working, Marked
<1>2. todo[p] \in (SUBSET Path) \ {{}} /\ todo[p] \subseteq request[p].paths
  BY <1>1, Left
<1>3. /\ todo' = [todo EXCEPT ![p] = todo[p]] /\ changed' = [changed EXCEPT ![p] = changed[p]]
      /\ changed[p] \in BOOLEAN
  BY <1>1 DEF TypeOK
<1>4. /\ file' \in [Path -> Entry] /\ treeHint' \in [Commit -> {None} \cup SUBSET Path]
      /\ fileHint' \in [Path -> {None} \cup Commit] /\ UNCHANGED record
  BY <1>1 DEF TypeOK, dirVars
<1>5. s # "validate" /\ s \notin AllExact
  BY DEF AllExact
<1>6. file' = file
  BY DEF dirVars
<1> QED
  BY <1>1, <1>2, <1>3, <1>4, <1>5, <1>6, MarkedGood

\* A path is done with and the materialization goes on to the next one, or
\* to the validation of all of them.
LEMMA MaterializedGood ==
  ASSUME NEW p \in Process, IInv, step[p] \in {"materialize", "existing", "verify"},
         Advance(p, "materialize", "validate"), Read(p),
         UNCHANGED <<dirVars, lock, pass, seen, prepared, request, result, budget, changed>>
  PROVE  TypeOK' /\ Good(p)' /\ Frame(p)
<1>1. TypeOK /\ Working(p) /\ step[p] \in Marked
  BY DEF IInv, Working, Marked
<1>2. PICK s, t : Goes(p, "materialize", "validate", s, t)
  BY <1>1, AdvanceGoes
<1>3. changed' = [changed EXCEPT ![p] = changed[p]] /\ changed[p] \in BOOLEAN
  BY <1>1 DEF TypeOK
<1>4. /\ file' \in [Path -> Entry] /\ treeHint' \in [Commit -> {None} \cup SUBSET Path]
      /\ fileHint' \in [Path -> {None} \cup Commit] /\ UNCHANGED record
  BY <1>1 DEF TypeOK, dirVars
<1>5. /\ step' = [step EXCEPT ![p] = s] /\ todo' = [todo EXCEPT ![p] = t]
      /\ t \in (SUBSET Path) \ {{}} /\ t \subseteq request[p].paths
      /\ s \in {"materialize", "validate"}
      /\ s = "validate" => t = request[p].paths
  BY <1>2 DEF Goes
<1>6. s \in Marked /\ s \notin AllExact /\ s \notin {"replace", "rename"}
  BY <1>5 DEF Marked, AllExact
<1>7. s = "validate" =>
        \A x \in request[p].paths \ t : file'[x] = Target(p, x) \/ x \in touched'[p]
  BY <1>5
<1> QED
  BY <1>1, <1>3, <1>4, <1>5, <1>6, <1>7, MarkedGood

\* A failure of work under the lock that left the directory alone.
LEMMA FailureGood ==
  ASSUME NEW p \in Process, NEW o \in Outcomes, IInv, Working(p), Fails(p, o),
         UNCHANGED <<dirVars, changed, budget>>, (touched' = touched) \/ Read(p)
  PROVE  TypeOK' /\ Good(p)' /\ Frame(p)
<1>1. budget' \in Budgets /\ step[p] # "idle" /\ UNCHANGED dirVars /\ changed' = changed
  BY DEF IInv, TypeOK, Working
<1> QED
  BY <1>1, FailsGood

\* A file is materialized, or found to be exact.
LEMMA MaterializeFileGood ==
  ASSUME NEW p \in Process, IInv, MaterializeFile(p)
  PROVE  TypeOK' /\ Good(p)' /\ Frame(p)
<1> DEFINE x == Visited(p)
           found == Inspection(p, x)
<1>1. step[p] = "materialize" /\ Read(p) /\ UNCHANGED <<dirVars, changed, budget>>
  BY DEF MaterializeFile
<1>2. Working(p) /\ step[p] \in Marked
  BY <1>1 DEF Working, Marked
<1>3. CASE Advance(p, "materialize", "validate") /\ Keep /\ UNCHANGED <<lock, pass, seen, prepared>>
  BY <1>1, <1>3, MaterializedGood DEF Keep
<1>4. CASE Fails(p, "invalid") \/ Fails(p, "conflict")
  BY <1>1, <1>2, <1>4, FailureGood DEF Outcomes
<1>5. CASE /\ found # "exact" /\ ~Refused(p, found)
           /\ Goto(p, IF found = "missing" THEN "install" ELSE "replace")
           /\ Keep /\ Unmoved
  <2>1. found \in {"missing", "different"} /\ request[p].policy \in Policies
    BY <1>2, <1>5, Left, InspectionFinds DEF Refused, IInv, Findings
  <2>2. found # "missing" => request[p].policy = "replace"
    BY <1>5, <2>1 DEF Refused, Policies
  <2> DEFINE s == IF found = "missing" THEN "install" ELSE "replace"
  <2>3. s \in {"install", "replace"} /\ (s = "replace" => request[p].policy = "replace")
    BY <2>2
  <2>4. step' = [step EXCEPT ![p] = s]
    BY <1>5 DEF Goto
  <2>5. UNCHANGED <<dirVars, lock, todo, pass, seen, prepared, request, result, budget, changed>>
    BY <1>1, <1>5 DEF Keep, Unmoved
  <2> HIDE DEF s
  <2> QED
    BY <1>1, <2>3, <2>4, <2>5, LooksGood
<1> QED
  BY <1>3, <1>4, <1>5 DEF MaterializeFile

\* The content of the commit is written at the visited path.
LEMMA WritesGood ==
  ASSUME NEW p \in Process, IInv, step[p] \in {"install", "rename"}, Writes(p),
         UNCHANGED <<record, treeHint, fileHint, touched, budget>>
  PROVE  TypeOK' /\ Good(p)' /\ Frame(p)
<1>1. TypeOK /\ Working(p) /\ step[p] \in Marked /\ "verify" \in Marked
  BY DEF IInv, Working, Marked
<1>2. /\ todo[p] \in (SUBSET Path) \ {{}} /\ todo[p] \subseteq request[p].paths
      /\ Visited(p) \in Path /\ request[p] \in Request
  BY <1>1, Left
<1>3. Target(p, Visited(p)) \in Entry
  BY <1>2, TargetContent
<1> HIDE DEF Visited
<1>4. /\ file' \in [Path -> Entry] /\ treeHint' \in [Commit -> {None} \cup SUBSET Path]
      /\ fileHint' \in [Path -> {None} \cup Commit]
  BY <1>1, <1>2, <1>3 DEF TypeOK, Writes
<1>5. /\ step' = [step EXCEPT ![p] = "verify"] /\ changed' = [changed EXCEPT ![p] = TRUE]
      /\ todo' = [todo EXCEPT ![p] = todo[p]]
      /\ UNCHANGED <<record, lock, pass, seen, prepared, request, result, budget>>
      /\ touched' = touched
  BY <1>1 DEF TypeOK, Writes, Goto, Changes, Keep
<1>6. "verify" \notin AllExact
  BY DEF AllExact
<1> QED
  BY <1>1, <1>2, <1>4, <1>5, <1>6, MarkedGood

\* The staged file is installed where nothing was.
LEMMA InstallMissingGood ==
  ASSUME NEW p \in Process, IInv, InstallMissing(p)
  PROVE  TypeOK' /\ Good(p)' /\ Frame(p)
<1>1. step[p] = "install" /\ UNCHANGED <<record, treeHint, fileHint, touched, budget>>
  BY DEF InstallMissing
<1>2. CASE Writes(p)
  BY <1>1, <1>2, WritesGood
<1>3. CASE Goto(p, "existing") /\ Keep /\ Unmoved /\ UNCHANGED changed
  <2>1. /\ step' = [step EXCEPT ![p] = "existing"] /\ touched' = touched
        /\ UNCHANGED <<dirVars, lock, todo, pass, seen, prepared, request, result, budget, changed>>
    BY <1>1, <1>3 DEF Goto, Keep, Unmoved, dirVars
  <2> QED
    BY <1>1, <2>1, LooksGood
<1> QED
  BY <1>2, <1>3 DEF InstallMissing

\* What took the name before the staged file could is inspected.
LEMMA InspectExistingGood ==
  ASSUME NEW p \in Process, IInv, InspectExisting(p)
  PROVE  TypeOK' /\ Good(p)' /\ Frame(p)
<1>1. step[p] = "existing" /\ Read(p) /\ UNCHANGED <<dirVars, changed, budget>> /\ Working(p)
  BY DEF InspectExisting, Working
<1>2. CASE Advance(p, "materialize", "validate") /\ Keep /\ UNCHANGED <<lock, pass, seen, prepared>>
  BY <1>1, <1>2, MaterializedGood DEF Keep
<1>3. CASE request[p].policy = "replace" /\ Goto(p, "replace") /\ Keep /\ Unmoved
  <2>1. /\ step' = [step EXCEPT ![p] = "replace"]
        /\ UNCHANGED <<dirVars, lock, todo, pass, seen, prepared, request, result, budget, changed>>
    BY <1>1, <1>3 DEF Goto, Keep, Unmoved
  <2> QED
    BY <1>1, <1>3, <2>1, LooksGood
<1>4. CASE Fails(p, "conflict")
  BY <1>1, <1>4, FailureGood DEF Outcomes
<1> QED
  BY <1>2, <1>3, <1>4 DEF InspectExisting

\* What is at the path is looked at before it is replaced.
LEMMA CheckReplacementGood ==
  ASSUME NEW p \in Process, IInv, CheckReplacement(p)
  PROVE  TypeOK' /\ Good(p)' /\ Frame(p)
<1>1. step[p] = "replace" /\ Read(p) /\ UNCHANGED <<dirVars, changed, budget>> /\ Working(p)
  BY DEF CheckReplacement, Working
<1>2. CASE /\ file[Visited(p)] \notin {Directory, Special} /\ Goto(p, "rename") /\ Keep
           /\ UNCHANGED <<lock, todo, pass, seen, prepared>>
  <2>1. /\ step' = [step EXCEPT ![p] = "rename"] /\ file[Visited(p)] # Special
        /\ UNCHANGED <<dirVars, lock, todo, pass, seen, prepared, request, result, budget, changed>>
    BY <1>1, <1>2 DEF Goto, Keep
  <2>2. request[p].policy = "replace"
    BY <1>1 DEF IInv, Control
  <2> QED
    BY <1>1, <2>1, <2>2, LooksGood
<1>3. CASE Fails(p, "error")
  BY <1>1, <1>3, FailureGood DEF Outcomes
<1> QED
  BY <1>2, <1>3 DEF CheckReplacement

\* The staged file is renamed to a path where no directory is.
LEMMA InstallReplacementGood ==
  ASSUME NEW p \in Process, IInv, InstallReplacement(p)
  PROVE  TypeOK' /\ Good(p)' /\ Frame(p)
<1>1. /\ step[p] = "rename" /\ UNCHANGED <<record, treeHint, fileHint, touched, budget>>
      /\ Working(p)
  BY DEF InstallReplacement, Working
<1>2. CASE Writes(p)
  BY <1>1, <1>2, WritesGood
<1>3. CASE Fails(p, "error") /\ UNCHANGED <<file, changed>>
  <2>1. UNCHANGED <<dirVars, changed, budget>> /\ touched' = touched
    BY <1>1, <1>3 DEF dirVars
  <2> QED
    BY <1>1, <1>3, <2>1, FailureGood DEF Outcomes
<1> QED
  BY <1>2, <1>3 DEF InstallReplacement

\* What was installed is read back.
LEMMA FinishInstallGood ==
  ASSUME NEW p \in Process, IInv, FinishInstall(p)
  PROVE  TypeOK' /\ Good(p)' /\ Frame(p)
<1>1. step[p] = "verify" /\ Read(p) /\ UNCHANGED <<dirVars, changed, budget>> /\ Working(p)
  BY DEF FinishInstall, Working
<1>2. CASE Advance(p, "materialize", "validate") /\ Keep /\ UNCHANGED <<lock, pass, seen, prepared>>
  BY <1>1, <1>2, MaterializedGood DEF Keep
<1>3. CASE Fails(p, "invalid")
  BY <1>1, <1>3, FailureGood DEF Outcomes
<1> QED
  BY <1>2, <1>3 DEF FinishInstall

\* A pass that reads the files finds the visited path exact: all the paths
\* it has read so far are, those others have edited since apart.
LEMMA ReadVisited ==
  ASSUME NEW p \in Process, IInv, step[p] \in {"validate", "hash"}, file' = file, Read(p),
         Inspection(p, Visited(p)) = "exact"
  PROVE  \A x \in request[p].paths \ (todo[p] \ {Visited(p)}) :
            file'[x] = Target(p, x) \/ x \in touched'[p]
<1>1. TypeOK /\ Working(p) /\ ReadExact(p)
  BY DEF IInv, Working
<1>2. Visited(p) \in Path /\ request[p] \in Request /\ request[p].paths \subseteq Path
  BY <1>1, Left
<1>3. file[Visited(p)] = Target(p, Visited(p))
  BY <1>1, <1>2, InspectionFinds
<1>4. \A x \in touched[p] : x # Visited(p) => x \in touched'[p]
  BY <1>1, ReadTouched
<1> HIDE DEF Visited
<1>5. \A x \in request[p].paths \ todo[p] : file[x] = Target(p, x) \/ x \in touched[p]
  BY <1>1 DEF ReadExact, ExactOrTouched
<1> QED
  BY <1>3, <1>4, <1>5

\* The final validation looks at a path.
LEMMA ValidateNextGood ==
  ASSUME NEW p \in Process, IInv, ValidateNext(p)
  PROVE  TypeOK' /\ Good(p)' /\ Frame(p)
<1>1. /\ step[p] = "validate" /\ Read(p) /\ UNCHANGED <<dirVars, changed, budget>>
      /\ Working(p) /\ TypeOK /\ step[p] \in Marked
  BY DEF ValidateNext, Working, Marked, IInv
<1>2. CASE /\ Inspection(p, Visited(p)) = "exact"
           /\ Advance(p, "validate", "hints") /\ Keep /\ UNCHANGED <<lock, pass, seen, prepared>>
  <2>1. PICK s, t : Goes(p, "validate", "hints", s, t)
    BY <1>1, <1>2, AdvanceGoes
  <2>2. changed' = [changed EXCEPT ![p] = changed[p]] /\ changed[p] \in BOOLEAN
    BY <1>1 DEF TypeOK
  <2>3. /\ file' \in [Path -> Entry] /\ treeHint' \in [Commit -> {None} \cup SUBSET Path]
        /\ fileHint' \in [Path -> {None} \cup Commit] /\ UNCHANGED record /\ file' = file
    BY <1>1 DEF TypeOK, dirVars
  <2>4. /\ step' = [step EXCEPT ![p] = s] /\ todo' = [todo EXCEPT ![p] = t]
        /\ t \in (SUBSET Path) \ {{}} /\ t \subseteq request[p].paths
        /\ \/ s = "hints" /\ todo[p] = {Visited(p)}
           \/ s = "validate" /\ t = todo[p] \ {Visited(p)}
    BY <2>1 DEF Goes
  <2>5. \A x \in request[p].paths \ (todo[p] \ {Visited(p)}) :
           file'[x] = Target(p, x) \/ x \in touched'[p]
    BY <1>1, <1>2, <2>3, ReadVisited
  <2> HIDE DEF Visited
  <2>6. s \in Marked /\ s \notin {"replace", "rename"} /\ ("validate" \notin AllExact)
    BY <2>4 DEF Marked, AllExact
  <2>7. s = "validate" =>
          \A x \in request[p].paths \ t : file'[x] = Target(p, x) \/ x \in touched'[p]
    BY <2>4, <2>5
  <2>8. s \in AllExact =>
          \A x \in request[p].paths : file'[x] = Target(p, x) \/ x \in touched'[p]
    BY <2>4, <2>5, <2>6
  <2> QED
    BY <1>1, <1>2, <2>2, <2>3, <2>4, <2>6, <2>7, <2>8, MarkedGood DEF Keep
<1>3. CASE Fails(p, "invalid")
  BY <1>1, <1>3, FailureGood DEF Outcomes
<1> QED
  BY <1>2, <1>3 DEF ValidateNext

\* The download metadata of a path is written.
LEMMA WriteFileHintGood ==
  ASSUME NEW p \in Process, IInv, WriteFileHint(p)
  PROVE  TypeOK' /\ Good(p)' /\ Frame(p)
<1>1. /\ step[p] = "hints" /\ UNCHANGED <<file, record, treeHint, touched, budget>>
      /\ Working(p) /\ TypeOK /\ ReadExact(p) /\ step[p] \in Marked
  BY DEF WriteFileHint, Working, Marked, IInv
<1>2. CASE /\ fileHint' = [fileHint EXCEPT ![Visited(p)] = request[p].commit]
           /\ Advance(p, "hints", "tree") /\ Changes(p) /\ Keep
           /\ UNCHANGED <<lock, pass, seen, prepared>>
  <2>1. PICK s, t : Goes(p, "hints", "tree", s, t)
    BY <1>1, <1>2, AdvanceGoes
  <2>2. /\ step' = [step EXCEPT ![p] = s] /\ todo' = [todo EXCEPT ![p] = t]
        /\ t \in (SUBSET Path) \ {{}} /\ t \subseteq request[p].paths
        /\ s \in {"hints", "tree"} /\ Visited(p) \in Path /\ request[p] \in Request
    BY <2>1 DEF Goes
  <2>3. changed' = [changed EXCEPT ![p] = TRUE]
    BY <1>2 DEF Changes
  <2> HIDE DEF Visited
  <2>4. /\ file' \in [Path -> Entry] /\ treeHint' \in [Commit -> {None} \cup SUBSET Path]
        /\ fileHint' \in [Path -> {None} \cup Commit]
    BY <1>1, <1>2, <2>2 DEF TypeOK, Request
  <2>5. \A x \in request[p].paths : file'[x] = Target(p, x) \/ x \in touched'[p]
    BY <1>1 DEF ReadExact, ExactOrTouched, AllExact
  <2>6. s \in Marked /\ s \notin {"replace", "rename"} /\ s # "validate"
    BY <2>2 DEF Marked
  <2> QED
    BY <1>1, <1>2, <2>2, <2>3, <2>4, <2>5, <2>6, MarkedGood DEF Keep
<1>3. CASE Fails(p, "conflict") /\ UNCHANGED <<fileHint, changed>>
  <2>1. UNCHANGED <<dirVars, changed, budget>> /\ touched' = touched
    BY <1>1, <1>3 DEF dirVars
  <2> QED
    BY <1>1, <1>3, <2>1, FailureGood DEF Outcomes
<1> QED
  BY <1>2, <1>3 DEF WriteFileHint

\* The tree record of the commit is created, or found to be the same.
LEMMA WriteTreeHintGood ==
  ASSUME NEW p \in Process, IInv, WriteTreeHint(p)
  PROVE  TypeOK' /\ Good(p)' /\ Frame(p)
<1>1. /\ step[p] = "tree" /\ UNCHANGED <<file, record, fileHint, touched, budget>>
      /\ Working(p) /\ TypeOK /\ ReadExact(p) /\ step[p] \in Marked
  BY DEF WriteTreeHint, Working, Marked, IInv
<1>2. CASE /\ treeHint' = [treeHint EXCEPT ![request[p].commit] = request[p].paths]
           /\ Goto(p, "complete") /\ Changes(p) /\ Keep
           /\ UNCHANGED <<lock, todo, pass, seen, prepared>>
  <2>1. /\ todo[p] \in (SUBSET Path) \ {{}} /\ todo[p] \subseteq request[p].paths
        /\ request[p] \in Request /\ request[p].paths \subseteq Path
    BY <1>1, Left
  <2>2. /\ step' = [step EXCEPT ![p] = "complete"] /\ todo' = [todo EXCEPT ![p] = todo[p]]
        /\ changed' = [changed EXCEPT ![p] = TRUE]
    BY <1>1, <1>2 DEF Changes, Goto, TypeOK
  <2>3. /\ file' \in [Path -> Entry] /\ treeHint' \in [Commit -> {None} \cup SUBSET Path]
        /\ fileHint' \in [Path -> {None} \cup Commit]
    BY <1>1, <1>2, <2>1 DEF TypeOK
  <2>4. \A x \in request[p].paths : file'[x] = Target(p, x) \/ x \in touched'[p]
    BY <1>1 DEF ReadExact, ExactOrTouched, AllExact
  <2>5. "complete" \in Marked
    BY DEF Marked
  <2> QED
    BY <1>1, <1>2, <2>1, <2>2, <2>3, <2>4, <2>5, MarkedGood DEF Keep
<1>3. CASE Fails(p, "tree conflict") /\ UNCHANGED <<treeHint, changed>>
  <2>1. UNCHANGED <<dirVars, changed, budget>> /\ touched' = touched
    BY <1>1, <1>3 DEF dirVars
  <2> QED
    BY <1>1, <1>3, <2>1, FailureGood DEF Outcomes
<1> QED
  BY <1>2, <1>3 DEF WriteTreeHint

\* The complete record is published, and the reconciliation ends.
LEMMA PublishCompleteGood ==
  ASSUME NEW p \in Process, IInv, PublishComplete(p)
  PROVE  TypeOK' /\ Good(p)' /\ Frame(p)
<1>1. /\ step[p] = "complete" /\ TypeOK /\ Control(p) /\ Working(p)
      /\ record' = [request |-> IdentityOf(request[p]), complete |-> TRUE]
      /\ End(p, "reconciled", FALSE) /\ changed' = [changed EXCEPT ![p] = TRUE]
      /\ UNCHANGED <<file, treeHint, fileHint, touched, budget>>
  BY DEF PublishComplete, Changes, IInv, Working
<1>2. IdentityOf(request[p]) \in Identity
  BY <1>1, Left, IdentityTyped
<1>3. DirTyped' /\ changed' \in [Process -> BOOLEAN] /\ touched' = touched /\ budget' = budget
  BY <1>1, <1>2 DEF DirTyped, TypeOK
<1>4. /\ lock' \in {None} \cup Process
      /\ step' \in [Process -> Steps]
      /\ request' \in [Process -> {None} \cup Request]
      /\ todo' \in [Process -> SUBSET Path]
      /\ pass' \in [Process -> 1 .. 2]
      /\ seen' \in [Process -> [Path -> {"unseen", "missing", "exact", "different", "conflict"}]]
      /\ prepared' \in [Process -> SUBSET Path]
      /\ result' \in [Process -> {None} \cup Report]
      /\ \A q \in Process : Working(q)' <=> lock' = q
  BY <1>1, TypeEnd DEF Outcomes
<1>5. TypeOK'
  BY <1>1, <1>3, <1>4 DEF TypeOK, DirTyped
<1>6. step'[p] = "idle" /\ result'[p] = [outcome |-> "reconciled", may |-> FALSE]
  BY <1>1 DEF TypeOK, End, Goto
<1>7. result'[p] # None /\ result'[p].outcome = "reconciled"
  <2>1. result'[p] \in Report
    BY <1>6 DEF Report, Outcomes
  <2>2. result'[p].outcome = "reconciled"
    BY <1>6
  <2>3. result'[p] # None
    BY <2>1, NoneAssumption
  <2> QED
    BY <2>2, <2>3
<1>8. Good(p)'
  BY <1>6, <1>7 DEF Good, Control, RecordMarked, ReadExact, ChangeReported, Working, Marked, AllExact
<1>9. Frame(p)
  BY <1>1 DEF Frame, TypeOK, End, Goto
<1> QED
  BY <1>5, <1>8, <1>9

\* The offline reader reads the completion record.
LEMMA ReadStateGood ==
  ASSUME NEW p \in Process, IInv, ReadState(p)
  PROVE  TypeOK' /\ Good(p)' /\ Frame(p)
<1>1. /\ step[p] = "read" /\ UNCHANGED <<dirVars, auxVars>> /\ TypeOK /\ Control(p)
      /\ Working(p) /\ ~WithChange(p) /\ ChangeReported(p)
  BY DEF ReadState, IInv, Working, WithChange, Marked
<1>2. CASE Fails(p, "incomplete") \/ Fails(p, "stale")
  BY <1>1, <1>2, FailureGood DEF Outcomes, auxVars
<1>3. CASE Goto(p, "hash") /\ Keep /\ UNCHANGED <<lock, todo, pass, seen, prepared>>
  <2>1. /\ step' = [step EXCEPT ![p] = "hash"] /\ todo' = [todo EXCEPT ![p] = todo[p]]
        /\ changed' = [changed EXCEPT ![p] = FALSE] /\ touched' = touched
        /\ UNCHANGED <<lock, request, result, budget>>
    BY <1>1, <1>3 DEF Goto, Keep, TypeOK, auxVars, ChangeReported, WithChange
  <2>2. DirTyped' /\ PassTyped' /\ todo[p] \in SUBSET Path
    BY <1>1, <1>3 DEF DirTyped, PassTyped, TypeOK, Findings, dirVars
  <2>3. "hash" \in Steps \ Resting
    BY DEF Steps, Resting
  <2>4. /\ TypeOK' /\ Frame(p)
        /\ step'[p] = "hash" /\ todo'[p] = todo[p] /\ changed'[p] = FALSE
        /\ request'[p] = request[p] /\ result'[p] = result[p]
        /\ request[p] \in Request /\ result[p] = None
    BY <1>1, <2>1, <2>2, <2>3, StayTyped
  <2>5. Good(p)'
    BY <1>1, <2>4 DEF Good, Control, RecordMarked, ChangeReported, ReadExact, Working, Marked,
         AllExact
  <2> QED
    BY <2>4, <2>5
<1> QED
  BY <1>2, <1>3 DEF ReadState

\* The offline reader hashes a file.
LEMMA HashNextGood ==
  ASSUME NEW p \in Process, IInv, HashNext(p)
  PROVE  TypeOK' /\ Good(p)' /\ Frame(p)
<1>1. /\ step[p] = "hash" /\ Read(p) /\ UNCHANGED <<dirVars, changed, budget>> /\ TypeOK
      /\ Control(p) /\ Working(p) /\ ~WithChange(p) /\ ChangeReported(p)
  BY DEF HashNext, IInv, Working, WithChange, Marked
<1>2. CASE Fails(p, "incomplete")
  BY <1>1, <1>2, FailureGood DEF Outcomes
<1>3. CASE /\ Inspection(p, Visited(p)) = "exact"
           /\ Advance(p, "hash", "reread") /\ Keep /\ UNCHANGED <<lock, pass, seen, prepared>>
  <2>1. PICK s, t : Goes(p, "hash", "reread", s, t)
    BY <1>1, <1>3, AdvanceGoes
  <2>2. changed' = [changed EXCEPT ![p] = FALSE] /\ UNCHANGED <<lock, request, result, budget>>
    BY <1>1, <1>3 DEF TypeOK, ChangeReported, WithChange, Keep
  <2>3. DirTyped' /\ PassTyped' /\ file' = file
    BY <1>1, <1>3 DEF DirTyped, PassTyped, TypeOK, Findings, dirVars
  <2>4. /\ step' = [step EXCEPT ![p] = s] /\ todo' = [todo EXCEPT ![p] = t]
        /\ t \in (SUBSET Path) \ {{}} /\ t \subseteq request[p].paths
        /\ \/ s = "reread" /\ todo[p] = {Visited(p)}
           \/ s = "hash" /\ t = todo[p] \ {Visited(p)}
    BY <2>1 DEF Goes
  <2>5. \A x \in request[p].paths \ (todo[p] \ {Visited(p)}) :
           file'[x] = Target(p, x) \/ x \in touched'[p]
    BY <1>1, <1>3, <2>3, ReadVisited
  <2>6. s \in Steps \ Resting
    BY <2>4 DEF Steps, Resting
  <2>7. /\ TypeOK' /\ Frame(p)
        /\ step'[p] = s /\ todo'[p] = t /\ changed'[p] = FALSE
        /\ request'[p] = request[p] /\ result'[p] = result[p]
        /\ request[p] \in Request /\ result[p] = None
    BY <1>1, <2>2, <2>3, <2>4, <2>6, StayTyped
  <2> HIDE DEF Visited
  <2>8. ReadExact(p)'
    BY <2>4, <2>5, <2>7 DEF ReadExact, ExactOrTouched, Target, AllExact
  <2>9. Control(p)' /\ RecordMarked(p)' /\ ChangeReported(p)'
    BY <2>4, <2>7 DEF Control, RecordMarked, ChangeReported, Working, Marked
  <2> QED
    BY <2>7, <2>8, <2>9 DEF Good
<1> QED
  BY <1>2, <1>3 DEF HashNext

\* The offline reader reads the completion record again, and ends.
LEMMA RereadStateGood ==
  ASSUME NEW p \in Process, IInv, RereadState(p)
  PROVE  TypeOK' /\ Good(p)' /\ Frame(p)
<1> DEFINE o == IF Matches(p) THEN "opened" ELSE "stale"
<1>1. Fails(p, o) /\ o \in Outcomes /\ Working(p) /\ UNCHANGED <<dirVars, auxVars>>
  BY DEF RereadState, Working, Outcomes
<1> HIDE DEF o
<1> QED
  BY <1>1, FailureGood DEF auxVars

\* A fault, a cancellation or a crash ends the operation.
LEMMA InterruptedGood ==
  ASSUME NEW p \in Process, IInv, Fault(p) \/ Cancelled(p) \/ Crash(p)
  PROVE  TypeOK' /\ Good(p)' /\ Frame(p) /\ UNCHANGED <<file, record>>
<1>1. step[p] # "idle" /\ UNCHANGED <<dirVars, touched, changed>>
  BY DEF Fault, Cancelled, Crash, Working
<1>2. TypeOK /\ touched' = touched /\ changed' = changed /\ UNCHANGED dirVars
  BY <1>1 DEF IInv
<1>3. budget' \in Budgets
  BY <1>2, SpendTyped DEF Fault, Cancelled, Crash
<1>4. CASE Fails(p, "error") \/ Fails(p, "cancelled")
  BY <1>1, <1>2, <1>3, <1>4, FailsGood DEF Outcomes, dirVars
<1>5. CASE End(p, "crashed", TRUE)
  BY <1>2, <1>3, <1>5, EndGood DEF Outcomes, dirVars
<1> QED
  BY <1>4, <1>5 DEF Fault, Cancelled, Crash

\* The owner of the directory edits a path: everyone may be wrong about it.
LEMMA EditKeeps ==
  ASSUME NEW x \in Path, NEW e \in Entry, IInv, Edit(x, e)
  PROVE  IInv'
<1>1. TypeOK /\ \A p \in Process : Good(p)
  BY DEF IInv, Good
<1>2. /\ file' = [file EXCEPT ![x] = e]
      /\ touched' = [p \in Process |-> touched[p] \cup {x}]
      /\ UNCHANGED <<record, treeHint, fileHint, lock, procVars, changed>>
  BY DEF Edit
<1>3. budget' \in Budgets
  BY <1>1, SpendTyped DEF Edit
<1>4. \A q \in Process : Working(q)' <=> lock' = q
  BY <1>1, <1>2 DEF TypeOK, Working, procVars
<1>5. TypeOK'
  BY <1>1, <1>2, <1>3, <1>4 DEF TypeOK, procVars
<1>6. ASSUME NEW p \in Process PROVE Good(p)'
  <2>1. UNCHANGED <<step, request, todo, result, record, changed>>
    BY <1>2 DEF procVars
  <2>2. Good(p) /\ touched'[p] = touched[p] \cup {x}
    BY <1>1, <1>2
  <2>3. \A y \in Path : ExactOrTouched(p, y) => ExactOrTouched(p, y)'
    BY <1>1, <1>2, <2>1, <2>2 DEF ExactOrTouched, Target, TypeOK
  <2>4. Control(p)' /\ RecordMarked(p)' /\ ChangeReported(p)'
    BY <2>1, <2>2 DEF Good, Control, RecordMarked, ChangeReported, Working
  <2>5. step[p] # "idle" => request[p].paths \subseteq Path
    BY <2>2 DEF Good, Control, Request
  <2>a. step[p] = "rename" => Visited(p) \in Path
    BY <1>1, <2>2, VisitedLeft DEF Good, Working
  <2>b. Visited(p)' = Visited(p)
    BY <2>1, SameVisited
  <2> HIDE DEF Visited
  <2>c. step'[p] = "rename" => file'[Visited(p)'] # Special \/ Visited(p)' \in touched'[p]
    BY <1>1, <1>2, <2>1, <2>2, <2>a, <2>b DEF Good, ReadExact, TypeOK
  <2>6. ReadExact(p)'
    BY <2>1, <2>2, <2>3, <2>5, <2>c DEF Good, ReadExact, AllExact
  <2> QED
    BY <2>4, <2>6 DEF Good
<1> QED
  BY <1>5, <1>6 DEF IInv, Good

-----------------------------------------------------------------------------
(* The inductive invariant.                                                *)

Act(p) == StartReconcile(p) \/ StartOpen(p) \/ Proceed(p) \/ Fault(p) \/ Cancelled(p) \/ Crash(p)

\* Every step of a process keeps what the invariant says of it, leaves the
\* other processes alone, and changes the directory only under the lock.
LEMMA ActGood ==
  ASSUME NEW p \in Process, IInv, Act(p)
  PROVE  TypeOK' /\ Good(p)' /\ Frame(p) /\ (Working(p) \/ UNCHANGED <<file, record>>)
<1>1. CASE StartReconcile(p) \/ StartOpen(p)
  BY <1>1, StartsGood DEF StartReconcile, StartOpen
<1>2. CASE AcquireLock(p)
  BY <1>2, AcquireLockGood
<1>3. CASE Fault(p) \/ Cancelled(p) \/ Crash(p)
  BY <1>3, InterruptedGood
<1>4. CASE InspectNext(p) \/ PrepareSources(p) \/ PublishInProgress(p)
  <2>1. Working(p)
    BY <1>4 DEF InspectNext, PrepareSources, PublishInProgress, Working
  <2> QED
    BY <1>4, <2>1, InspectNextGood, PrepareSourcesGood, PublishInProgressGood
<1>5. CASE \/ MaterializeFile(p) \/ InstallMissing(p) \/ InspectExisting(p)
           \/ CheckReplacement(p) \/ InstallReplacement(p) \/ FinishInstall(p)
  <2>1. Working(p)
    BY <1>5 DEF MaterializeFile, InstallMissing, InspectExisting, CheckReplacement,
         InstallReplacement,
         FinishInstall, Working
  <2> QED
    BY <1>5, <2>1, MaterializeFileGood, InstallMissingGood, InspectExistingGood,
       CheckReplacementGood, InstallReplacementGood, FinishInstallGood
<1>6. CASE ValidateNext(p) \/ WriteFileHint(p) \/ WriteTreeHint(p) \/ PublishComplete(p)
  <2>1. Working(p)
    BY <1>6 DEF ValidateNext, WriteFileHint, WriteTreeHint, PublishComplete, Working
  <2> QED
    BY <1>6, <2>1, ValidateNextGood, WriteFileHintGood, WriteTreeHintGood, PublishCompleteGood
<1>7. CASE ReadState(p) \/ HashNext(p) \/ RereadState(p)
  <2>1. Working(p)
    BY <1>7 DEF ReadState, HashNext, RereadState, Working
  <2> QED
    BY <1>7, <2>1, ReadStateGood, HashNextGood, RereadStateGood
<1> QED
  BY <1>1, <1>2, <1>3, <1>4, <1>5, <1>6, <1>7 DEF Act, Proceed, Reconcile, Open

\* A step that changes nothing keeps the invariant.
LEMMA Stutter == IInv /\ UNCHANGED vars => IInv'
<1> SUFFICES ASSUME IInv, UNCHANGED vars PROVE IInv'
  OBVIOUS
<1>1. UNCHANGED <<file, record, treeHint, fileHint, lock, step, request, todo, pass, seen,
                  prepared, result, touched, changed, budget>>
  BY DEF vars, dirVars, procVars, auxVars
<1>2. TypeOK'
  BY <1>1 DEF IInv, TypeOK, Working
<1>3. \A p \in Process : (Control(p) /\ RecordMarked(p) /\ ChangeReported(p) /\ ReadExact(p))'
  <2>1. \A p \in Process : Visited(p)' = Visited(p)
    BY <1>1, SameVisited
  <2> HIDE DEF Visited
  <2> QED
    BY <1>1, <2>1 DEF IInv, Control, RecordMarked, ChangeReported, ReadExact, ExactOrTouched,
         Target, Working
<1> QED
  BY <1>2, <1>3 DEF IInv

\* Every step keeps the invariant.
LEMMA InvStep == IInv /\ [Next]_vars => IInv'
<1> SUFFICES ASSUME IInv, [Next]_vars PROVE IInv'
  OBVIOUS
<1>1. ASSUME NEW p \in Process, Act(p) PROVE IInv'
  <2>1. TypeOK' /\ Good(p)' /\ Frame(p) /\ (Working(p) \/ UNCHANGED <<file, record>>)
    BY <1>1, ActGood
  <2>2. \A q \in Process \ {p} : Good(q)'
    BY <2>1, OthersKept
  <2> QED
    BY <2>1, <2>2 DEF IInv, Good
<1>2. ASSUME NEW x \in Path, NEW e \in Entry, Edit(x, e) PROVE IInv'
  BY <1>2, EditKeeps
<1> QED
  BY <1>1, <1>2, Stutter DEF Next, Act

\* The directory an instance starts with satisfies the invariant.
LEMMA InvInit == Init => IInv
<1> SUFFICES ASSUME Init PROVE IInv
  OBVIOUS
<1>1. TypeOK
  BY TypeInit
<1>2. \A p \in Process : Control(p) /\ RecordMarked(p) /\ ChangeReported(p) /\ ReadExact(p)
  BY DEF Init, Control, RecordMarked, ChangeReported, ReadExact, Working, Marked, AllExact
<1> QED
  BY <1>1, <1>2 DEF IInv

\* What the place of a process in the code says of its request, of the
\* completion record and of the files it has read is always true.
THEOREM Inductive == Spec => []IInv
  BY InvInit, InvStep, PTL DEF Spec

\* Every variable keeps its type, and a process past the lock of the
\* directory holds it (local_dir_reconciliation.rs: acquire_lock, _guard).
THEOREM TypeCorrect == Spec => []TypeOK
<1>1. IInv => TypeOK
  BY DEF IInv
<1> QED
  BY <1>1, Inductive, PTL

\* An error that says the directory did not change says the truth.
THEOREM ErrorsTell == Spec => []ErrorsTellOfChange
<1>1. IInv => ErrorsTellOfChange
  <2> SUFFICES ASSUME IInv, NEW p \in Process, step[p] = "idle", result[p] # None,
                      result[p].outcome \notin {"reconciled", "opened"}, ~result[p].may
               PROVE  ~changed[p]
    BY DEF ErrorsTellOfChange
  <2>1. ChangeReported(p)
    BY DEF IInv
  <2> QED
    BY <2>1 DEF ChangeReported, Marked
<1> QED
  BY <1>1, Inductive, PTL

-----------------------------------------------------------------------------
(* The action properties.                                                  *)

\* Only the process whose place in the code changes takes the step.
LEMMA ActorActs ==
  ASSUME IInv, Next, NEW p \in Process, Acts(p)
  PROVE  Act(p)
<1>1. ASSUME NEW q \in Process, Act(q) PROVE q = p
  <2>1. Frame(q)
    BY <1>1, ActGood
  <2> QED
    BY <2>1 DEF Frame, Acts
<1>2. ASSUME NEW x \in Path, NEW e \in Entry, Edit(x, e) PROVE FALSE
  BY <1>2 DEF Edit, procVars, Acts
<1> QED
  BY <1>1, <1>2 DEF Next, Act

\* A process writes a path only as the installation of a staged file.
LEMMA ActWrites ==
  ASSUME NEW p \in Process, Act(p), file' # file
  PROVE  /\ Writes(p) /\ step[p] \in {"install", "rename"}
         /\ step[p] = "install" => file[Visited(p)] = Missing
         /\ step[p] = "rename" => file[Visited(p)] # Directory
<1> HIDE DEF Visited
<1>1. ~StartReconcile(p) /\ ~StartOpen(p) /\ ~AcquireLock(p) /\ ~Fault(p) /\ ~Cancelled(p)
      /\ ~Crash(p)
  BY DEF StartReconcile, StartOpen, Starts, AcquireLock, Fault, Cancelled, Crash, dirVars
<1>2. ~InspectNext(p) /\ ~PrepareSources(p) /\ ~PublishInProgress(p) /\ ~MaterializeFile(p)
      /\ ~InspectExisting(p) /\ ~CheckReplacement(p) /\ ~FinishInstall(p) /\ ~ValidateNext(p)
  BY DEF InspectNext, PrepareSources, PublishInProgress, MaterializeFile, InspectExisting,
     CheckReplacement, FinishInstall, ValidateNext, dirVars
<1>3. ~WriteFileHint(p) /\ ~WriteTreeHint(p) /\ ~PublishComplete(p) /\ ~ReadState(p)
      /\ ~HashNext(p) /\ ~RereadState(p)
  BY DEF WriteFileHint, WriteTreeHint, PublishComplete, ReadState, HashNext, RereadState, dirVars
<1>4. InstallMissing(p) \/ InstallReplacement(p)
  BY <1>1, <1>2, <1>3 DEF Act, Proceed, Reconcile, Open
<1>5. CASE InstallMissing(p)
  BY <1>5 DEF InstallMissing, Unmoved
<1>6. CASE InstallReplacement(p)
  BY <1>6 DEF InstallReplacement
<1> QED
  BY <1>4, <1>5, <1>6

\* A process writes files and hints only under its in-progress record.
LEMMA ActChanges ==
  ASSUME NEW p \in Process, Act(p), ~UNCHANGED <<file, fileHint, treeHint>>
  PROVE  step[p] \in Marked
<1> HIDE DEF Visited
<1>1. CASE file' # file
  BY <1>1, ActWrites DEF Marked
<1>2. CASE fileHint' # fileHint \/ treeHint' # treeHint
  <2>1. ~StartReconcile(p) /\ ~StartOpen(p) /\ ~AcquireLock(p) /\ ~Fault(p) /\ ~Cancelled(p)
        /\ ~Crash(p)
    BY <1>2 DEF StartReconcile, StartOpen, Starts, AcquireLock, Fault, Cancelled, Crash, dirVars
  <2>2. ~InspectNext(p) /\ ~PrepareSources(p) /\ ~PublishInProgress(p) /\ ~MaterializeFile(p)
        /\ ~InspectExisting(p) /\ ~FinishInstall(p) /\ ~ValidateNext(p)
        /\ ~InstallMissing(p) /\ ~CheckReplacement(p) /\ ~InstallReplacement(p)
    BY <1>2 DEF InspectNext, PrepareSources, PublishInProgress, MaterializeFile, InspectExisting,
       FinishInstall, ValidateNext, InstallMissing, CheckReplacement, InstallReplacement, dirVars
  <2>3. ~PublishComplete(p) /\ ~ReadState(p) /\ ~HashNext(p) /\ ~RereadState(p)
    BY <1>2 DEF PublishComplete, ReadState, HashNext, RereadState, dirVars
  <2>4. WriteFileHint(p) \/ WriteTreeHint(p)
    BY <2>1, <2>2, <2>3 DEF Act, Proceed, Reconcile, Open
  <2> QED
    BY <2>4 DEF WriteFileHint, WriteTreeHint, Marked
<1> QED
  BY <1>1, <1>2

\* Bytes the owner of the directory has not agreed to lose survive: a
\* process writes only a path it selected, never over a directory, under the
\* reject policy only where nothing was (adr/0006:33-54), and over a link or
\* special file only if it was placed after the kind of what was there was
\* looked at, before the rename (rooted_fs.rs:711-722).
THEOREM OwnerBytes == Spec => OwnerBytesKept
<1>1. IInv /\ [Next]_vars => [OwnerBytesStep]_vars
  <2> SUFFICES ASSUME IInv, Next, NEW p \in Process, NEW x \in Path, Acts(p), file'[x] # file[x]
               PROVE  /\ x \in request[p].paths
                      /\ file[x] # Directory
                      /\ request[p].policy = "reject" => file[x] = Missing
                      /\ file[x] = Special => x \in touched[p]
    BY DEF OwnerBytesStep
  <2>1. /\ Writes(p) /\ step[p] \in {"install", "rename"}
        /\ step[p] = "install" => file[Visited(p)] = Missing
        /\ step[p] = "rename" => file[Visited(p)] # Directory
    BY ActorActs, ActWrites
  <2>2. Working(p) /\ TypeOK /\ Control(p) /\ ReadExact(p)
    BY <2>1 DEF IInv, Working
  <2>3. Visited(p) \in request[p].paths
    BY <2>2, Left
  <2> HIDE DEF Visited
  <2>4. x = Visited(p)
    BY <2>1, <2>2 DEF Writes, TypeOK
  <2>5. CASE step[p] = "install"
    BY <2>1, <2>3, <2>4, <2>5, EntryAssumption
  <2>6. CASE step[p] = "rename"
    <3>1. request[p].policy = "replace"
      BY <2>2, <2>6 DEF Control
    <3>2. file[Visited(p)] # Special \/ Visited(p) \in touched[p]
      BY <2>2, <2>6 DEF ReadExact
    <3> QED
      BY <2>1, <2>3, <2>4, <2>6, <3>1, <3>2
  <2> QED
    BY <2>1, <2>5, <2>6
<1> QED
  BY <1>1, Inductive, PTL DEF Spec, OwnerBytesKept

\* While a completion record is complete no process of the library changes
\* a file or a hint: it first replaces the record by one in progress
\* (adr/0006:80-91).
THEOREM CompleteBefore == Spec => CompleteBeforeChange
<1>1. IInv /\ [Next]_vars => [CompleteStep]_vars
  <2> SUFFICES ASSUME IInv, Next, record # None, record.complete, NEW p \in Process, Acts(p)
               PROVE  UNCHANGED <<file, fileHint, treeHint>>
    BY DEF CompleteStep
  <2>1. Act(p) /\ RecordMarked(p)
    BY ActorActs DEF IInv
  <2>2. step[p] \notin Marked
    BY <2>1 DEF RecordMarked
  <2> QED
    BY <2>1, <2>2, ActChanges
<1> QED
  BY <1>1, Inductive, PTL DEF Spec, CompleteBeforeChange

\* A completion record is published complete only when every selected file
\* holds the content of the commit, edits made by others since the final
\* validation apart (local_dir_reconciliation.rs:404-445).
THEOREM CompletionExact == Spec => CompletionIsExact
<1>1. IInv /\ [Next]_vars => [CompletionStep]_vars
  BY DEF IInv, CompletionStep, ReadExact, AllExact, ExactOrTouched
<1> QED
  BY <1>1, Inductive, PTL DEF Spec, CompletionIsExact

\* An offline open that is accepted stands on the complete record of
\* exactly that request and on files that were all exact when read
\* (local_dir_completion.rs: LocalDirOfflineReader::open).
THEOREM OpenedExact == Spec => OpenedIsExact
<1>1. IInv /\ [Next]_vars => [OpenStep]_vars
  <2> SUFFICES ASSUME IInv, Next, NEW p \in Process, step[p] = "reread",
                      result'[p] # result[p], result'[p].outcome = "opened"
               PROVE  /\ record = [request |-> IdentityOf(request[p]), complete |-> TRUE]
                      /\ \A x \in request[p].paths : file[x] = Target(p, x) \/ x \in touched[p]
    BY DEF OpenStep
  <2>1. TypeOK /\ ReadExact(p)
    BY DEF IInv
  <2>2. ASSUME NEW q \in Process, Act(q) PROVE q = p
    <3>1. Frame(q)
      BY <2>2, ActGood
    <3> QED
      BY <3>1 DEF Frame
  <2>3. ASSUME NEW x \in Path, NEW e \in Entry, Edit(x, e) PROVE FALSE
    BY <2>3 DEF Edit, procVars
  <2>4. Act(p)
    BY <2>2, <2>3 DEF Next, Act
  <2>5. ~Fault(p) /\ ~Cancelled(p) /\ ~Crash(p)
    BY <2>1 DEF Fault, Cancelled, Crash, Fails, End, TypeOK
  <2>6. RereadState(p)
    BY <2>4, <2>5 DEF Act, StartReconcile, StartOpen, Starts, Proceed, AcquireLock, Reconcile,
       InspectNext, PrepareSources, PublishInProgress, MaterializeFile, InstallMissing,
       InspectExisting, CheckReplacement, InstallReplacement, FinishInstall, ValidateNext,
       WriteFileHint, WriteTreeHint, PublishComplete, Open, ReadState, HashNext
  <2>7. Matches(p)
    BY <2>1, <2>6 DEF RereadState, Fails, End, TypeOK
  <2>8. record = [request |-> IdentityOf(request[p]), complete |-> TRUE]
    BY <2>1, <2>7 DEF Matches, TypeOK
  <2> QED
    BY <2>1, <2>8 DEF ReadExact, AllExact, ExactOrTouched
<1> QED
  BY <1>1, Inductive, PTL DEF Spec, OpenedIsExact

-----------------------------------------------------------------------------
(* The refinement of LocalDirectory.                                       *)

\* The session belongs to the process that is past its in-progress record.
LEMMA SessionMarked ==
  ASSUME NEW l \in {None} \cup Process, NEW place, NEW who,
         \A q \in Process : place[q] \in Marked => l = q,
         who = IF l # None /\ place[l] \in Marked THEN l ELSE None
  PROVE  /\ \A q \in Process : who = q <=> place[q] \in Marked
         /\ who = None <=> \A q \in Process : place[q] \notin Marked
         /\ who \in Process \cup {None}
<1>1. CASE l # None /\ place[l] \in Marked
  BY <1>1, NoneAssumption
<1>2. CASE ~(l # None /\ place[l] \in Marked)
  BY <1>2, NoneAssumption
<1> QED
  BY <1>1, <1>2

\* What a step of a process does to the completion record and to the place
\* of the process before or after its in-progress record.
LEMMA ActRecord ==
  ASSUME NEW p \in Process, IInv, Act(p)
  PROVE  \/ PublishInProgress(p)
         \/ PublishComplete(p)
         \/ record' = record /\ (step'[p] \in Marked => step[p] \in Marked)
<1> HIDE DEF Visited
<1>1. TypeOK
  BY DEF IInv
<1>2. CASE StartReconcile(p) \/ StartOpen(p) \/ AcquireLock(p) \/ Fault(p) \/ Cancelled(p)
           \/ Crash(p)
  BY <1>1, <1>2, ZenonT(40) DEF StartReconcile, StartOpen, Starts, AcquireLock, Fault, Cancelled, Crash, Goto,
     Fails, End, TypeOK, Marked, dirVars
<1>3. CASE step[p] \in Marked
  BY <1>2, <1>3 DEF Act, Proceed, Reconcile, Open, InspectNext, PrepareSources, MaterializeFile,
     InstallMissing, InspectExisting, CheckReplacement, InstallReplacement, FinishInstall,
     ValidateNext, WriteFileHint, WriteTreeHint, ReadState, HashNext, RereadState, dirVars
<1>4. CASE InspectNext(p) \/ PrepareSources(p) \/ ReadState(p) \/ HashNext(p) \/ RereadState(p)
  <2>1. step' = [step EXCEPT ![p] = step'[p]] /\ record' = record
    BY <1>1, <1>4 DEF InspectNext, PrepareSources, ReadState, HashNext, RereadState, Advance, Goto,
       Fails, End, TypeOK, dirVars
  <2>2. step'[p] \in {"inspect", "prepare", "idle", "begin", "hash", "reread"}
    BY <1>1, <1>4 DEF InspectNext, PrepareSources, ReadState, HashNext, RereadState, Advance, Goto,
       Fails, End, TypeOK
  <2> QED
    BY <2>1, <2>2 DEF Marked
<1> QED
  BY <1>2, <1>3, <1>4 DEF Act, Proceed, Reconcile, Open, MaterializeFile, InstallMissing,
     InspectExisting, CheckReplacement, InstallReplacement, FinishInstall, ValidateNext,
     WriteFileHint, WriteTreeHint, Marked

\* A step of a process is a step of the promise, or invisible to it.
LEMMA ActRefines ==
  ASSUME NEW p \in Process, IInv, IInv', Act(p)
  PROVE  Promise!Next \/ UNCHANGED <<Session, record>>
<1>1. /\ TypeOK /\ TypeOK' /\ Frame(p) /\ RecordMarked(p)
  BY ActGood DEF IInv
<1>a. \A q \in Process : step[q] \in Marked => Working(q)
  BY DEF Marked, Working
<1>c. step[p] \in Marked => \A q \in Process : step[q] \in Marked => q = p
  BY <1>1, <1>a DEF TypeOK
<1>b. \A q \in Process : step'[q] \in Marked => Working(q)'
  BY DEF Marked, Working
<1>2. /\ \A q \in Process : Session = q <=> step[q] \in Marked
      /\ Session = None <=> \A q \in Process : step[q] \notin Marked
      /\ Session \in Process \cup {None}
  <2>1. lock \in {None} \cup Process /\ \A q \in Process : step[q] \in Marked => lock = q
    BY <1>1, <1>a DEF TypeOK
  <2>2. Session = IF lock # None /\ step[lock] \in Marked THEN lock ELSE None
    BY DEF Session
  <2> QED
    BY <2>1, <2>2, SessionMarked
<1>3. /\ \A q \in Process : Session' = q <=> step'[q] \in Marked
      /\ Session' = None <=> \A q \in Process : step'[q] \notin Marked
      /\ Session' \in Process \cup {None}
  <2>1. lock' \in {None} \cup Process /\ \A q \in Process : step'[q] \in Marked => lock' = q
    BY <1>1, <1>b DEF TypeOK
  <2>2. Session' = IF lock' # None /\ step'[lock'] \in Marked THEN lock' ELSE None
    BY DEF Session
  <2> QED
    BY <2>1, <2>2, SessionMarked
<1>4. \A q \in Process \ {p} : step'[q] = step[q]
  BY <1>1 DEF Frame
<1>6. CASE PublishInProgress(p)
  <2>1. /\ step[p] = "begin" /\ step'[p] = "materialize" /\ Working(p)
        /\ record' = [request |-> IdentityOf(request[p]), complete |-> FALSE]
    BY <1>1, <1>6 DEF PublishInProgress, Goto, TypeOK, Working
  <2>2. \A q \in Process : step[q] \notin Marked
    BY <1>1, <2>1 DEF TypeOK, Working, Marked
  <2>3. Session = None /\ Session' = p
    BY <1>2, <1>3, <2>1, <2>2 DEF Marked
  <2>4. IdentityOf(request[p]) \in Identity
    BY <2>1, Left, IdentityTyped
  <2>5. Promise!Begin(p, IdentityOf(request[p]))
    BY <2>1, <2>3 DEF Promise!Begin, Promise!Mark
  <2> QED
    BY <2>4, <2>5 DEF Promise!Next
<1>7. CASE PublishComplete(p)
  <2>1. /\ step[p] = "complete" /\ step'[p] = "idle"
        /\ record' = [request |-> IdentityOf(request[p]), complete |-> TRUE]
    BY <1>1, <1>7 DEF PublishComplete, End, Goto, TypeOK
  <2>2. record.request = IdentityOf(request[p])
    BY <1>1, <2>1 DEF RecordMarked, Marked
  <2>a. step[p] \in Marked /\ step'[p] \notin Marked
    BY <2>1 DEF Marked
  <2>b. \A q \in Process : step'[q] \notin Marked
    BY <1>4, <1>c, <2>a
  <2>3. Session = p /\ Session' = None
    BY <1>2, <1>3, <2>a, <2>b
  <2>4. Promise!Complete(p)
    BY <2>1, <2>2, <2>3 DEF Promise!Complete, Promise!Mark
  <2> QED
    BY <2>4 DEF Promise!Next
<1>8. CASE record' = record /\ step[p] \in Marked /\ step'[p] \notin Marked
  <2>1. Session = p
    BY <1>2, <1>8
  <2>2. \A q \in Process : step'[q] \notin Marked
    BY <1>4, <1>8, <1>c
  <2>3. Promise!Abandon(p)
    BY <1>3, <1>8, <2>1, <2>2 DEF Promise!Abandon
  <2> QED
    BY <2>3 DEF Promise!Next
<1>9. CASE record' = record /\ (step'[p] \in Marked <=> step[p] \in Marked)
  <2>1. \A q \in Process : step'[q] \in Marked <=> step[q] \in Marked
    BY <1>4, <1>9
  <2>2. Session' = Session
    BY <1>2, <1>3, <2>1
  <2> QED
    BY <1>9, <2>2
<1> QED
  BY <1>6, <1>7, <1>8, <1>9, ActRecord

\* The completion record behaves as LocalDirectory promises: whoever marks
\* it owns the directory until it completes or gives up, and only the
\* request that is marked becomes complete.
THEOREM Implements == Spec => ImplementsLocalDirectory
<1>1. Init => Promise!Init
  BY DEF Init, Promise!Init, Session
<1>2. IInv /\ IInv' /\ [Next]_vars => [Promise!Next]_<<Session, record>>
  <2> SUFFICES ASSUME IInv, IInv', [Next]_vars PROVE [Promise!Next]_<<Session, record>>
    OBVIOUS
  <2>1. ASSUME NEW p \in Process, Act(p) PROVE [Promise!Next]_<<Session, record>>
    BY <2>1, ActRefines
  <2>2. CASE UNCHANGED vars \/ \E x \in Path, e \in Entry : Edit(x, e)
    BY <2>2 DEF vars, dirVars, procVars, Edit, Session
  <2> QED
    BY <2>1, <2>2 DEF Next, Act
<1> QED
  BY <1>1, <1>2, Inductive, PTL DEF Spec, ImplementsLocalDirectory, Promise!Spec
===============================================================================

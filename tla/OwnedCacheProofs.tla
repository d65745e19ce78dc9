-------------------------- MODULE OwnedCacheProofs --------------------------
(***************************************************************************)
(* Theorems about OwnedCache, for every set of clients, collectors,        *)
(* revisions, commits and selections and every collection policy.          *)
(***************************************************************************)
EXTENDS OwnedCache, TLAPS

\* The components of a snapshot key.
LEMMA SnapshotKey ==
    /\ \A s \in Snapshot :
        s[1] \in Commit /\ s[2] \in Selection /\ s[2] \subseteq Path
            /\ s = <<s[1], s[2]>>
    /\ \A c \in Commit, S \in Selection :
        <<c, S>> \in Snapshot /\ <<c, S>>[1] = c /\ <<c, S>>[2] = S
  BY ConstantsAssumption DEF Snapshot

-----------------------------------------------------------------------------
(* Type correctness.                                                       *)

\* The empty cache directory is well typed.
LEMMA TypeInit == Init => TypeOK
  BY ConstantsAssumption DEF Init, TypeOK, Time, Task, NoTask, Candidate, NoCandidate

\* Time passes within its type.
LEMMA TypeTick == TypeOK /\ Tick => TypeOK'
  BY ConstantsAssumption DEF TypeOK, Tick, Time, disk, clientVars, collectorVars

\* A request starts with a task of its own.
LEMMA TypeStart ==
  ASSUME NEW p \in Client, TypeOK, ClientStart(p)
  PROVE  TypeOK'
<1>1. ASSUME NEW label \in {"opening", "resolving"}, NEW t \in Task, Start(p, label, t)
      PROVE  TypeOK'
  BY <1>1 DEF TypeOK, Start, Goto, disk, collectorVars
<1>2. CASE StartFetch(p)
  <2>1. PICK r \in Revision \cup {None}, c \in Commit, S \in Selection :
          Start(p, "opening", [op |-> "reuse", snap |-> <<c, S>>, rev |-> r, label |-> c,
           since |-> clock])
    BY <1>2 DEF StartFetch
  <2> QED
    BY <2>1, <1>1, SnapshotKey DEF Task, TypeOK
<1>3. CASE StartOpenRequest(p)
  <2>1. PICK r \in Revision, S \in Selection :
          /\ ref[r] # None
          /\ Start(p, "opening", [op |-> "offline", snap |-> <<ref[r], S>>,
                                  rev |-> r, label |-> ref[r], since |-> clock])
    BY <1>3 DEF StartOpenRequest
  <2>2. ref[r] \in Commit
    BY <2>1 DEF TypeOK
  <2> QED
    BY <2>1, <2>2, <1>1, SnapshotKey DEF Task, TypeOK
<1>4. CASE StartOpen(p)
  <2>1. PICK r \in Revision, S \in Selection :
          /\ ref[r] # None
          /\ Start(p, "resolving", [op |-> "offline", snap |-> <<ref[r], S>>,
                                    rev |-> r, label |-> ref[r], since |-> clock])
    BY <1>4 DEF StartOpen
  <2>2. ref[r] \in Commit
    BY <2>1 DEF TypeOK
  <2> QED
    BY <2>1, <2>2, <1>1, SnapshotKey DEF Task, TypeOK
<1> QED
  BY <1>2, <1>3, <1>4 DEF ClientStart

\* A client that is not idle has a task with a snapshot of the constants.
LEMMA TaskTyped ==
  ASSUME NEW p \in Client, TypeOK, pc[p] # "idle"
  PROVE  /\ task[p] \in Task
         /\ task[p].snap \in Snapshot
         /\ task[p].snap[1] \in Commit
         /\ task[p].snap[2] \in Selection
         /\ task[p].snap[2] \subseteq Path
<1>1. task[p] \in Task
  BY DEF TypeOK
<1>2. task[p].snap \in Snapshot
  BY <1>1 DEF Task
<1> QED
  BY <1>1, <1>2, SnapshotKey

\* Every step, return or crash of a client keeps the types.
LEMMA TypeClient ==
  ASSUME NEW p \in Client, TypeOK, ClientStep(p) \/ Close(p) \/ Crash(p)
  PROVE  TypeOK'
<1> USE DEF TypeOK, Goto, Return, disk, collectorVars, Time
<1>1. CASE ResolveAgain(p)
  <2>1. task[p] \in Task /\ task[p].snap[2] \in Selection
    BY <1>1, TaskTyped DEF ResolveAgain
  <2>2. PICK r \in Revision :
          /\ pc[p] = "resolving" /\ pc' = [pc EXCEPT ![p] = "opening"]
          /\ ref[r] # None
          /\ task' = [task EXCEPT ![p].snap = <<ref[r], @[2]>>]
          /\ UNCHANGED <<todo, requests, disk, clock, collectorVars>>
    BY <1>1 DEF ResolveAgain
  <2>3. <<ref[r], task[p].snap[2]>> \in Snapshot
    BY <2>1, <2>2, SnapshotKey
  <2>4. task'[p] \in Task
    BY <2>1, <2>2, <2>3 DEF Task
  <2> QED
    BY <2>2, <2>4
<1>2. CASE OpenMissing(p)
  <2>1. task[p] \in Task /\ task[p].snap[2] \subseteq Path
    BY <1>2, TaskTyped DEF OpenMissing
  <2>2. [task[p] EXCEPT !.since = clock] \in Task
    BY <2>1 DEF Task
  <2> QED
    BY <1>2, <2>1, <2>2, SMTT(30) DEF OpenMissing
<1>3. CASE OpenManifest(p)
  BY <1>3, TaskTyped DEF OpenManifest
<1>4. ASSUME NEW q \in todo[p], ValidateEntry(p, q) PROVE TypeOK'
  BY <1>4 DEF ValidateEntry, Iterate, AfterOpen
<1>5. ASSUME NEW q \in todo[p], OpenCorrupt(p, q) PROVE TypeOK'
  BY <1>5 DEF OpenCorrupt
<1>6. ASSUME NEW q \in todo[p], PublishBlob(p, q) PROVE TypeOK'
  <2>1. WrittenAt(p) \subseteq Nat
    <3>1. pc[p] # "idle"
      BY <1>6 DEF PublishBlob, Iterate
    <3>2. task[p].since \in Nat
      BY <3>1, TaskTyped DEF Task
    <3> QED
      BY <3>2 DEF WrittenAt
  <2>2. blob' \in [Digest -> Nat \cup {None}]
    BY <1>6, <2>1 DEF PublishBlob
  <2>3. /\ Goto(p, "activating") \/ UNCHANGED pc
        /\ todo' = [todo EXCEPT ![p] = {}] \/ todo' = [todo EXCEPT ![p] = @ \ {q}]
    BY <1>6 DEF PublishBlob, Iterate
  <2>4. UNCHANGED <<content, manifest, ref, tree, debris, task, requests, clock, collectorVars>>
    BY <1>6 DEF PublishBlob
  <2>5. pc[p] = "fetching" /\ todo' \in [Client -> SUBSET Path]
    BY <1>6, <2>3 DEF PublishBlob, Iterate
  <2>6. pc' = pc \/ pc' = [pc EXCEPT ![p] = "activating"]
    BY <2>3
  <2> QED
    BY <2>2, <2>4, <2>5, <2>6
<1>7. CASE PublishRemoteTree(p)
  BY <1>7, TaskTyped DEF PublishRemoteTree
<1>8. CASE LockSnapshot(p)
  <2>1. task[p] \in Task /\ task[p].snap[2] \subseteq Path
    BY <1>8, TaskTyped DEF LockSnapshot
  <2>2. [task[p] EXCEPT !.op = "publish", !.since = clock] \in Task
    BY <2>1 DEF Task
  <2> QED
    BY <1>8, <2>1, <2>2 DEF LockSnapshot
<1>9. ASSUME NEW q \in todo[p], StageEntry(p, q) PROVE TypeOK'
  BY <1>9, TaskTyped, SMTT(30) DEF StageEntry, Iterate
<1>10. ASSUME NEW q \in todo[p], StageFails(p, q) PROVE TypeOK'
  BY <1>10 DEF StageFails
<1>11. ASSUME NEW q \in todo[p], InstallEntry(p, q) PROVE TypeOK'
  BY <1>11, TaskTyped, SMTT(30) DEF InstallEntry, Iterate
<1>12. CASE PublishManifest(p)
  <2>1. task[p] \in Task
    BY <1>12, TaskTyped DEF PublishManifest
  <2>2. WrittenAt(p) \subseteq Nat
    BY <2>1 DEF Task, WrittenAt
  <2>3. manifest' \in [Snapshot -> Nat \cup {None}]
    BY <1>12, <2>2 DEF PublishManifest
  <2> QED
    BY <1>12, <2>3 DEF PublishManifest
<1>13. CASE LockRef(p)
  BY <1>13 DEF LockRef
<1>14. CASE StageRef(p)
  BY <1>14 DEF StageRef
<1>15. CASE ReplaceRef(p)
  BY <1>15, TaskTyped DEF ReplaceRef
<1>16. CASE Close(p)
  BY <1>16 DEF Close
<1>17. CASE Crash(p)
  BY <1>17, TaskTyped DEF Crash, Leftover
<1> QED
  BY <1>1, <1>2, <1>3, <1>4, <1>5, <1>6, <1>7, <1>8, <1>9, <1>10, <1>11,
     <1>12, <1>13, <1>14, <1>15, <1>16, <1>17 DEF ClientStep

\* Every step or crash of a collector keeps the types.
LEMMA TypeCollector ==
  ASSUME NEW g \in Collector, TypeOK,
         StartPlan(g) \/ CollectorStep(g) \/ CollectorCrash(g)
  PROVE  TypeOK'
<1> USE DEF TypeOK, GotoG, disk, clientVars, Time
<1>1. CASE StartPlan(g)
  BY <1>1 DEF StartPlan
<1>2. CASE ScanRefRoots(g)
  <2>1. Retained \subseteq Commit /\ NamedCommits \subseteq Commit
    BY ConstantsAssumption DEF NamedCommits
  <2>2. StagedRefs \subseteq Commit
    BY TaskTyped DEF StagedRefs
  <2>3. debris \subseteq Commit
    BY <1>2 DEF ScanRefRoots, RefUnreadable
  <2>4. Retained \cup NamedCommits \cup StagedRefs \cup debris \in SUBSET Commit
    BY <2>1, <2>2, <2>3
  <2> QED
    BY <1>2, <2>4 DEF ScanRefRoots
<1>3. ASSUME Abandon(g) PROVE TypeOK'
  BY <1>3 DEF Abandon
<1>4. CASE PlanComplete(g)
  <2>1. Candidates(g) \subseteq Candidate
    BY <1>4 DEF PlanComplete, ScanSucceeds, Intact, Sealed, Candidates, Candidate,
                SnapshotObservation, BlobObservation
  <2> QED
    BY <1>4, <2>1 DEF PlanComplete
<1>5. CASE StartExecute(g)
  BY <1>5 DEF StartExecute
<1>6. ASSUME NEW k \in plan[g], TakeCandidate(g, k) PROVE TypeOK'
  BY <1>6 DEF TakeCandidate
<1>7. ASSUME NEW k, NextCandidate(g, k), UNCHANGED <<ref, tree, debris>>,
             blob' \in [Digest -> Nat \cup {None}],
             content' \in [Snapshot -> SUBSET Path],
             manifest' \in [Snapshot -> Nat \cup {None}]
      PROVE  TypeOK'
  BY <1>7 DEF NextCandidate
<1>8. CASE Confirm(g)
  BY <1>8 DEF Confirm
<1>9. CASE QuarantineSnapshot(g)
  BY <1>9, <1>7 DEF QuarantineSnapshot
<1>10. CASE QuarantineBlob(g)
  BY <1>10, <1>7 DEF QuarantineBlob
<1>11. CASE SkipChanged(g)
  BY <1>11, <1>7 DEF SkipChanged
<1>12. ASSUME NEW k \in plan[g], SkipContended(g, k) PROVE TypeOK'
  BY <1>12, <1>7 DEF SkipContended
<1> QED
  BY <1>1, <1>2, <1>3, <1>4, <1>5, <1>6, <1>8, <1>9, <1>10, <1>11, <1>12
    DEF CollectorStep, CollectorCrash, ScanRefsFails, ScanFails, FinishExecute

\* Every variable keeps its type, and a client that is not idle has a task.
THEOREM TypeCorrect == Spec => []TypeOK
<1>1. TypeOK /\ [Next]_vars => TypeOK'
  <2> SUFFICES ASSUME TypeOK, [Next]_vars PROVE TypeOK'
    OBVIOUS
  <2>1. CASE UNCHANGED vars
    BY <2>1 DEF TypeOK, vars, disk, clientVars, collectorVars
  <2> QED
    BY <2>1, TypeTick, TypeStart, TypeClient, TypeCollector DEF Next
<1> QED
  BY <1>1, TypeInit, PTL DEF Spec

-----------------------------------------------------------------------------
(* The inductive invariant.  What it says of one client is collected in    *)
(* ClientGood, so that a step of a client that writes neither entries,     *)
(* manifests nor refs has to be examined for that client alone.            *)

ClientGood(p) ==
    /\ \A s \in Snapshot : HoldsLease(p, s) =>
        Sealed(s) /\ \A g \in Collector : ~Reserves(g, s)
    /\ \A s \in Snapshot : HoldsSnapshotLock(p, s) =>
        /\ pc[p] = "installing" => s[2] \ todo[p] \subseteq content[s]
        /\ pc[p] = "sealing" => content[s] = s[2]
        /\ pc[p] \in {"opening", "validating"} => Sealed(s)
        /\ \A x \in Client \ {p} : ~HoldsSnapshotLock(x, s)
        /\ \A g \in Collector : ~Reserves(g, s)
    /\ pc[p] = "installing" => todo[p] \subseteq task[p].snap[2]
    /\ pc[p] \in {"staging", "installing", "sealing", "naming", "writing", "staged"}
          => task[p].op = "publish"
    /\ pc[p] = "resolving" => task[p].op = "offline"
    /\ pc[p] \in {"naming", "writing", "staged"} => task[p].rev \in Revision
    /\ pc[p] = "locking" \/ task[p].op = "publish" => task[p].snap[1] \in tree

\* Only the entries of p's own control state change.
OnlyClient(p) ==
    /\ \A x \in Client \ {p} : pc'[x] = pc[x] /\ task'[x] = task[x] /\ todo'[x] = todo[x]
    /\ UNCHANGED <<content, manifest, ref, gpc, roots, cand>>
    /\ tree \subseteq tree'

\* The invariant holds of each client taken by itself.
LEMMA GoodClients ==
  ASSUME IInv, NEW p \in Client
  PROVE  ClientGood(p)
  BY DEF IInv, ClientGood, HeldIsComplete, PublicationKept, ReservedAlone, Control,
         WithinSelection

\* A step that disturbs one client's control state alone.
LEMMA QuietClient ==
  ASSUME NEW p \in Client, IInv, TypeOK', OnlyClient(p), ClientGood(p)'
  PROVE  IInv'
<1> USE DEF OnlyClient
<1>1. SealedIsComplete'
  BY DEF IInv, SealedIsComplete, Sealed
<1>2. NamedIsAvailable'
  BY DEF IInv, NamedIsAvailable, Sealed
<1>3. ReclaimSafe'
  BY DEF IInv, ReclaimSafe, HasOther, Sealed, Reserves
<1>4. \A x \in Client : ClientGood(x)'
  <2> SUFFICES ASSUME NEW x \in Client, x # p PROVE ClientGood(x)'
    OBVIOUS
  <2>1. ClientGood(x)
    BY GoodClients
  <2>2. \A s \in Snapshot : HoldsSnapshotLock(x, s)' => ~HoldsSnapshotLock(p, s)'
    BY DEF ClientGood
  <2> QED
    BY <2>1, <2>2 DEF ClientGood, HoldsLease, HoldsSnapshotLock, Reserves, Sealed
<1>5. \A g, h \in Collector, s \in Snapshot : Reserves(g, s)' /\ HoldsMaintenance(h)' => h = g
  BY DEF IInv, ReservedAlone, Reserves, HoldsMaintenance
<1>6. \A s \in Snapshot : content'[s] \subseteq s[2]
  BY DEF IInv, WithinSelection
<1> QED
  BY <1>1, <1>2, <1>3, <1>4, <1>5, <1>6
    DEF IInv, ClientGood, HeldIsComplete, PublicationKept, ReservedAlone, Control,
        WithinSelection, SealedIsComplete

\* The empty cache directory satisfies the invariant.
LEMMA InductiveInit == Init => IInv
<1> SUFFICES ASSUME Init PROVE IInv
  OBVIOUS
<1>1. TypeOK
  BY TypeInit
<1>2. \A p \in Client, s \in Snapshot : ~HoldsLease(p, s) /\ ~HoldsSnapshotLock(p, s)
  BY DEF Init, HoldsLease, HoldsSnapshotLock
<1>3. SealedIsComplete /\ NamedIsAvailable /\ WithinSelection /\ Control
  BY DEF Init, SealedIsComplete, Sealed, NamedIsAvailable, WithinSelection, Control, NoTask
<1>4. \A g \in Collector : ~HoldsMaintenance(g) /\ \A s \in Snapshot : ~Reserves(g, s)
  BY DEF Init, NoCandidate, HoldsMaintenance, Reserves
<1> QED
  BY <1>1, <1>2, <1>3, <1>4
    DEF IInv, HeldIsComplete, PublicationKept, ReservedAlone, ReclaimSafe

\* So does any state that changes none of its variables.
LEMMA InductiveStutter ==
  ASSUME IInv, TypeOK',
         UNCHANGED <<content, manifest, ref, tree, pc, task, todo, gpc, roots, cand>>
  PROVE  IInv'
<1>1. /\ \A p \in Client, s \in Snapshot :
            HoldsLease(p, s)' = HoldsLease(p, s) /\ HoldsSnapshotLock(p, s)' = HoldsSnapshotLock(p, s)
      /\ \A g \in Collector, s \in Snapshot : Reserves(g, s)' = Reserves(g, s)
      /\ \A g \in Collector : HoldsMaintenance(g)' = HoldsMaintenance(g)
  BY DEF HoldsLease, HoldsSnapshotLock, Reserves, HoldsMaintenance
<1>2. SealedIsComplete' /\ NamedIsAvailable' /\ WithinSelection' /\ Control'
  BY DEF IInv, SealedIsComplete, NamedIsAvailable, WithinSelection, Control, Sealed
<1>3. HeldIsComplete' /\ ReservedAlone'
  BY <1>1 DEF IInv, HeldIsComplete, ReservedAlone, Sealed
<1>4. PublicationKept'
  BY <1>1 DEF IInv, PublicationKept, Sealed
<1>5. ReclaimSafe'
  BY <1>1 DEF IInv, ReclaimSafe, Sealed, HasOther
<1> QED
  BY <1>2, <1>3, <1>4, <1>5 DEF IInv

\* The clock takes no part in it.
LEMMA InductiveTick == IInv /\ Tick => IInv'
<1> SUFFICES ASSUME IInv, Tick PROVE IInv'
  OBVIOUS
<1>1. TypeOK'
  BY TypeTick DEF IInv
<1>2. UNCHANGED <<content, manifest, ref, tree, pc, task, todo, gpc, roots, cand>>
  BY DEF Tick, disk, clientVars, collectorVars
<1> QED
  BY <1>1, <1>2, InductiveStutter

\* A new request holds no lock.
LEMMA InductiveStart ==
  ASSUME NEW p \in Client, IInv, ClientStart(p)
  PROVE  IInv'
<1>1. TypeOK' /\ TypeOK
  BY TypeStart DEF IInv
<1>2. PICK label, t :
        /\ label \in {"opening", "resolving"}
        /\ Start(p, label, t)
        /\ t.op \in {"reuse", "offline"}
        /\ label = "resolving" => t.op = "offline"
  <2>1. CASE StartFetch(p)
    <3>1. PICK r \in Revision \cup {None}, c \in Commit, S \in Selection :
            Start(p, "opening", [op |-> "reuse", snap |-> <<c, S>>, rev |-> r, label |-> c,
           since |-> clock])
      BY <2>1 DEF StartFetch
    <3> QED
      BY <3>1
  <2>2. CASE StartOpenRequest(p)
    <3>1. PICK r \in Revision, S \in Selection :
            Start(p, "opening", [op |-> "offline", snap |-> <<ref[r], S>>,
                                 rev |-> r, label |-> ref[r], since |-> clock])
      BY <2>2 DEF StartOpenRequest
    <3> QED
      BY <3>1
  <2>3. CASE StartOpen(p)
    <3>1. PICK r \in Revision, S \in Selection :
            Start(p, "resolving", [op |-> "offline", snap |-> <<ref[r], S>>,
                                   rev |-> r, label |-> ref[r], since |-> clock])
      BY <2>3 DEF StartOpen
    <3> QED
      BY <3>1
  <2> QED
    BY <2>1, <2>2, <2>3 DEF ClientStart
<1>3. OnlyClient(p) /\ pc'[p] = label /\ task'[p] = t
  BY <1>1, <1>2 DEF TypeOK, Start, Goto, OnlyClient, disk, collectorVars
<1>4. ClientGood(p)'
  BY <1>2, <1>3 DEF ClientGood, HoldsLease, HoldsSnapshotLock
<1> QED
  BY <1>1, <1>3, <1>4, QuietClient

\* A request that returns drops every guard.
LEMMA InductiveReturn ==
  ASSUME NEW p \in Client, IInv, TypeOK', Return(p),
         UNCHANGED <<content, manifest, ref, tree, gpc, roots, cand>>
  PROVE  IInv'
<1>1. OnlyClient(p) /\ pc'[p] = "idle" /\ task'[p] = NoTask
  BY DEF IInv, TypeOK, Return, Goto, OnlyClient
<1>2. ClientGood(p)'
  BY <1>1 DEF ClientGood, HoldsLease, HoldsSnapshotLock, NoTask
<1> QED
  BY <1>1, <1>2, QuietClient

\* The steps of a client that write no entry, manifest or ref.
LEMMA InductiveQuietStep ==
  ASSUME NEW p \in Client, IInv, TypeOK',
         \/ ResolveAgain(p) \/ OpenMissing(p) \/ OpenManifest(p)
         \/ PublishRemoteTree(p) \/ LockSnapshot(p) \/ LockRef(p) \/ StageRef(p)
         \/ Close(p) \/ Crash(p)
  PROVE  IInv'
<1> USE DEF disk, collectorVars, Goto
<1>1. ClientGood(p) /\ TypeOK
  BY GoodClients DEF IInv
<1>2. \A label : pc' = [pc EXCEPT ![p] = label] => pc'[p] = label
  BY <1>1 DEF TypeOK
<1>3. CASE ResolveAgain(p)
  <2>1. OnlyClient(p) /\ pc'[p] = "opening" /\ task'[p].op = "offline"
    <3>1. task[p] \in Task
      BY <1>3, <1>1, TaskTyped DEF ResolveAgain
    <3> QED
      BY <1>1, <1>3, <3>1 DEF ResolveAgain, OnlyClient, TypeOK, ClientGood, Task
  <2>2. ClientGood(p)'
    BY <2>1 DEF ClientGood, HoldsLease, HoldsSnapshotLock
  <2> QED
    BY <2>1, <2>2, QuietClient
<1>4. CASE OpenMissing(p) /\ task[p].op = "reuse"
  <2>1. OnlyClient(p) /\ pc'[p] = "fetching" /\ task'[p].op = "reuse"
    <3>1. task[p] \in Task
      BY <1>1, <1>4, TaskTyped DEF OpenMissing
    <3> QED
      BY <1>1, <1>4, <3>1 DEF OpenMissing, OnlyClient, TypeOK, Task
  <2>2. ClientGood(p)'
    BY <1>4, <2>1 DEF ClientGood, HoldsLease, HoldsSnapshotLock
  <2> QED
    BY <2>1, <2>2, QuietClient
<1>5. CASE OpenManifest(p)
  <2>1. OnlyClient(p) /\ pc[p] = "opening" /\ pc'[p] = "validating" /\ task'[p] = task[p]
    BY <1>1, <1>5 DEF OpenManifest, OnlyClient, TypeOK
  <2>2. Sealed(task[p].snap)' /\ \A g \in Collector : ~Reserves(g, task[p].snap)'
    BY <1>5 DEF OpenManifest, SharedLeaseFree, Sealed, Reserves
  <2>3. \A s \in Snapshot : HoldsSnapshotLock(p, s)' => HoldsSnapshotLock(p, s) /\ s = task[p].snap
    BY <2>1 DEF HoldsSnapshotLock
  <2>4. \A x \in Client \ {p}, s \in Snapshot : HoldsSnapshotLock(x, s)' = HoldsSnapshotLock(x, s)
    BY <2>1 DEF HoldsSnapshotLock, OnlyClient
  <2>5. ClientGood(p)'
    BY <1>1, <2>1, <2>2, <2>3, <2>4 DEF ClientGood, HoldsLease, OnlyClient
  <2> QED
    BY <2>1, <2>5, QuietClient
<1>6. CASE PublishRemoteTree(p)
  <2>1. OnlyClient(p) /\ pc[p] = "activating" /\ pc'[p] = "locking" /\ task'[p] = task[p]
        /\ task[p].snap[1] \in tree'
    BY <1>1, <1>6 DEF PublishRemoteTree, OnlyClient, TypeOK
  <2>2. ClientGood(p)'
    BY <1>1, <2>1 DEF ClientGood, HoldsLease, HoldsSnapshotLock
  <2> QED
    BY <2>1, <2>2, QuietClient
<1>7. CASE LockSnapshot(p)
  <2>1. task[p] \in Task
    BY <1>7, <1>1, TaskTyped DEF LockSnapshot
  <2>2. OnlyClient(p) /\ pc[p] = "locking" /\ pc'[p] = "staging"
        /\ task'[p].op = "publish" /\ task'[p].snap = task[p].snap
    BY <1>1, <1>7, <2>1 DEF LockSnapshot, OnlyClient, TypeOK, Task
  <2>3. \A x \in Client \ {p} : ~HoldsSnapshotLock(x, task[p].snap)'
    BY <1>7, <2>2 DEF LockSnapshot, SnapshotLockFree, HoldsSnapshotLock, OnlyClient
  <2>4. \A g \in Collector : ~Reserves(g, task[p].snap)'
    BY <1>7, <2>2 DEF LockSnapshot, SnapshotLockFree, Reserves
  <2>5. task[p].snap[1] \in tree'
    BY <1>1, <2>2 DEF ClientGood, OnlyClient
  <2>6. ClientGood(p)'
    BY <2>2, <2>3, <2>4, <2>5 DEF ClientGood, HoldsLease, HoldsSnapshotLock
  <2> QED
    BY <2>2, <2>6, QuietClient
<1>8. CASE LockRef(p) \/ StageRef(p)
  <2>1. OnlyClient(p) /\ pc[p] \in {"naming", "writing"} /\ pc'[p] \in {"writing", "staged"}
        /\ task'[p] = task[p]
    BY <1>1, <1>8 DEF LockRef, StageRef, OnlyClient, TypeOK
  <2>2. ClientGood(p)'
    BY <1>1, <2>1 DEF ClientGood, HoldsLease, HoldsSnapshotLock, OnlyClient, Sealed, Reserves
  <2> QED
    BY <2>1, <2>2, QuietClient
<1>9. CASE Close(p) \/ Crash(p) \/ (OpenMissing(p) /\ task[p].op # "reuse")
  BY <1>9, InductiveReturn DEF Close, Crash, OpenMissing
<1>10. CASE OpenMissing(p)
  BY <1>10, <1>4, <1>9
<1>11. CASE LockRef(p) \/ StageRef(p) \/ Close(p) \/ Crash(p)
  BY <1>11, <1>8, <1>9
<1> QED
  BY <1>3, <1>5, <1>6, <1>7, <1>10, <1>11

\* The iterations of its loops that write none.
LEMMA InductiveQuietLoop ==
  ASSUME NEW p \in Client, IInv, TypeOK', NEW q \in todo[p],
         \/ ValidateEntry(p, q) \/ OpenCorrupt(p, q) \/ PublishBlob(p, q)
         \/ StageEntry(p, q) \/ StageFails(p, q)
  PROVE  IInv'
<1> USE DEF disk, collectorVars, Goto
<1>1. ClientGood(p) /\ TypeOK
  BY GoodClients DEF IInv
<1>2. CASE OpenCorrupt(p, q) \/ StageFails(p, q)
  BY <1>2, InductiveReturn DEF OpenCorrupt, StageFails
<1>3. CASE ValidateEntry(p, q)
  <2>1. OnlyClient(p) /\ pc[p] = "validating" /\ task'[p] = task[p]
        /\ pc'[p] \in {"validating", AfterOpen(p)}
    BY <1>1, <1>3 DEF ValidateEntry, Iterate, OnlyClient, TypeOK
  <2>2. task[p] \in Task
    BY <2>1, <1>1, TaskTyped
  <2>3. CASE pc'[p] = "validating"
    <3>1. ClientGood(p)'
      BY <1>1, <2>1, <2>3 DEF ClientGood, HoldsLease, HoldsSnapshotLock, OnlyClient, Sealed, Reserves
    <3> QED
      BY <2>1, <3>1, QuietClient
  <2>4. CASE pc'[p] = "naming" /\ task[p].op = "publish" /\ task[p].rev \in Revision
    <3>1. ClientGood(p)'
      BY <1>1, <2>1, <2>4 DEF ClientGood, HoldsLease, HoldsSnapshotLock, OnlyClient, Sealed, Reserves
    <3> QED
      BY <2>1, <3>1, QuietClient
  <2>5. CASE pc'[p] = "holding"
    <3>1. ClientGood(p)'
      BY <1>1, <2>1, <2>5 DEF ClientGood, HoldsLease, HoldsSnapshotLock, OnlyClient, Sealed, Reserves
    <3> QED
      BY <2>1, <3>1, QuietClient
  <2> QED
    BY <2>1, <2>2, <2>3, <2>4, <2>5 DEF AfterOpen, Task
<1>4. CASE PublishBlob(p, q)
  <2>1. OnlyClient(p) /\ pc[p] = "fetching" /\ task'[p] = task[p]
        /\ pc'[p] \in {"fetching", "activating"}
    <3>1. pc[p] = "fetching" /\ UNCHANGED <<content, manifest, ref, tree, task, gpc, roots, cand>>
          /\ (\/ pc' = [pc EXCEPT ![p] = "activating"] \/ UNCHANGED pc)
          /\ (\/ todo' = [todo EXCEPT ![p] = {}] \/ todo' = [todo EXCEPT ![p] = @ \ {q}])
      BY <1>4 DEF PublishBlob, Iterate
    <3> QED
      BY <1>1, <3>1 DEF OnlyClient, TypeOK
  <2>2. ClientGood(p)'
    BY <1>1, <2>1 DEF ClientGood, HoldsLease, HoldsSnapshotLock, OnlyClient
  <2> QED
    BY <2>1, <2>2, QuietClient
<1>5. CASE StageEntry(p, q)
  <2>1. OnlyClient(p) /\ pc[p] = "staging" /\ task'[p] = task[p]
        /\ \/ pc'[p] = "staging"
           \/ pc'[p] = "installing" /\ todo'[p] = task[p].snap[2]
    BY <1>1, <1>5 DEF StageEntry, Iterate, OnlyClient, TypeOK
  <2>2. ClientGood(p)'
    BY <1>1, <2>1 DEF ClientGood, HoldsLease, HoldsSnapshotLock, OnlyClient, Reserves
  <2> QED
    BY <2>1, <2>2, QuietClient
<1> QED
  BY <1>2, <1>3, <1>4, <1>5

\* Every client satisfies ClientGood, the rest holds of the directory and of
\* the collectors: the converse of GoodClients.
LEMMA Assembled ==
  ASSUME TypeOK', SealedIsComplete', NamedIsAvailable', ReclaimSafe',
         \A s \in Snapshot : content'[s] \subseteq s[2],
         \A p \in Client : ClientGood(p)',
         \A g, h \in Collector, s \in Snapshot :
            Reserves(g, s)' /\ HoldsMaintenance(h)' => h = g
  PROVE  IInv'
  BY DEF IInv, ClientGood, HeldIsComplete, PublicationKept, ReservedAlone, Control,
         WithinSelection, SealedIsComplete

\* An entry is installed by the only holder of the snapshot lock.
LEMMA InductiveInstall ==
  ASSUME NEW p \in Client, NEW q \in todo[p], IInv, TypeOK', InstallEntry(p, q)
  PROVE  IInv'
<1> DEFINE s == task[p].snap
<1>1. ClientGood(p) /\ TypeOK
  BY GoodClients DEF IInv
<1>2. /\ pc[p] = "installing" /\ UNCHANGED <<manifest, ref, tree, task, gpc, roots, cand>>
      /\ content' = [content EXCEPT ![s] = @ \cup {q}]
      /\ \/ /\ todo[p] = {q} /\ pc' = [pc EXCEPT ![p] = "sealing"]
            /\ todo' = [todo EXCEPT ![p] = {}]
         \/ UNCHANGED pc /\ todo' = [todo EXCEPT ![p] = @ \ {q}]
  BY DEF InstallEntry, Iterate, Goto, collectorVars
<1>3. s \in Snapshot /\ HoldsSnapshotLock(p, s) /\ q \in s[2]
  BY <1>1, <1>2, TaskTyped DEF HoldsSnapshotLock, ClientGood
<1>4. \A t \in Snapshot : content'[t] \subseteq t[2] /\ content[t] \subseteq content'[t]
  BY <1>1, <1>2, <1>3 DEF IInv, WithinSelection, TypeOK
<1>5. /\ content'[s] = content[s] \cup {q}
      /\ \A t \in Snapshot \ {s} : content'[t] = content[t]
  BY <1>1, <1>2, <1>3 DEF TypeOK
<1>6. SealedIsComplete'
  BY <1>2, <1>4 DEF IInv, SealedIsComplete, Sealed
<1>7. NamedIsAvailable' /\ ReclaimSafe'
  BY <1>2 DEF IInv, NamedIsAvailable, ReclaimSafe, Sealed, HasOther, Reserves
<1>8. \A x \in Client, t \in Snapshot :
        /\ HoldsSnapshotLock(x, t)' = HoldsSnapshotLock(x, t)
        /\ HoldsLease(x, t)' = HoldsLease(x, t)
  BY <1>1, <1>2 DEF HoldsSnapshotLock, HoldsLease, TypeOK
<1>9. ClientGood(p)'
  <2>1. pc'[p] = "sealing" => content'[s] = s[2]
    <3>1. s[2] \ todo[p] \subseteq content[s]
      BY <1>1, <1>2, <1>3 DEF ClientGood
    <3>2. pc'[p] = "sealing" => todo[p] = {q}
      BY <1>1, <1>2 DEF TypeOK
    <3>3. content'[s] \subseteq s[2]
      BY <1>3, <1>4
    <3> QED
      BY <1>5, <3>1, <3>2, <3>3
  <2>2. pc'[p] = "installing" => s[2] \ todo'[p] \subseteq content'[s]
    BY <1>1, <1>2, <1>3, <1>5 DEF ClientGood, TypeOK
  <2>3. pc'[p] \in {"installing", "sealing"} /\ todo'[p] \subseteq todo[p]
    BY <1>1, <1>2 DEF TypeOK
  <2> QED
    BY <1>1, <1>2, <1>3, <1>8, <2>1, <2>2, <2>3
      DEF ClientGood, HoldsSnapshotLock, HoldsLease, Sealed, Reserves
<1>10. ASSUME NEW x \in Client, x # p PROVE ClientGood(x)'
  <2>1. ClientGood(x) /\ pc'[x] = pc[x] /\ todo'[x] = todo[x]
    BY <1>1, <1>2, <1>10, GoodClients DEF TypeOK
  <2>2. ~HoldsSnapshotLock(x, s)
    BY <1>1, <1>3, <1>10 DEF ClientGood
  <2> QED
    BY <1>2, <1>5, <1>8, <2>1, <2>2 DEF ClientGood, Sealed, Reserves
<1>11. \A g, h \in Collector, t \in Snapshot : Reserves(g, t)' /\ HoldsMaintenance(h)' => h = g
  BY <1>2 DEF IInv, ReservedAlone, Reserves, HoldsMaintenance
<1> QED
  BY <1>4, <1>6, <1>7, <1>9, <1>10, <1>11, Assembled

\* The manifest seals a directory its publisher has filled.
LEMMA InductiveManifest ==
  ASSUME NEW p \in Client, IInv, TypeOK', PublishManifest(p)
  PROVE  IInv'
<1> DEFINE s == task[p].snap
<1>1. ClientGood(p) /\ TypeOK
  BY GoodClients DEF IInv
<1>2. /\ pc[p] = "sealing" /\ pc' = [pc EXCEPT ![p] = "opening"]
      /\ UNCHANGED <<content, ref, tree, task, todo, gpc, roots, cand>>
      /\ IF Sealed(s)
           THEN UNCHANGED manifest
           ELSE \E t \in WrittenAt(p) : manifest' = [manifest EXCEPT ![s] = t]
  BY DEF PublishManifest, Goto, collectorVars
<1>3. s \in Snapshot /\ HoldsSnapshotLock(p, s) /\ content[s] = s[2]
  BY <1>1, <1>2, TaskTyped DEF HoldsSnapshotLock, ClientGood
<1>4. /\ Sealed(s)'
      /\ \A t \in Snapshot : Sealed(t) => Sealed(t)'
      /\ \A t \in Snapshot \ {s} : Sealed(t)' = Sealed(t)
  <2>1. WrittenAt(p) \subseteq Nat
    BY <1>1, <1>2, TaskTyped DEF WrittenAt, Task, TypeOK, Time
  <2> QED
    BY <1>1, <1>2, <1>3, <2>1, ConstantsAssumption DEF TypeOK, Sealed
<1>5. SealedIsComplete'
  BY <1>2, <1>3, <1>4 DEF IInv, SealedIsComplete
<1>6. NamedIsAvailable'
  <2> SUFFICES ASSUME NEW r \in Revision, ref[r] # None
               PROVE  ref[r] \in tree /\ \E S \in Selection : Sealed(<<ref[r], S>>)'
    BY <1>2 DEF NamedIsAvailable, Sealed
  <2>1. ref[r] \in Commit
    BY <1>1 DEF TypeOK
  <2>2. ref[r] \in tree /\ \E S \in Selection : Sealed(<<ref[r], S>>)
    BY DEF IInv, NamedIsAvailable
  <2> QED
    BY <1>2, <1>4, <2>1, <2>2, SnapshotKey
<1>7. ReclaimSafe'
  BY <1>2, <1>4, SnapshotKey DEF IInv, ReclaimSafe, HasOther, Reserves
<1>8. \A x \in Client \ {p} : pc'[x] = pc[x]
  BY <1>1, <1>2 DEF TypeOK
<1>9. /\ \A x \in Client, t \in Snapshot : HoldsSnapshotLock(x, t)' => HoldsSnapshotLock(x, t)
      /\ \A x \in Client, t \in Snapshot : HoldsLease(x, t)' => HoldsLease(x, t)
      /\ \A g \in Collector, t \in Snapshot : Reserves(g, t)' = Reserves(g, t)
  BY <1>1, <1>2, <1>8 DEF HoldsSnapshotLock, HoldsLease, Reserves, TypeOK
<1>10. ClientGood(p)'
  <2>1. pc'[p] = "opening"
    BY <1>1, <1>2 DEF TypeOK
  <2>2. \A t \in Snapshot : HoldsSnapshotLock(p, t)' => t = s
    BY <1>2 DEF HoldsSnapshotLock
  <2> QED
    BY <1>1, <1>2, <1>3, <1>4, <1>9, <2>1, <2>2 DEF ClientGood
<1>11. ASSUME NEW x \in Client, x # p PROVE ClientGood(x)'
  <2>1. ClientGood(x) /\ pc'[x] = pc[x]
    BY <1>8, <1>11, GoodClients
  <2> QED
    BY <1>2, <1>4, <1>9, <2>1 DEF ClientGood
<1>12. \A g, h \in Collector, t \in Snapshot : Reserves(g, t)' /\ HoldsMaintenance(h)' => h = g
  BY <1>2 DEF IInv, ReservedAlone, Reserves, HoldsMaintenance
<1>13. \A t \in Snapshot : content'[t] \subseteq t[2]
  BY <1>2 DEF IInv, WithinSelection
<1> QED
  BY <1>5, <1>6, <1>7, <1>10, <1>11, <1>12, <1>13, Assembled

\* A ref is replaced by the holder of a lease on a snapshot of its commit,
\* which no collector has therefore reserved.
LEMMA InductiveReplaceRef ==
  ASSUME NEW p \in Client, IInv, TypeOK', ReplaceRef(p)
  PROVE  IInv'
<1> DEFINE s == task[p].snap
<1>1. ClientGood(p) /\ TypeOK
  BY GoodClients DEF IInv
<1>2. /\ pc[p] = "staged" /\ pc' = [pc EXCEPT ![p] = "holding"]
      /\ UNCHANGED <<content, manifest, tree, task, todo, gpc, roots, cand>>
      /\ ref' = [ref EXCEPT ![task[p].rev] = s[1]]
  BY DEF ReplaceRef, Goto, collectorVars
<1>3. /\ s \in Snapshot /\ s[1] \in Commit /\ s[2] \in Selection /\ s = <<s[1], s[2]>>
      /\ HoldsLease(p, s) /\ s[1] \in tree
  BY <1>1, <1>2, TaskTyped, SnapshotKey DEF HoldsLease, ClientGood
<1>4. Sealed(s) /\ \A g \in Collector : ~Reserves(g, s)
  BY <1>1, <1>3 DEF ClientGood
<1>5. \A r \in Revision : ref'[r] = ref[r] \/ ref'[r] = s[1]
  BY <1>1, <1>2 DEF TypeOK
<1>6. NamedIsAvailable'
  BY <1>2, <1>3, <1>4, <1>5 DEF IInv, NamedIsAvailable, Sealed
<1>7. ReclaimSafe'
  <2> SUFFICES ASSUME NEW g \in Collector, NEW t \in Snapshot, NEW r \in Revision,
                      Reserves(g, t), ref'[r] = t[1]
               PROVE  /\ gpc[g] = "scanning" => t[1] \in roots[g] \/ HasOther(t)
                      /\ gpc[g] = "quarantining" => HasOther(t)
    BY <1>2 DEF ReclaimSafe, Reserves, HasOther, Sealed
  <2>1. CASE ref'[r] = ref[r]
    BY <2>1 DEF IInv, ReclaimSafe
  <2>2. CASE ref'[r] = s[1]
    BY <2>2, <1>3, <1>4 DEF HasOther
  <2> QED
    BY <2>1, <2>2, <1>5
<1>8. \A x \in Client : HoldsSnapshotLock(x, s)' = HoldsSnapshotLock(x, s) /\ (x # p => pc'[x] = pc[x])
  BY <1>1, <1>2 DEF HoldsSnapshotLock, TypeOK
<1>9. \A x \in Client, t \in Snapshot :
        /\ HoldsSnapshotLock(x, t)' = HoldsSnapshotLock(x, t)
        /\ HoldsLease(x, t)' = HoldsLease(x, t)
  BY <1>1, <1>2, <1>8 DEF HoldsSnapshotLock, HoldsLease, TypeOK
<1>10. \A x \in Client : ClientGood(x)'
  <2> SUFFICES ASSUME NEW x \in Client PROVE ClientGood(x)'
    OBVIOUS
  <2>1. ClientGood(x)
    BY GoodClients
  <2>2. pc'[x] = pc[x] \/ (pc'[x] = "holding" /\ x = p)
    BY <1>1, <1>2, <1>8 DEF TypeOK
  <2> QED
    BY <1>2, <1>3, <1>9, <2>1, <2>2 DEF ClientGood, Sealed, Reserves, HoldsSnapshotLock
<1>11. /\ \A g, h \in Collector, t \in Snapshot : Reserves(g, t)' /\ HoldsMaintenance(h)' => h = g
       /\ SealedIsComplete'
       /\ \A t \in Snapshot : content'[t] \subseteq t[2]
  BY <1>2 DEF IInv, ReservedAlone, Reserves, HoldsMaintenance, SealedIsComplete, Sealed,
    WithinSelection
<1> QED
  BY <1>6, <1>7, <1>10, <1>11, Assembled

\* A step of a collector that removes no snapshot: it keeps its candidate,
\* releases it, or takes one while all its locks are free.
LEMMA QuietCollector ==
  ASSUME NEW g \in Collector, IInv, TypeOK',
         UNCHANGED <<content, manifest, ref, tree, pc, task, todo>>,
         \A h \in Collector \ {g} : gpc'[h] = gpc[h] /\ roots'[h] = roots[h] /\ cand'[h] = cand[h],
         \/ cand'[g] = cand[g]
         \/ cand'[g] = NoCandidate
         \/ MaintenanceFree /\ (cand'[g].kind = "snapshot" => ObjectLocksFree(cand'[g])),
         \A s \in Snapshot, r \in Revision :
            Reserves(g, s)' /\ ref[r] = s[1] =>
                /\ gpc'[g] = "scanning" => s[1] \in roots'[g] \/ HasOther(s)
                /\ gpc'[g] = "quarantining" => HasOther(s)
  PROVE  IInv'
<1>1. /\ \A x \in Client, t \in Snapshot :
            /\ HoldsSnapshotLock(x, t)' = HoldsSnapshotLock(x, t)
            /\ HoldsLease(x, t)' = HoldsLease(x, t)
      /\ \A t \in Snapshot : Sealed(t)' = Sealed(t) /\ HasOther(t)' = HasOther(t)
  BY DEF HoldsSnapshotLock, HoldsLease, Sealed, HasOther
<1>2. \A h \in Collector \ {g} :
        /\ HoldsMaintenance(h)' = HoldsMaintenance(h)
        /\ \A t \in Snapshot : Reserves(h, t)' = Reserves(h, t)
  BY DEF HoldsMaintenance, Reserves
<1>3. \A t \in Snapshot : Reserves(g, t)' =>
        /\ \A x \in Client : ~HoldsLease(x, t) /\ ~HoldsSnapshotLock(x, t)
        /\ \A h \in Collector \ {g} : ~HoldsMaintenance(h)
  BY DEF IInv, ReservedAlone, Reserves, NoCandidate, MaintenanceFree, ObjectLocksFree,
         SnapshotLockFree, ExclusiveLeaseFree
<1>4. HoldsMaintenance(g)' => HoldsMaintenance(g) \/ \A h \in Collector : ~HoldsMaintenance(h)
  BY DEF HoldsMaintenance, NoCandidate, MaintenanceFree
<1>5. \A h \in Collector, t \in Snapshot : Reserves(h, t) => HoldsMaintenance(h)
  BY DEF Reserves, HoldsMaintenance
<1>6. ReservedAlone'
  BY <1>1, <1>2, <1>3, <1>4, <1>5 DEF IInv, ReservedAlone
<1>7. ReclaimSafe'
  BY <1>1, <1>2 DEF IInv, ReclaimSafe
<1>8. SealedIsComplete' /\ HeldIsComplete' /\ WithinSelection' /\ Control'
  BY <1>1 DEF IInv, SealedIsComplete, HeldIsComplete, WithinSelection, Control
<1>9. PublicationKept'
  BY <1>1 DEF IInv, PublicationKept
<1>10. NamedIsAvailable'
  BY DEF IInv, NamedIsAvailable, Sealed
<1> QED
  BY <1>6, <1>7, <1>8, <1>9, <1>10 DEF IInv

\* The one step that removes a snapshot, with nobody holding it and every ref
\* to its commit answered by another.
LEMMA InductiveQuarantine ==
  ASSUME NEW g \in Collector, IInv, TypeOK', QuarantineSnapshot(g)
  PROVE  IInv'
<1>0. PICK s : s = cand[g].object
  OBVIOUS
<1>1. TypeOK
  BY DEF IInv
<1>2. /\ gpc[g] = "quarantining" /\ cand[g].kind = "snapshot"
      /\ content' = [content EXCEPT ![s] = {}]
      /\ manifest' = [manifest EXCEPT ![s] = None]
      /\ UNCHANGED <<ref, tree, pc, task, todo>>
      /\ gpc' = [gpc EXCEPT ![g] = "executing"]
      /\ cand' = [cand EXCEPT ![g] = NoCandidate]
      /\ roots' = [roots EXCEPT ![g] = {}]
  BY <1>0 DEF QuarantineSnapshot, NextCandidate, GotoG, clientVars
<1>3. s \in Snapshot /\ Reserves(g, s)
  <2>1. cand[g] \in Candidate
    BY <1>1, <1>2 DEF TypeOK, NoCandidate
  <2> QED
    BY <1>0, <1>2, <2>1 DEF Candidate, Reserves
<1>4. /\ content'[s] = {} /\ ~Sealed(s)'
      /\ \A t \in Snapshot \ {s} : content'[t] = content[t] /\ Sealed(t)' = Sealed(t)
  BY <1>1, <1>2, <1>3 DEF TypeOK, Sealed
<1>5. \A x \in Client : ~HoldsLease(x, s) /\ ~HoldsSnapshotLock(x, s)
  BY <1>3 DEF IInv, ReservedAlone
<1>6. \A h \in Collector : ~HoldsMaintenance(h)' /\ \A t \in Snapshot : ~Reserves(h, t)'
  BY <1>1, <1>2, <1>3, SMTT(30) DEF IInv, ReservedAlone, Reserves, HoldsMaintenance, NoCandidate, TypeOK
<1>7. SealedIsComplete' /\ \A t \in Snapshot : content'[t] \subseteq t[2]
  BY <1>3, <1>4 DEF IInv, SealedIsComplete, WithinSelection
<1>8. NamedIsAvailable'
  <2> SUFFICES ASSUME NEW r \in Revision, ref[r] # None
               PROVE  ref[r] \in tree /\ \E S \in Selection : Sealed(<<ref[r], S>>)'
    BY <1>2 DEF NamedIsAvailable, Sealed
  <2>1. ref[r] \in Commit /\ ref[r] \in tree
    BY <1>1 DEF TypeOK, IInv, NamedIsAvailable
  <2>2. PICK S \in Selection : Sealed(<<ref[r], S>>)
    BY DEF IInv, NamedIsAvailable
  <2>3. CASE ref[r] = s[1]
    <3>1. HasOther(s)
      BY <1>2, <1>3, <2>3 DEF IInv, ReclaimSafe
    <3>2. PICK T \in Selection : <<s[1], T>> # s /\ Sealed(<<s[1], T>>)
      BY <3>1 DEF HasOther
    <3>3. <<s[1], T>> \in Snapshot \ {s}
      BY <2>1, <2>3, <3>2, SnapshotKey
    <3> QED
      BY <1>2, <1>4, <2>1, <2>3, <3>2, <3>3
  <2>4. CASE ref[r] # s[1]
    <3>1. <<ref[r], S>> \in Snapshot \ {s}
      BY <2>1, <2>4, SnapshotKey
    <3> QED
      BY <1>2, <1>4, <2>1, <2>2, <3>1
  <2> QED
    BY <2>3, <2>4
<1>9. ReclaimSafe'
  BY <1>6 DEF ReclaimSafe
<1>10. ASSUME NEW x \in Client PROVE ClientGood(x)'
  <2>1. ClientGood(x)
    BY GoodClients
  <2>2. \A y \in Client, t \in Snapshot :
            HoldsLease(y, t)' = HoldsLease(y, t) /\ HoldsSnapshotLock(y, t)' = HoldsSnapshotLock(y, t)
    BY <1>2 DEF HoldsLease, HoldsSnapshotLock
  <2> QED
    BY <1>2, <1>4, <1>5, <1>6, <2>1, <2>2 DEF ClientGood
<1> QED
  BY <1>6, <1>7, <1>8, <1>9, <1>10, Assembled

\* Every step or crash of a collector preserves the invariant.
LEMMA InductiveCollector ==
  ASSUME NEW g \in Collector, IInv, TypeOK',
         StartPlan(g) \/ CollectorStep(g) \/ CollectorCrash(g)
  PROVE  IInv'
<1> USE DEF GotoG, disk, clientVars
<1>1. TypeOK
  BY DEF IInv
<1>2. ASSUME UNCHANGED <<content, manifest, ref, tree, pc, task, todo>>,
             NEW label \in {"idle", "rooting", "planned", "executing"},
             gpc' = [gpc EXCEPT ![g] = label],
             UNCHANGED roots \/ roots' = [roots EXCEPT ![g] = {}],
             UNCHANGED cand \/ cand' = [cand EXCEPT ![g] = NoCandidate]
      PROVE  IInv'
  BY <1>1, <1>2, QuietCollector, SMTT(30) DEF TypeOK
<1>3. CASE StartPlan(g)
  BY <1>2, <1>3 DEF StartPlan
<1>4. ASSUME Abandon(g) PROVE IInv'
  BY <1>2, <1>4 DEF Abandon
<1>5. ASSUME NEW k, NextCandidate(g, k), UNCHANGED <<content, manifest, ref, tree>> PROVE IInv'
  BY <1>2, <1>5 DEF NextCandidate
<1>6. CASE ScanRefRoots(g)
  <2>1. \A s \in Snapshot, r \in Revision : ref[r] = s[1] => s[1] \in roots'[g]
    BY <1>1, <1>6, SnapshotKey, ConstantsAssumption DEF ScanRefRoots, NamedCommits, TypeOK
  <2> QED
    BY <1>1, <1>6, <2>1, QuietCollector DEF ScanRefRoots, TypeOK
<1>7. CASE PlanComplete(g)
  BY <1>2, <1>7 DEF PlanComplete
<1>8. CASE StartExecute(g)
  BY <1>2, <1>8 DEF StartExecute
<1>9. ASSUME NEW k \in plan[g], TakeCandidate(g, k) PROVE IInv'
  <2>1. /\ gpc' = [gpc EXCEPT ![g] = "rooting"] /\ cand' = [cand EXCEPT ![g] = k]
        /\ UNCHANGED <<content, manifest, ref, tree, pc, task, todo, roots>>
        /\ MaintenanceFree /\ ObjectLocksFree(k)
    BY <1>9 DEF TakeCandidate
  <2> QED
    BY <1>1, <2>1, QuietCollector, SMTT(30) DEF TypeOK
<1>10. ASSUME NEW k \in plan[g], SkipContended(g, k) PROVE IInv'
  BY <1>5, <1>10 DEF SkipContended
<1>11. CASE Confirm(g)
  <2>1. /\ gpc[g] = "scanning" /\ gpc' = [gpc EXCEPT ![g] = "quarantining"]
        /\ UNCHANGED <<content, manifest, ref, tree, pc, task, todo, roots, cand>>
        /\ cand[g] \in Candidates(g)
    BY <1>11 DEF Confirm, ScanSucceeds
  <2>2. ASSUME NEW s \in Snapshot, Reserves(g, s) PROVE s[1] \notin roots[g]
    BY <2>1, <2>2 DEF Reserves, Candidates, Keeps, SnapshotObservation, BlobObservation
  <2>3. \A s \in Snapshot, r \in Revision : Reserves(g, s) /\ ref[r] = s[1] => HasOther(s)
    BY <2>1, <2>2 DEF IInv, ReclaimSafe
  <2>4. \A s \in Snapshot : Reserves(g, s)' = Reserves(g, s)
    BY <2>1 DEF Reserves
  <2>5. gpc'[g] = "quarantining"
    BY <1>1, <2>1 DEF TypeOK
  <2>6. \A h \in Collector \ {g} : gpc'[h] = gpc[h]
    BY <1>1, <2>1 DEF TypeOK
  <2> QED
    BY <2>1, <2>3, <2>4, <2>5, <2>6, QuietCollector
<1>12. CASE SkipChanged(g)
  BY <1>5, <1>12 DEF SkipChanged
<1>13. CASE QuarantineSnapshot(g)
  BY <1>13, InductiveQuarantine
<1>14. CASE QuarantineBlob(g)
  BY <1>5, <1>14 DEF QuarantineBlob
<1> QED
  BY <1>3, <1>4, <1>6, <1>7, <1>8, <1>9, <1>10, <1>11, <1>12, <1>13, <1>14
    DEF CollectorStep, CollectorCrash, ScanRefsFails, ScanFails, FinishExecute

\* Every step preserves the invariant.
LEMMA InductiveNext == IInv /\ [Next]_vars => IInv'
<1> SUFFICES ASSUME IInv, [Next]_vars PROVE IInv'
  OBVIOUS
<1>1. TypeOK' /\ TypeOK
  <2>1. CASE UNCHANGED vars
    BY <2>1 DEF IInv, TypeOK, vars, disk, clientVars, collectorVars
  <2> QED
    BY <2>1, TypeTick, TypeStart, TypeClient, TypeCollector DEF IInv, Next
<1>2. CASE UNCHANGED vars
  BY <1>1, <1>2, InductiveStutter DEF vars, disk, clientVars, collectorVars
<1>3. ASSUME NEW p \in Client, ClientStep(p) PROVE IInv'
  BY <1>1, <1>3, InductiveQuietStep, InductiveQuietLoop, InductiveInstall, InductiveManifest,
     InductiveReplaceRef DEF ClientStep
<1>4. ASSUME NEW p \in Client, Close(p) \/ Crash(p) PROVE IInv'
  BY <1>1, <1>4, InductiveQuietStep
<1> QED
  BY <1>1, <1>2, <1>3, <1>4, InductiveTick, InductiveStart, InductiveCollector DEF Next

\* The invariant holds in every reachable state.
THEOREM Inductive == Spec => []IInv
  BY InductiveInit, InductiveNext, PTL DEF Spec

\* A manifest is visible only in a complete directory.
THEOREM SealedSnapshotsAreComplete == Spec => []SealedIsComplete
<1>1. IInv => SealedIsComplete
  BY DEF IInv
<1> QED
  BY <1>1, Inductive, PTL

\* A leased snapshot keeps its manifest and entries, whatever collectors do.
THEOREM LeasedSnapshotsAreComplete == Spec => []HeldIsComplete
<1>1. IInv => HeldIsComplete
  BY DEF IInv
<1> QED
  BY <1>1, Inductive, PTL

\* A publisher's work under the snapshot lock is never undone by another.
THEOREM PublicationsAreKept == Spec => []PublicationKept
<1>1. IInv => PublicationKept
  BY DEF IInv
<1> QED
  BY <1>1, Inductive, PTL

\* No collection, however it races with ref updates, leaves a ref to a commit
\* without a recorded tree and a published snapshot.
THEOREM NamedCommitsAreAvailable == Spec => []NamedIsAvailable
<1>1. IInv => NamedIsAvailable
  BY DEF IInv
<1> QED
  BY <1>1, Inductive, PTL

=============================================================================

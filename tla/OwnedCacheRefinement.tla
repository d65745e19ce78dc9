------------------------ MODULE OwnedCacheRefinement ------------------------
(***************************************************************************)
(* OwnedCache implements SnapshotStore: with locks, leases, staging and    *)
(* scans hidden, every step publishes, opens, releases, names or reclaims  *)
(* a snapshot under the conditions SnapshotStore states, or changes        *)
(* nothing.                                                                *)
(***************************************************************************)
EXTENDS OwnedCacheProofs

\* Where a client has a snapshot in hand.
InHand == {"naming", "writing", "staged", "holding"}

\* The handle of a client, from where it stands.
LEMMA HandleAt ==
  /\ \A p \in Client : pc[p] \in InHand => Handle[p] = task[p].snap
  /\ \A p \in Client : pc[p] \notin InHand => Handle[p] = None
  BY DEF Handle, InHand

\* The handle of a client after a step.
LEMMA HandleAtPrimed ==
  /\ \A p \in Client : pc'[p] \in InHand => Handle'[p] = task'[p].snap
  /\ \A p \in Client : pc'[p] \notin InHand => Handle'[p] = None
  BY DEF Handle, InHand

\* A handle is a snapshot that is available and leased.
LEMMA HandleLeased ==
  ASSUME IInv, NEW p \in Client
  PROVE  /\ Handle[p] \in Snapshot \cup {None}
         /\ \A s \in Snapshot : Handle[p] = s => HoldsLease(p, s) /\ Sealed(s)
         /\ pc[p] \in InHand => Handle[p] # None /\ Handle[p] = task[p].snap
<1>1. TypeOK /\ \A s \in Snapshot : s # None
  BY ConstantsAssumption DEF IInv
<1>2. CASE pc[p] \in InHand
  <2>1. Handle[p] = task[p].snap /\ task[p].snap \in Snapshot
    BY <1>1, <1>2, HandleAt, TaskTyped DEF InHand
  <2>2. HoldsLease(p, task[p].snap)
    BY <1>2 DEF HoldsLease, InHand
  <2>3. Sealed(task[p].snap)
    BY <2>1, <2>2 DEF IInv, HeldIsComplete
  <2> QED
    BY <1>1, <2>1, <2>2, <2>3
<1>3. CASE pc[p] \notin InHand
  BY <1>1, <1>3, HandleAt
<1> QED
  BY <1>2, <1>3

-----------------------------------------------------------------------------
\* An empty cache directory is an empty store.
LEMMA StoreInit == Init => Store!Init
<1> SUFFICES ASSUME Init PROVE Store!Init
  OBVIOUS
<1>1. {s \in Snapshot : Sealed(s)} = {}
  BY DEF Init, Sealed
<1>2. Handle = [p \in Client |-> None]
  BY DEF Init, Handle
<1> QED
  BY <1>1, <1>2 DEF Init, Store!Init

\* Steps of a client that leave manifests and refs alone: its handle decides.
LEMMA StoreQuiet ==
  ASSUME NEW p \in Client, IInv, UNCHANGED <<manifest, ref>>,
         \A x \in Client \ {p} : pc'[x] = pc[x] /\ task'[x] = task[x],
         \/ pc[p] \notin InHand /\ pc'[p] \notin InHand
         \/ pc'[p] \notin InHand
         \/ pc[p] \in InHand /\ pc'[p] \in InHand /\ task'[p] = task[p]
         \/ /\ pc[p] \notin InHand /\ pc'[p] \in InHand
            /\ HoldsLease(p, task[p].snap) /\ task[p].snap \in Snapshot
            /\ task'[p] = task[p]
  PROVE  [Store!Next]_Store!storeVars
<1>1. \A x \in Client \ {p} : Handle'[x] = Handle[x]
  BY DEF Handle
<1>2. Handle \in [Client -> Snapshot \cup {None}]
      /\ Handle = [x \in Client |-> Handle[x]] /\ Handle' = [x \in Client |-> Handle'[x]]
  BY HandleLeased DEF Handle
<1>3. {s \in Snapshot : Sealed(s)}' = {s \in Snapshot : Sealed(s)}
  BY DEF Sealed
<1>4. CASE Handle'[p] = Handle[p]
  <2>1. Handle' = Handle
    BY <1>1, <1>2, <1>4
  <2> QED
    BY <1>3, <2>1 DEF Store!storeVars
<1>5. CASE pc'[p] \notin InHand
  <2>1. Handle'[p] = None
    BY <1>5, HandleAtPrimed
  <2>2. Handle' = [Handle EXCEPT ![p] = None]
    BY <1>1, <1>2, <2>1
  <2> QED
    BY <1>3, <2>2 DEF Store!Next, Store!Release
<1>6. CASE pc[p] \in InHand /\ pc'[p] \in InHand /\ task'[p] = task[p]
  BY <1>4, <1>6, HandleAt, HandleAtPrimed
<1>7. CASE /\ pc[p] \notin InHand /\ pc'[p] \in InHand
           /\ HoldsLease(p, task[p].snap) /\ task[p].snap \in Snapshot
           /\ task'[p] = task[p]
  <2>1. Handle[p] = None /\ Handle'[p] = task[p].snap
    BY <1>7, HandleAt, HandleAtPrimed
  <2>2. Handle' = [Handle EXCEPT ![p] = task[p].snap]
    BY <1>1, <1>2, <2>1
  <2>3. task[p].snap \in {s \in Snapshot : Sealed(s)}
    BY <1>7 DEF IInv, HeldIsComplete
  <2>4. Store!Open(p, task[p].snap)
    BY <1>3, <2>1, <2>2, <2>3 DEF Store!Open
  <2> QED
    BY <1>7, <2>4 DEF Store!Next, Snapshot
<1> QED
  BY <1>5, <1>6, <1>7

\* Starting, advancing or ending a request.
LEMMA StoreClient ==
  ASSUME NEW p \in Client, IInv,
         ClientStart(p) \/ ClientStep(p) \/ Close(p) \/ Crash(p)
  PROVE  [Store!Next]_Store!storeVars
<1> USE DEF disk, collectorVars, Goto
<1>1. TypeOK
  BY DEF IInv
<1>2. ASSUME NEW label, pc' = [pc EXCEPT ![p] = label], UNCHANGED <<manifest, ref>>,
             \A x \in Client \ {p} : task'[x] = task[x],
             label \notin InHand
      PROVE  [Store!Next]_Store!storeVars
  BY <1>1, <1>2, StoreQuiet DEF TypeOK
<1>3. CASE ClientStart(p)
  BY <1>1, <1>2, <1>3
    DEF ClientStart, StartFetch, StartOpenRequest, StartOpen, Start, InHand, TypeOK
<1>4. ASSUME Return(p), UNCHANGED <<manifest, ref>> PROVE [Store!Next]_Store!storeVars
  BY <1>1, <1>2, <1>4 DEF Return, InHand, TypeOK
<1>5. CASE ResolveAgain(p) \/ OpenMissing(p) \/ OpenManifest(p) \/ PublishRemoteTree(p)
           \/ LockSnapshot(p)
  <2>1. CASE ResolveAgain(p)
    BY <1>1, <1>2, <2>1 DEF ResolveAgain, InHand, TypeOK
  <2>2. CASE OpenMissing(p)
    BY <1>1, <1>2, <1>4, <2>2 DEF OpenMissing, InHand, TypeOK
  <2>3. CASE OpenManifest(p)
    BY <1>2, <2>3 DEF OpenManifest, InHand
  <2>4. CASE PublishRemoteTree(p)
    BY <1>2, <2>4 DEF PublishRemoteTree, InHand
  <2>5. CASE LockSnapshot(p)
    BY <1>1, <1>2, <2>5 DEF LockSnapshot, InHand, TypeOK
  <2> QED
    BY <1>5, <2>1, <2>2, <2>3, <2>4, <2>5
<1>6. CASE LockRef(p) \/ StageRef(p)
  BY <1>1, <1>6, StoreQuiet DEF LockRef, StageRef, InHand, TypeOK
<1>7. CASE Close(p) \/ Crash(p)
  BY <1>4, <1>7 DEF Close, Crash
<1>8. ASSUME NEW q \in todo[p], NEW here, NEW next, NEW again,
             here \notin InHand, next \notin InHand,
             Iterate(p, q, here, next, again), UNCHANGED <<manifest, ref, task>>
      PROVE  [Store!Next]_Store!storeVars
  BY <1>1, <1>8, StoreQuiet DEF Iterate, TypeOK
<1>9. ASSUME NEW q \in todo[p], ValidateEntry(p, q) PROVE [Store!Next]_Store!storeVars
  <2>1. /\ pc[p] = "validating" /\ UNCHANGED <<manifest, ref, task>>
        /\ UNCHANGED pc \/ pc' = [pc EXCEPT ![p] = AfterOpen(p)]
    BY <1>9 DEF ValidateEntry, Iterate
  <2>2. task[p].snap \in Snapshot /\ HoldsLease(p, task[p].snap)
    BY <1>1, <2>1, TaskTyped DEF HoldsLease
  <2>3. pc'[p] = "validating" \/ pc'[p] \in InHand
    BY <1>1, <2>1 DEF TypeOK, AfterOpen, InHand
  <2>4. \A x \in Client \ {p} : pc'[x] = pc[x] /\ task'[x] = task[x]
    BY <1>1, <2>1 DEF TypeOK
  <2> QED
    BY <2>1, <2>2, <2>3, <2>4, StoreQuiet DEF InHand
<1>10. ASSUME NEW q \in todo[p], OpenCorrupt(p, q) \/ StageFails(p, q)
       PROVE  [Store!Next]_Store!storeVars
  BY <1>4, <1>10 DEF OpenCorrupt, StageFails
<1>11. ASSUME NEW q \in todo[p], PublishBlob(p, q) \/ StageEntry(p, q) \/ InstallEntry(p, q)
       PROVE  [Store!Next]_Store!storeVars
  <2>1. CASE PublishBlob(p, q)
    <3>1. Iterate(p, q, "fetching", "activating", {}) /\ UNCHANGED <<manifest, ref, task>>
      BY <2>1 DEF PublishBlob
    <3> QED
      BY <1>8, <3>1 DEF InHand
  <2>2. CASE StageEntry(p, q)
    <3>1. /\ Iterate(p, q, "staging", "installing", task[p].snap[2])
          /\ UNCHANGED <<manifest, ref, task>>
      BY <2>2 DEF StageEntry, disk
    <3> QED
      BY <1>8, <3>1 DEF InHand
  <2>3. CASE InstallEntry(p, q)
    <3>1. Iterate(p, q, "installing", "sealing", {}) /\ UNCHANGED <<manifest, ref, task>>
      BY <2>3 DEF InstallEntry
    <3> QED
      BY <1>8, <3>1 DEF InHand
  <2> QED
    BY <1>11, <2>1, <2>2, <2>3
<1>12. CASE PublishManifest(p)
  <2>1. PICK s : s = task[p].snap
    OBVIOUS
  <2>2. /\ pc[p] = "sealing" /\ pc' = [pc EXCEPT ![p] = "opening"] /\ UNCHANGED <<ref, task>>
        /\ \/ Sealed(s) /\ UNCHANGED manifest
           \/ \E t \in WrittenAt(p) : manifest' = [manifest EXCEPT ![s] = t]
    BY <1>12, <2>1 DEF PublishManifest
  <2>3. s \in Snapshot /\ WrittenAt(p) \subseteq Nat
    BY <1>1, <2>1, <2>2, TaskTyped DEF WrittenAt, Task, TypeOK, Time
  <2>4. Handle' = Handle
    BY <1>1, <2>2 DEF Handle, TypeOK
  <2>5. {t \in Snapshot : Sealed(t)}' = {t \in Snapshot : Sealed(t)} \cup {s}
    BY <1>1, <2>2, <2>3, ConstantsAssumption DEF TypeOK, Sealed
  <2>6. Store!Publish(s)
    BY <2>2, <2>4, <2>5 DEF Store!Publish
  <2> QED
    BY <2>3, <2>6 DEF Store!Next, Snapshot
<1>13. CASE ReplaceRef(p)
  <2>1. /\ pc[p] = "staged" /\ pc' = [pc EXCEPT ![p] = "holding"] /\ UNCHANGED <<manifest, task>>
        /\ ref' = [ref EXCEPT ![task[p].rev] = task[p].snap[1]]
    BY <1>13 DEF ReplaceRef
  <2>2. Handle[p] # None /\ Handle[p] = task[p].snap
    BY <2>1, HandleLeased DEF InHand
  <2>3. Handle' = Handle
    BY <1>1, <2>1 DEF Handle, TypeOK
  <2>4. task[p].rev \in Revision
    BY <2>1 DEF IInv, Control
  <2>5. {s \in Snapshot : Sealed(s)}' = {s \in Snapshot : Sealed(s)}
    BY <2>1 DEF Sealed
  <2>6. Store!Name(p, task[p].rev)
    BY <2>1, <2>2, <2>3, <2>5 DEF Store!Name
  <2> QED
    BY <2>4, <2>6 DEF Store!Next
<1> QED
  BY <1>3, <1>5, <1>6, <1>7, <1>9, <1>10, <1>11, <1>12, <1>13 DEF ClientStep

\* Quarantining a snapshot is the only step of a collector the store sees.
LEMMA StoreCollector ==
  ASSUME NEW g \in Collector, IInv,
         StartPlan(g) \/ CollectorStep(g) \/ CollectorCrash(g)
  PROVE  [Store!Next]_Store!storeVars
<1>1. CASE QuarantineSnapshot(g)
  <2>1. PICK s : s = cand[g].object
    OBVIOUS
  <2>2. /\ gpc[g] = "quarantining" /\ cand[g].kind = "snapshot"
        /\ manifest' = [manifest EXCEPT ![s] = None]
        /\ UNCHANGED <<ref, pc, task>>
    BY <1>1, <2>1 DEF QuarantineSnapshot, NextCandidate, clientVars
  <2>3. s \in Snapshot /\ Reserves(g, s)
    <3>1. cand[g] \in Candidate
      BY <2>2 DEF IInv, TypeOK, NoCandidate
    <3> QED
      BY <2>1, <2>2, <3>1 DEF Candidate, Reserves
  <2>4. \A p \in Client : Handle[p] # s
    BY <2>3, HandleLeased DEF IInv, ReservedAlone
  <2>5. \A r \in Revision : ref[r] = s[1] => HasOther(s)
    BY <2>2, <2>3 DEF IInv, ReclaimSafe
  <2>6. \A S \in Selection : <<s[1], S>> \in Snapshot
    BY <2>3, SnapshotKey
  <2>7. \A r \in Revision : ref[r] = s[1] => \E S \in Selection :
          <<s[1], S>> # s /\ <<s[1], S>> \in {t \in Snapshot : Sealed(t)}
    BY <2>5, <2>6 DEF HasOther
  <2>8. Handle' = Handle
    BY <2>2 DEF Handle
  <2>9. {t \in Snapshot : Sealed(t)}' = {t \in Snapshot : Sealed(t)} \ {s}
    BY <2>2, <2>3 DEF IInv, TypeOK, Sealed
  <2>10. Store!Reclaim(s)
    BY <2>2, <2>4, <2>7, <2>8, <2>9 DEF Store!Reclaim
  <2> QED
    BY <2>3, <2>10 DEF Store!Next, Snapshot
<1>2. ASSUME UNCHANGED <<manifest, ref, pc, task>> PROVE [Store!Next]_Store!storeVars
  BY <1>2 DEF Store!storeVars, Sealed, Handle
<1>3. ASSUME Abandon(g) PROVE [Store!Next]_Store!storeVars
  BY <1>2, <1>3 DEF Abandon, disk, clientVars
<1>4. ASSUME NEW k, NextCandidate(g, k), UNCHANGED <<manifest, ref>>
      PROVE  [Store!Next]_Store!storeVars
  BY <1>2, <1>4 DEF NextCandidate, clientVars
<1>5. CASE \/ StartPlan(g) \/ ScanRefRoots(g) \/ PlanComplete(g) \/ StartExecute(g) \/ Confirm(g)
           \/ \E k \in plan[g] : TakeCandidate(g, k)
  BY <1>2, <1>5 DEF StartPlan, ScanRefRoots, PlanComplete, StartExecute, Confirm, TakeCandidate,
    disk, clientVars
<1>6. CASE SkipChanged(g) \/ QuarantineBlob(g) \/ \E k \in plan[g] : SkipContended(g, k)
  BY <1>4, <1>6 DEF SkipChanged, QuarantineBlob, SkipContended, disk
<1> QED
  BY <1>1, <1>3, <1>5, <1>6
    DEF CollectorStep, CollectorCrash, ScanRefsFails, ScanFails, FinishExecute

\* The cache is a snapshot store: no interleaving of publishers, readers,
\* collectors and crashes shows a client anything SnapshotStore does not allow.
THEOREM Implements == Spec => StoreSpec
<1>1. IInv /\ [Next]_vars => [Store!Next]_Store!storeVars
  <2> SUFFICES ASSUME IInv, [Next]_vars PROVE [Store!Next]_Store!storeVars
    OBVIOUS
  <2>1. CASE UNCHANGED vars \/ Tick
    BY <2>1 DEF vars, Tick, disk, clientVars, Store!storeVars, Sealed, Handle
  <2> QED
    BY <2>1, StoreClient, StoreCollector DEF Next
<1> QED
  BY <1>1, StoreInit, Inductive, PTL DEF Spec, StoreSpec, Store!Spec

=============================================================================

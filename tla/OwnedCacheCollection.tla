------------------------ MODULE OwnedCacheCollection ------------------------
(***************************************************************************)
(* What a garbage collection may remove, proved for every policy and every *)
(* interleaving of collectors and publishers.  A collector reads the       *)
(* directory, decides, and removes in separate steps; VerdictStands says   *)
(* that its decision is still true when it removes, and the three action   *)
(* properties of removal follow from it.                                   *)
(***************************************************************************)
EXTENDS OwnedCacheProofs, FiniteSetTheorems

\* Sets of snapshots are finite, and their sizes grow with them.
LEMMA SnapshotCounts ==
  ASSUME NEW B \in SUBSET Snapshot, NEW A \in SUBSET B
  PROVE  /\ Cardinality(A) \in Nat /\ Cardinality(B) \in Nat
         /\ Cardinality(A) <= Cardinality(B)
<1>1. IsFiniteSet(B)
  BY FS_Subset, ConstantsAssumption
<1>2. IsFiniteSet(A) /\ Cardinality(A) <= Cardinality(B)
  BY <1>1, FS_Subset
<1> QED
  BY <1>1, <1>2, FS_CardinalityType

-----------------------------------------------------------------------------
(* Who writes and who removes.                                             *)

\* Blobs and manifests only appear, dated up to now, and none that a collector
\* has reserved does.
OnlyAppear ==
    /\ UNCHANGED <<gpc, now, roots, seen, cand>>
    /\ clock <= clock'
    /\ \A d \in Digest :
        \/ blob'[d] = blob[d]
        \/ /\ blob[d] = None /\ blob'[d] # None /\ blob'[d] <= clock'
           /\ \A g \in Collector : ~ReservesBlob(g, d)
    /\ \A s \in Snapshot :
        \/ manifest'[s] = manifest[s]
        \/ /\ ~Sealed(s) /\ manifest'[s] # None /\ manifest'[s] <= clock'
           /\ \A g \in Collector : ~Reserves(g, s)

\* A client dates what it writes within its present phase.
LEMMA WrittenInPhase ==
  ASSUME NEW p \in Client, TypeOK, pc[p] # "idle", NEW t \in WrittenAt(p)
  PROVE  t \in Nat /\ t # None /\ t <= clock
<1>1. task[p].since \in Nat /\ clock \in Nat
  BY TaskTyped DEF Task, TypeOK, Time
<1> QED
  BY <1>1, ConstantsAssumption DEF WrittenAt

\* Time and clients only make blobs and manifests appear: the blob lock and
\* the snapshot lock keep them off what a collector has reserved.
LEMMA OthersOnlyAdd ==
  ASSUME IInv,
         \/ UNCHANGED vars
         \/ Tick
         \/ \E p \in Client : ClientStart(p) \/ ClientStep(p) \/ Close(p) \/ Crash(p)
  PROVE  OnlyAppear
<1> USE DEF disk, collectorVars
<1>1. TypeOK /\ clock \in Nat
  BY DEF IInv, TypeOK, Time
<1>2. ASSUME UNCHANGED <<blob, manifest, clock, collectorVars>> PROVE OnlyAppear
  BY <1>1, <1>2 DEF OnlyAppear
<1>3. CASE UNCHANGED vars
  BY <1>2, <1>3 DEF vars
<1>4. CASE Tick
  BY <1>1, <1>4 DEF Tick, OnlyAppear
<1>5. ASSUME NEW p \in Client, ClientStart(p) PROVE OnlyAppear
  BY <1>2, <1>5 DEF ClientStart, StartFetch, StartOpenRequest, StartOpen, Start
<1>6. ASSUME NEW p \in Client, NEW q \in todo[p], PublishBlob(p, q) PROVE OnlyAppear
  <2>1. /\ pc[p] = "fetching" /\ UNCHANGED <<manifest, clock, collectorVars>>
        /\ \/ UNCHANGED blob
           \/ /\ blob[Content[task[p].snap[1]][q]] = None
              /\ BlobLockFree(Content[task[p].snap[1]][q])
              /\ \E t \in WrittenAt(p) :
                    blob' = [blob EXCEPT ![Content[task[p].snap[1]][q]] = t]
    BY <1>6 DEF PublishBlob, Iterate
  <2>2. CASE UNCHANGED blob
    BY <1>2, <2>1, <2>2
  <2>3. CASE ~UNCHANGED blob
    <3>1. PICK d : d = Content[task[p].snap[1]][q]
      OBVIOUS
    <3>2. PICK t \in WrittenAt(p) : blob' = [blob EXCEPT ![d] = t]
      BY <2>1, <2>3, <3>1
    <3>3. t # None /\ t <= clock
      BY <1>1, <2>1, WrittenInPhase
    <3>4. \A e \in Digest : blob'[e] = blob[e] \/ (e = d /\ blob'[e] = t)
      BY <1>1, <3>2 DEF TypeOK
    <3>5. blob[d] = None /\ \A g \in Collector : ~ReservesBlob(g, d)
      BY <2>1, <2>3, <3>1 DEF BlobLockFree
    <3> QED
      BY <1>1, <2>1, <3>3, <3>4, <3>5 DEF OnlyAppear
  <2> QED
    BY <2>2, <2>3
<1>7. ASSUME NEW p \in Client, PublishManifest(p) PROVE OnlyAppear
  <2>1. PICK s : s = task[p].snap
    OBVIOUS
  <2>2. /\ pc[p] = "sealing" /\ UNCHANGED <<blob, clock, collectorVars>>
        /\ \/ UNCHANGED manifest
           \/ /\ ~Sealed(s)
              /\ \E t \in WrittenAt(p) : manifest' = [manifest EXCEPT ![s] = t]
    BY <1>7, <2>1 DEF PublishManifest
  <2>3. CASE UNCHANGED manifest
    BY <1>2, <2>2, <2>3
  <2>4. CASE ~UNCHANGED manifest
    <3>1. PICK t \in WrittenAt(p) : manifest' = [manifest EXCEPT ![s] = t]
      BY <2>2, <2>4
    <3>2. t # None /\ t <= clock
      BY <1>1, <2>2, WrittenInPhase
    <3>3. \A x \in Snapshot : manifest'[x] = manifest[x] \/ (x = s /\ manifest'[x] = t)
      BY <1>1, <3>1 DEF TypeOK
    <3>4. s \in Snapshot /\ HoldsSnapshotLock(p, s)
      BY <1>1, <2>1, <2>2, TaskTyped DEF HoldsSnapshotLock
    <3>5. \A g \in Collector : ~Reserves(g, s)
      BY <3>4 DEF IInv, ReservedAlone
    <3> QED
      BY <1>1, <2>2, <2>4, <3>2, <3>3, <3>5 DEF OnlyAppear
  <2> QED
    BY <2>3, <2>4
<1>8. ASSUME NEW p \in Client, ClientStep(p) PROVE OnlyAppear
  BY <1>2, <1>6, <1>7, <1>8
    DEF ClientStep, ResolveAgain, OpenMissing, OpenManifest, ValidateEntry, OpenCorrupt,
        PublishRemoteTree, LockSnapshot, StageEntry, StageFails, InstallEntry, LockRef,
        StageRef, ReplaceRef
<1>9. ASSUME NEW p \in Client, Close(p) \/ Crash(p) PROVE OnlyAppear
  BY <1>2, <1>9 DEF Close, Crash
<1> QED
  BY <1>3, <1>4, <1>5, <1>8, <1>9

-----------------------------------------------------------------------------
(* The verdict stands.                                                     *)

\* Nothing is decided in the empty cache directory.
LEMMA VerdictInit == Init => VerdictStands
  BY DEF Init, VerdictStands, MaintenanceAlone, PastTimes, SnapshotVerdict, BlobVerdict,
         HoldsMaintenance, NoCandidate, Sealed

\* What appears beside it cannot refute a verdict: it leaves the reserved
\* objects alone and the detached others can only grow.
LEMMA VerdictOutlivesAdditions ==
  ASSUME IInv, TypeOK', VerdictStands, OnlyAppear
  PROVE  VerdictStands'
<1> USE DEF OnlyAppear
<1>1. TypeOK
  BY DEF IInv
<1>2. MaintenanceAlone'
  BY DEF VerdictStands, MaintenanceAlone, HoldsMaintenance
<1>3. PastTimes'
  <2>1. /\ clock \in Nat /\ clock' \in Nat /\ None \notin Nat
        /\ \A d \in Digest : blob[d] \in Nat \cup {None}
        /\ \A s \in Snapshot : manifest[s] \in Nat \cup {None}
        /\ \A g \in Collector : now[g] \in Nat
    BY <1>1, ConstantsAssumption DEF TypeOK, Time
  <2>2. \A d \in Digest : blob'[d] # None => blob'[d] <= clock'
    BY <2>1 DEF VerdictStands, PastTimes
  <2>3. \A s \in Snapshot : Sealed(s)' => manifest'[s] <= clock'
    BY <2>1 DEF VerdictStands, PastTimes, Sealed
  <2>4. \A g \in Collector : now'[g] <= clock'
    BY <2>1 DEF VerdictStands, PastTimes
  <2> QED
    BY <2>2, <2>3, <2>4 DEF PastTimes
<1>4. /\ \A g \in Collector, s \in Snapshot : Reserves(g, s)' = Reserves(g, s)
      /\ \A g \in Collector, d \in Digest : ReservesBlob(g, d)' = ReservesBlob(g, d)
  BY DEF Reserves, ReservesBlob
<1>5. SnapshotVerdict'
  <2> SUFFICES ASSUME NEW g \in Collector, NEW s \in Snapshot,
                      gpc[g] = "quarantining", Reserves(g, s)
               PROVE  /\ Sealed(s)' => OldEnough(g, manifest[s])'
                      /\ Cardinality(OthersDetached(g, s))' >= KeepFloor
    BY <1>4 DEF SnapshotVerdict
  <2>1. manifest'[s] = manifest[s]
    OBVIOUS
  <2>2. Sealed(s)' => OldEnough(g, manifest[s])'
    BY <2>1 DEF VerdictStands, SnapshotVerdict, Sealed, OldEnough
  <2>3. /\ OthersDetached(g, s) \subseteq OthersDetached(g, s)'
        /\ OthersDetached(g, s)' \in SUBSET Snapshot
    BY DEF OthersDetached, Sealed
  <2>4. /\ Cardinality(OthersDetached(g, s)) \in Nat
        /\ Cardinality(OthersDetached(g, s)') \in Nat
        /\ Cardinality(OthersDetached(g, s)) <= Cardinality(OthersDetached(g, s)')
    BY <2>3, SnapshotCounts
  <2>5. Cardinality(OthersDetached(g, s)) >= KeepFloor /\ KeepFloor \in Nat
    BY ConstantsAssumption DEF VerdictStands, SnapshotVerdict
  <2> QED
    BY <2>2, <2>4, <2>5
<1>6. BlobVerdict'
  <2> SUFFICES ASSUME NEW g \in Collector, NEW d \in Digest,
                      gpc[g] = "quarantining", ReservesBlob(g, d)
               PROVE  /\ blob'[d] # None => OldEnough(g, blob[d])'
                      /\ \A s \in seen[g] :
                            /\ Sealed(s)'
                            /\ d \in DigestsOf(s) =>
                                s[1] \notin roots[g] /\ OldEnough(g, manifest[s])'
    BY <1>4 DEF BlobVerdict, DigestsOf
  <2>1. blob'[d] = blob[d]
    OBVIOUS
  <2>2. blob'[d] # None => OldEnough(g, blob[d])'
    BY <2>1 DEF VerdictStands, BlobVerdict, OldEnough
  <2>3. ASSUME NEW s \in seen[g]
        PROVE  /\ Sealed(s)'
               /\ d \in DigestsOf(s) =>
                    s[1] \notin roots[g] /\ OldEnough(g, manifest[s])'
    <3>1. /\ Sealed(s)
          /\ d \in DigestsOf(s) => s[1] \notin roots[g] /\ OldEnough(g, manifest[s])
      BY DEF VerdictStands, BlobVerdict
    <3>2. s \in Snapshot
      BY <1>1 DEF TypeOK
    <3>3. manifest'[s] = manifest[s]
      BY <3>1, <3>2
    <3> QED
      BY <3>1, <3>3 DEF Sealed, OldEnough
  <2> QED
    BY <2>2, <2>3
<1> QED
  BY <1>2, <1>3, <1>5, <1>6 DEF VerdictStands

\* While nobody executes a candidate there is no verdict to refute.
LEMMA NoVerdict ==
  ASSUME PastTimes', \A g \in Collector : ~HoldsMaintenance(g)'
  PROVE  VerdictStands'
<1>1. \A g \in Collector :
        /\ \A s \in Snapshot : ~Reserves(g, s)'
        /\ \A d \in Digest : ~ReservesBlob(g, d)'
  BY DEF HoldsMaintenance, Reserves, ReservesBlob
<1> QED
  BY <1>1 DEF VerdictStands, MaintenanceAlone, SnapshotVerdict, BlobVerdict

\* A step of a collector that removes nothing and has not just decided.
LEMMA VerdictElsewhere ==
  ASSUME NEW g \in Collector, IInv, TypeOK', VerdictStands,
         UNCHANGED <<clock, blob, manifest>>,
         \A h \in Collector \ {g} :
            /\ gpc'[h] = gpc[h] /\ now'[h] = now[h] /\ roots'[h] = roots[h]
            /\ seen'[h] = seen[h] /\ cand'[h] = cand[h],
         gpc'[g] # "quarantining",
         now'[g] \in {now[g], clock},
         cand'[g] \in {cand[g], NoCandidate} \/ MaintenanceFree
  PROVE  VerdictStands'
<1>1. MaintenanceAlone'
  <2>1. \A h \in Collector \ {g} : HoldsMaintenance(h)' = HoldsMaintenance(h)
    BY DEF HoldsMaintenance
  <2>2. HoldsMaintenance(g)' => HoldsMaintenance(g) \/ MaintenanceFree
    BY DEF HoldsMaintenance, NoCandidate
  <2> QED
    BY <2>1, <2>2 DEF VerdictStands, MaintenanceAlone, MaintenanceFree
<1>2. PastTimes'
  <2>1. clock \in Nat /\ clock <= clock
    BY DEF IInv, TypeOK, Time
  <2> QED
    BY <2>1 DEF VerdictStands, PastTimes, Sealed
<1>3. SnapshotVerdict'
  <2> SUFFICES ASSUME NEW h \in Collector, NEW s \in Snapshot,
                      gpc'[h] = "quarantining", Reserves(h, s)'
               PROVE  /\ Sealed(s)' => OldEnough(h, manifest[s])'
                      /\ Cardinality(OthersDetached(h, s))' >= KeepFloor
    BY DEF SnapshotVerdict
  <2>1. h # g /\ Reserves(h, s) /\ gpc[h] = "quarantining"
    BY DEF Reserves
  <2>2. OthersDetached(h, s)' = OthersDetached(h, s)
    BY <2>1 DEF OthersDetached, Sealed
  <2> QED
    BY <2>1, <2>2 DEF VerdictStands, SnapshotVerdict, Sealed, OldEnough
<1>4. BlobVerdict'
  <2> SUFFICES ASSUME NEW h \in Collector, NEW d \in Digest,
                      gpc'[h] = "quarantining", ReservesBlob(h, d)'
               PROVE  /\ blob'[d] # None => OldEnough(h, blob[d])'
                      /\ \A s \in seen'[h] :
                            /\ Sealed(s)'
                            /\ d \in DigestsOf(s) =>
                                s[1] \notin roots'[h] /\ OldEnough(h, manifest[s])'
    BY DEF BlobVerdict, DigestsOf
  <2>1. h # g /\ ReservesBlob(h, d) /\ gpc[h] = "quarantining" /\ seen'[h] = seen[h]
    BY DEF ReservesBlob
  <2> QED
    BY <2>1 DEF VerdictStands, BlobVerdict, Sealed, OldEnough
<1> QED
  BY <1>1, <1>2, <1>3, <1>4 DEF VerdictStands

\* The scan under the locks establishes the verdict.
LEMMA VerdictConfirmed ==
  ASSUME NEW g \in Collector, IInv, TypeOK', VerdictStands, Confirm(g)
  PROVE  VerdictStands'
<1>1. TypeOK
  BY DEF IInv
<1>2. /\ cand[g] # NoCandidate /\ cand[g] \in Candidates(g)
      /\ \A s \in Snapshot : Present(s) => Intact(s)
      /\ gpc' = [gpc EXCEPT ![g] = "quarantining"]
      /\ seen' = [seen EXCEPT ![g] = {s \in Snapshot : Present(s)}]
      /\ UNCHANGED <<clock, blob, content, manifest, now, roots, cand>>
  BY DEF Confirm, ScanSucceeds, GotoG, disk
<1>3. \A h \in Collector : h # g => ~HoldsMaintenance(h)
  <2>1. HoldsMaintenance(g)
    BY <1>1, <1>2 DEF TypeOK, Candidate, NoCandidate, HoldsMaintenance
  <2> QED
    BY <2>1 DEF VerdictStands, MaintenanceAlone
<1>4. MaintenanceAlone' /\ PastTimes'
  BY <1>2 DEF VerdictStands, MaintenanceAlone, PastTimes, HoldsMaintenance, Sealed
<1>5. seen'[g] = {s \in Snapshot : Present(s)}
  BY <1>1, <1>2 DEF TypeOK
<1>6. SnapshotVerdict'
  <2> SUFFICES ASSUME NEW s \in Snapshot, Reserves(g, s)
               PROVE  /\ Sealed(s) => OldEnough(g, manifest[s])
                      /\ Cardinality(OthersDetached(g, s)) >= KeepFloor
    BY <1>2, <1>3 DEF SnapshotVerdict, Reserves, HoldsMaintenance, Sealed, OldEnough, OthersDetached
  <2>1. Present(s) /\ ~Keeps(g, s)
    BY <1>2 DEF Candidates, Reserves, SnapshotObservation, BlobObservation
  <2>2. OldEnough(g, manifest[s]) /\ s \in Detached(g) /\ Sealed(s)
        /\ ~(Cardinality({t \in Detached(g) : Precedes(t, s)}) < KeepFloor)
    BY <1>2, <2>1 DEF Keeps, KeptByFloor, Detached, Intact
  <2>3. ~Precedes(s, s)
    <3>1. manifest[s] \in Nat /\ Rank[s] \in Nat
      BY <1>1, <2>2, ConstantsAssumption DEF TypeOK, Time, Sealed
    <3> QED
      BY <3>1 DEF Precedes
  <2>4. {t \in Detached(g) : Precedes(t, s)} \subseteq OthersDetached(g, s)
    BY <1>2, <2>3 DEF Detached, OthersDetached, Intact
  <2>5. OthersDetached(g, s) \in SUBSET Snapshot
    BY DEF OthersDetached
  <2>6. /\ Cardinality({t \in Detached(g) : Precedes(t, s)}) \in Nat
        /\ Cardinality(OthersDetached(g, s)) \in Nat
        /\ Cardinality({t \in Detached(g) : Precedes(t, s)}) <= Cardinality(OthersDetached(g, s))
    BY <2>4, <2>5, SnapshotCounts
  <2>7. KeepFloor \in Nat
    BY ConstantsAssumption
  <2> QED
    BY <2>2, <2>6, <2>7
<1>7. BlobVerdict'
  <2> SUFFICES ASSUME NEW d \in Digest, ReservesBlob(g, d)
               PROVE  /\ blob[d] # None => OldEnough(g, blob[d])
                      /\ \A s \in Snapshot : Present(s) =>
                            /\ Sealed(s)
                            /\ d \in DigestsOf(s) =>
                                s[1] \notin roots[g] /\ OldEnough(g, manifest[s])
    BY <1>2, <1>3, <1>5
      DEF BlobVerdict, ReservesBlob, HoldsMaintenance, Sealed, OldEnough, DigestsOf
  <2>1. d \notin RetainedDigests(g) /\ OldEnough(g, blob[d])
    BY <1>2 DEF Candidates, ReservesBlob, SnapshotObservation, BlobObservation
  <2>2. ASSUME NEW s \in Snapshot, Present(s), d \in DigestsOf(s)
        PROVE  s[1] \notin roots[g] /\ OldEnough(g, manifest[s])
    <3>1. ~Keeps(g, s)
      BY <2>1, <2>2 DEF RetainedDigests
    <3> QED
      BY <3>1 DEF Keeps
  <2> QED
    BY <1>2, <2>1, <2>2 DEF Intact
<1> QED
  BY <1>4, <1>6, <1>7 DEF VerdictStands

\* The steps of a collector that remove a blob or a snapshot.
Removal(g) == QuarantineSnapshot(g) \/ QuarantineBlob(g)

\* A removal ends the verdict it rested on, the only one there was.
LEMMA VerdictUsed ==
  ASSUME NEW g \in Collector, IInv, TypeOK', VerdictStands, Removal(g)
  PROVE  VerdictStands'
<1>1. TypeOK /\ PastTimes /\ MaintenanceAlone
  BY DEF IInv, VerdictStands
<1>2. /\ cand[g].kind # "none" /\ cand' = [cand EXCEPT ![g] = NoCandidate]
      /\ UNCHANGED <<clock, now>>
      /\ \A d \in Digest : blob'[d] \in {blob[d], None}
      /\ \A s \in Snapshot : manifest'[s] \in {manifest[s], None}
  BY <1>1 DEF Removal, QuarantineSnapshot, QuarantineBlob, NextCandidate, TypeOK
<1>3. \A h \in Collector : ~HoldsMaintenance(h)'
  BY <1>1, <1>2 DEF MaintenanceAlone, HoldsMaintenance, NoCandidate, TypeOK
<1>4. PastTimes'
  BY <1>1, <1>2 DEF PastTimes, Sealed
<1> QED
  BY <1>3, <1>4, NoVerdict

\* Every step or crash of a collector keeps the verdict.
LEMMA VerdictCollector ==
  ASSUME NEW g \in Collector, IInv, TypeOK', VerdictStands,
         StartPlan(g) \/ CollectorStep(g) \/ CollectorCrash(g)
  PROVE  /\ VerdictStands'
         /\ ~Removal(g) => UNCHANGED <<blob, manifest>>
<1> USE DEF GotoG, disk
<1>1. TypeOK
  BY DEF IInv
<1>2. ASSUME UNCHANGED <<clock, blob, manifest>>,
             NEW label \in {"idle", "rooting", "scanning", "planned", "executing"},
             gpc' = [gpc EXCEPT ![g] = label],
             UNCHANGED now \/ now' = [now EXCEPT ![g] = clock],
             \A h \in Collector \ {g} : roots'[h] = roots[h] /\ seen'[h] = seen[h],
             \/ UNCHANGED cand
             \/ cand' = [cand EXCEPT ![g] = NoCandidate]
             \/ MaintenanceFree /\ \E k : cand' = [cand EXCEPT ![g] = k]
      PROVE  VerdictStands'
  <2>1. \A h \in Collector \ {g} : gpc'[h] = gpc[h] /\ now'[h] = now[h] /\ cand'[h] = cand[h]
    BY <1>1, <1>2 DEF TypeOK
  <2>2. gpc'[g] # "quarantining" /\ now'[g] \in {now[g], clock}
    BY <1>1, <1>2 DEF TypeOK
  <2>3. cand'[g] \in {cand[g], NoCandidate} \/ MaintenanceFree
    BY <1>1, <1>2 DEF TypeOK
  <2> QED
    BY <1>2, <2>1, <2>2, <2>3, VerdictElsewhere
<1>3. ASSUME Abandon(g) PROVE VerdictStands' /\ UNCHANGED <<blob, manifest>>
  BY <1>1, <1>2, <1>3 DEF Abandon, TypeOK
<1>4. ASSUME NEW k, NextCandidate(g, k), UNCHANGED disk
      PROVE  VerdictStands' /\ UNCHANGED <<blob, manifest>>
  BY <1>1, <1>2, <1>4 DEF NextCandidate, TypeOK
<1>5. CASE StartPlan(g)
  BY <1>2, <1>5 DEF StartPlan
<1>6. CASE ScanRefRoots(g)
  BY <1>1, <1>2, <1>6 DEF ScanRefRoots, TypeOK
<1>7. CASE PlanComplete(g)
  BY <1>2, <1>7 DEF PlanComplete
<1>8. CASE StartExecute(g)
  BY <1>1, <1>2, <1>8 DEF StartExecute, TypeOK
<1>9. ASSUME NEW k \in plan[g], TakeCandidate(g, k)
      PROVE  VerdictStands' /\ UNCHANGED <<blob, manifest>>
  BY <1>2, <1>9 DEF TakeCandidate
<1>10. ASSUME NEW k \in plan[g], SkipContended(g, k)
       PROVE  VerdictStands' /\ UNCHANGED <<blob, manifest>>
  BY <1>4, <1>10 DEF SkipContended
<1>11. CASE SkipChanged(g)
  BY <1>4, <1>11 DEF SkipChanged
<1>12. CASE Confirm(g)
  BY <1>12, VerdictConfirmed DEF Confirm
<1>13. CASE Removal(g)
  BY <1>13, VerdictUsed
<1> QED
  BY <1>3, <1>5, <1>6, <1>7, <1>8, <1>9, <1>10, <1>11, <1>12, <1>13
    DEF CollectorStep, CollectorCrash, ScanRefsFails, ScanFails, FinishExecute, Removal

\* Every step keeps the verdict, and is an addition, a removal, or neither.
LEMMA VerdictNext ==
  ASSUME IInv, IInv', VerdictStands, [Next]_vars
  PROVE  /\ VerdictStands'
         /\ \/ OnlyAppear
            \/ UNCHANGED <<blob, manifest>>
            \/ \E g \in Collector : Removal(g)
<1>1. TypeOK'
  BY DEF IInv
<1>2. CASE OnlyAppear
  BY <1>1, <1>2, VerdictOutlivesAdditions
<1>3. CASE \E g \in Collector : StartPlan(g) \/ CollectorStep(g) \/ CollectorCrash(g)
  BY <1>1, <1>3, VerdictCollector
<1> QED
  BY <1>2, <1>3, OthersOnlyAdd DEF Next

\* A collector's decision stands until it acts on it.
THEOREM VerdictsStand == Spec => []VerdictStands
<1>1. VerdictStands /\ IInv /\ IInv' /\ [Next]_vars => VerdictStands'
  BY VerdictNext
<1> QED
  BY <1>1, VerdictInit, Inductive, PTL DEF Spec

-----------------------------------------------------------------------------
(* What a removal may do.                                                  *)

\* The collector that removes a snapshot is the one that has reserved it.
LEMMA SnapshotRemoved ==
  ASSUME IInv, IInv', VerdictStands, [Next]_vars,
         NEW s \in Snapshot, Sealed(s), manifest'[s] = None
  PROVE  \E g \in Collector :
            /\ Reserves(g, s) /\ gpc[g] = "quarantining"
            /\ \A t \in Snapshot \ {s} : manifest'[t] = manifest[t]
<1>1. TypeOK
  BY DEF IInv
<1>2. PICK g \in Collector : Removal(g)
  BY VerdictNext DEF OnlyAppear, Sealed
<1>3. QuarantineSnapshot(g)
  BY <1>2 DEF Removal, QuarantineBlob, Sealed
<1>4. s = cand[g].object /\ \A t \in Snapshot \ {s} : manifest'[t] = manifest[t]
  BY <1>1, <1>3 DEF QuarantineSnapshot, TypeOK, Sealed
<1> QED
  BY <1>3, <1>4 DEF QuarantineSnapshot, Reserves

\* The collector that removes a blob is the one that has reserved it.
LEMMA BlobRemoved ==
  ASSUME IInv, IInv', VerdictStands, [Next]_vars,
         NEW d \in Digest, blob[d] # None, blob'[d] = None
  PROVE  \E g \in Collector : ReservesBlob(g, d) /\ gpc[g] = "quarantining"
<1>1. TypeOK
  BY DEF IInv
<1>2. PICK g \in Collector : Removal(g)
  BY VerdictNext DEF OnlyAppear
<1>3. QuarantineBlob(g)
  BY <1>2 DEF Removal, QuarantineSnapshot
<1>4. d = cand[g].object
  BY <1>1, <1>3 DEF QuarantineBlob, TypeOK
<1> QED
  BY <1>3, <1>4 DEF QuarantineBlob, ReservesBlob

\* An object a collection may remove has reached the minimum age by now.
LEMMA AgeReached ==
  ASSUME NEW g \in Collector, TypeOK, PastTimes, NEW t \in Nat, t <= clock, OldEnough(g, t)
  PROVE  clock - t >= MinAge
<1>1. clock \in Nat /\ now[g] \in Nat /\ MinAge \in Nat /\ now[g] <= clock
  BY ConstantsAssumption DEF TypeOK, Time, PastTimes
<1> QED
  BY <1>1 DEF OldEnough

\* No step removes a young object.
LEMMA GraceOfStep == IInv /\ IInv' /\ VerdictStands /\ [Next]_vars => [GraceStep]_vars
<1> SUFFICES ASSUME IInv, IInv', VerdictStands, [Next]_vars PROVE GraceStep
  OBVIOUS
<1>1. TypeOK /\ PastTimes /\ SnapshotVerdict /\ BlobVerdict
  BY DEF IInv, VerdictStands
<1>2. ASSUME NEW d \in Digest, blob[d] # None, blob'[d] = None
      PROVE  clock - blob[d] >= MinAge
  <2>1. PICK g \in Collector : ReservesBlob(g, d) /\ gpc[g] = "quarantining"
    BY <1>2, BlobRemoved
  <2>2. OldEnough(g, blob[d]) /\ blob[d] \in Nat /\ blob[d] <= clock
    BY <1>1, <1>2, <2>1 DEF BlobVerdict, PastTimes, TypeOK, Time
  <2> QED
    BY <1>1, <2>2, AgeReached
<1>3. ASSUME NEW s \in Snapshot, Sealed(s), manifest'[s] = None
      PROVE  clock - manifest[s] >= MinAge
  <2>1. PICK g \in Collector : Reserves(g, s) /\ gpc[g] = "quarantining"
    BY <1>3, SnapshotRemoved
  <2>2. OldEnough(g, manifest[s]) /\ manifest[s] \in Nat /\ manifest[s] <= clock
    BY <1>1, <1>3, <2>1 DEF SnapshotVerdict, PastTimes, TypeOK, Time, Sealed
  <2> QED
    BY <1>1, <2>2, AgeReached
<1> QED
  BY <1>2, <1>3 DEF GraceStep

\* No collection removes an object younger than the policy's minimum age.
THEOREM GraceIsRespected == Spec => GraceRespected
  BY GraceOfStep, Inductive, VerdictsStand, PTL DEF Spec, GraceRespected

\* No step goes below the keep floor.
LEMMA FloorOfStep == IInv /\ IInv' /\ VerdictStands /\ [Next]_vars => [FloorStep]_vars
<1> SUFFICES ASSUME IInv, IInv', VerdictStands, [Next]_vars,
                    NEW g \in Collector, NEW s \in Snapshot,
                    Reserves(g, s), Sealed(s), manifest'[s] = None
             PROVE  Cardinality({t \in Snapshot : manifest'[t] # None /\ t[1] \notin roots[g]})
                        >= KeepFloor
  BY DEF FloorStep
<1>1. PICK h \in Collector :
        /\ Reserves(h, s) /\ gpc[h] = "quarantining"
        /\ \A t \in Snapshot \ {s} : manifest'[t] = manifest[t]
  BY SnapshotRemoved
<1>2. h = g
  BY <1>1 DEF VerdictStands, MaintenanceAlone, HoldsMaintenance, Reserves
<1>3. Cardinality(OthersDetached(g, s)) >= KeepFloor /\ KeepFloor \in Nat
  BY <1>1, <1>2, ConstantsAssumption DEF VerdictStands, SnapshotVerdict
<1>4. PICK rest : rest = {t \in Snapshot : manifest'[t] # None /\ t[1] \notin roots[g]}
  OBVIOUS
<1>5. OthersDetached(g, s) \subseteq rest /\ rest \in SUBSET Snapshot
  BY <1>1, <1>4 DEF OthersDetached, Sealed
<1>6. /\ Cardinality(OthersDetached(g, s)) \in Nat /\ Cardinality(rest) \in Nat
      /\ Cardinality(OthersDetached(g, s)) <= Cardinality(rest)
  BY <1>5, SnapshotCounts
<1> QED
  BY <1>3, <1>4, <1>6

\* A collection leaves at least KeepFloor of the snapshots it found detached.
THEOREM FloorIsKept == Spec => FloorKept
  BY FloorOfStep, Inductive, VerdictsStand, PTL DEF Spec, FloorKept

\* No step takes a blob from under a snapshot that its scan had to retain.
LEMMA BlobOfStep == IInv /\ IInv' /\ VerdictStands /\ [Next]_vars => [BlobStep]_vars
<1> SUFFICES ASSUME IInv, IInv', VerdictStands, [Next]_vars,
                    NEW g \in Collector, NEW d \in Digest, NEW s \in Snapshot,
                    ReservesBlob(g, d), blob[d] # None, blob'[d] = None,
                    d \in DigestsOf(s), s \in seen[g]
             PROVE  s[1] \notin roots[g] /\ OldEnough(g, manifest[s])
  BY DEF BlobStep
<1>1. PICK h \in Collector : ReservesBlob(h, d) /\ gpc[h] = "quarantining"
  BY BlobRemoved
<1>2. h = g
  BY <1>1 DEF VerdictStands, MaintenanceAlone, HoldsMaintenance, ReservesBlob
<1> QED
  BY <1>1, <1>2 DEF VerdictStands, BlobVerdict

\* A blob of a published snapshot is removed only if the scan found the
\* snapshot detached and past its age, or did not see it yet.
THEOREM BlobRemovalIsJustified == Spec => BlobRemovalJustified
  BY BlobOfStep, Inductive, VerdictsStand, PTL DEF Spec, BlobRemovalJustified

=============================================================================

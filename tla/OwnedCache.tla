----------------------------- MODULE OwnedCache -----------------------------
(***************************************************************************)
(* The owned cache view of one repository: online acquisition              *)
(* (HubStore::acquire), offline lookup (OfflineStore::open and             *)
(* open_request) and two-step garbage collection (gc_plan, gc_execute),    *)
(* run by independent processes that share nothing but the cache           *)
(* directory and its advisory locks.                                       *)
(*                                                                         *)
(* Durable state is what the directory holds: blobs, snapshot entries,     *)
(* snapshot manifests, refs, commit trees, and staging files left in       *)
(* refs/ by a crash.  Every lock in the code is a guard value with lexical *)
(* scope, and the operating system drops it when the process dies, so who  *)
(* holds a lock is a function of where each process stands: the Holds...   *)
(* operators read it off the control state and the lock operations are     *)
(* guards over them.                                                       *)
(***************************************************************************)
EXTENDS Integers, FiniteSets

CONSTANTS
    Client,       \* processes that fetch and open snapshots
    Collector,    \* processes that plan and execute garbage collection
    Revision,     \* symbolic (mutable) revision names
    Commit,       \* immutable commits the hub can resolve a revision to
    Path,         \* repository paths
    Digest,       \* content digests of files
    Selection,    \* the path sets a request can select
    Content,      \* Content[c][q]: the digest of path q at commit c
    Rank,         \* the order of snapshot keys, the tie-break of the keep floor
    Retained,     \* GcPolicy::retained_commits
    MinAge,       \* GcPolicy::snapshot_minimum_age_millis, in clock ticks
    KeepFloor,    \* GcPolicy::snapshot_keep_floor
    None,         \* absence: no entry, no ref, no revision
    MaxClock,     \* bound: clock ticks explored
    MaxRequests,  \* bound: requests each client starts
    MaxPasses     \* bound: collections each collector starts

Snapshot == Commit \X Selection

ASSUME ConstantsAssumption ==
    /\ Selection \subseteq (SUBSET Path) \ {{}}
    /\ IsFiniteSet(Snapshot)
    /\ Content \in [Commit -> [Path -> Digest]]
    /\ Rank \in [Snapshot -> Nat]
    /\ Retained \subseteq Commit
    /\ MinAge \in Nat /\ KeepFloor \in Nat
    /\ None \notin Nat \cup Commit \cup Revision \cup Snapshot
    /\ MaxClock \in Nat /\ MaxRequests \in Nat /\ MaxPasses \in Nat

VARIABLES
    clock,      \* wall clock
    blob,       \* blobs/sha256: modification time of each blob, or None
    content,    \* snapshots/<commit>-<selection>: paths installed
    manifest,   \* its manifest.json: modification time, or None
    ref,        \* refs: the commit each revision records, or None
    tree,       \* commits whose remote tree record is published
    debris,     \* staging files a crash left in refs/: the commit each one
                \* records, or None when it was cut short
    pc,         \* where each client stands
    task,       \* the request each client serves, with the label its result
                \* will carry and the time its present phase began
    todo,       \* the paths its current loop has left
    requests,   \* requests each client may still start
    gpc,        \* where each collector stands
    now,        \* the instant each collector's operation was given
    roots,      \* the commits its scan found rooted
    seen,       \* the snapshots its scan under the candidate's locks validated
    plan,       \* the candidates of its plan it has left
    cand,       \* the candidate it executes, or NoCandidate
    passes      \* collections each collector may still start

disk == <<blob, content, manifest, ref, tree, debris>>
clientVars == <<pc, task, todo, requests>>
collectorVars == <<gpc, now, roots, seen, plan, cand, passes>>
vars == <<clock, disk, clientVars, collectorVars>>

-----------------------------------------------------------------------------
(* Snapshots, requests and candidates.                                     *)

Time == Nat

\* The digests a snapshot's manifest lists.
DigestsOf(s) == {Content[s[1]][q] : q \in s[2]}

Sealed(s) == manifest[s] # None

\* The snapshot directory exists.
Present(s) == content[s] # {} \/ Sealed(s)

\* validate_gc_snapshot succeeds: manifest, every entry and every blob.
Intact(s) ==
    /\ Sealed(s)
    /\ content[s] = s[2]
    /\ \A d \in DigestsOf(s) : blob[d] # None

Task == [op : {"reuse", "publish", "offline"}, snap : Snapshot,
         rev : Revision \cup {None}, label : Commit, since : Time]

NoTask == [op |-> "none", snap |-> None, rev |-> None, label |-> None, since |-> 0]

Candidate ==
    [kind : {"snapshot"}, object : Snapshot, mtime : Time]
        \cup [kind : {"blob"}, object : Digest, mtime : Time]

NoCandidate == [kind |-> "none"]

SnapshotObservation(s) == [kind |-> "snapshot", object |-> s, mtime |-> manifest[s]]
BlobObservation(d) == [kind |-> "blob", object |-> d, mtime |-> blob[d]]

-----------------------------------------------------------------------------
(* Who holds which lock.                                                   *)

\* publish_owned_snapshot keeps the snapshot lock until it returns, the
\* nested open_owned_snapshot included.
HoldsSnapshotLock(p, s) ==
    /\ task[p].snap = s
    /\ \/ pc[p] \in {"staging", "installing", "sealing"}
       \/ task[p].op = "publish" /\ pc[p] \in {"opening", "validating"}

\* Defect: the lease is dropped before write_ref.
LeaseUntilNaming(p, s) ==
    /\ task[p].snap = s
    /\ pc[p] \in {"validating", "holding"}

\* The SnapshotLease lives from open_owned_snapshot to the end of the
\* handle it is returned in, write_ref included.
HoldsLease(p, s) ==
    /\ task[p].snap = s
    /\ pc[p] \in {"validating", "naming", "writing", "staged", "holding"}

HoldsRefLock(p, r) == task[p].rev = r /\ pc[p] \in {"writing", "staged"}

\* A collector executing a candidate holds the maintenance lock, and with it
\* the snapshot lock and the exclusive lease, or the blob lock.
HoldsMaintenance(g) == cand[g].kind # "none"

Reserves(g, s) == cand[g].kind = "snapshot" /\ cand[g].object = s

ReservesBlob(g, d) == cand[g].kind = "blob" /\ cand[g].object = d

\* Defect: publishers do not take the snapshot lock.
CollectorsAlone(s) == \A g \in Collector : ~Reserves(g, s)

SnapshotLockFree(s) ==
    /\ \A p \in Client : ~HoldsSnapshotLock(p, s)
    /\ \A g \in Collector : ~Reserves(g, s)

SharedLeaseFree(s) == \A g \in Collector : ~Reserves(g, s)

\* Defect: the collector takes the lease shared.
LeaseIgnored(s) == \A g \in Collector : ~Reserves(g, s)

ExclusiveLeaseFree(s) ==
    /\ \A p \in Client : ~HoldsLease(p, s)
    /\ \A g \in Collector : ~Reserves(g, s)

BlobLockFree(d) == \A g \in Collector : ~ReservesBlob(g, d)

RefLockFree(r) == \A p \in Client : ~HoldsRefLock(p, r)

\* Defect: the maintenance lock is not taken.
NoMaintenanceLock == TRUE

MaintenanceFree == \A g \in Collector : ~HoldsMaintenance(g)

-----------------------------------------------------------------------------
Init ==
    /\ clock = 0
    /\ blob = [d \in Digest |-> None]
    /\ content = [s \in Snapshot |-> {}]
    /\ manifest = [s \in Snapshot |-> None]
    /\ ref = [r \in Revision |-> None]
    /\ tree = {}
    /\ debris = {}
    /\ pc = [p \in Client |-> "idle"]
    /\ task = [p \in Client |-> NoTask]
    /\ todo = [p \in Client |-> {}]
    /\ requests = [p \in Client |-> MaxRequests]
    /\ gpc = [g \in Collector |-> "idle"]
    /\ now = [g \in Collector |-> 0]
    /\ roots = [g \in Collector |-> {}]
    /\ seen = [g \in Collector |-> {}]
    /\ plan = [g \in Collector |-> {}]
    /\ cand = [g \in Collector |-> NoCandidate]
    /\ passes = [g \in Collector |-> MaxPasses]

Tick ==
    /\ clock < MaxClock
    /\ clock' = clock + 1
    /\ UNCHANGED <<disk, clientVars, collectorVars>>

-----------------------------------------------------------------------------
(* Control of a client.                                                    *)

Goto(p, label) == pc' = [pc EXCEPT ![p] = label]

\* The request returns, or its process dies: every guard is dropped.
Return(p) ==
    /\ Goto(p, "idle")
    /\ task' = [task EXCEPT ![p] = NoTask]
    /\ todo' = [todo EXCEPT ![p] = {}]

Start(p, label, t) ==
    /\ pc[p] = "idle"
    /\ requests[p] > 0
    /\ requests' = [requests EXCEPT ![p] = @ - 1]
    /\ Goto(p, label)
    /\ task' = [task EXCEPT ![p] = t]
    /\ UNCHANGED <<todo, disk, clock, collectorVars>>

\* One iteration over path q of the loop at label `here`; after the last one
\* control is at `next` with the paths of `again` to do.
Iterate(p, q, here, next, again) ==
    /\ pc[p] = here
    /\ q \in todo[p]
    /\ IF todo[p] = {q}
         THEN Goto(p, next) /\ todo' = [todo EXCEPT ![p] = again]
         ELSE UNCHANGED pc /\ todo' = [todo EXCEPT ![p] = @ \ {q}]

\* HubStore::acquire: the hub resolves a revision (or an explicit commit,
\* rev = None) to whatever commit it names at that moment.
StartFetch(p) ==
    \E r \in Revision \cup {None}, c \in Commit, S \in Selection :
        Start(p, "opening",
              [op |-> "reuse", snap |-> <<c, S>>, rev |-> r, label |-> c, since |-> clock])

\* OfflineStore::open_request: ref and tree fix the commit once.
StartOpenRequest(p) ==
    \E r \in Revision, S \in Selection :
        /\ ref[r] # None
        /\ ref[r] \in tree
        /\ Start(p, "opening", [op |-> "offline", snap |-> <<ref[r], S>>,
                                rev |-> r, label |-> ref[r], since |-> clock])

\* OfflineStore::open: OfflineCache::open reads the ref for the commit that
\* labels the result ...
StartOpen(p) ==
    \E r \in Revision, S \in Selection :
        /\ ref[r] # None
        /\ Start(p, "resolving", [op |-> "offline", snap |-> <<ref[r], S>>,
                                  rev |-> r, label |-> ref[r], since |-> clock])

\* ... and open_owned_snapshot reads it again for the commit it opens: refs are
\* replaced but never removed, so the second read finds one too.
ResolveAgain(p) ==
    \E r \in Revision :
        /\ pc[p] = "resolving"
        /\ task[p].rev = r
        /\ ref[r] # None
        /\ Goto(p, "opening")
        /\ task' = [task EXCEPT ![p].snap = <<ref[r], @[2]>>]
        /\ UNCHANGED <<todo, requests, disk, clock, collectorVars>>

-----------------------------------------------------------------------------
(* open_owned_snapshot: a shared lease, the manifest, then every entry and *)
(* its blob.                                                               *)

\* Only a fetch goes on after a missing manifest, to download.
OpenMissing(p) ==
    LET s == task[p].snap IN
    /\ pc[p] = "opening"
    /\ SharedLeaseFree(s)
    /\ ~Sealed(s)
    /\ IF task[p].op = "reuse"
         THEN /\ Goto(p, "fetching")
              /\ todo' = [todo EXCEPT ![p] = s[2]]
              /\ task' = [task EXCEPT ![p].since = clock]
         ELSE Return(p)
    /\ UNCHANGED <<requests, disk, clock, collectorVars>>

OpenManifest(p) ==
    LET s == task[p].snap IN
    /\ pc[p] = "opening"
    /\ SharedLeaseFree(s)
    /\ Sealed(s)
    /\ Goto(p, "validating")
    /\ todo' = [todo EXCEPT ![p] = s[2]]
    /\ UNCHANGED <<task, requests, disk, clock, collectorVars>>

Valid(s, q) == q \in content[s] /\ blob[Content[s[1]][q]] # None

\* A complete publication under a symbolic revision goes on to write_ref.
AfterOpen(p) ==
    IF task[p].op = "publish" /\ task[p].rev # None THEN "naming" ELSE "holding"

ValidateEntry(p, q) ==
    /\ Valid(task[p].snap, q)
    /\ Iterate(p, q, "validating", AfterOpen(p), {})
    /\ UNCHANGED <<task, requests, disk, clock, collectorVars>>

\* corrupt_existing_blob: classified Corrupt, which acquire returns as is.
OpenCorrupt(p, q) ==
    /\ pc[p] = "validating"
    /\ q \in todo[p]
    /\ ~Valid(task[p].snap, q)
    /\ Return(p)
    /\ UNCHANGED <<requests, disk, clock, collectorVars>>

-----------------------------------------------------------------------------
(* Download and publication.                                               *)

\* A staging file keeps the time it was written when it is installed, which
\* was at some moment of the client's present phase.
WrittenAt(p) == task[p].since..clock

\* publish_blob: an existing blob is reused (with its old modification
\* time), a missing one is installed under the blob lock.
PublishBlob(p, q) ==
    LET d == Content[task[p].snap[1]][q] IN
    /\ Iterate(p, q, "fetching", "activating", {})
    /\ \/ blob[d] # None /\ UNCHANGED blob
       \/ /\ blob[d] = None
          /\ BlobLockFree(d)
          /\ \E t \in WrittenAt(p) : blob' = [blob EXCEPT ![d] = t]
    /\ UNCHANGED <<content, manifest, ref, tree, debris>>
    /\ UNCHANGED <<task, requests, clock, collectorVars>>

\* activate_owned: the tree record first.
PublishRemoteTree(p) ==
    /\ pc[p] = "activating"
    /\ Goto(p, "locking")
    /\ tree' = tree \cup {task[p].snap[1]}
    /\ UNCHANGED <<blob, content, manifest, ref, debris>>
    /\ UNCHANGED <<task, todo, requests, clock, collectorVars>>

\* publish_owned_snapshot waits for the snapshot lock.
LockSnapshot(p) ==
    LET s == task[p].snap IN
    /\ pc[p] = "locking"
    /\ SnapshotLockFree(s)
    /\ Goto(p, "staging")
    /\ task' = [task EXCEPT ![p].op = "publish", ![p].since = clock]
    /\ todo' = [todo EXCEPT ![p] = s[2]]
    /\ UNCHANGED <<requests, disk, clock, collectorVars>>

\* Defect: the manifest is created before the entries are installed.
SealUninstalled(p, q) ==
    /\ blob[Content[task[p].snap[1]][q]] # None
    /\ Iterate(p, q, "staging", "sealing", {})
    /\ UNCHANGED <<task, requests, disk, clock, collectorVars>>

\* A hard link (or copy) of the blob, validated: it outlives the blob.
StageEntry(p, q) ==
    LET s == task[p].snap IN
    /\ blob[Content[s[1]][q]] # None
    /\ Iterate(p, q, "staging", "installing", s[2])
    /\ UNCHANGED <<task, requests, disk, clock, collectorVars>>

StageFails(p, q) ==
    /\ pc[p] = "staging"
    /\ q \in todo[p]
    /\ blob[Content[task[p].snap[1]][q]] = None
    /\ Return(p)
    /\ UNCHANGED <<requests, disk, clock, collectorVars>>

InstallEntry(p, q) ==
    /\ Iterate(p, q, "installing", "sealing", {})
    /\ content' = [content EXCEPT ![task[p].snap] = @ \cup {q}]
    /\ UNCHANGED <<blob, manifest, ref, tree, debris>>
    /\ UNCHANGED <<task, requests, clock, collectorVars>>

\* The manifest is created once; an existing one is kept and must be equal,
\* which one commit and one selection make it.
PublishManifest(p) ==
    LET s == task[p].snap IN
    /\ pc[p] = "sealing"
    /\ Goto(p, "opening")
    /\ IF Sealed(s)
         THEN UNCHANGED manifest
         ELSE \E t \in WrittenAt(p) : manifest' = [manifest EXCEPT ![s] = t]
    /\ UNCHANGED <<blob, content, ref, tree, debris>>
    /\ UNCHANGED <<task, todo, requests, clock, collectorVars>>

\* write_ref: the ref lock, a staging file in refs/ itself, and a rename.
LockRef(p) ==
    /\ pc[p] = "naming"
    /\ RefLockFree(task[p].rev)
    /\ Goto(p, "writing")
    /\ UNCHANGED <<task, todo, requests, disk, clock, collectorVars>>

StageRef(p) ==
    /\ pc[p] = "writing"
    /\ Goto(p, "staged")
    /\ UNCHANGED <<task, todo, requests, disk, clock, collectorVars>>

ReplaceRef(p) ==
    /\ pc[p] = "staged"
    /\ Goto(p, "holding")
    /\ ref' = [ref EXCEPT ![task[p].rev] = task[p].snap[1]]
    /\ UNCHANGED <<blob, content, manifest, tree, debris>>
    /\ UNCHANGED <<task, todo, requests, clock, collectorVars>>

\* The last clone of the Snapshot handle is dropped.
Close(p) ==
    /\ pc[p] = "holding"
    /\ Return(p)
    /\ UNCHANGED <<requests, disk, clock, collectorVars>>

\* The process dies, or the request fails or is cancelled, at any point.  A
\* death inside write_ref leaves its staging file, an error cleans it up.
Leftover(p) ==
    CASE pc[p] = "writing" -> {None}
      [] pc[p] = "staged" -> {task[p].snap[1]}
      [] OTHER -> {}

Crash(p) ==
    /\ pc[p] \notin {"idle", "holding"}
    /\ Return(p)
    /\ \E left \in {{}, Leftover(p)} : debris' = debris \cup left
    /\ UNCHANGED <<blob, content, manifest, ref, tree>>
    /\ UNCHANGED <<requests, clock, collectorVars>>

-----------------------------------------------------------------------------
(* plan_snapshot_gc, run to make a plan and again under the locks of every *)
(* candidate that is executed.                                             *)

GotoG(g, label) == gpc' = [gpc EXCEPT ![g] = label]

\* Defect: off by one.
AlmostOldEnough(g, mtime) ==
    (IF mtime <= now[g] THEN now[g] - mtime ELSE 0) >= MinAge - 1

\* Age with saturating subtraction.
OldEnough(g, mtime) ==
    (IF mtime <= now[g] THEN now[g] - mtime ELSE 0) >= MinAge

Detached(g) == {s \in Snapshot : Present(s) /\ s[1] \notin roots[g]}

\* Defect: a snapshot precedes itself.
NotAfter(t, s) == manifest[t] >= manifest[s]

\* Newest first, ties by key.
Precedes(t, s) ==
    \/ manifest[t] > manifest[s]
    \/ manifest[t] = manifest[s] /\ Rank[t] < Rank[s]

KeptByFloor(g, s) ==
    /\ s \in Detached(g)
    /\ Cardinality({t \in Detached(g) : Precedes(t, s)}) < KeepFloor

Keeps(g, s) ==
    \/ s[1] \in roots[g]
    \/ KeptByFloor(g, s)
    \/ ~OldEnough(g, manifest[s])

\* Defect: only kept detached snapshots protect their blobs.
DetachedDigests(g) ==
    UNION {DigestsOf(s) : s \in {t \in Detached(g) : Keeps(g, t)}}

RetainedDigests(g) ==
    UNION {DigestsOf(s) : s \in {t \in Snapshot : Present(t) /\ Keeps(g, t)}}

Candidates(g) ==
    {SnapshotObservation(s) :
        s \in {t \in Snapshot : Present(t) /\ ~Keeps(g, t)}}
    \cup
    {BlobObservation(d) :
        d \in {e \in Digest : /\ blob[e] # None
                              /\ e \notin RetainedDigests(g)
                              /\ OldEnough(g, blob[e])}}

\* An error ends the whole operation.
Abandon(g) ==
    /\ GotoG(g, "idle")
    /\ roots' = [roots EXCEPT ![g] = {}]
    /\ seen' = [seen EXCEPT ![g] = {}]
    /\ plan' = [plan EXCEPT ![g] = {}]
    /\ cand' = [cand EXCEPT ![g] = NoCandidate]
    /\ UNCHANGED <<now, passes, disk, clock, clientVars>>

\* The candidate is done with, removed or skipped, and its locks released.
NextCandidate(g, done) ==
    /\ GotoG(g, "executing")
    /\ roots' = [roots EXCEPT ![g] = {}]
    /\ seen' = [seen EXCEPT ![g] = {}]
    /\ plan' = [plan EXCEPT ![g] = @ \ {done}]
    /\ cand' = [cand EXCEPT ![g] = NoCandidate]
    /\ UNCHANGED <<now, passes, clock, clientVars>>

StartPlan(g) ==
    /\ gpc[g] = "idle"
    /\ passes[g] > 0
    /\ passes' = [passes EXCEPT ![g] = @ - 1]
    /\ GotoG(g, "rooting")
    /\ now' = [now EXCEPT ![g] = clock]
    /\ UNCHANGED <<roots, seen, plan, cand, disk, clock, clientVars>>

\* scan_ref_roots decodes every entry of refs/, staging files included.
StagedRefs == {task[p].snap[1] : p \in {x \in Client : pc[x] = "staged"}}

\* Defect: an entry that does not decode is passed over.
PartialRefsPass == FALSE

RefUnreadable == None \in debris \/ \E p \in Client : pc[p] = "writing"

NamedCommits == {ref[r] : r \in Revision} \ {None}

ScanRefRoots(g) ==
    /\ gpc[g] = "rooting"
    /\ ~RefUnreadable
    /\ GotoG(g, "scanning")
    /\ roots' = [roots EXCEPT ![g] =
                    Retained \cup NamedCommits \cup StagedRefs \cup debris]
    /\ UNCHANGED <<now, seen, plan, cand, passes, disk, clock, clientVars>>

ScanRefsFails(g) ==
    /\ gpc[g] = "rooting"
    /\ RefUnreadable
    /\ Abandon(g)

ScanFails(g) ==
    /\ gpc[g] = "scanning"
    /\ \E s \in Snapshot : Present(s) /\ ~Intact(s)
    /\ Abandon(g)

ScanSucceeds(g) ==
    /\ gpc[g] = "scanning"
    /\ \A s \in Snapshot : Present(s) => Intact(s)

PlanComplete(g) ==
    /\ cand[g] = NoCandidate
    /\ ScanSucceeds(g)
    /\ GotoG(g, "planned")
    /\ plan' = [plan EXCEPT ![g] = Candidates(g)]
    /\ UNCHANGED <<now, roots, seen, cand, passes, disk, clock, clientVars>>

-----------------------------------------------------------------------------
(* gc_execute: snapshots before blobs, each candidate under the            *)
(* maintenance lock and the locks of its object, which are only tried.     *)

StartExecute(g) ==
    /\ gpc[g] = "planned"
    /\ GotoG(g, "executing")
    /\ now' = [now EXCEPT ![g] = clock]
    /\ roots' = [roots EXCEPT ![g] = {}]
    /\ UNCHANGED <<seen, plan, cand, passes, disk, clock, clientVars>>

FinishExecute(g) ==
    /\ gpc[g] = "executing"
    /\ plan[g] = {}
    /\ Abandon(g)

NextInPlan(g, k) ==
    /\ k \in plan[g]
    /\ k.kind = "blob" => \A j \in plan[g] : j.kind = "blob"

\* Defect: the snapshot lock is not taken before the lease.
LeaseAloneFree(k) ==
    IF k.kind = "snapshot" THEN ExclusiveLeaseFree(k.object) ELSE BlobLockFree(k.object)

ObjectLocksFree(k) ==
    IF k.kind = "snapshot"
      THEN SnapshotLockFree(k.object) /\ ExclusiveLeaseFree(k.object)
      ELSE BlobLockFree(k.object)

TakeCandidate(g, k) ==
    /\ gpc[g] = "executing"
    /\ NextInPlan(g, k)
    /\ MaintenanceFree
    /\ ObjectLocksFree(k)
    /\ GotoG(g, "rooting")
    /\ cand' = [cand EXCEPT ![g] = k]
    /\ UNCHANGED <<now, roots, seen, plan, passes, disk, clock, clientVars>>

\* Defect: the collector waits for a contended lock.
AwaitContended(g, k) ==
    /\ gpc[g] = "executing"
    /\ NextInPlan(g, k)
    /\ ~ObjectLocksFree(k)
    /\ UNCHANGED vars

SkipContended(g, k) ==
    /\ gpc[g] = "executing"
    /\ NextInPlan(g, k)
    /\ MaintenanceFree
    /\ ~ObjectLocksFree(k)
    /\ NextCandidate(g, k)
    /\ UNCHANGED disk

\* Defect: the plan is trusted.
TrustPlan(g) ==
    /\ cand[g] # NoCandidate
    /\ ScanSucceeds(g)
    /\ GotoG(g, "quarantining")
    /\ seen' = [seen EXCEPT ![g] = {s \in Snapshot : Present(s)}]
    /\ UNCHANGED <<now, roots, plan, cand, passes, disk, clock, clientVars>>

\* The fresh scan must observe the candidate unchanged.
Confirm(g) ==
    /\ cand[g] # NoCandidate
    /\ ScanSucceeds(g)
    /\ cand[g] \in Candidates(g)
    /\ GotoG(g, "quarantining")
    /\ seen' = [seen EXCEPT ![g] = {s \in Snapshot : Present(s)}]
    /\ UNCHANGED <<now, roots, plan, cand, passes, disk, clock, clientVars>>

SkipChanged(g) ==
    /\ cand[g] # NoCandidate
    /\ ScanSucceeds(g)
    /\ cand[g] \notin Candidates(g)
    /\ NextCandidate(g, cand[g])
    /\ UNCHANGED disk

\* quarantine_directory: one rename takes manifest and entries away.
QuarantineSnapshot(g) ==
    LET s == cand[g].object IN
    /\ gpc[g] = "quarantining"
    /\ cand[g].kind = "snapshot"
    /\ content' = [content EXCEPT ![s] = {}]
    /\ manifest' = [manifest EXCEPT ![s] = None]
    /\ NextCandidate(g, cand[g])
    /\ UNCHANGED <<blob, ref, tree, debris>>

QuarantineBlob(g) ==
    /\ gpc[g] = "quarantining"
    /\ cand[g].kind = "blob"
    /\ blob' = [blob EXCEPT ![cand[g].object] = None]
    /\ NextCandidate(g, cand[g])
    /\ UNCHANGED <<content, manifest, ref, tree, debris>>

CollectorCrash(g) ==
    /\ gpc[g] # "idle"
    /\ Abandon(g)

-----------------------------------------------------------------------------
ClientStep(p) ==
    \/ ResolveAgain(p)
    \/ OpenMissing(p)
    \/ OpenManifest(p)
    \/ \E q \in todo[p] : ValidateEntry(p, q)
    \/ \E q \in todo[p] : OpenCorrupt(p, q)
    \/ \E q \in todo[p] : PublishBlob(p, q)
    \/ PublishRemoteTree(p)
    \/ LockSnapshot(p)
    \/ \E q \in todo[p] : StageEntry(p, q)
    \/ \E q \in todo[p] : StageFails(p, q)
    \/ \E q \in todo[p] : InstallEntry(p, q)
    \/ PublishManifest(p)
    \/ LockRef(p)
    \/ StageRef(p)
    \/ ReplaceRef(p)

ClientStart(p) == StartFetch(p) \/ StartOpenRequest(p) \/ StartOpen(p)

CollectorStep(g) ==
    \/ ScanRefRoots(g)
    \/ ScanRefsFails(g)
    \/ ScanFails(g)
    \/ PlanComplete(g)
    \/ StartExecute(g)
    \/ FinishExecute(g)
    \/ \E k \in plan[g] : TakeCandidate(g, k)
    \/ \E k \in plan[g] : SkipContended(g, k)
    \/ Confirm(g)
    \/ SkipChanged(g)
    \/ QuarantineSnapshot(g)
    \/ QuarantineBlob(g)

Next ==
    \/ Tick
    \/ \E p \in Client : ClientStart(p)
    \/ \E p \in Client : ClientStep(p)
    \/ \E p \in Client : Close(p)
    \/ \E p \in Client : Crash(p)
    \/ \E g \in Collector : StartPlan(g)
    \/ \E g \in Collector : CollectorStep(g)
    \/ \E g \in Collector : CollectorCrash(g)

Spec == Init /\ [][Next]_vars

\* A process that has begun an operation keeps running; nobody has to start
\* one, close a handle, crash, or let time pass.
Fairness ==
    /\ \A p \in Client : WF_vars(ClientStep(p))
    /\ \A g \in Collector : WF_vars(CollectorStep(g))

FairSpec == Spec /\ Fairness

-----------------------------------------------------------------------------
(* Properties.                                                             *)

\* Type correctness of the directory and of every process's control state.
TypeOK ==
    /\ clock \in Time
    /\ blob \in [Digest -> Time \cup {None}]
    /\ content \in [Snapshot -> SUBSET Path]
    /\ manifest \in [Snapshot -> Time \cup {None}]
    /\ ref \in [Revision -> Commit \cup {None}]
    /\ tree \subseteq Commit
    /\ debris \subseteq Commit \cup {None}
    /\ pc \in [Client -> {"idle", "resolving", "opening", "validating",
                         "fetching", "activating", "locking", "staging",
                         "installing", "sealing", "naming", "writing",
                         "staged", "holding"}]
    /\ task \in [Client -> Task \cup {NoTask}]
    /\ \A p \in Client : pc[p] # "idle" => task[p] \in Task
    /\ todo \in [Client -> SUBSET Path]
    /\ requests \in [Client -> Nat]
    /\ gpc \in [Collector -> {"idle", "rooting", "scanning", "planned",
                             "executing", "quarantining"}]
    /\ now \in [Collector -> Time]
    /\ roots \in [Collector -> SUBSET Commit]
    /\ seen \in [Collector -> SUBSET Snapshot]
    /\ plan \in [Collector -> SUBSET Candidate]
    /\ cand \in [Collector -> Candidate \cup {NoCandidate}]
    /\ passes \in [Collector -> Nat]

\* A manifest is visible only in a directory that holds every selected entry:
\* publish_owned_snapshot installs entries first, and quarantine takes both
\* away in one rename, whatever publishers, crashes and collectors interleave.
SealedIsComplete == \A s \in Snapshot : Sealed(s) => content[s] = s[2]

\* From the moment open_owned_snapshot has its shared lease until the handle
\* is dropped, the snapshot keeps its manifest and every entry.
HeldIsComplete ==
    \A p \in Client, s \in Snapshot :
        HoldsLease(p, s) => Sealed(s) /\ content[s] = s[2]

\* What a publisher has installed under the snapshot lock is still there at
\* each of its later steps: no collector quarantines the directory, and no
\* second publisher works in it.
PublicationKept ==
    \A p \in Client, s \in Snapshot :
        HoldsSnapshotLock(p, s) =>
            /\ pc[p] = "installing" => s[2] \ todo[p] \subseteq content[s]
            /\ pc[p] = "sealing" => content[s] = s[2]
            /\ pc[p] \in {"opening", "validating"} => Sealed(s)
            /\ \A x \in Client \ {p} : ~HoldsSnapshotLock(x, s)

\* A ref always names a commit whose tree is recorded and that has a published
\* snapshot: refs are written last, under the lease of a snapshot of their
\* commit, and a collector scans refs only once it has the exclusive lease.
NamedIsAvailable ==
    \A r \in Revision :
        ref[r] # None =>
            /\ ref[r] \in tree
            /\ \E S \in Selection : Sealed(<<ref[r], S>>)

\* No collection removes an object younger than the policy's minimum age, a
\* blob or snapshot republished after the plan was made included.
GraceStep ==
    /\ \A d \in Digest :
        blob[d] # None /\ blob'[d] = None => clock - blob[d] >= MinAge
    /\ \A s \in Snapshot :
        Sealed(s) /\ manifest'[s] = None => clock - manifest[s] >= MinAge

GraceRespected == [][GraceStep]_vars

\* A snapshot is removed only while KeepFloor others outside the roots of that
\* collection remain, whatever other collectors removed and clients republished
\* since its plan was made.
FloorStep ==
    \A g \in Collector, s \in Snapshot :
        Reserves(g, s) /\ Sealed(s) /\ manifest'[s] = None =>
            Cardinality({t \in Snapshot : manifest'[t] # None /\ t[1] \notin roots[g]})
                >= KeepFloor

FloorKept == [][FloorStep]_vars

\* A blob is removed from under a published snapshot only if that snapshot was
\* detached and past its age, or appeared after the scan that decided.
BlobStep ==
    \A g \in Collector, d \in Digest, s \in Snapshot :
        /\ ReservesBlob(g, d) /\ blob[d] # None /\ blob'[d] = None
        /\ Sealed(s) /\ d \in DigestsOf(s)
        => s \notin seen[g] \/ (s[1] \notin roots[g] /\ OldEnough(g, manifest[s]))

BlobRemovalJustified == [][BlobStep]_vars

\* Every request returns or yields its handle, and every collection that is
\* executing comes to its end: no cycle of snapshot lock, leases, blob locks, ref
\* lock and maintenance lock makes processes wait on each other.
OperationsReturn ==
    /\ \A p \in Client : pc[p] # "idle" ~> pc[p] \in {"idle", "holding"}
    /\ \A g \in Collector : gpc[g] # "idle" ~> gpc[g] = "idle"

\* What the cache promises its users, without locks, staging or scans.
Handle ==
    [p \in Client |-> IF pc[p] \in {"naming", "writing", "staged", "holding"}
                        THEN task[p].snap ELSE None]

Store == INSTANCE SnapshotStore
            WITH available <- {s \in Snapshot : Sealed(s)},
                 named <- ref,
                 handle <- Handle

StoreSpec == Store!Spec

-----------------------------------------------------------------------------
(* The inductive invariant behind the safety properties.                   *)

\* Entries and progress stay within the selection.
WithinSelection ==
    /\ \A s \in Snapshot : content[s] \subseteq s[2]
    /\ \A p \in Client : pc[p] = "installing" => todo[p] \subseteq task[p].snap[2]

\* What a client's place in the code says about its request.
Control ==
    \A p \in Client :
        /\ pc[p] \in {"staging", "installing", "sealing", "naming", "writing", "staged"}
              => task[p].op = "publish"
        /\ pc[p] = "resolving" => task[p].op = "offline"
        /\ pc[p] \in {"naming", "writing", "staged"} => task[p].rev \in Revision
        /\ pc[p] = "locking" \/ task[p].op = "publish" => task[p].snap[1] \in tree

\* A collector that has reserved a snapshot is alone with it.
ReservedAlone ==
    \A g \in Collector, s \in Snapshot :
        Reserves(g, s) =>
            /\ \A p \in Client : ~HoldsLease(p, s) /\ ~HoldsSnapshotLock(p, s)
            /\ \A h \in Collector : HoldsMaintenance(h) => h = g

\* A snapshot of the commit other than s is published.
HasOther(s) ==
    \E S \in Selection : <<s[1], S>> # s /\ Sealed(<<s[1], S>>)

\* After its scan of the refs, what a collector is about to remove is named by
\* no ref it has not seen, unless another snapshot of the commit answers it.
ReclaimSafe ==
    \A g \in Collector, s \in Snapshot, r \in Revision :
        Reserves(g, s) /\ ref[r] = s[1] =>
            /\ gpc[g] = "scanning" => s[1] \in roots[g] \/ HasOther(s)
            /\ gpc[g] = "quarantining" => HasOther(s)

IInv ==
    /\ TypeOK
    /\ SealedIsComplete
    /\ HeldIsComplete
    /\ PublicationKept
    /\ NamedIsAvailable
    /\ WithinSelection
    /\ Control
    /\ ReservedAlone
    /\ ReclaimSafe

\* Collections exclude each other while they execute a candidate.
MaintenanceAlone ==
    \A g, h \in Collector : HoldsMaintenance(g) /\ HoldsMaintenance(h) => g = h

\* No object and no collection is dated in the future.
PastTimes ==
    /\ \A d \in Digest : blob[d] # None => blob[d] <= clock
    /\ \A s \in Snapshot : Sealed(s) => manifest[s] <= clock
    /\ \A g \in Collector : now[g] <= clock

\* The published snapshots a collection leaves detached when it removes s.
OthersDetached(g, s) ==
    {t \in Snapshot : t # s /\ Sealed(t) /\ t[1] \notin roots[g]}

\* What the scan under its locks has established of the snapshot a collector is
\* about to remove still holds ...
SnapshotVerdict ==
    \A g \in Collector, s \in Snapshot :
        gpc[g] = "quarantining" /\ Reserves(g, s) =>
            /\ Sealed(s) => OldEnough(g, manifest[s])
            /\ Cardinality(OthersDetached(g, s)) >= KeepFloor

\* ... and of a blob, with regard to the snapshots that scan saw.
BlobVerdict ==
    \A g \in Collector, d \in Digest :
        gpc[g] = "quarantining" /\ ReservesBlob(g, d) =>
            /\ blob[d] # None => OldEnough(g, blob[d])
            /\ \A s \in seen[g] :
                /\ Sealed(s)
                /\ d \in DigestsOf(s) => s[1] \notin roots[g] /\ OldEnough(g, manifest[s])

\* What a collector decided under its locks stays true until it acts: neither
\* another collector nor a publisher can invalidate it.
VerdictStands ==
    /\ MaintenanceAlone
    /\ PastTimes
    /\ SnapshotVerdict
    /\ BlobVerdict

-----------------------------------------------------------------------------
(* Statements of the repository's documents that the code does not keep.   *)

\* rfcs/0001: reachable content is never deleted, so a published snapshot of a
\* commit that a ref names keeps what opening it needs.
ReachableContentKept ==
    \A r \in Revision, S \in Selection :
        ref[r] # None /\ Sealed(<<ref[r], S>>) => Intact(<<ref[r], S>>)

\* rfcs/0001: the same request succeeds cache-only, so a fetch of a symbolic
\* revision that returned a snapshot has left a ref to resolve it with.
SameRequestOffline ==
    \A p \in Client :
        /\ pc[p] = "holding"
        /\ task[p].op \in {"reuse", "publish"}
        /\ task[p].rev # None
        => ref[task[p].rev] # None

\* adr/0009: a snapshot result binds the resolved immutable commit, so the
\* commit a handle reports is the one whose files it holds.
CommitIsBound ==
    \A p \in Client : pc[p] = "holding" => task[p].label = task[p].snap[1]
=============================================================================

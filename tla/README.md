# Verification of hf-store-rs

TLA+ models of `hf-store-rs`, the Rust storage boundary for Hugging Face Hub
repositories, with the TLC runs that check them on small instances and TLAPS
proofs of their safety properties and refinements for every value of the
constants. Paths are
relative to `src/`; `cache/` stands for `crates/hf-store/src/cache/`.

## 1. The system

Processes share a cache directory and nothing else. They coordinate with
advisory file locks (`cache/rooted_fs.rs`), publish by staging a file and
hard-linking or renaming it into place, and read what others published after
validating it. The library offers online acquisition (`HubStore`), transport-free
lookup (`OfflineStore`), two-step garbage collection (a plan, then an execution
that revalidates each candidate) and materialization into a caller-owned
directory.

| Component | State it keeps | Operations | Interacts with |
|---|---|---|---|
| Owned cache view (`cache/publication.rs`, `acquisition.rs`, `layout.rs`) | blobs, trees, snapshots with manifests, refs, staging files; locks per blob, ref, tree, snapshot; a reader lease per snapshot; the maintenance lock | `publish_blob`, `publish_remote_tree`, `publish_owned_snapshot`, `open_owned_snapshot`, `write_ref`, `read_ref` | every process through the directory and its locks |
| Owned garbage collection (`publication.rs`, `gc.rs`, `api.rs`) | trash and tombstones; the plan a caller holds | `gc_plan`, `gc_execute`: partials, snapshots, blobs | publishers and readers through locks and leases |
| Acquisition and offline API (`api.rs`, `fetch_plan.rs`, `snapshot.rs`) | a handle that owns a lease | `fetch`, `plan`, `open`, `open_request`, verification | cache views, hub protocol |
| Resumable transfer (`cache/transfer_engine.rs`) | partial data and partial record per commit and path, a thread lock and a process lock | `download_file`, `stream_fresh_file_to_blob`, `resume_file_to_blob` | retry, hub, partial garbage collection |
| Bounded scheduler and retry (`transfer.rs`, `cancellation.rs`) | active and waiting jobs, first error, cancellation token | `run_bounded`, `run_with_retry` | transfers |
| Response validation (`transfer.rs`, `validation.rs`) | none | `validate_file_response`, `parse_content_range`, body streaming | transport |
| Local directory (`cache/local_dir_*.rs`) | destination files, hints, a completion record (in progress / complete), a coordination lock | `reconcile`, offline `open` | cache views, programs that edit the destination |
| Rooted file system (`cache/rooted_fs.rs`) | the directory | create-once, replace, rename, locks | everything above |
| Compatible view (`cache/standard_cache.rs`, `compatible_cache.rs`, `hub_*.rs`) | the Python layout and a private sidecar | `publish`, `open`, index reading | Python writers that take none of these locks |
| Selection filter, keys, records (`cache/filter.rs`, `key.rs`, `metadata.rs`) | none | matching, hashing, encoding | everything |
| Hub protocol, transports (`hub_protocol.rs`, `transport.rs`, `reqwest_transport.rs`) | none shared | planning, pagination, file requests | external service |
| CLI (`crates/hf-store-cli`) | none | argument parsing, rendering | public API |

What is hard in it, and what correctness means:

- **Publication beside collection.** A publisher makes a snapshot in many steps,
  a collector decides in one scan and acts later, and either may die anywhere.
  A manifest must never be visible in an incomplete directory; a leased snapshot
  must keep its files; a ref must name something that can be opened; a
  collection must respect its grace period and keep floor although its plan is
  stale.
- **Transfers.** A resume is decided from a record read without a lock and before
  a request; another process may have finished, restarted or discarded the
  partial file in between, and the server may send another version, another
  range or the whole file. What is published must be what the tree entry
  describes, or at least one version from end to end.
- **Scheduling.** First error wins, the rest drains, nothing starts after
  cancellation, results keep their place, and nothing outlives its fetch.
- **Local directories.** An offline reader must accept exactly what a completed
  reconciliation left, across crashes, failures and edits by programs that take
  no lock; the owner's bytes survive unless replacing them was asked for.
- **Compatible view.** Writers with different locking disciplines share files; the
  library must not replace anything of Python's, and what it records about a
  blob key must hold for every later reader.
- **Planning.** The hub is not trusted to end its pages or redirects; the plan must
  hold exactly the files the filter means.
- **Writing a file.** Six writers stage, link or rename, read back, clean up and
  sync in different orders and claim different things in their errors. The
  other models take each of them as one atomic step, which has to be shown.

`PROJECT.json` lists the hazards line by line with the properties that cover
them; the one without a property says why it has none.

## 2. Plan

Done:

1. **OwnedCache**, **SnapshotStore** (its abstract specification), their proofs and
   the proved refinement.
2. **PartialTransfer**: fetches with their scheduler (`run_bounded`,
   `run_with_retry`, the token), every step of an attempt, response validation,
   the collection of partials.
3. **LocalDirReconcile** and **LocalDirectory**, the abstract destination (in
   progress or complete for one request) that it implements.
4. **StandardCache**, the compatible view beside Python; **HubPlan**, from a request
   to a plan; **CompatibleFetch**, which composes them.
5. **StagedFile** and **AtomicFile**: the ways of writing a file, each of which
   implements one atomic write.

6. Proofs of every module: each safety invariant, each action property and each
   refinement that a passing run checks is a theorem (section 6).

Left: liveness stays with TLC (section 6). The models could grow towards inventory
and inspection reports, the validation of a plan read back from JSON, and the
mapping of names to paths, none of which changes shared state.

## 3. Modules

| Module | Content |
|---|---|
| `OwnedCache` | state, actions, properties and inductive invariant of one repository of the owned view |
| `SnapshotStore` | what the cache promises: publish, open, release, name, reclaim |
| `MCOwnedCache` | values of the constants for TLC |
| `OwnedCacheProofs` | type correctness and safety, for TLAPS |
| `OwnedCacheCollection` | what a collection may remove, for TLAPS |
| `OwnedCacheRefinement` | `OwnedCache` implements `SnapshotStore`, for TLAPS |
| `PartialTransfer`, `MCPartialTransfer` | fetches, their jobs and attempts, partial files, collection of partials |
| `PartialTransferProofs` | its invariant and safety, for TLAPS |
| `LocalDirReconcile`, `MCLocalDirReconcile` | reconciliation of a local directory and its offline reader |
| `LocalDirectory` | what its completion record promises |
| `LocalDirProofs` | safety, and `LocalDirReconcile` implements `LocalDirectory`, for TLAPS |
| `StandardCache` | publication, import and opening of the compatible view beside Python |
| `StandardCacheProofs` | its invariant and safety, for TLAPS |
| `HubPlan` | revision, pages, redirects, filter, plan |
| `CompatibleFetch`, `MCCompatibleFetch` | `HubPlan` decides what `StandardCache` publishes |
| `CompatibleFetchProofs` | the composition, the planner and the filter, for TLAPS |
| `StagedFile`, `MCStagedFile` | the six ways of writing one file, its readers and its collector |
| `AtomicFile` | what the other modules take one write to be |
| `StagedFileProofs` | safety, and `StagedFile` implements `AtomicFile`, for TLAPS |

The modules share no variables except through `CompatibleFetch`. They meet in what
they take as one step: `OwnedCache` takes a download that `PartialTransfer`
takes apart, and all take a write that `StagedFile` takes apart.

### OwnedCache: state and code

| Variable | Code |
|---|---|
| `blob[d]` | `blobs/sha256/..`: modification time, or absent |
| `content[s]`, `manifest[s]` | entries of `snapshots/<commit>-<selection>` and its `manifest.json` with modification time |
| `ref[r]`, `tree` | `refs/<key>.json`; `trees/<commit>.json` |
| `debris` | staging files of refs left by a dead process; they lie in `refs/` itself, where `scan_ref_roots` reads them |
| `pc`, `task`, `todo` | where a client stands in `acquire` or `OfflineStore`, for which snapshot and revision, and what its current loop has left |
| `gpc`, `now`, `roots`, `plan`, `cand`, `seen` | where a collector stands, the instant it was given, the commits it found rooted, its plan, the candidate whose locks it holds, the snapshots its scan under those locks validated (`seen` is only read by a property) |
| `clock` | wall clock |

Locks are not variables. Every guard in the code is a value with lexical scope
and the operating system drops it with its process, so `HoldsSnapshotLock`,
`HoldsLease`, `HoldsRefLock`, `HoldsMaintenance` and `Reserves` read the holder
off the control state, and taking a lock is a guard (`SnapshotLockFree`,
`SharedLeaseFree`, ...). A crash needs no separate release.

### OwnedCache: actions and code

| Actions | Code |
|---|---|
| `StartFetch`, `OpenMissing`, `OpenManifest`, `ValidateEntry`, `OpenCorrupt` | `HubStore::acquire` up to its reuse decision; `open_owned_snapshot` |
| `PublishBlob`, `PublishRemoteTree`, `LockSnapshot`, `StageEntry`, `StageFails`, `InstallEntry`, `PublishManifest` | download of each file, `activate_owned`, `publish_owned_snapshot` |
| `LockRef`, `StageRef`, `ReplaceRef` | `write_ref`, `replace_from_staging` |
| `StartOpenRequest` | `OfflineStore::open_request` (the ref is read once) |
| `StartOpen`, `ResolveAgain` | `OfflineStore::open` (the ref is read twice) |
| `Close`, `Crash`, `CollectorCrash` | handle dropped; death, error or cancellation at any step |
| `StartPlan`, `ScanRefRoots`, `ScanRefsFails`, `ScanFails`, `PlanComplete` | `gc_plan`, `plan_snapshot_gc` |
| `StartExecute`, `TakeCandidate`, `SkipContended`, `Confirm`, `SkipChanged`, `QuarantineSnapshot`, `QuarantineBlob`, `FinishExecute` | `gc_execute`, `execute_snapshot_gc`, `execute_blob_gc`, quarantine |

Next to a definition there may be another one that is a plausible mistake in its
place (a lock not taken, an age off by one, a plan trusted): marked `Defect` in
`OwnedCache` and `StagedFile`, and defined just before the correct one elsewhere.
No specification uses them. `PROJECT.json` pairs each with the property that TLC
finds violated when it replaces the correct definition.

### PartialTransfer: state, actions and code

| Variable | Code |
|---|---|
| `plan`, `kind` | the downloads of each fetch; how a tree entry identifies content (LFS sha256, git blob id, opaque id) |
| `data[x]`, `record[x]`, `blob[x]`, `lock[x]` | partial data, `PartialTransferRecord`, the published blobs, the partial lock |
| `trash[g]`, `gc`, `candidate` | trash entries with tombstone; where a collector is; the observation it planned |
| `pc`, `attempt`, `resume`, `response`, `result` | where a job is, its attempt number, the candidate it asked to resume, what was made of the answer, its outcome |
| `token`, `phase`, `next`, `results`, `error` | cancellation token; the fetch; and the state of `run_bounded` |
| `clock`, `budget`, `torn` | wall clock; what may still go wrong; files whose transfer was cut short (only read by properties) |

| Actions | Code |
|---|---|
| `BeginFetch`, `CollectJob`, `EndFetch`, `EndAttempt` | `run_bounded`, `run_with_retry` |
| `StartAttempt`, `RequestFails`, `FullResponse`, `RangeResponse` | `partial_resume_candidate`, the request, `validate_file_response` (`Disposition`), the validator check |
| `LockPartial` | `lock_partial` and what each of `stream_fresh_file_to_blob` and `resume_file_to_blob` does first under it |
| `BodyChunk`, `BodyBreaks`, `BodyMisfits`, `BodyEnds` | `stream_validated_body`, `append_bounded_body` |
| `RetainPartial`, `PublishPartial`, `DiscardData`, `DiscardRecord` | `retain_resumable_partial`, `publish_validated_partial`, `discard_partial` |
| `Cancel`, `DropFetch` | the caller's token; a dropped future or a dead process |
| `PlanPartialGc`, `EnterMaintenance`, `RevalidatePartial`, `TrashRecord`, `TrashData`, `EmptyTrash`, `DropCollector` | `plan_partial_gc`, `execute_partial_gc` |

### LocalDirReconcile: state, actions and code

| Variable | Code |
|---|---|
| `file[x]` | the destination: content, missing, a directory (`Directory`), or a link or special file (`Special`) |
| `record`, `treeHint`, `fileHint`, `lock` | the completion record, the Python-shaped tree and file metadata, the coordination lock |
| `step`, `request`, `todo`, `pass`, `seen`, `prepared`, `result` | where an operation is, its request, the paths its pass has left, what inspection found, which sources were prepared, its outcome |
| `touched`, `changed`, `budget` | paths edited by others since they were read, whether the operation changed anything (both only read by properties), bounds |

`InspectNext`, `PrepareSources` and `PublishInProgress` are `prepare_sources` and
the in-progress record; `MaterializeFile`, `InstallMissing`, `InspectExisting`,
`CheckReplacement`, `InstallReplacement`, `FinishInstall` are
`materialize_with_cancellation`; a replacement is two steps, the look at the kind of
what is there and the rename (`install_staged_replace`, `rooted_fs.rs:711` and `:722`);
`ValidateNext`, `WriteFileHint`, `WriteTreeHint`, `PublishComplete` are the rest of
`reconcile`. `ReadState`, `HashNext`, `RereadState` are
`LocalDirOfflineReader::open`. `Edit` is any other program. A result says how the
operation ended and whether the directory may have changed
(`LocalDirReconciliationError`).

### StandardCache, HubPlan, CompatibleFetch: state, actions and code

| Variable | Code |
|---|---|
| `blob[k]`, `snap[c][x]`, `tree`, `ref` | Python's blobs, snapshot entries (link or copy), tree records, one branch |
| `binding[k]`, `manifest[c][s]` | the library's binding of a blob key to a digest, and its manifests |
| `lock[k]`, `refLock` | the blob locks Python takes as well; the lock of the ref |
| `step`, `task`, `left`, `staged`, `prepared`, `published`, `result` | where an operation is and what it has found, staged and published |
| `wrote`, `touched`, `handed` | only read by properties: files written, keys changed by others since validated, contents that operations stood for |
| `stage`, `request`, `commit`, `visited`, `trail`, `files`, `served`, `outcome` (`HubPlan`) | what the next answer is for, the request, the resolved commit, pages and redirects followed, file entries received, the pages (only read by properties), the plan or error |

`LockBlob` to `ValidateBlob` are `prepare_blobs`; `PublishTree` to
`PublishManifest`, and `LockRef` to `ReadRef`, are `publish_prepared` and
`publish_ref`; `ReadEntry` is the import of a snapshot Python wrote;
`ReadIndex`, `LoadManifest`, `CheckEntry` are `CompatibleCacheOffline::open`. A
result says how the operation ended and whether it may have published
(`CompatibleCacheError`). Python
downloads (`AddBlob`, `AddEntry`, `MoveRef`), removes (`RemoveSnapshot`) and damages
(`DamageBlob`) as steps of its own. In `HubPlan`, `Ask`, `Resolved`, `TreePage` and
`BuildPlan` are `hub_protocol.rs` and `FetchPlan::build`, `Redirected` is
`RedirectFollower::follow`, `Compiled` leaves out a star after a star as
`compile_normalized` does, and `Rows` are `current` and `next` of
`Pattern::matches`.

### StagedFile: state, actions and code

`dest` is the inode under the file's name, `content` what each inode holds,
`staged` the inode under each writer's staging name, `debris` the staging names
whose writer is gone, `lock` the lock file, `task` what an operation is to write,
whether it did and what it last saw, `found` the file a reader has open. `Calls`
gives the calls of each writer in order when nothing is in its way:

| Writer | Code |
|---|---|
| `create` | `create_once` of `rooted_fs.rs`: layout marker, scaffold |
| `record` | `publish_encoded_immutable_record`: trees, manifests, bindings |
| `replace` | `replace_from_staging`: refs, partial and completion records |
| `etag` | `replace_record` of `local_dir_bookkeeping.rs`: file hints |
| `blob` | `publish_blob` |
| `hint` | `write_tree_hint` |

The actions are those calls, what each makes of a file that is there already
(`InstallFindsFile`, `ReuseRecord`, `RefuseRecord`, `CompareBlob`, `Discard`), the
readers, the collector, another program, a failing call (`Fail`, `CleanIgnored`) and
a crash.

### Abstractions

Of `OwnedCache`:

- A file's content is its digest. `Content[c][q]` fixes what the hub serves;
  the hub resolves a revision to any commit at any time. Downloading one file is
  one step, in which the blob is reused or installed; transfers are the subject
  of PartialTransfer.
- Creating a snapshot directory is merged with installing its first entry. The
  code creates the directory (and nested ones) first; a collector that scans
  between the two fails on the missing manifest exactly as it does after the
  first entry.
- Hard link and its copy fallback are one step, since both validate the staged
  bytes; an installed entry outlives its blob.
- Files of one snapshot are handled in any order (the code sorts them).
- The scan of `refs/` is one step and the scan of snapshots and blobs another.
  Splitting them further only widens the window between the reading of refs and
  the decision, which the two steps keep open.
- Two collectors that scan, and a collector's attempts on snapshot lock and lease,
  are separated from everything else by steps; the two attempts themselves are
  one, because failing the second releases the first.
- A blob or manifest carries the modification time of its staging file, any
  moment of the client's current phase (`WrittenAt`), which is what the age test
  of a collection sees. The clock does not go back, and the `now` a collection is
  called with is the clock's: `GraceRespected` is about callers that pass an honest
  instant, and says nothing of one from the future.
- The trash directory is written by quarantine and read by no operation modelled.
- Everything after a rename in quarantine (removing the tree and the tombstone) is
  best effort in the code and invisible to other operations.

Of `PartialTransfer`:

- A partial file is the sequence of the versions its chunks are from, and a
  validator (ETag or date) names a version or is absent. Headers are their bounds
  in chunks; text that does not parse is refused like text that does not fit.
- A fetch is one thread: a job that blocks in `lock_partial` keeps its siblings from
  being polled. A runtime that polls a fetch on several threads moves the whole
  fetch, not one job.
- Retry delays have no length. A fault of the file system is a call that fails
  before its effect.

Of `LocalDirReconcile`:

- Staging files, which no reader opens, and directory syncs are left out. Candidate
  sources are validated contents that are there or not. A process that fails after
  an effect is one that fails at the next call.
- A reading of a file, from opening it to its last byte, is one step, and so are
  `write_file_hint`'s look at the destination and its write of the metadata: no
  property relates a hint to the file it is about.

Of `StandardCache`, `HubPlan` and `CompatibleFetch`:

- The bytes of a key are the right ones, others of the same size (acceptable only for
  a key that is neither a sha256 nor a git blob id), or bytes of another size. One
  reading of a snapshot entry is one step, and so is reading the index.
- The lease of an open is left out, since nothing collects this view. A source is
  what validation lets through.
- `wrote`, and with it `ErrorsTellOfChange`, counts blobs, tree records, snapshot
  entries, bindings, manifests and refs. The layout made before the first of them
  (directories, `CACHEDIR.TAG`, `standard_cache.rs:399`) is neither counted nor modelled.
- Outcomes that differ only in wording share a label of `Outcomes`; no property
  tells them apart except where it names one.
- A character class is a set of characters; the syntax of patterns and of the Link
  header, backslashes and credentials are left out. The server may answer
  anything, link anywhere and redirect anywhere.
- `CompatibleFetch` assumes of the constants of `HubPlan` what `PlanConstants` states.

Of `StagedFile`:

- Inodes are numbered as they are made. A reader opens and reads in two steps, so a
  file replaced in between is seen; a comparison with an existing file is one step.
- Another program is taken to replace mutable files whole; one that writes a ref in
  place could be read half-way, which is not modelled. That an existing destination of a file hint is a regular file is
  checked in `LocalDirReconcile`.

## 4. Properties and runs

| Run | Instance | Shows |
|---|---|---|
| `publish_and_collect` | 2 clients, 1 collector, 2 commits sharing one of two files, no grace period | `TypeOK`, `SealedIsComplete`, `HeldIsComplete`, `PublicationKept`, `NamedIsAvailable`, `BlobRemovalJustified`, and `StoreSpec` (refinement) |
| `two_collectors` | 1 client with 2 requests, 2 collectors, 1 commit with 2 selections, keep floor 1, minimum age 1, one tick | the inductive invariant `IInv`, `VerdictStands`, `FloorKept`, `GraceRespected` |
| `progress` | 2 clients, 1 collector, fairness | `OperationsReturn`: every request and collection returns |
| `transfer` | 8 scenarios: a lone fetch with every kind of trouble, two fetches racing for one file, one fetch of two files at width 1 and 2; fairness | `TypeOK`, `PublishedMatchesEntry`, `PublishedIsOneVersion`, `ResumableRecordIsTrue`, `CompleteMeansPublished`, `NoJobOutlivesFetch`, `TrashHasTombstone`, `TouchedPartialKept`, `OperationsReturn` |
| `local_dir` | 2 processes, 2 paths, 2 commits, 6 directories to start from; fairness | `TypeOK`, `OwnerBytesKept`, `CompleteBeforeChange`, `CompletionIsExact`, `OpenedIsExact`, `ErrorsTellOfChange`, `ImplementsLocalDirectory` (refinement), `OperationsReturn` |
| `compatible_fetch` | 2 processes, 2 commits whose 2 paths exchange 2 keys, one of them opaque; 8 openings that publish beside Python, one that only plans, one that plans and publishes; fairness | `FetchTypeOK`, `PythonBytesKept`, `RefPublishedLast`, `ManifestsStand`, `OpensAgree`, `ErrorsTellOfPublication`, `PlanIsExact`, `OperationsReturn` |
| `staged_file` | each of the six writers, 3 processes | `TypeOK`, `UndisturbedLeavesNothing`, `ImplementsAtomicFile` (refinement) |
| `rooted_blob` | 1 client, 1 collector, grace period 1 | `ReachableContentKept` is violated (section 5) |
| `reuse_leaves_no_ref` | 1 client | `SameRequestOffline` is violated |
| `open_reads_ref_twice` | 2 clients | `CommitIsBound` is violated |
| `identical_fetches` | 2 fetches of the same 2 files, nothing going wrong; fairness | `FetchesReturn` is violated |
| `later_selection` | 2 processes, nothing going wrong | `LaterSelectionCompletes` is violated |

Each property is stated with its meaning in `OwnedCache`. The ones that carry
most: `HeldIsComplete` and `PublicationKept` relate a process's locks to the
directory across the steps of all others; `NamedIsAvailable` says that refs,
which are never removed, can always be answered; `FloorKept` and `GraceRespected`
are action properties about what a collection with a stale plan may remove, and
`VerdictStands` is why they hold: whatever a collector read under a candidate's
locks is still true when it acts, except for what appeared since.
`BlobRemovalJustified` is the strongest statement true of blobs: a blob leaves a
published snapshot only if that snapshot was detached and old, or appeared after
the scan that decided.

Of the transfers, `PublishedMatchesEntry` and `PublishedIsOneVersion` say what may
come of resumes, restarts, races and servers that change their mind; the second is
all there is for an entry without a digest, and holds only where no transfer of
the file was cut short between replacing the data and writing its record
(`ResumableRecordIsTrue` is why). `CompleteBeforeChange` and `OpenedIsExact` are
together what makes an offline open of a local directory trustworthy.
`OpensAgree` relates operations of all processes and all times through the
bindings. `PythonBytesKept` and `OwnerBytesKept` are about what may never be lost
to a race with a program that takes no lock. `OwnerBytesKept` is as strong as the code
allows: directories survive because a rename does not replace them, everything under
the reject policy because the hard link of `install_missing` does not, and a link or
special file under the replace policy only if it was there when the process last
looked (section 5). `PlanIsExact` compares the row
algorithm of the filter with what a pattern means, for every pattern of two
tokens and a few longer ones, over trees that arrive in any pages.
`ImplementsAtomicFile` justifies the atomic steps of all the other modules: nobody
reads a half-written file, a file made once never changes, and an error that
denies having published is right.

**Bounds.** In the runs of `OwnedCache`, two commits that share a file make both kinds of interference
possible: two snapshots competing for a ref, and one blob needed by a removed and
by a kept snapshot. Two selections of one commit are needed for one snapshot of a
named commit to be removed while the other answers the ref; two clients for a
publisher beside a reader, or two publishers of one snapshot; two collectors for
a plan made stale by another collection. One request per client and one
collection per collector (`MaxRequests`, `MaxPasses`) suffice where several
actors interleave; `two_collectors` and the runs with one client use two requests
so that a snapshot is republished or opened after its removal. `MaxClock = 1` and
`MinAge = 1` put objects on both sides of, and exactly at, the minimum age; age
0 in `publish_and_collect` lets a collector take everything it is not forbidden.
Symmetry is used over clients, collectors or processes in safety runs only.

The other modules start in one of several openings or scenarios (`Scenarios`,
`Openings`), each with a budget of operations, faults, cancellations, crashes and
outside edits, so that one run covers trouble of each kind without multiplying
them all. `transfer`: 2 chunks, so that a partial file exists between nothing and
whole; 2 versions, so that a mixture is possible; up to 2 attempts, 2 fetches, 2
files, 1 collector. `local_dir`: 2 paths, so that a selection can be a part, 2
commits that share one file, 1 to 3 operations. `compatible_fetch`: 2 keys under
exchanged paths, so that the order of paths and of keys differ and locks could be
taken in a circle; at most 2 pages, 3 files and 1 redirect, each of which the
server can exceed. `staged_file`: 3 operations by 3 processes, 2 failing calls (a
call and the cleanup after it), 1 crash, 1 collection, 1 write by another program.

Deadlock is not checked: every instance stops when its budget or its requests are
used up; that nobody waits forever is what `OperationsReturn` checks.

**Fairness.** `progress` assumes weak fairness of each client's and each
collector's steps taken together: a process that has begun an operation and can
go on is scheduled. Nothing is assumed of starting, closing a handle, crashing or
time. With bounded requests a process waiting for a lock is not overtaken
forever, so the run says nothing about starvation by an endless stream of
competitors, which advisory locks do not exclude; a holder that closes its handle
is not needed for anyone's progress because collectors only try the lease.

`transfer` and `identical_fetches` assume weak fairness of each job, each fetch
and each collector that has started: a runtime polls a task that is ready, a
transport ends every request and body (with an error if need be), and a lock is
granted once it stays free. `local_dir` and `compatible_fetch` assume weak fairness
of each process's next step and nothing of faults, crashes, cancellations and
other programs; the hub of `compatible_fetch` owes no answer, so planning is not
said to end. `staged_file` assumes none.

## 5. Disagreements with the documents

- `rooted_blob` (`publication.rs:1285`): a publisher takes neither the blob nor
  the maintenance lock while it stages, seals and names a snapshot, so a
  collector that has just found a blob unreferenced removes it afterwards. The
  ref then names a snapshot that fails validation; `acquire` reports it as
  corrupt instead of fetching again, and later collections fail. RFC 0001 (lines
  160 and 273) says reachable content is never deleted.
- `reuse_leaves_no_ref` (`api.rs:404`): a fetch answered from an existing snapshot
  writes no ref, so the same request fails offline; RFC 0001 lines 264 and 266.
- `open_reads_ref_twice` (`acquisition.rs:531`): a handle can report one commit
  and hold another's files; `snapshot.rs:81` and ADR 0009 line 85.

- `identical_fetches` (`publication.rs:1897`): a partial lock is held while a body is
  awaited and taken by blocking the thread that polls the bodies. Two fetches of
  the same two files, each holding one lock and blocking for the other, never
  return; RFC 0001 line 269 promises one coherent result.
- `later_selection` (`local_dir_reconciliation.rs:416`): the tree record of a commit
  lists the selected files and must not differ from the one there is, so a second
  selection of a commit always fails after its files were written and leaves the
  directory in progress; ADR 0006 lines 33-36 and 110 describe narrower and newer
  requests over an earlier one.

Seen while modelling and not given a run:

- `install_staged_replace` looks at the kind of the destination
  (`rooted_fs.rs:711`) and renames in a later call (`:722`). A link or special file
  that the owner places in between is replaced, since rename spares only directories,
  although `docs/usage.md:243-244` says that links and special files are always
  rejected, and `local_dir_materialization.rs:1367` tests that a final link remains a
  conflict under the replace policy. `local_dir` reaches the state (an edit to a
  differing file after the second inspection, another after the check); this is why
  `OwnerBytesKept` excepts paths edited since they were last looked at (`touched`).
- Leases are no roots of blobs (`publication.rs:994`), although RFC 0001 line 160 and
  ADR 0007 line 46 say they are. The entries of a leased snapshot survive as hard
  links, which `HeldIsComplete` shows, but it can be neither verified nor opened
  again.
- A ref staging file left by a crash is read as a root, or blocks every collection
  when it was cut short (ADR 0007 says staging is never a lookup root); an unsealed
  snapshot directory blocks collection until the same selection is fetched again
  (`ScanFails`).
- A ref written between a collector's reading of refs and its decision leaves
  another selection of the commit removable (`NamedIsAvailable` still holds,
  section 6). Ages count from staging, not from publication.
- `write_tree_hint` (`local_dir_bookkeeping.rs:247`) deactivates the cleanup of its
  staging file as soon as it has linked it, so every first tree hint of a commit
  leaves a staging name behind although nothing went wrong;
  `docs/platform-capabilities.md:39` attributes such leftovers to interrupted
  operations (the exception in `UndisturbedLeavesNothing`).
- The loser of a concurrent resume gets a protocol error, which is not retried. The
  first error of a fetch cancels the token the caller passed in.
- A fresh body replaces the partial data and leaves the record of the old data in
  place (`publication.rs:1834-1852`); after a crash there, an entry without a digest
  may be completed from two versions (the exception in `PublishedIsOneVersion`).
- A file hint can be written for bytes that were edited between validation and hint;
  hints are accelerators and no open relies on them.
- The import of a copy under an opaque key can bind bytes that a blob published
  meanwhile contradicts (the exception in `ManifestsStand`); `OpensAgree` still holds.

## 6. Proofs

No module with a theorem uses a RECURSIVE operator; the rows of the filter are a
recursive function. The constants are assumed to be what the named assumptions of
each module say, which TLC evaluates in the runs.

### OwnedCache

`OwnedCacheProofs` proves, for any sets of clients, collectors, revisions,
commits and selections, any content, any policy and no bound on anything that the
constants do not bound, from `ConstantsAssumption` alone (which types the
constants and makes snapshot keys finitely many, so that the keep floor counts):

- `TypeCorrect`: `Spec => []TypeOK`.
- `Inductive`: `Spec => []IInv`, and from it `SealedSnapshotsAreComplete`,
  `LeasedSnapshotsAreComplete`, `PublicationsAreKept`,
  `NamedCommitsAreAvailable`.

`OwnedCacheCollection` proves, from the same assumption and `Inductive`,
`VerdictsStand` (`Spec => []VerdictStands`) and from it the three action
properties of removal: `GraceIsRespected`, `FloorIsKept`,
`BlobRemovalIsJustified`.

`OwnedCacheRefinement` proves `Implements`: `Spec => StoreSpec`, the step
simulation of `SnapshotStore` with the sealed snapshots as what is available, the
refs as names, and as handle the snapshot a client has validated.

None of the four safety properties is inductive. `IInv` adds what makes them so:

- `Control`: what a client's place in the code says of its request, in particular
  that a publisher has recorded the tree and that only publishers name.
- `WithinSelection`: a directory never holds more than its selection, so that
  removing it and filling it from nothing are the same state.
- `ReservedAlone`: a collector that holds a candidate's locks is alone with the
  snapshot, and alone with the maintenance lock.
- `ReclaimSafe`: the argument for refs. After its reading of refs a collector that
  has reserved `s` either knows the commit as rooted, in which case it will not
  remove `s`, or any ref that has since come to name the commit was written under
  the lease of a snapshot of that commit. That snapshot is not `s`, whose lease
  the collector holds; so another one is published (`HasOther`) and, because the
  collector is alone with the maintenance lock, stays so until `s` is gone.

The steps of a client that write neither entry, manifest nor ref are settled by
one lemma (`QuietClient`) through `ClientGood`, what `IInv` says of one client;
the four steps that do write (`InductiveInstall`, `InductiveManifest`,
`InductiveReplaceRef`, `InductiveQuarantine`) have their own.

`VerdictStands` is inductive relative to `IInv`. Time and clients can only add to
the directory, and nothing that a collector has reserved (`OnlyAppear`: the blob
lock keeps publishers off a reserved blob, `ReservedAlone` off a reserved
snapshot), so ages stay reached and the detached others only grow in number
(`VerdictOutlivesAdditions`). Other collectors cannot remove anything while the
maintenance lock is held (`MaintenanceAlone`). The scan itself establishes the
verdict (`VerdictConfirmed`): the snapshots that precede a candidate in the order
of the keep floor are among the others it leaves. Each action property then says
of the removing step what the verdict says of the state before it.

### PartialTransfer

`PartialTransferProofs` proves `Inductive` (`Spec => []IInv`) and from it
`TypeCorrect`, `PublishedMatches`, `PublishedWhole`, `RecordTrue`,
`CompletePublished`, `NoJobLeft`, `Tombstones` and the action property
`TouchedKept`, for any fetches, plans, versions, file size, minimum age,
collectors and budgets. The assumptions: a scenario plans each file at most once
in a fetch, files are finitely many, the expected version is a version, a file
has at least one chunk (`Size` counts the chunks of the one size all files have),
and jobs, collectors, the ranges and error kinds are told apart from `None` and
from each other.

- `Exclusive`: a partial lock is held exactly by the job or collector between its
  taking and its release. With it every step of an actor under the lock is a step
  about a file nobody else writes, and the proof needs only say what the step does
  to its own actor (`JobInv`, `HeldKept`).
- `OneVersion`: what a job has appended is of the version of its response. A resumed
  response is of the version the candidate's validator names, and the record that
  gave the validator was true (`Recorded`) as long as no transfer was cut short;
  that is the chain behind `PublishedIsOneVersion`, which no step shows by itself.
- `Honest`: a job that is to succeed has verified what it is about to publish, or
  names content that is published. `Collected` carries that through `run_bounded`:
  one result for each job taken, and a job in flight as long as one is left to
  start, so that a fetch cannot complete early.
- `Trashed`: what a collector has confirmed under the lock of the candidate stays
  so until it acts on it.

### LocalDirReconcile

`LocalDirProofs` proves `Inductive` and from it `TypeCorrect`, `ErrorsTell`,
`OwnerBytes`, `CompleteBefore`, `CompletionExact`, `OpenedExact` and `Implements`,
for any number of paths, any processes, commits, contents and openings, assuming
that `Missing`, `Directory`, `Special` and `None` are distinct and no contents. `RecordMarked` says
that a process past the in-progress record finds its own record there, because it
holds the coordination lock; hence nothing is written under a complete record.
`ReadExact` says that every path the pass is done with is as selected or was
edited by somebody else since; it is what survives the interleaving of edits with
the final validation. Its last part says that between the check of a replacement and
the rename the path holds no link or special file that the process has seen, which is
what `OwnerBytes` needs of the replace policy; of the reject policy it needs only that
the link is made where nothing is. `ChangeReported` ties what changed to what an error will
say. In the refinement a session of the abstract directory is the process that has
marked the record (`Session`).

### StandardCache and CompatibleFetch

`StandardCacheProofs` proves `Inductive` and from it `TypeCorrect`, `ErrorsTell`,
`Agree`, `RefLast`, `Stand` and `PythonBytes`, for any processes, commits, numbers of
paths and keys, trees, opaque keys and openings whose publications have a commit
(an import without one reads the ref). `Locked` says which blob locks a
publication holds on its way through the keys; `Exact` what the entries it has
read hold, others' changes apart; `Bound` that bindings, which are created once,
carry every manifest and everything handed out. `OpensAgree` follows from `Bound`
alone: this is why it holds although an import takes no blob lock.

`CompatibleFetchProofs` proves that a fetch is a behaviour of `StandardCache`
(`Fetches`), so that all of that holds of fetches (`FetchesKeep`); that planner and
cache keep their types and bounds (`FetchTypeCorrect`); and two results about the
plan:

- `MatchesMeans`: the algorithm of `Pattern::matches` on the compiled pattern decides
  what a pattern means, for every pattern and every name. The set of positions
  where the tokens so far may end (`Reach`) grows from one token to the next as a
  row of the algorithm does (`ReachMore`); a star after a star adds nothing
  (`StarTwice`), so the row at the rank of a token is `Reach` of that token
  (`RowsReach`). The provers cannot use the induction theorems of the library;
  the induction goes through the least member of the set of counterexamples
  (`CountingUp`, `LeastMember`).
- `PlanExact`: `FetchSpec => PlanIsExact`, from `PlanIInv`: the files listed are those of
  the pages served, and the stage tells which page comes last.

Assumed of the hub's constants is `PlanConstants`: types, and that requests name a
commit or the branch.

### StagedFile

`StagedFileProofs` proves `Inductive` and from it `TypeCorrect`, `LeavesNothing` and
`Implements` (`Spec => ImplementsAtomicFile`), for each of the six writers, any
processes, any values and any bounds on operations and trouble. Assumed is that
there is a value to write, that the protocols are among the six, and that `None`
and a torn content are no values.

- `Guarded`: a writer past its lock call holds the lock, so of two writers of one
  mutable file one is before or after all the calls of the other.
- `Written`, `Knowing`: what lies under a staging name that is about to be linked or
  renamed is whole and what its writer was given; what a writer claims at the end
  is what it has read back.
- `Settled`: what is under the name between a look and an installation, in the
  protocols that may not find a file there.
- `Counted`: inodes and leftover names are bounded by the operations begun, so that
  there is always an inode for the next one; without it the model's bound on
  inodes, and not the code, could have kept a writer from staging.

In the refinement most calls are stutters; the step that maps to the atomic write
is the installation, and the one that maps to the answer is the return.

### Only model-checked

Liveness is out of the prover's reach: `OperationsReturn` of all four modules that
state it, and `FetchesReturn`, whose violation is a finding. Everything else that a
passing run checks is proved. The inductive invariants were checked with TLC on
the instances of the runs before they were proved; `IInv` of `OwnedCache` is checked
by `two_collectors`.

## 7. Not modelled

- Keys, identities and layout: hashing and parsing without state. Distinct identities
  are assumed to have distinct paths, in particular names that alias on
  case-insensitive file systems.
- JSON encodings of records and of collection plans, and the validation of a plan
  read back from JSON: a plan is executed as it was made, or stale, never forged.
- Inventory, inspection and verification reports, progress observers and the wording
  of errors: they change nothing. The flags of errors that claim something about
  the directory are modelled.
- The text of headers, links and patterns, the length of retry delays, credentials
  and the HTTP client. Responses are inputs to the models.
- Directory handles, path and symbolic-link checks and what differs between operating
  systems; foreign entries in the owned cache directory.
- Power loss: the documents claim atomic visibility, not durability.
- The CLI, which parses arguments and renders results of the public API, and the
  Python conformance harness, which is test code.

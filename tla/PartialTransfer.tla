--------------------------- MODULE PartialTransfer ---------------------------
(***************************************************************************)
(* The resumable transfer of files into the owned cache                    *)
(* (transfer_engine.rs, transfer.rs and the partial files of               *)
(* publication.rs), the scheduler that runs the transfers of one fetch     *)
(* (run_bounded), and the collection of abandoned partials.                *)
(*                                                                         *)
(* A fetch is one asynchronous task: run_bounded polls its jobs on one     *)
(* thread, and a job that blocks in lock_partial blocks its siblings.      *)
(* Fetches run in different processes or on different threads and share    *)
(* the cache directory, with one file lock per partial.                    *)
(***************************************************************************)
EXTENDS Naturals, Sequences, FiniteSets

CONSTANTS
    Fetch,          \* concurrent fetches
    File,           \* planned files (a commit and a path)
    Scenarios,      \* what may be fetched, and what may go wrong meanwhile
    Version,        \* versions of the bytes a server can send
    Expected,       \* the version every tree entry describes
    Size,           \* chunks in a file
    Collector,      \* processes that run partial garbage collection
    MinAge,         \* the policy's minimum age of a partial
    None

(* The entry kinds: LFS (a sha256), git (a blob id that is a git sha1) and *)
(* opaque (a blob id in no known format, so that only the size is checked).*)
EntryKinds == {"lfs", "git", "opaque"}

(* A plan is the sequence of files a fetch downloads, each once; a fetch   *)
(* with an empty plan is not made. The budget bounds the faults (local I/O *)
(* failures), the fetches and collections cut short (drops), the caller's  *)
(* cancellations (cancels), the collections planned (plans) and the clock  *)
(* (ticks). It also holds two settings that are not used up: the attempts  *)
(* of the retry policy and max_concurrent_downloads (width).               *)
Budgets == [attempts : Nat \ {0}, width : Nat \ {0},
            faults : Nat, drops : Nat, cancels : Nat, plans : Nat, ticks : Nat]

ASSUME ScenarioAssumption ==
    \A s \in Scenarios :
        /\ s.plan \in [Fetch -> Seq(File)]
        /\ \A o \in Fetch : \A i, k \in DOMAIN s.plan[o] :
               s.plan[o][i] = s.plan[o][k] => i = k
        /\ s.kind \in [File -> EntryKinds]
        /\ s.budget \in Budgets
ASSUME FileAssumption == IsFiniteSet(File)
ASSUME ServerAssumption == Expected \in Version /\ None \notin Version
ASSUME BoundAssumption ==
    /\ Size \in Nat \ {0}
    /\ MinAge \in Nat

Job == Fetch \X (1 .. Cardinality(File))

ASSUME ActorAssumption ==
    /\ None \notin Job \cup Collector \cup 0 .. Size
    /\ Job \cap Collector = {}

VARIABLES
    \* the plans of the fetches and the entries of the tree; neither changes
    plan,       \* plan[o]: the files of fetch o
    kind,       \* kind[x]: how the tree entry of x identifies its content
    \* the partial files on disk
    data,       \* data[x]: None, or the versions of the chunks received
    record,     \* record[x]: None, or the partial transfer record
    blob,       \* blob[x]: the contents published for x as blobs
    lock,       \* lock[x]: the holder of the partial lock of x
    trash,      \* trash[g]: what collector g has left in the trash
    clock,
    \* the jobs
    pc, attempt, resume, response, result,
    \* the fetches
    token,      \* token[o]: the cancellation token of o is set
    phase,      \* where fetch o is
    next,       \* the next job of o that has not been started
    results,    \* the completed jobs of o and their digests
    error,      \* the first error of o
    \* the collectors
    gc, candidate,
    budget,     \* what may still happen
    torn        \* torn[x]: a transfer of x was cut short

diskVars == <<data, record, blob, lock>>
jobVars == <<pc, attempt, resume, response, result>>
fetchVars == <<token, phase, next, results, error>>
gcVars == <<gc, candidate, trash>>
auxVars == <<plan, kind, clock, budget, torn>>
vars == <<diskVars, jobVars, fetchVars, gcVars, auxVars>>

FileOf(j) == plan[j[1]][j[2]]
Jobs(o) == {<<o, i>> : i \in DOMAIN plan[o]}
Sibling(j) == Jobs(j[1])

(***************************************************************************)
(* Partial records                                                         *)
(***************************************************************************)
(* The validator is an ETag or a modification date: it names a version, or *)
(* the server sends none.                                                  *)
Validators == Version \cup {None}
PartialRecord == [received : 0 .. Size, validator : Validators, updated : Nat]

Whole(v) == [i \in 1 .. Size |-> v]

VerifiedBySize(x, content) == kind[x] # "git" \/ content = Whole(Expected)

(* copy_and_validate_content and the checks of stream_validated_body.      *)
Verified(x, content) == kind[x] = "opaque" \/ content = Whole(Expected)

(* resume_offset_if_eligible: the identity fields of the record are the    *)
(* file's own, and what is left is its size and its validator.             *)
ResumeOffset(x, validator) ==
    LET r == record[x] IN
    IF /\ r.received = Len(data[x])
       /\ r.received > 0 /\ r.received < Size
       /\ r.validator = validator
       /\ validator # None \/ kind[x] = "lfs"
    THEN r.received ELSE None

(* partial_resume_candidate, read without the partial lock.                *)
ResumeCandidate(x) ==
    IF data[x] = None \/ record[x] = None \/ ResumeOffset(x, record[x].validator) = None
    THEN None
    ELSE [offset |-> record[x].received, validator |-> record[x].validator]

(***************************************************************************)
(* Errors and retry                                                        *)
(***************************************************************************)
Ok(content) == [kind |-> "ok", content |-> content]
Err(e) == [kind |-> e, content |-> <<>>]
Retryable(r) == r.kind = "transport"
ErrorKinds == {"transport", "protocol", "validation", "cancelled", "io"}
ASSUME ErrorAssumption == None \notin ErrorKinds

(* run_with_retry: an attempt that ends with r is repeated or ends the job.*)
EndAttempt(j, r) ==
    LET again == Retryable(r) /\ attempt[j] < budget.attempts IN
    /\ pc' = [pc EXCEPT ![j] = IF again THEN "attempt" ELSE "done"]
    /\ attempt' = [attempt EXCEPT ![j] = IF again THEN @ + 1 ELSE 1]
    /\ result' = [result EXCEPT ![j] = IF again THEN None ELSE r]
    /\ resume' = [resume EXCEPT ![j] = None]
    /\ response' = [response EXCEPT ![j] = None]

Unlock(x) == lock' = [lock EXCEPT ![x] = None]

(* A job runs when no sibling blocks their thread in lock_partial.         *)
Runs(j) == \A k \in Sibling(j) : pc[k] # "locking"

(***************************************************************************)
(* One attempt                                                             *)
(***************************************************************************)
StartAttempt(j) ==
    /\ pc[j] = "attempt" /\ Runs(j)
    /\ IF token[j[1]]
       THEN EndAttempt(j, Err("cancelled"))
       ELSE /\ resume' = [resume EXCEPT ![j] = ResumeCandidate(FileOf(j))]
            /\ pc' = [pc EXCEPT ![j] = "request"]
            /\ UNCHANGED <<attempt, response, result>>
    /\ UNCHANGED <<diskVars, fetchVars, gcVars, auxVars>>

(* The headers of an answer, in chunks: the status, the length announced   *)
(* and the range announced. Whether their text parses is abstracted; that  *)
(* the bounds of a range are in order is part of it (parse_content_range). *)
Ranges == {r \in [start : 0 .. Size, end : 0 .. Size, total : 0 .. Size + 1] :
               r.start <= r.end /\ r.end < r.total}
ASSUME RangeAssumption == None \notin Ranges
Headers == [status : {200, 206, 416}, length : (0 .. Size + 1) \cup {None},
            range : Ranges \cup {None}]

MatchingLength(h, expected) == h.length \in {None, expected}

AnyRange(h, offset) ==
    CASE h.status = 200 -> "fresh"
      [] h.status = 206 /\ offset # None -> "resume"
      [] OTHER -> "refused"

(* validate_file_response. An answer to a range request either has the     *)
(* whole file after all, or what is missing of it and nothing else.        *)
Disposition(h, offset) ==
    CASE /\ h.status = 200 /\ h.range = None /\ MatchingLength(h, Size)
         /\ offset = None \/ offset \in 1 .. Size - 1 -> "fresh"
      [] /\ h.status = 206 /\ offset # None /\ offset \in 1 .. Size - 1
         /\ h.range = [start |-> offset, end |-> Size - 1, total |-> Size]
         /\ MatchingLength(h, Size - offset) -> "resume"
      [] OTHER -> "refused"

(* The answers to a request from an offset: what is made of the headers,   *)
(* and where the body starts that comes with them.                         *)
BodyStart(h) == IF h.status = 206 /\ h.range # None THEN h.range.start ELSE 0
Answers ==
    [offset \in {None} \cup (1 .. Size - 1) |->
        {[mode |-> Disposition(h, offset), start |-> BodyStart(h)] : h \in Headers}]
Requested(j) == IF resume[j] = None THEN None ELSE resume[j].offset

(* A body that does not start where the partial ends has the bytes of no   *)
(* version there.                                                          *)
BytesAt(start, offset, v) == IF start = offset THEN v ELSE None

(* The request fails, or its answer is refused.                            *)
RequestFails(j) ==
    /\ pc[j] = "request" /\ Runs(j)
    /\ \/ EndAttempt(j, Err("transport"))
       \/ /\ \E a \in Answers[Requested(j)] : a.mode = "refused"
          /\ EndAttempt(j, Err("protocol"))
    /\ UNCHANGED <<diskVars, fetchVars, gcVars, auxVars>>

(* An answer with the whole file: Fresh, or Restart of a range request.    *)
FullResponse(j) ==
    /\ pc[j] = "request" /\ Runs(j)
    /\ \E a \in Answers[Requested(j)], v \in Version, validator \in Validators :
           /\ a.mode = "fresh" /\ validator \in {v, None}
           /\ response' = [response EXCEPT ![j] =
                  [mode |-> "fresh", version |-> BytesAt(a.start, 0, v), validator |-> validator]]
    /\ pc' = [pc EXCEPT ![j] = "locking"]
    /\ UNCHANGED <<attempt, resume, result, diskVars, fetchVars, gcVars, auxVars>>

NeverRefused(x, requested, validator) == FALSE
Refused(x, requested, validator) ==
    kind[x] # "lfs" /\ (requested = None \/ requested # validator)

(* An answer with the requested range. Without a digest in the tree entry  *)
(* the response must carry the validator the request was made with; if not *)
(* the partial is discarded. From here on the validator is the requested   *)
(* one.                                                                    *)
RangeResponse(j) ==
    /\ pc[j] = "request" /\ Runs(j)
    /\ resume[j] # None
    /\ \E a \in Answers[Requested(j)], v \in Version, validator \in Validators :
           /\ a.mode = "resume" /\ validator \in {v, None}
           /\ LET requested == resume[j].validator
                  refused == Refused(FileOf(j), requested, validator)
              IN response' = [response EXCEPT ![j] =
                     [mode |-> IF refused THEN "refuse" ELSE "resume",
                      version |-> BytesAt(a.start, resume[j].offset, v),
                      validator |-> requested]]
    /\ pc' = [pc EXCEPT ![j] = "locking"]
    /\ UNCHANGED <<attempt, resume, result, diskVars, fetchVars, gcVars, auxVars>>

(* What follows lock_partial depends on the response. With the digest      *)
(* known and its blob published there is nothing left to do.               *)
BlobExists(x) == kind[x] = "lfs" /\ blob[x] # {}

Locked(j, step, r) ==
    /\ lock' = [lock EXCEPT ![FileOf(j)] = j]
    /\ pc' = [pc EXCEPT ![j] = step]
    /\ result' = [result EXCEPT ![j] = r]
    /\ UNCHANGED <<attempt, resume, response>>

(* The body is read until the token is found set.                          *)
BodyStep(j) == IF token[j[1]] THEN "retain" ELSE "body"
BodyResult(j) == IF token[j[1]] THEN Err("cancelled") ELSE None

LockFreshAppending(j) ==
    LET x == FileOf(j) IN
    /\ response[j].mode = "fresh" /\ ~BlobExists(x)
    /\ Locked(j, BodyStep(j), BodyResult(j))
    /\ data' = [data EXCEPT ![x] = IF @ = None THEN <<>> ELSE @]
    /\ UNCHANGED <<record, blob>>

LockFresh(j) ==
    LET x == FileOf(j) IN
    /\ response[j].mode = "fresh" /\ ~BlobExists(x)
    /\ Locked(j, BodyStep(j), BodyResult(j))
    /\ data' = [data EXCEPT ![x] = <<>>]
    /\ UNCHANGED <<record, blob>>

LockPublished(j) ==
    /\ response[j].mode \in {"fresh", "resume"} /\ BlobExists(FileOf(j))
    /\ EndAttempt(j, Ok(Whole(Expected)))
    /\ UNCHANGED diskVars

LockResume(j) ==
    LET x == FileOf(j) IN
    /\ response[j].mode = "resume" /\ ~BlobExists(x)
    /\ \/ /\ data[x] = None
          /\ EndAttempt(j, Err("protocol")) /\ UNCHANGED lock
       \/ /\ data[x] # None /\ record[x] = None
          /\ EndAttempt(j, Err("io")) /\ UNCHANGED lock
       \/ /\ data[x] # None /\ record[x] # None
          /\ IF ResumeOffset(x, response[j].validator) = resume[j].offset
             THEN Locked(j, BodyStep(j), BodyResult(j))
             ELSE Locked(j, "discard", Err("protocol"))
    /\ UNCHANGED <<data, record, blob>>

LockRefused(j) ==
    /\ response[j].mode = "refuse"
    /\ Locked(j, "discard", Err("validation"))
    /\ UNCHANGED <<data, record, blob>>

LockPartial(j) ==
    /\ pc[j] = "locking"
    /\ lock[FileOf(j)] = None
    /\ LockFresh(j) \/ LockPublished(j) \/ LockResume(j) \/ LockRefused(j)
    /\ UNCHANGED <<fetchVars, gcVars, auxVars>>

(***************************************************************************)
(* The body (stream_validated_body, append_bounded_body)                   *)
(***************************************************************************)
UnboundedChunk(j) ==
    LET x == FileOf(j) IN
    /\ pc[j] = "body" /\ Runs(j)
    /\ data' = [data EXCEPT ![x] = Append(@, response[j].version)]
    /\ pc' = [pc EXCEPT ![j] = BodyStep(j)]
    /\ result' = [result EXCEPT ![j] = BodyResult(j)]
    /\ UNCHANGED <<record, blob, lock, attempt, resume, response, fetchVars, gcVars, auxVars>>

BodyChunk(j) ==
    LET x == FileOf(j) IN
    /\ pc[j] = "body" /\ Runs(j)
    /\ Len(data[x]) < Size
    /\ data' = [data EXCEPT ![x] = Append(@, response[j].version)]
    /\ pc' = [pc EXCEPT ![j] = BodyStep(j)]
    /\ result' = [result EXCEPT ![j] = BodyResult(j)]
    /\ UNCHANGED <<record, blob, lock, attempt, resume, response, fetchVars, gcVars, auxVars>>

EndBody(j, step, r) ==
    /\ pc' = [pc EXCEPT ![j] = step]
    /\ result' = [result EXCEPT ![j] = r]
    /\ UNCHANGED <<attempt, resume, response, diskVars, fetchVars, gcVars, auxVars>>

(* The transport breaks in the body: a retryable error.                    *)
BodyBreaks(j) ==
    /\ pc[j] = "body" /\ Runs(j)
    /\ EndBody(j, "retain", Err("transport"))

(* The body runs over the size, or ends short of it. A short body after a  *)
(* cancellation is a cancellation when the body was a resumed one.         *)
BodyMisfits(j) ==
    /\ pc[j] = "body" /\ Runs(j)
    /\ \/ /\ Len(data[FileOf(j)]) = Size
          /\ EndBody(j, "discard", Err("validation"))
       \/ /\ Len(data[FileOf(j)]) < Size
          /\ IF response[j].mode = "resume" /\ token[j[1]]
             THEN EndBody(j, "retain", Err("cancelled"))
             ELSE EndBody(j, "discard", Err("validation"))

(* The body ends at the size: the content is checked against the entry.    *)
BodyEnds(j) ==
    LET x == FileOf(j) IN
    /\ pc[j] = "body" /\ Runs(j)
    /\ Len(data[x]) = Size
    /\ IF token[j[1]] THEN EndBody(j, "retain", Err("cancelled"))
       ELSE IF Verified(x, data[x]) THEN EndBody(j, "publish", Ok(data[x]))
       ELSE EndBody(j, "discard", Err("validation"))

(***************************************************************************)
(* After the body                                                          *)
(***************************************************************************)
Spend(item) == budget[item] > 0 /\ budget' = [budget EXCEPT ![item] = @ - 1]
Faulty == Spend("faults")

FinishLocked(j) == EndAttempt(j, result[j]) /\ UNCHANGED lock
Finish(j) == EndAttempt(j, result[j]) /\ Unlock(FileOf(j))

(* retain_resumable_partial: persist the record of what was received, or   *)
(* discard the partial.                                                    *)
RetainPartial(j) ==
    LET x == FileOf(j)
        received == Len(data[x])
        resumable == /\ received > 0 /\ received < Size
                     /\ response[j].validator # None \/ kind[x] = "lfs"
    IN
    /\ pc[j] = "retain" /\ Runs(j)
    /\ \/ /\ resumable
          /\ record' = [record EXCEPT ![x] =
                 [received |-> received, validator |-> response[j].validator, updated |-> clock]]
          /\ Finish(j) /\ UNCHANGED budget
       \/ /\ (~resumable /\ UNCHANGED budget) \/ (resumable /\ Faulty)
          /\ pc' = [pc EXCEPT ![j] = "discard"]
          /\ UNCHANGED <<record, lock, attempt, result, resume, response>>
    /\ UNCHANGED <<data, blob, fetchVars, gcVars, plan, kind, clock, torn>>

(* publish_validated_partial copies the partial into a blob of its digest. *)
PublishPartial(j) ==
    LET x == FileOf(j) IN
    /\ pc[j] = "publish" /\ Runs(j)
    /\ \/ /\ blob' = [blob EXCEPT ![x] = @ \cup {data[x]}]
          /\ pc' = [pc EXCEPT ![j] = "discard"]
          /\ UNCHANGED <<lock, attempt, resume, response, result, budget>>
       \/ /\ Faulty
          /\ EndAttempt(j, Err("io")) /\ Unlock(x)
          /\ UNCHANGED blob
    /\ UNCHANGED <<data, record, fetchVars, gcVars, plan, kind, clock, torn>>

(* discard_partial removes the data and then the record. A failure leaves  *)
(* what is left; it is the job's error only after a publication or where   *)
(* the discard is not a clean-up of another error.                         *)
DiscardFails(j) ==
    /\ Faulty
    /\ torn' = [torn EXCEPT ![FileOf(j)] = TRUE]
    /\ EndAttempt(j, IF result[j].kind \in {"ok", "protocol"} \/ response[j].mode = "refuse"
                     THEN Err("io") ELSE result[j])
    /\ Unlock(FileOf(j))
    /\ UNCHANGED <<data, record>>

DiscardData(j) ==
    /\ pc[j] = "discard" /\ Runs(j)
    /\ \/ /\ data' = [data EXCEPT ![FileOf(j)] = None]
          /\ pc' = [pc EXCEPT ![j] = "discard record"]
          /\ UNCHANGED <<record, lock, attempt, resume, response, result, budget, torn>>
       \/ DiscardFails(j)
    /\ UNCHANGED <<blob, fetchVars, gcVars, plan, kind, clock>>

DiscardRecord(j) ==
    /\ pc[j] = "discard record" /\ Runs(j)
    /\ \/ /\ record' = [record EXCEPT ![FileOf(j)] = None]
          /\ Finish(j)
          /\ UNCHANGED <<data, budget, torn>>
       \/ DiscardFails(j)
    /\ UNCHANGED <<blob, fetchVars, gcVars, plan, kind, clock>>

JobStep(j) ==
    \/ StartAttempt(j) \/ RequestFails(j) \/ FullResponse(j) \/ RangeResponse(j)
    \/ LockPartial(j)
    \/ BodyChunk(j) \/ BodyBreaks(j) \/ BodyMisfits(j) \/ BodyEnds(j)
    \/ RetainPartial(j) \/ PublishPartial(j) \/ DiscardData(j) \/ DiscardRecord(j)

(***************************************************************************)
(* The scheduler of a fetch (run_bounded)                                  *)
(***************************************************************************)
ActiveUntilDone(o) == {j \in Jobs(o) : j[2] < next[o] /\ pc[j] \notin {"idle", "done", "collected"}}
Active(o) == {j \in Jobs(o) : j[2] < next[o] /\ pc[j] \notin {"idle", "collected"}}
Polled(o) == phase[o] = "running" /\ \A j \in Jobs(o) : pc[j] # "locking"
Start(jobs) == [j \in Job |-> IF j \in jobs THEN "attempt" ELSE pc[j]]

Return(o, step) == phase' = [phase EXCEPT ![o] = step]

(* The first jobs are started, up to the concurrency.                      *)
BeginFetch(o) ==
    /\ phase[o] = "new" /\ plan[o] # <<>>
    /\ IF token[o]
       THEN /\ Return(o, "cancelled")
            /\ UNCHANGED <<pc, next>>
       ELSE LET first == {j \in Jobs(o) : j[2] <= budget.width} IN
            /\ Return(o, "running")
            /\ pc' = Start(first)
            /\ next' = [next EXCEPT ![o] = Cardinality(first) + 1]
    /\ UNCHANGED <<attempt, resume, response, result, token, results, error,
                   diskVars, gcVars, auxVars>>

More(o, failed) ==
    ~failed /\ error[o] = None /\ ~token[o] /\ <<o, next[o]>> \in Jobs(o)

(* A finished job is taken from the active ones: the first error cancels   *)
(* the token, and the next job starts only while nothing failed and the    *)
(* token is not set.                                                       *)
CollectJob(o, j) ==
    /\ Polled(o) /\ j \in Jobs(o) /\ pc[j] = "done"
    /\ LET failed == result[j].kind # "ok"
           first == error[o] = None
           more == More(o, failed)
       IN
       /\ token' = [token EXCEPT ![o] = @ \/ (failed /\ first)]
       /\ error' = [error EXCEPT ![o] = IF failed /\ first THEN result[j].kind ELSE @]
       /\ results' = [results EXCEPT ![o] =
              IF ~failed /\ first THEN @ \cup {<<j[2], result[j].content>>} ELSE @]
       /\ next' = [next EXCEPT ![o] = IF more THEN @ + 1 ELSE @]
       /\ pc' = [Start(IF more THEN {<<o, next[o]>>} ELSE {}) EXCEPT ![j] = "collected"]
       /\ result' = [result EXCEPT ![j] = None]
    /\ UNCHANGED <<attempt, resume, response, phase, diskVars, gcVars, auxVars>>

EndFetchUndrained(o) ==
    /\ Polled(o) /\ (Active(o) = {} \/ error[o] # None)
    /\ Return(o, IF error[o] # None THEN "failed"
                 ELSE IF token[o] THEN "cancelled" ELSE "complete")
    /\ UNCHANGED <<jobVars, token, next, results, error, diskVars, gcVars, auxVars>>

EndFetch(o) ==
    /\ Polled(o) /\ Active(o) = {}
    /\ Return(o, IF error[o] # None THEN "failed"
                 ELSE IF token[o] THEN "cancelled" ELSE "complete")
    /\ UNCHANGED <<jobVars, token, next, results, error, diskVars, gcVars, auxVars>>

(* The caller cancels the token it passed.                                 *)
Cancel(o) ==
    /\ phase[o] \in {"new", "running"} /\ plan[o] # <<>> /\ ~token[o]
    /\ Spend("cancels")
    /\ token' = [token EXCEPT ![o] = TRUE]
    /\ UNCHANGED <<jobVars, phase, next, results, error, diskVars, gcVars, plan, kind, clock, torn>>

(* The fetch's future is dropped or its process dies: the jobs it has      *)
(* started go with their locks, its files stay.                            *)
DropFetch(o) ==
    /\ phase[o] = "running" /\ Spend("drops")
    /\ LET held == {x \in File : lock[x] \in Jobs(o)} IN
       /\ lock' = [x \in File |-> IF x \in held THEN None ELSE lock[x]]
       /\ torn' = [x \in File |-> torn[x] \/ x \in held]
    /\ Return(o, "dropped")
    /\ pc' = [j \in Job |-> IF j \in Jobs(o) /\ pc[j] # "idle" THEN "collected" ELSE pc[j]]
    /\ UNCHANGED <<data, record, blob, attempt, resume, response, result, token, next,
                   results, error, gcVars, plan, kind, clock>>

(***************************************************************************)
(* Collection of partials (plan_partial_gc, execute_partial_gc)            *)
(***************************************************************************)
Aged(x) == clock - record[x].updated >= MinAge
InMaintenance == {g \in Collector : gc[g] \notin {"idle", "planned", "done"}}
GcFile(g) == candidate[g].file

Step(g, step) == gc' = [gc EXCEPT ![g] = step]

PlanPartialGc(g) ==
    /\ gc[g] = "idle" /\ Spend("plans")
    /\ \E x \in File :
           /\ data[x] # None /\ record[x] # None
           /\ record[x].received = Len(data[x]) /\ Aged(x)
           /\ candidate' = [candidate EXCEPT ![g] = [file |-> x, record |-> record[x]]]
    /\ Step(g, "planned")
    /\ UNCHANGED <<trash, diskVars, jobVars, fetchVars, plan, kind, clock, torn>>

EnterMaintenance(g) ==
    /\ gc[g] = "planned" /\ InMaintenance = {}
    /\ Step(g, "locking")
    /\ UNCHANGED <<candidate, trash, diskVars, jobVars, fetchVars, auxVars>>

(* The candidate is revalidated under the partial lock; a tombstone is     *)
(* written before anything moves.                                          *)
StillThere(g) == data[GcFile(g)] # None /\ record[GcFile(g)] # None
StillCandidate(g) ==
    LET x == GcFile(g) IN
    /\ data[x] # None /\ record[x] = candidate[g].record
    /\ Len(data[x]) = record[x].received /\ Aged(x)

RevalidatePartial(g) ==
    /\ gc[g] = "locking" /\ lock[GcFile(g)] = None
    /\ IF StillCandidate(g)
       THEN /\ lock' = [lock EXCEPT ![GcFile(g)] = g]
            /\ trash' = [trash EXCEPT ![g] = {"tombstone"}]
            /\ Step(g, "trash record")
       ELSE Step(g, "done") /\ UNCHANGED <<lock, trash>>
    /\ UNCHANGED <<candidate, data, record, blob, jobVars, fetchVars, auxVars>>

TrashRecord(g) ==
    /\ gc[g] = "trash record"
    /\ record' = [record EXCEPT ![GcFile(g)] = None]
    /\ trash' = [trash EXCEPT ![g] = @ \cup {"record"}]
    /\ Step(g, "trash data")
    /\ UNCHANGED <<candidate, data, blob, lock, jobVars, fetchVars, auxVars>>

TrashData(g) ==
    /\ gc[g] = "trash data"
    /\ \/ /\ data' = [data EXCEPT ![GcFile(g)] = None]
          /\ trash' = [trash EXCEPT ![g] = @ \cup {"data"}]
          /\ Step(g, "empty")
          /\ UNCHANGED <<lock, budget>>
       \/ /\ Faulty
          /\ Step(g, "done") /\ Unlock(GcFile(g))
          /\ UNCHANGED <<data, trash>>
    /\ UNCHANGED <<candidate, record, blob, jobVars, fetchVars, plan, kind, clock, torn>>

(* The record, the data and at last the tombstone are removed.             *)
TombstoneFirst == <<"tombstone", "record", "data">>
RemovalOrder == <<"record", "data", "tombstone">>
EmptyTrash(g) ==
    /\ gc[g] = "empty"
    /\ LET i == CHOOSE k \in 1 .. 3 : /\ RemovalOrder[k] \in trash[g]
                                      /\ \A m \in 1 .. k - 1 : RemovalOrder[m] \notin trash[g]
       IN /\ trash' = [trash EXCEPT ![g] = @ \ {RemovalOrder[i]}]
          /\ IF i = 3 THEN Step(g, "done") /\ Unlock(GcFile(g))
             ELSE UNCHANGED <<gc, lock>>
    /\ UNCHANGED <<candidate, data, record, blob, jobVars, fetchVars, auxVars>>

DropCollector(g) ==
    /\ gc[g] \notin {"idle", "done"} /\ Spend("drops")
    /\ Step(g, "done")
    /\ lock' = [x \in File |-> IF lock[x] = g THEN None ELSE lock[x]]
    /\ UNCHANGED <<candidate, trash, data, record, blob, jobVars, fetchVars, plan, kind, clock, torn>>

Tick ==
    /\ Spend("ticks")
    /\ clock' = clock + 1
    /\ UNCHANGED <<diskVars, jobVars, fetchVars, gcVars, plan, kind, torn>>

(***************************************************************************)
(* Specification                                                           *)
(***************************************************************************)
Init ==
    /\ \E s \in Scenarios : plan = s.plan /\ kind = s.kind /\ budget = s.budget
    /\ data = [x \in File |-> None]
    /\ record = [x \in File |-> None]
    /\ blob = [x \in File |-> {}]
    /\ lock = [x \in File |-> None]
    /\ trash = [g \in Collector |-> {}]
    /\ clock = 0
    /\ pc = [j \in Job |-> "idle"]
    /\ attempt = [j \in Job |-> 1]
    /\ resume = [j \in Job |-> None]
    /\ response = [j \in Job |-> None]
    /\ result = [j \in Job |-> None]
    /\ token = [o \in Fetch |-> FALSE]
    /\ phase = [o \in Fetch |-> "new"]
    /\ next = [o \in Fetch |-> 1]
    /\ results = [o \in Fetch |-> {}]
    /\ error = [o \in Fetch |-> None]
    /\ gc = [g \in Collector |-> "idle"]
    /\ candidate = [g \in Collector |-> None]
    /\ torn = [x \in File |-> FALSE]

FetchStep(o) == BeginFetch(o) \/ EndFetch(o) \/ \E j \in Jobs(o) : CollectJob(o, j)
CollectorStep(g) ==
    \/ EnterMaintenance(g) \/ RevalidatePartial(g) \/ TrashRecord(g)
    \/ TrashData(g) \/ EmptyTrash(g)

Next ==
    \/ \E o \in Fetch : (\E j \in Jobs(o) : JobStep(j)) \/ FetchStep(o) \/ Cancel(o) \/ DropFetch(o)
    \/ \E g \in Collector : PlanPartialGc(g) \/ CollectorStep(g) \/ DropCollector(g)
    \/ Tick

Spec == Init /\ [][Next]_vars

(* A runtime polls a task that is ready, and a transport ends every body   *)
(* and every request, with an error if need be. A lock is granted when it  *)
(* is free for good. Nothing makes the caller cancel, or a plan be made.   *)
Fairness ==
    /\ \A j \in Job : WF_vars(JobStep(j))
    /\ \A o \in Fetch : WF_vars(FetchStep(o))
    /\ \A g \in Collector : WF_vars(CollectorStep(g))

FairSpec == Spec /\ Fairness

(***************************************************************************)
(* Properties                                                              *)
(***************************************************************************)
JobSteps == {"idle", "attempt", "request", "locking", "body", "retain", "publish",
             "discard", "discard record", "done", "collected"}
Contents == UNION {[1 .. n -> Version] : n \in 0 .. Size}
Resumption == [offset : 1 .. Size - 1, validator : Validators]
Response == [mode : {"fresh", "resume", "refuse"}, version : Version, validator : Validators]
Result == [kind : {"ok"}, content : Seq(Version)] \cup [kind : ErrorKinds, content : {<<>>}]
Candidate == [file : File, record : PartialRecord]
GcSteps == {"idle", "planned", "locking", "trash record", "trash data", "empty", "done"}

(* Every variable keeps its type, and the partial file never outgrows the  *)
(* size of the entry (the bound of stream_validated_body and               *)
(* append_bounded_body).                                                   *)
TypeOK ==
    /\ data \in [File -> {None} \cup Contents]
    /\ record \in [File -> {None} \cup PartialRecord]
    /\ blob \in [File -> SUBSET [1 .. Size -> Version]]
    /\ lock \in [File -> {None} \cup Job \cup Collector]
    /\ trash \in [Collector -> SUBSET {"tombstone", "record", "data"}]
    /\ clock \in Nat
    /\ pc \in [Job -> JobSteps]
    /\ attempt \in [Job -> 1 .. budget.attempts]
    /\ resume \in [Job -> {None} \cup Resumption]
    /\ response \in [Job -> {None} \cup Response]
    /\ result \in [Job -> {None} \cup Result]
    /\ token \in [Fetch -> BOOLEAN]
    /\ phase \in [Fetch -> {"new", "running", "complete", "failed", "cancelled", "dropped"}]
    /\ next \in [Fetch -> Nat]
    /\ \A o \in Fetch : next[o] \in 1 .. Len(plan[o]) + 1
    /\ results \in [Fetch -> SUBSET ((1 .. Cardinality(File)) \X [1 .. Size -> Version])]
    /\ error \in [Fetch -> {None} \cup ErrorKinds]
    /\ gc \in [Collector -> GcSteps]
    /\ candidate \in [Collector -> {None} \cup Candidate]
    /\ budget \in Budgets
    /\ torn \in [File -> BOOLEAN]

(* A file whose tree entry carries a digest is published with exactly the  *)
(* content the entry describes, whatever versions the server mixes over    *)
(* resumed, restarted, retried, raced and dropped transfers                *)
(* (transfer_engine.rs:301-318, transfer.rs:226-234).                      *)
PublishedMatchesEntry ==
    \A x \in File : kind[x] # "opaque" => blob[x] \subseteq {Whole(Expected)}

(* Even with only the size to check, what is published is one version from *)
(* end to end: resumption is bound to the validator of the bytes it        *)
(* extends. It can fail only where a transfer was cut short on the file,   *)
(* since create_fresh_partial_sink leaves the record of the bytes it       *)
(* replaces (publication.rs:1842-1851).                                    *)
PublishedIsOneVersion ==
    \A x \in File : ~torn[x] => blob[x] \subseteq {Whole(v) : v \in Version}

(* While no transfer of the file is under way, a record that makes its     *)
(* data resumable tells the truth: the data is that many chunks of the     *)
(* version its validator names.                                            *)
ResumableRecordIsTrue ==
    \A x \in File :
        (/\ lock[x] = None /\ ~torn[x] /\ kind[x] # "lfs"
         /\ data[x] # None /\ record[x] # None
         /\ record[x].received = Len(data[x]))
        => data[x] = [i \in 1 .. record[x].received |-> record[x].validator]

(* A completed fetch returns one digest for every planned file, and each   *)
(* is the digest of a published blob.                                      *)
CompleteMeansPublished ==
    \A o \in Fetch : phase[o] = "complete" =>
        /\ Cardinality(results[o]) = Len(plan[o])
        /\ \A j \in Jobs(o) : \E p \in results[o] : p[1] = j[2] /\ p[2] \in blob[FileOf(j)]

(* A fetch that has returned or was dropped leaves no partial lock behind  *)
(* and no job in flight.                                                   *)
NoJobOutlivesFetch ==
    \A o \in Fetch : phase[o] \notin {"new", "running"} =>
        /\ \A x \in File : lock[x] \notin Jobs(o)
        /\ \A j \in Jobs(o) : pc[j] \in {"idle", "collected"}

(* Whatever a collection has moved to the trash is accounted for by its    *)
(* tombstone, at every point it can fail or be cut short.                  *)
TrashHasTombstone ==
    \A g \in Collector : trash[g] # {} => "tombstone" \in trash[g]

KeptStep ==
    \A g \in Collector : gc[g] = "trash record" /\ gc'[g] = "trash data" =>
        /\ record[GcFile(g)] = candidate[g].record
        /\ data[GcFile(g)] # None
        /\ Len(data[GcFile(g)]) = candidate[g].record.received

(* A partial that a transfer has touched since the collection was planned  *)
(* is not collected: its record is still the planned one and its data      *)
(* still of the recorded size.                                             *)
TouchedPartialKept == [][KeptStep]_vars

(* Every fetch comes to an end, whatever it shares with others: it returns *)
(* or it is dropped (rfcs/0001, concurrent identical fetches).             *)
FetchesReturn == \A o \in Fetch : phase[o] = "running" ~> phase[o] # "running"

(* Everything that waits for a partial lock gets past it: fetches end, and *)
(* a collection that has entered maintenance leaves it although it waits   *)
(* for every candidate (execute_partial_gc, lock_partial).                 *)
OperationsReturn ==
    /\ FetchesReturn
    /\ \A g \in Collector : gc[g] = "locking" ~> gc[g] = "done"

(***************************************************************************)
(* The inductive invariant behind the safety properties                    *)
(***************************************************************************)
Holding == {"body", "retain", "publish", "discard", "discard record"}
Collecting == {"trash record", "trash data", "empty"}
Answered == {"locking"} \cup Holding
Ended == {"retain", "publish", "discard", "discard record", "done"}

(* What the scenario fixes: each file is planned once in a fetch.          *)
Planned ==
    /\ plan \in [Fetch -> Seq(File)]
    /\ \A o \in Fetch : \A i, k \in DOMAIN plan[o] : plan[o][i] = plan[o][k] => i = k
    /\ kind \in [File -> EntryKinds]

(* run_bounded starts the jobs in order: those before next have started.   *)
Started ==
    /\ \A j \in Job : pc[j] # "idle" => j \in Jobs(j[1]) /\ j[2] < next[j[1]]
    /\ \A o \in Fetch : \A j \in Jobs(o) : j[2] < next[o] => pc[j] # "idle"
    /\ \A o \in Fetch : phase[o] = "new" => next[o] = 1

(* A partial lock is held exactly by the job or the collector that is      *)
(* between taking and releasing it.                                        *)
Exclusive ==
    /\ \A x \in File, j \in Job : lock[x] = j => pc[j] \in Holding /\ FileOf(j) = x
    /\ \A j \in Job : pc[j] \in Holding => lock[FileOf(j)] = j
    /\ \A x \in File, g \in Collector : lock[x] = g => gc[g] \in Collecting /\ GcFile(g) = x
    /\ \A g \in Collector : gc[g] \in Collecting => lock[GcFile(g)] = g

(* What an attempt has when it gets to a step.                             *)
Equipped(j) ==
    /\ pc[j] \in Answered => response[j] \in Response
    /\ pc[j] \in Answered /\ response[j].mode = "resume" => resume[j] \in Resumption
    /\ pc[j] \in {"body", "retain", "publish"} => data[FileOf(j)] \in Contents
    /\ pc[j] \in Ended => result[j] \in Result
    /\ pc[j] = "retain" => result[j].kind # "ok"

(* A job that is to succeed is about to publish what it has verified, or   *)
(* names content that has been published.                                  *)
Honest(j) ==
    /\ pc[j] = "publish" =>
           /\ Len(data[FileOf(j)]) = Size
           /\ Verified(FileOf(j), data[FileOf(j)])
           /\ result[j] = Ok(data[FileOf(j)])
    /\ pc[j] \in {"discard", "discard record", "done"} /\ result[j].kind = "ok" =>
           result[j].content \in blob[FileOf(j)]

(* A response that may be appended to what is there is of the version the  *)
(* partial is of, unless the tree entry has the digest to tell in the end. *)
Bound(x) == kind[x] # "lfs" /\ ~torn[x]
Copies(v, n) == [i \in 1 .. n |-> v]
OneVersion(j) ==
    LET x == FileOf(j) IN
    /\ pc[j] \in {"locking", "body", "retain"} /\ response[j].mode = "fresh" =>
           response[j].validator \in {response[j].version, None}
    /\ pc[j] \in {"locking", "body", "retain"} /\ response[j].mode = "resume"
           /\ kind[x] # "lfs" => response[j].validator = response[j].version
    /\ pc[j] \in {"body", "retain"} => response[j].mode # "refuse"
    /\ pc[j] \in {"body", "retain"} /\ Bound(x) =>
           data[x] = Copies(response[j].version, Len(data[x]))
    /\ pc[j] = "publish" /\ Bound(x) => \E v \in Version : data[x] = Copies(v, Len(data[x]))

(* What a fetch has collected: one result for every job that has been      *)
(* taken, and a job in flight as long as there is one left to start.       *)
Collected(o) ==
    /\ \A p \in results[o] :
           /\ p[1] \in DOMAIN plan[o]
           /\ p[2] \in blob[plan[o][p[1]]]
           /\ pc[<<o, p[1]>>] = "collected"
    /\ \A p, q \in results[o] : p[1] = q[1] => p = q
    /\ phase[o] \in {"running", "complete"} /\ error[o] = None =>
           \A j \in Jobs(o) : pc[j] = "collected" => \E p \in results[o] : p[1] = j[2]
    /\ phase[o] = "running" /\ error[o] = None /\ ~token[o] =>
           next[o] = Len(plan[o]) + 1 \/ Active(o) # {}
    /\ phase[o] = "complete" =>
           error[o] = None /\ \A j \in Jobs(o) : pc[j] = "collected"

(* The collection of a partial, step by step.                              *)
Trashed(g) ==
    /\ gc[g] # "idle" => candidate[g] \in Candidate
    /\ gc[g] \in {"idle", "planned", "locking"} => trash[g] = {}
    /\ gc[g] \in Collecting => "tombstone" \in trash[g]
    /\ gc[g] = "trash record" =>
           /\ record[GcFile(g)] = candidate[g].record
           /\ data[GcFile(g)] # None
           /\ Len(data[GcFile(g)]) = candidate[g].record.received
    /\ gc[g] \in {"trash data", "empty"} => record[GcFile(g)] = None

(* A record is only written for a partial that is neither empty nor whole. *)
(* While no job holds the partial, a record that fits its data is true.    *)
Recorded(x) ==
    /\ record[x] # None => record[x].received \in 1 .. Size - 1
    /\ lock[x] \notin Job /\ Bound(x) /\ data[x] # None /\ record[x] # None
           /\ record[x].received = Len(data[x])
           => data[x] = Copies(record[x].validator, Len(data[x]))

(* What is published for a file is what its entry describes, as far as the *)
(* entry tells, and of one version.                                        *)
Published(x) ==
    /\ kind[x] # "opaque" => blob[x] \subseteq {Whole(Expected)}
    /\ ~torn[x] => blob[x] \subseteq {Whole(v) : v \in Version}

IInv ==
    /\ TypeOK /\ Planned /\ Started /\ Exclusive
    /\ \A j \in Job : Equipped(j) /\ Honest(j) /\ OneVersion(j)
    /\ \A x \in File : Recorded(x) /\ Published(x)
    /\ \A o \in Fetch : Collected(o)
    /\ \A g \in Collector : Trashed(g)
    /\ NoJobOutlivesFetch /\ TrashHasTombstone
==============================================================================

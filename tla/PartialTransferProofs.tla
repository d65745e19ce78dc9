------------------------ MODULE PartialTransferProofs ------------------------
(***************************************************************************)
(* Theorems about PartialTransfer, for every set of fetches, files and     *)
(* collectors, every size, any number of versions of the bytes and every   *)
(* budget of faults, retries and cancellations.                            *)
(***************************************************************************)
EXTENDS PartialTransfer, FiniteSetTheorems, FunctionTheorems, TLAPS

-----------------------------------------------------------------------------
(* The parts of the type invariant.                                        *)

FileTyped ==
    /\ data \in [File -> {None} \cup Contents]
    /\ record \in [File -> {None} \cup PartialRecord]
    /\ blob \in [File -> SUBSET [1 .. Size -> Version]]
    /\ lock \in [File -> {None} \cup Job \cup Collector]
    /\ torn \in [File -> BOOLEAN]

JobTyped ==
    /\ pc \in [Job -> JobSteps]
    /\ attempt \in [Job -> 1 .. budget.attempts]
    /\ resume \in [Job -> {None} \cup Resumption]
    /\ response \in [Job -> {None} \cup Response]
    /\ result \in [Job -> {None} \cup Result]

FetchTyped ==
    /\ token \in [Fetch -> BOOLEAN]
    /\ phase \in [Fetch -> {"new", "running", "complete", "failed", "cancelled", "dropped"}]
    /\ next \in [Fetch -> Nat]
    /\ \A o \in Fetch : next[o] \in 1 .. Len(plan[o]) + 1
    /\ results \in [Fetch -> SUBSET ((1 .. Cardinality(File)) \X [1 .. Size -> Version])]
    /\ error \in [Fetch -> {None} \cup ErrorKinds]

GcTyped ==
    /\ trash \in [Collector -> SUBSET {"tombstone", "record", "data"}]
    /\ gc \in [Collector -> GcSteps]
    /\ candidate \in [Collector -> {None} \cup Candidate]

\* The type invariant is the conjunction of its parts.
LEMMA Typed ==
  TypeOK <=> /\ FileTyped /\ JobTyped /\ FetchTyped /\ GcTyped
             /\ clock \in Nat /\ budget \in Budgets
BY DEF TypeOK, FileTyped, JobTyped, FetchTyped, GcTyped

\* The same one state later.
LEMMA TypedNext ==
  TypeOK' <=> /\ FileTyped' /\ JobTyped' /\ FetchTyped' /\ GcTyped'
              /\ clock' \in Nat /\ budget' \in Budgets
BY DEF TypeOK, FileTyped, JobTyped, FetchTyped, GcTyped

-----------------------------------------------------------------------------
(* The variables a job cannot change.                                      *)

\* A fetch has no more jobs than there are files, since each is planned once.
LEMMA JobsTyped ==
  ASSUME Planned, NEW o \in Fetch
  PROVE  /\ Jobs(o) \subseteq Job
         /\ \A j \in Jobs(o) : FileOf(j) \in File /\ j[1] = o /\ j[2] \in DOMAIN plan[o]
         /\ Len(plan[o]) <= Cardinality(File)
<1>1. /\ plan[o] \in Seq(File) /\ DOMAIN plan[o] = 1 .. Len(plan[o]) /\ Len(plan[o]) \in Nat
      /\ plan[o] \in [1 .. Len(plan[o]) -> File]
  BY DEF Planned
<1>2. plan[o] \in Injection(1 .. Len(plan[o]), File)
  BY <1>1 DEF Planned, Injection, IsInjective
<1>3. Cardinality(1 .. Len(plan[o])) <= Cardinality(File)
  BY <1>2, FileAssumption, FS_Injection
<1>4. Cardinality(1 .. Len(plan[o])) = Len(plan[o])
  BY <1>1, FS_Interval
<1>5. Cardinality(File) \in Nat
  BY FileAssumption, FS_CardinalityType
<1>6. Len(plan[o]) <= Cardinality(File)
  BY <1>3, <1>4
<1>7. Jobs(o) \subseteq Job
  BY <1>1, <1>5, <1>6 DEF Jobs, Job
<1>8. \A j \in Jobs(o) : FileOf(j) \in File /\ j[1] = o /\ j[2] \in DOMAIN plan[o]
  BY <1>1 DEF Jobs, FileOf
<1> QED
  BY <1>6, <1>7, <1>8

\* A job that has started is one of its fetch's and has a file.
LEMMA StartedJob ==
  ASSUME Planned, Started, NEW j \in Job, pc[j] # "idle"
  PROVE  /\ j[1] \in Fetch /\ j \in Jobs(j[1]) /\ FileOf(j) \in File
         /\ j[2] \in DOMAIN plan[j[1]] /\ j = <<j[1], j[2]>>
<1>1. j[1] \in Fetch /\ j \in Jobs(j[1]) /\ j = <<j[1], j[2]>>
  BY DEF Started, Job
<1> QED
  BY <1>1, JobsTyped

\* A collector that has planned has a candidate.
LEMMA Candidates ==
  ASSUME NEW g \in Collector, Trashed(g), gc[g] # "idle"
  PROVE  /\ GcFile(g) \in File /\ candidate[g].record \in PartialRecord
BY DEF Trashed, GcFile, Candidate

\* What the steps of a job have in common.
JobEffect(j) ==
    LET x == FileOf(j) IN
    /\ pc[j] \notin {"idle", "done", "collected"}
    /\ pc' = [pc EXCEPT ![j] = pc'[j]]
    /\ pc'[j] \notin {"idle", "collected"}
    /\ attempt' = [attempt EXCEPT ![j] = attempt'[j]]
    /\ resume' = [resume EXCEPT ![j] = resume'[j]]
    /\ response' = [response EXCEPT ![j] = response'[j]]
    /\ result' = [result EXCEPT ![j] = result'[j]]
    /\ data' = [data EXCEPT ![x] = data'[x]]
    /\ record' = [record EXCEPT ![x] = record'[x]]
    /\ blob' = [blob EXCEPT ![x] = blob'[x]]
    /\ lock' = [lock EXCEPT ![x] = lock'[x]]
    /\ torn' = [torn EXCEPT ![x] = torn'[x]]
    /\ blob[x] \subseteq blob'[x] /\ (torn[x] => torn'[x])
    /\ pc[j] \in Holding \/ lock[x] = None \/ (data'[x] = data[x] /\ record'[x] = record[x])
    /\ lock'[x] = IF pc'[j] \in Holding THEN j ELSE IF pc[j] \in Holding THEN None ELSE lock[x]
    /\ pc'[j] \in Holding => pc[j] \in Holding \/ lock[x] = None
    /\ UNCHANGED <<fetchVars, gcVars, plan, kind, clock>>
    /\ budget'.attempts = budget.attempts

\* What the step of a job has to leave behind for the job and its file.
JobTypedAt(j) ==
    LET x == FileOf(j) IN
    /\ data[x] \in {None} \cup Contents
    /\ record[x] \in {None} \cup PartialRecord
    /\ blob[x] \in SUBSET [1 .. Size -> Version]
    /\ torn[x] \in BOOLEAN
    /\ pc[j] \in JobSteps
    /\ attempt[j] \in 1 .. budget.attempts
    /\ resume[j] \in {None} \cup Resumption /\ response[j] \in {None} \cup Response
    /\ result[j] \in {None} \cup Result
    /\ budget \in Budgets

JobKeeps(j) ==
    /\ JobTypedAt(j)
    /\ Equipped(j) /\ Honest(j) /\ OneVersion(j)
    /\ Recorded(FileOf(j)) /\ Published(FileOf(j))

\* FileOf does not change under a step of a job.
LEMMA JobFiles ==
  ASSUME NEW j, JobEffect(j)
  PROVE  /\ \A k : FileOf(k)' = FileOf(k)
         /\ \A o : Jobs(o)' = Jobs(o)
         /\ \A g : GcFile(g)' = GcFile(g)
BY DEF JobEffect, FileOf, Jobs, GcFile, gcVars

\* A step of a job that has what it needs for itself keeps the types.
LEMMA JobTypes ==
  ASSUME IInv, NEW j \in Job, JobEffect(j), JobKeeps(j)'
  PROVE  TypeOK'
<1>1. FileOf(j) \in File
  BY StartedJob DEF IInv, JobEffect
<1>2. FileOf(j)' = FileOf(j)
  BY JobFiles
<1>3. FileTyped /\ JobTyped /\ FetchTyped /\ GcTyped /\ clock \in Nat /\ budget \in Budgets
  BY Typed DEF IInv
<1>4. FileTyped'
  <2>1. /\ data'[FileOf(j)] \in {None} \cup Contents
        /\ record'[FileOf(j)] \in {None} \cup PartialRecord
        /\ blob'[FileOf(j)] \in SUBSET [1 .. Size -> Version]
        /\ torn'[FileOf(j)] \in BOOLEAN
    BY <1>2 DEF JobKeeps, JobTypedAt
  <2>2. lock'[FileOf(j)] \in {None} \cup Job \cup Collector
    BY <1>1, <1>3 DEF JobEffect, FileTyped
  <2> QED
    BY <1>1, <1>3, <2>1, <2>2 DEF FileTyped, JobEffect
<1>5. JobTyped'
  <2>1. /\ pc'[j] \in JobSteps /\ attempt'[j] \in 1 .. budget'.attempts
        /\ resume'[j] \in {None} \cup Resumption /\ response'[j] \in {None} \cup Response /\ result'[j] \in {None} \cup Result
    BY DEF JobKeeps, JobTypedAt
  <2>2. /\ pc' = [pc EXCEPT ![j] = pc'[j]] /\ attempt' = [attempt EXCEPT ![j] = attempt'[j]]
        /\ resume' = [resume EXCEPT ![j] = resume'[j]]
        /\ response' = [response EXCEPT ![j] = response'[j]]
        /\ result' = [result EXCEPT ![j] = result'[j]]
        /\ budget'.attempts = budget.attempts
    BY DEF JobEffect
  <2> QED
    BY <1>3, <2>1, <2>2 DEF JobTyped
<1>6. FetchTyped' /\ GcTyped' /\ clock' \in Nat
  BY <1>3 DEF JobEffect, FetchTyped, GcTyped, fetchVars, gcVars
<1>7. budget' \in Budgets
  BY DEF JobKeeps, JobTypedAt
<1> QED
  BY <1>4, <1>5, <1>6, <1>7, TypedNext

\* A step of a job leaves what the other jobs rely on.
LEMMA JobOthers ==
  ASSUME IInv, NEW j \in Job, JobEffect(j), NEW k \in Job, k # j
  PROVE  (Equipped(k) /\ Honest(k) /\ OneVersion(k))'
<1>1. FileOf(j) \in File /\ FileTyped /\ JobTyped
  BY StartedJob, Typed DEF IInv, JobEffect
<1>2. FileOf(k)' = FileOf(k)
  BY JobFiles
<1>3. /\ pc'[k] = pc[k] /\ response'[k] = response[k] /\ resume'[k] = resume[k]
      /\ result'[k] = result[k]
  BY <1>1 DEF JobEffect, JobTyped
<1>4. CASE pc[k] = "idle"
  BY <1>3, <1>4 DEF Equipped, Honest, OneVersion, Answered, Holding, Ended
<1>5. CASE pc[k] # "idle"
  <2>1. FileOf(k) \in File
    BY <1>5, StartedJob DEF IInv
  <2>2. blob[FileOf(k)] \subseteq blob'[FileOf(k)] /\ (torn[FileOf(k)] => torn'[FileOf(k)])
    BY <1>1, <2>1 DEF JobEffect, FileTyped
  <2>3. pc[k] \in Holding => data'[FileOf(k)] = data[FileOf(k)]
    <3> SUFFICES ASSUME pc[k] \in Holding PROVE data'[FileOf(k)] = data[FileOf(k)]
      OBVIOUS
    <3>1. lock[FileOf(k)] = k
      BY DEF IInv, Exclusive
    <3>2. CASE FileOf(k) # FileOf(j)
      BY <1>1, <2>1, <3>2 DEF JobEffect, FileTyped
    <3>3. CASE FileOf(k) = FileOf(j)
      <4>1. pc[j] \notin Holding
        BY <3>1, <3>3 DEF IInv, Exclusive
      <4>2. lock[FileOf(j)] # None
        BY <3>1, <3>3, ActorAssumption
      <4> QED
        BY <3>3, <4>1, <4>2 DEF JobEffect
    <3> QED
      BY <3>2, <3>3
  <2>4. kind' = kind
    BY DEF JobEffect
  <2>5. Equipped(k)
    BY DEF IInv
  <2>6. Honest(k)
    BY DEF IInv
  <2>7. OneVersion(k)
    BY DEF IInv
  <2>8. Equipped(k)'
    BY <1>2, <1>3, <2>3, <2>5 DEF Equipped, Holding
  <2>9. Honest(k)'
    BY <1>2, <1>3, <2>2, <2>3, <2>4, <2>6 DEF Honest, Holding, Verified
  <2>10. OneVersion(k)'
    BY <1>2, <1>3, <2>2, <2>3, <2>4, <2>7 DEF OneVersion, Holding, Bound
  <2> QED
    BY <2>8, <2>9, <2>10
<1> QED
  BY <1>4, <1>5

\* A step of a job keeps the locks exclusive.
LEMMA JobLocks ==
  ASSUME IInv, NEW j \in Job, JobEffect(j)
  PROVE  Exclusive'
<1> DEFINE x == FileOf(j)
<1>1. x \in File /\ FileTyped /\ JobTyped
  BY StartedJob, Typed DEF IInv, JobEffect
<1>2. /\ \A k : FileOf(k)' = FileOf(k)
      /\ \A g : GcFile(g)' = GcFile(g)
  BY JobFiles
<1>3. \A k \in Job : k # j => pc'[k] = pc[k]
  BY <1>1 DEF JobEffect, JobTyped
<1>4. \A y \in File : y # x => lock'[y] = lock[y]
  BY <1>1 DEF JobEffect, FileTyped
<1>5. lock'[x] = IF pc'[j] \in Holding THEN j ELSE IF pc[j] \in Holding THEN None ELSE lock[x]
  BY DEF JobEffect
<1>6. Exclusive
  BY DEF IInv
<1>7. gc' = gc
  BY DEF JobEffect, gcVars
<1>8. pc[j] \in Holding => lock[x] = j
  BY <1>6 DEF Exclusive
<1>9. None \notin Job /\ None \notin Collector /\ Job \cap Collector = {}
  BY ActorAssumption
<1>10. pc'[j] \in Holding => lock[x] = j \/ lock[x] = None
  BY <1>8 DEF JobEffect
<1>11. \A k \in Job : k # j /\ pc[k] # "idle" => FileOf(k) \in File
  BY StartedJob DEF IInv
<1> HIDE DEF x
<1>12. ASSUME NEW y \in File, NEW k \in Job, lock'[y] = k
       PROVE  pc'[k] \in Holding /\ FileOf(k) = y
  <2>1. CASE y # x
    <3>1. lock[y] = k
      BY <1>4, <1>12, <2>1
    <3>2. pc[k] \in Holding /\ FileOf(k) = y
      BY <1>6, <3>1 DEF Exclusive
    <3>3. k # j
      BY <2>1, <3>2 DEF x
    <3> QED
      BY <1>3, <3>2, <3>3
  <2>2. CASE y = x
    <3>1. CASE pc'[j] \in Holding
      BY <1>5, <1>12, <2>2, <3>1 DEF x
    <3>2. CASE pc'[j] \notin Holding /\ pc[j] \in Holding
      BY <1>5, <1>9, <1>12, <2>2, <3>2
    <3>3. CASE pc'[j] \notin Holding /\ pc[j] \notin Holding
      <4>1. lock[x] = k
        BY <1>5, <1>12, <2>2, <3>3
      <4>2. pc[k] \in Holding /\ FileOf(k) = x
        BY <1>1, <1>6, <4>1 DEF Exclusive
      <4> QED
        BY <1>3, <2>2, <3>3, <4>2
    <3> QED
      BY <3>1, <3>2, <3>3
  <2> QED
    BY <2>1, <2>2
<1>13. ASSUME NEW k \in Job, pc'[k] \in Holding
       PROVE  lock'[FileOf(k)] = k
  <2>1. CASE k = j
    BY <1>5, <1>13, <2>1 DEF x
  <2>2. CASE k # j
    <3>1. pc[k] \in Holding /\ lock[FileOf(k)] = k
      BY <1>3, <1>6, <1>13, <2>2 DEF Exclusive
    <3>2. FileOf(k) \in File
      BY <1>11, <2>2, <3>1 DEF Holding
    <3>3. CASE FileOf(k) # x
      BY <1>4, <3>1, <3>2, <3>3
    <3>4. CASE FileOf(k) = x
      BY <1>5, <1>8, <1>9, <1>10, <2>2, <3>1, <3>4
    <3> QED
      BY <3>3, <3>4
  <2> QED
    BY <2>1, <2>2
<1>14. ASSUME NEW y \in File, NEW g \in Collector, lock'[y] = g
       PROVE  gc[g] \in Collecting /\ GcFile(g) = y
  BY <1>4, <1>5, <1>6, <1>9, <1>14 DEF Exclusive
<1>15. ASSUME NEW g \in Collector, gc[g] \in Collecting
       PROVE  lock'[GcFile(g)] = g
  <2>1. lock[GcFile(g)] = g
    BY <1>6, <1>15 DEF Exclusive
  <2>2. CASE GcFile(g) = x
    BY <1>5, <1>8, <1>9, <1>10, <2>1, <2>2
  <2>3. CASE GcFile(g) # x
    BY <1>4, <1>15, <2>1, <2>3, Candidates DEF IInv, Collecting
  <2> QED
    BY <2>2, <2>3
<1> QED
  BY <1>2, <1>7, <1>12, <1>13, <1>14, <1>15 DEF Exclusive

\* A step of a job starts none and takes none, and no fetch that has ended
\* has one to make a step.
LEMMA JobFetches ==
  ASSUME IInv, NEW j \in Job, JobEffect(j)
  PROVE  /\ Planned' /\ Started'
         /\ \A o \in Fetch : Collected(o)'
         /\ NoJobOutlivesFetch'
<1>1. FileTyped /\ JobTyped /\ FetchTyped /\ Planned /\ Started
  BY Typed DEF IInv
<1>2. /\ \A k : FileOf(k)' = FileOf(k)
      /\ \A o : Jobs(o)' = Jobs(o)
  BY JobFiles
<1>3. /\ \A k \in Job : k # j => pc'[k] = pc[k]
      /\ pc[j] \notin {"idle", "done", "collected"} /\ pc'[j] \notin {"idle", "collected"}
  BY <1>1 DEF JobEffect, JobTyped
<1>4. /\ phase' = phase /\ next' = next /\ results' = results /\ error' = error
      /\ token' = token /\ plan' = plan /\ kind' = kind
  BY DEF JobEffect, fetchVars
<1>5. \A y \in File : blob[y] \subseteq blob'[y]
  BY <1>1, StartedJob DEF JobEffect, FileTyped
<1>6. \A o \in Fetch : Jobs(o) \subseteq Job
  BY <1>1, JobsTyped
<1>7. Planned'
  BY <1>1, <1>4 DEF Planned
<1>8. Started'
  BY <1>1, <1>2, <1>3, <1>4, <1>6 DEF Started
<1>9. j \in Jobs(j[1]) /\ j[1] \in Fetch /\ j[2] < next[j[1]]
  BY <1>1, <1>3, StartedJob DEF Started
<1>10. ASSUME NEW o \in Fetch
       PROVE  Collected(o)'
  <2>1. Collected(o)
    BY DEF IInv
  <2>2. \A p \in results'[o] :
           /\ p[1] \in DOMAIN plan[o] /\ p[2] \in blob'[plan[o][p[1]]]
           /\ pc'[<<o, p[1]>>] = "collected"
    <3> SUFFICES ASSUME NEW p \in results[o]
                 PROVE  /\ p[1] \in DOMAIN plan[o] /\ p[2] \in blob'[plan[o][p[1]]]
                        /\ pc'[<<o, p[1]>>] = "collected"
      BY <1>4
    <3>1. /\ p[1] \in DOMAIN plan[o] /\ p[2] \in blob[plan[o][p[1]]]
          /\ pc[<<o, p[1]>>] = "collected"
      BY <2>1 DEF Collected
    <3>2. plan[o][p[1]] \in File /\ <<o, p[1]>> \in Job
      BY <1>1, <1>6, <3>1 DEF Planned, Jobs
    <3> QED
      BY <1>3, <1>5, <3>1, <3>2
  <2>3. \A p, q \in results'[o] : p[1] = q[1] => p = q
    BY <1>4, <2>1 DEF Collected
  <2>4. phase'[o] \in {"running", "complete"} /\ error'[o] = None =>
           \A k \in Jobs(o) : pc'[k] = "collected" => \E p \in results'[o] : p[1] = k[2]
    BY <1>3, <1>4, <1>6, <2>1 DEF Collected
  <2>5. phase'[o] = "running" /\ error'[o] = None /\ ~token'[o] =>
           next'[o] = Len(plan'[o]) + 1 \/ Active(o)' # {}
    <3> SUFFICES ASSUME phase[o] = "running", error[o] = None, ~token[o],
                        next[o] # Len(plan[o]) + 1
                 PROVE  Active(o)' # {}
      BY <1>4
    <3>1. PICK k \in Active(o) : TRUE
      BY <2>1 DEF Collected
    <3>2. k \in Jobs(o) /\ k[2] < next[o] /\ pc[k] \notin {"idle", "collected"}
      BY <3>1 DEF Active
    <3>3. pc'[k] \notin {"idle", "collected"}
      BY <1>3, <1>6, <3>2
    <3>4. k \in Jobs(o)'
      BY <1>2, <3>2
    <3> QED
      BY <1>4, <3>2, <3>3, <3>4 DEF Active
  <2>6. phase'[o] = "complete" =>
           error'[o] = None /\ \A k \in Jobs(o) : pc'[k] = "collected"
    BY <1>3, <1>4, <1>6, <2>1 DEF Collected
  <2> QED
    BY <1>2, <1>4, <2>2, <2>3, <2>4, <2>5, <2>6 DEF Collected
<1>11. Exclusive'
  BY JobLocks
<1>12. ASSUME NEW o \in Fetch, phase'[o] \notin {"new", "running"}
       PROVE  /\ \A y \in File : lock'[y] \notin Jobs(o)
              /\ \A k \in Jobs(o) : pc'[k] \in {"idle", "collected"}
  <2>1. \A k \in Jobs(o) : pc[k] \in {"idle", "collected"}
    BY <1>4, <1>12 DEF IInv, NoJobOutlivesFetch
  <2>2. \A k \in Jobs(o) : pc'[k] \in {"idle", "collected"}
    BY <1>3, <1>6, <2>1
  <2> QED
    BY <1>6, <1>11, <2>2 DEF Exclusive, Holding
<1>13. NoJobOutlivesFetch'
  BY <1>2, <1>12 DEF NoJobOutlivesFetch
<1> QED
  BY <1>7, <1>8, <1>10, <1>13

\* A step of a job moves nothing that is being collected.
LEMMA JobCollectors ==
  ASSUME IInv, NEW j \in Job, JobEffect(j)
  PROVE  (\A g \in Collector : Trashed(g)') /\ TrashHasTombstone'
<1>1. FileTyped /\ GcTyped /\ FileOf(j) \in File
  BY Typed, StartedJob DEF IInv, JobEffect
<1>2. \A g : GcFile(g)' = GcFile(g)
  BY JobFiles
<1>3. gc' = gc /\ trash' = trash /\ candidate' = candidate
  BY DEF JobEffect, gcVars
<1>4. ASSUME NEW g \in Collector
      PROVE  Trashed(g)'
  <2>1. Trashed(g)
    BY DEF IInv
  <2>2. gc[g] \in Collecting => /\ data'[GcFile(g)] = data[GcFile(g)]
                                /\ record'[GcFile(g)] = record[GcFile(g)]
    <3> SUFFICES ASSUME gc[g] \in Collecting
                 PROVE  data'[GcFile(g)] = data[GcFile(g)] /\ record'[GcFile(g)] = record[GcFile(g)]
      OBVIOUS
    <3>1. lock[GcFile(g)] = g /\ GcFile(g) \in File
      BY <2>1, Candidates DEF IInv, Exclusive, Collecting
    <3>2. CASE GcFile(g) # FileOf(j)
      BY <1>1, <3>1, <3>2 DEF JobEffect, FileTyped
    <3>3. CASE GcFile(g) = FileOf(j)
      <4>1. lock[FileOf(j)] # None /\ pc[j] \notin Holding
        BY <3>1, <3>3, ActorAssumption DEF IInv, Exclusive
      <4> QED
        BY <3>3, <4>1 DEF JobEffect
    <3> QED
      BY <3>2, <3>3
  <2> QED
    BY <1>2, <1>3, <2>1, <2>2 DEF Trashed, Collecting
<1> QED
  BY <1>3, <1>4 DEF IInv, TrashHasTombstone

\* What a step of a job leaves behind for the job and its file, with what it
\* cannot change, makes up the invariant.
LEMMA JobInv ==
  ASSUME IInv, NEW j \in Job, JobEffect(j), JobKeeps(j)'
  PROVE  IInv'
<1>1. FileTyped /\ FileOf(j) \in File /\ FileOf(j)' = FileOf(j)
  BY Typed, StartedJob, JobFiles DEF IInv, JobEffect
<1>2. ASSUME NEW k \in Job
      PROVE  (Equipped(k) /\ Honest(k) /\ OneVersion(k))'
  <2>1. CASE k = j
    BY <2>1 DEF JobKeeps
  <2>2. CASE k # j
    BY <2>2, JobOthers
  <2> QED
    BY <2>1, <2>2
<1>3. ASSUME NEW y \in File
      PROVE  (Recorded(y) /\ Published(y))'
  <2>1. CASE y = FileOf(j)
    BY <1>1, <2>1 DEF JobKeeps
  <2>2. CASE y # FileOf(j)
    <3>1. /\ data'[y] = data[y] /\ record'[y] = record[y] /\ blob'[y] = blob[y]
          /\ lock'[y] = lock[y] /\ torn'[y] = torn[y] /\ kind' = kind
      BY <1>1, <2>2 DEF JobEffect, FileTyped
    <3>2. Recorded(y) /\ Published(y)
      BY DEF IInv
    <3> QED
      BY <3>1, <3>2 DEF Recorded, Published, Bound
  <2> QED
    BY <2>1, <2>2
<1> QED
  BY <1>2, <1>3, JobTypes, JobLocks, JobFetches, JobCollectors DEF IInv

-----------------------------------------------------------------------------
(* The steps before the partial lock.                                      *)

\* The variables of the jobs change for one job only.
JobOnly(j) ==
    /\ pc' = [pc EXCEPT ![j] = pc'[j]]
    /\ attempt' = [attempt EXCEPT ![j] = attempt'[j]]
    /\ resume' = [resume EXCEPT ![j] = resume'[j]]
    /\ response' = [response EXCEPT ![j] = response'[j]]
    /\ result' = [result EXCEPT ![j] = result'[j]]

JobValues(j) ==
    /\ pc[j] \in JobSteps /\ attempt[j] \in 1 .. budget.attempts
    /\ resume[j] \in {None} \cup Resumption /\ response[j] \in {None} \cup Response
    /\ result[j] \in {None} \cup Result

\* The retry of an attempt, or the end of the job (run_with_retry).
LEMMA AttemptEnds ==
  ASSUME TypeOK, NEW j \in Job, NEW r \in Result, EndAttempt(j, r),
         budget'.attempts = budget.attempts
  PROVE  /\ JobOnly(j) /\ JobValues(j)'
         /\ pc'[j] \in {"attempt", "done"}
         /\ pc'[j] = "done" => result'[j] = r
<1>1. JobTyped /\ budget.attempts \in Nat \ {0}
  BY Typed DEF Budgets
<1> DEFINE again == Retryable(r) /\ attempt[j] < budget.attempts
<1>2. /\ pc' = [pc EXCEPT ![j] = IF again THEN "attempt" ELSE "done"]
      /\ attempt' = [attempt EXCEPT ![j] = IF again THEN @ + 1 ELSE 1]
      /\ result' = [result EXCEPT ![j] = IF again THEN None ELSE r]
      /\ resume' = [resume EXCEPT ![j] = None]
      /\ response' = [response EXCEPT ![j] = None]
  BY DEF EndAttempt
<1>3. again => attempt[j] < budget.attempts
  OBVIOUS
<1> HIDE DEF again
<1>4. /\ pc'[j] = (IF again THEN "attempt" ELSE "done")
      /\ attempt'[j] = (IF again THEN attempt[j] + 1 ELSE 1)
      /\ result'[j] = (IF again THEN None ELSE r)
      /\ resume'[j] = None /\ response'[j] = None
  BY <1>1, <1>2 DEF JobTyped
<1>5. JobOnly(j)
  BY <1>1, <1>2 DEF JobOnly, JobTyped
<1>6. attempt'[j] \in 1 .. budget'.attempts
  BY <1>1, <1>3, <1>4 DEF JobTyped
<1>7. /\ pc'[j] \in JobSteps /\ resume'[j] \in {None} \cup Resumption /\ response'[j] \in {None} \cup Response
      /\ result'[j] \in {None} \cup Result
  BY <1>4 DEF JobSteps
<1> QED
  BY <1>4, <1>5, <1>6, <1>7 DEF JobValues

\* An error is a result.
LEMMA Errors ==
  ASSUME NEW e \in ErrorKinds
  PROVE  Err(e) \in Result /\ Err(e).kind = e /\ Err(e).kind # "ok"
BY DEF Err, Result, ErrorKinds

\* What a job that has started has.
LEMMA JobAt ==
  ASSUME IInv, NEW j \in Job, pc[j] # "idle"
  PROVE  /\ FileOf(j) \in File /\ FileTyped /\ JobTyped /\ JobTypedAt(j) /\ JobValues(j)
         /\ Equipped(j) /\ Honest(j) /\ OneVersion(j)
         /\ Recorded(FileOf(j)) /\ Published(FileOf(j))
         /\ kind[FileOf(j)] \in EntryKinds
<1>1. FileOf(j) \in File
  BY StartedJob DEF IInv
<1>2. FileTyped /\ JobTyped /\ budget \in Budgets
  BY Typed DEF IInv
<1>3. JobTypedAt(j) /\ JobValues(j)
  BY <1>1, <1>2 DEF FileTyped, JobTyped, JobTypedAt, JobValues
<1>4. kind[FileOf(j)] \in EntryKinds
  BY <1>1 DEF IInv, Planned
<1> QED
  BY <1>1, <1>2, <1>3, <1>4 DEF IInv

\* A step of a job outside the partial lock.
LEMMA JobOffDisk ==
  ASSUME IInv, NEW j \in Job, pc[j] \in {"attempt", "request", "locking"},
         UNCHANGED <<diskVars, fetchVars, gcVars, auxVars>>,
         JobOnly(j), JobValues(j)', pc'[j] \in {"attempt", "request", "locking", "done"},
         (Equipped(j) /\ Honest(j) /\ OneVersion(j))'
  PROVE  IInv'
<1>1. /\ FileOf(j) \in File /\ FileTyped /\ JobTypedAt(j)
      /\ Recorded(FileOf(j)) /\ Published(FileOf(j))
  BY JobAt
<1>2. /\ data' = data /\ record' = record /\ blob' = blob /\ lock' = lock /\ torn' = torn
      /\ kind' = kind /\ plan' = plan /\ clock' = clock /\ budget' = budget
  BY DEF diskVars, auxVars
<1>3. JobEffect(j)
  <2>1. pc[j] \notin Holding /\ pc'[j] \notin Holding
    BY DEF Holding
  <2>2. /\ data' = [data EXCEPT ![FileOf(j)] = data'[FileOf(j)]]
        /\ record' = [record EXCEPT ![FileOf(j)] = record'[FileOf(j)]]
        /\ blob' = [blob EXCEPT ![FileOf(j)] = blob'[FileOf(j)]]
        /\ lock' = [lock EXCEPT ![FileOf(j)] = lock'[FileOf(j)]]
        /\ torn' = [torn EXCEPT ![FileOf(j)] = torn'[FileOf(j)]]
    BY <1>1, <1>2 DEF FileTyped
  <2> QED
    BY <1>1, <1>2, <2>1, <2>2 DEF JobEffect, JobOnly
<1>4. FileOf(j)' = FileOf(j)
  BY <1>3, JobFiles
<1>5. JobTypedAt(j)'
  BY <1>1, <1>2, <1>4 DEF JobTypedAt, JobValues
<1>6. (Recorded(FileOf(j)) /\ Published(FileOf(j)))'
  BY <1>1, <1>2, <1>4 DEF Recorded, Published, Bound
<1> QED
  BY <1>3, <1>5, <1>6, JobInv DEF JobKeeps

\* A job that makes another attempt or ends with an error has nothing to
\* account for.
LEMMA Unanswered ==
  ASSUME NEW j \in Job, pc'[j] \in {"attempt", "done"},
         pc'[j] = "done" => result'[j] \in Result /\ result'[j].kind # "ok"
  PROVE  (Equipped(j) /\ Honest(j) /\ OneVersion(j))'
BY DEF Equipped, Honest, OneVersion, Answered, Holding, Ended


\* What is read from a partial is a sequence of chunks, at most Size of them.
LEMMA ContentIsSeq ==
  ASSUME NEW c \in Contents
  PROVE  c \in Seq(Version) /\ Len(c) \in 0 .. Size /\ c \in [1 .. Len(c) -> Version]
<1>1. PICK n \in 0 .. Size : c \in [1 .. n -> Version]
  BY DEF Contents
<1>2. n \in Nat
  BY <1>1, BoundAssumption
<1>3. c \in Seq(Version) /\ Len(c) = n
  BY <1>1, <1>2
<1> QED
  BY <1>1, <1>2, <1>3

\* A body that is accepted starts where the partial ends.
LEMMA AcceptedBodyFits ==
  ASSUME NEW offset \in {None} \cup (1 .. Size - 1), NEW a \in Answers[offset]
  PROVE  /\ a.mode = "fresh" => a.start = 0
         /\ a.mode = "resume" => a.start = offset
<1>1. PICK h \in Headers : a = [mode |-> Disposition(h, offset), start |-> BodyStart(h)]
  BY DEF Answers
<1>2. Disposition(h, offset) = "fresh" => h.status = 200
  BY DEF Disposition
<1>3. Disposition(h, offset) = "resume" =>
         h.status = 206 /\ h.range = [start |-> offset, end |-> Size - 1, total |-> Size]
         /\ offset \in 1 .. Size - 1
  BY DEF Disposition
<1>4. h.status = 200 => BodyStart(h) = 0
  BY DEF BodyStart
<1>5. ASSUME h.status = 206, offset \in 1 .. Size - 1,
             h.range = [start |-> offset, end |-> Size - 1, total |-> Size]
      PROVE  BodyStart(h) = offset
  <2>1. h.range.start = offset
    BY <1>5
  <2>2. h.range \in Ranges
    BY <1>5, BoundAssumption DEF Ranges
  <2>3. h.range # None
    BY <2>2, RangeAssumption
  <2> QED
    BY <1>5, <2>1, <2>3 DEF BodyStart
<1> QED
  BY <1>1, <1>2, <1>3, <1>4, <1>5

\* The request of a job is from an offset its answers are known for.
LEMMA RequestOffset ==
  ASSUME NEW j, resume[j] \in {None} \cup Resumption
  PROVE  Requested(j) \in {None} \cup (1 .. Size - 1)
BY DEF Requested, Resumption

\* The candidate of a resumption is one that fits a record.
LEMMA CandidateTyped ==
  ASSUME IInv, NEW x \in File
  PROVE  ResumeCandidate(x) \in {None} \cup Resumption
<1>1. /\ record[x] \in {None} \cup PartialRecord
      /\ data[x] \in {None} \cup Contents
  BY Typed DEF IInv, FileTyped
<1>2. CASE data[x] = None \/ record[x] = None \/ ResumeOffset(x, record[x].validator) = None
  BY <1>2 DEF ResumeCandidate
<1>3. CASE ~(data[x] = None \/ record[x] = None \/ ResumeOffset(x, record[x].validator) = None)
  <2>1. record[x] \in PartialRecord
    BY <1>1, <1>3
  <2>2. record[x].received > 0 /\ record[x].received < Size
    BY <1>3 DEF ResumeOffset
  <2>3. record[x].received \in 1 .. Size - 1 /\ record[x].validator \in Validators
    BY <2>1, <2>2, BoundAssumption DEF PartialRecord
  <2>4. ResumeCandidate(x) = [offset |-> record[x].received, validator |-> record[x].validator]
    BY <1>3 DEF ResumeCandidate
  <2> QED
    BY <2>3, <2>4 DEF Resumption
<1> QED
  BY <1>2, <1>3

\* An attempt starts: the token, and the candidate of a resumption.
LEMMA StartAttemptInv ==
  ASSUME IInv, NEW j \in Job, StartAttempt(j)
  PROVE  IInv'
<1>1. /\ pc[j] = "attempt" /\ UNCHANGED <<diskVars, fetchVars, gcVars, auxVars>>
  BY DEF StartAttempt
<1>2. /\ FileOf(j) \in File /\ JobTyped /\ JobValues(j)
  BY <1>1, JobAt
<1>3. budget' = budget
  BY <1>1 DEF auxVars
<1>4. CASE token[j[1]]
  <2>1. EndAttempt(j, Err("cancelled"))
    BY <1>4 DEF StartAttempt
  <2>2. Err("cancelled") \in Result /\ Err("cancelled").kind # "ok"
    BY Errors DEF ErrorKinds
  <2>3. /\ JobOnly(j) /\ JobValues(j)' /\ pc'[j] \in {"attempt", "done"}
        /\ pc'[j] = "done" => result'[j] = Err("cancelled")
    BY <1>3, <2>1, <2>2, AttemptEnds DEF IInv
  <2> QED
    BY <1>1, <2>2, <2>3, Unanswered, JobOffDisk
<1>5. CASE ~token[j[1]]
  <2>1. /\ resume' = [resume EXCEPT ![j] = ResumeCandidate(FileOf(j))]
        /\ pc' = [pc EXCEPT ![j] = "request"]
        /\ UNCHANGED <<attempt, response, result>>
    BY <1>5 DEF StartAttempt
  <2>2. ResumeCandidate(FileOf(j)) \in {None} \cup Resumption
    BY <1>2, CandidateTyped
  <2>3. pc'[j] = "request" /\ resume'[j] = ResumeCandidate(FileOf(j))
    BY <1>2, <2>1 DEF JobTyped
  <2>4. JobOnly(j)
    BY <1>2, <2>1 DEF JobOnly, JobTyped
  <2>5. JobValues(j)'
    BY <1>2, <1>3, <2>1, <2>2, <2>3 DEF JobValues, JobSteps
  <2>6. (Equipped(j) /\ Honest(j) /\ OneVersion(j))'
    BY <2>3 DEF Equipped, Honest, OneVersion, Answered, Holding, Ended
  <2> QED
    BY <1>1, <2>3, <2>4, <2>5, <2>6, JobOffDisk
<1> QED
  BY <1>4, <1>5

\* A request that fails, or whose answer is refused.
LEMMA RequestFailsInv ==
  ASSUME IInv, NEW j \in Job, RequestFails(j)
  PROVE  IInv'
<1>1. PICK e \in {"transport", "protocol"} : EndAttempt(j, Err(e))
  BY DEF RequestFails
<1>2. pc[j] = "request" /\ UNCHANGED <<diskVars, fetchVars, gcVars, auxVars>>
  BY DEF RequestFails
<1>3. Err(e) \in Result /\ Err(e).kind # "ok"
  BY Errors DEF ErrorKinds
<1>4. budget' = budget
  BY <1>2 DEF auxVars
<1>5. /\ JobOnly(j) /\ JobValues(j)' /\ pc'[j] \in {"attempt", "done"}
      /\ pc'[j] = "done" => result'[j] = Err(e)
  BY <1>1, <1>3, <1>4, AttemptEnds DEF IInv
<1> QED
  BY <1>2, <1>3, <1>5, Unanswered, JobOffDisk

\* An answer that is accepted: what it brings is of one version, and bound
\* to the version of what is there unless the digest will tell.
LEMMA AnswerInv ==
  ASSUME IInv, NEW j \in Job, pc[j] = "request",
         UNCHANGED <<attempt, resume, result, diskVars, fetchVars, gcVars, auxVars>>,
         NEW r \in Response, response' = [response EXCEPT ![j] = r],
         pc' = [pc EXCEPT ![j] = "locking"],
         r.mode = "fresh" => r.validator \in {r.version, None},
         r.mode = "resume" => resume[j] \in Resumption,
         r.mode = "resume" /\ kind[FileOf(j)] # "lfs" => r.validator = r.version
  PROVE  IInv'
<1>1. /\ FileOf(j) \in File /\ JobTyped /\ JobValues(j)
  BY JobAt
<1>2. /\ pc'[j] = "locking" /\ response'[j] = r /\ resume'[j] = resume[j]
      /\ attempt' = attempt /\ resume' = resume /\ result' = result
      /\ budget' = budget /\ kind' = kind /\ plan' = plan
  BY <1>1 DEF JobTyped, auxVars
<1>3. JobOnly(j)
  BY <1>1, <1>2 DEF JobOnly, JobTyped
<1>4. JobValues(j)'
  BY <1>1, <1>2 DEF JobValues, JobSteps
<1>5. FileOf(j)' = FileOf(j)
  BY <1>2 DEF FileOf
<1>6. (Equipped(j) /\ Honest(j) /\ OneVersion(j))'
  BY <1>2, <1>5 DEF Equipped, Honest, OneVersion, Answered, Holding, Ended
<1> QED
  BY <1>2, <1>3, <1>4, <1>6, JobOffDisk

\* An answer with the whole file.
LEMMA FullResponseInv ==
  ASSUME IInv, NEW j \in Job, FullResponse(j)
  PROVE  IInv'
<1>1. PICK a \in Answers[Requested(j)], v \in Version, validator \in Validators :
           /\ a.mode = "fresh" /\ validator \in {v, None}
           /\ response' = [response EXCEPT ![j] =
                  [mode |-> "fresh", version |-> BytesAt(a.start, 0, v), validator |-> validator]]
  BY DEF FullResponse
<1>2. Requested(j) \in {None} \cup (1 .. Size - 1)
  BY JobAt, RequestOffset DEF FullResponse, JobValues
<1>3. BytesAt(a.start, 0, v) = v
  BY <1>1, <1>2, AcceptedBodyFits DEF BytesAt
<1> DEFINE r == [mode |-> "fresh", version |-> v, validator |-> validator]
<1>4. r \in Response /\ r.mode = "fresh" /\ r.validator \in {r.version, None}
  BY <1>1 DEF Response
<1>5. response' = [response EXCEPT ![j] = r]
  BY <1>1, <1>3
<1>6. /\ pc[j] = "request" /\ pc' = [pc EXCEPT ![j] = "locking"]
      /\ UNCHANGED <<attempt, resume, result, diskVars, fetchVars, gcVars, auxVars>>
  BY DEF FullResponse
<1> HIDE DEF r
<1> QED
  BY <1>4, <1>5, <1>6, AnswerInv

\* An answer with the requested range.
LEMMA RangeResponseInv ==
  ASSUME IInv, NEW j \in Job, RangeResponse(j)
  PROVE  IInv'
<1> DEFINE requested == resume[j].validator
           refused(validator) == Refused(FileOf(j), requested, validator)
           answer(v, validator) ==
               [mode |-> IF refused(validator) THEN "refuse" ELSE "resume",
                version |-> v, validator |-> requested]
<1>1. PICK a \in Answers[Requested(j)], v \in Version, validator \in Validators :
           /\ a.mode = "resume" /\ validator \in {v, None}
           /\ response' = [response EXCEPT ![j] =
                  answer(BytesAt(a.start, resume[j].offset, v), validator)]
  BY DEF RangeResponse
<1>2. pc[j] = "request" /\ resume[j] # None
  BY DEF RangeResponse
<1>3. resume[j] \in Resumption
  BY <1>2, JobAt DEF JobValues
<1>4. Requested(j) \in {None} \cup (1 .. Size - 1) /\ Requested(j) = resume[j].offset
  BY <1>2, <1>3, RequestOffset DEF Requested
<1>5. BytesAt(a.start, resume[j].offset, v) = v
  BY <1>1, <1>4, AcceptedBodyFits DEF BytesAt
<1>6. requested \in Validators
  BY <1>3 DEF Resumption
<1> DEFINE r == answer(v, validator)
<1>7. r \in Response /\ r.mode # "fresh"
  BY <1>6 DEF Response
<1>8. r.mode = "resume" /\ kind[FileOf(j)] # "lfs" => r.validator = r.version
  BY <1>1, <1>6 DEF Refused
<1>9. response' = [response EXCEPT ![j] = r]
  BY <1>1, <1>5
<1>10. /\ pc' = [pc EXCEPT ![j] = "locking"]
       /\ UNCHANGED <<attempt, resume, result, diskVars, fetchVars, gcVars, auxVars>>
  BY DEF RangeResponse
<1> HIDE DEF r
<1> QED
  BY <1>2, <1>3, <1>7, <1>8, <1>9, <1>10, AnswerInv

-----------------------------------------------------------------------------
(* Taking the partial lock.                                                *)

\* A job that has the lock and a partial of one version behind its response.
LEMMA LockTaken ==
  ASSUME IInv, NEW j \in Job, pc[j] = "locking", lock[FileOf(j)] = None,
         NEW step \in {"body", "retain", "discard"}, NEW r \in {None} \cup Result,
         Locked(j, step, r),
         NEW d \in {None} \cup Contents, data' = [data EXCEPT ![FileOf(j)] = d],
         UNCHANGED <<record, blob, fetchVars, gcVars, auxVars>>,
         step # "body" => r \in Result /\ r.kind # "ok",
         step # "discard" => d \in Contents /\ response[j].mode # "refuse",
         step # "discard" /\ Bound(FileOf(j)) => d = Copies(response[j].version, Len(d))
  PROVE  IInv'
<1> DEFINE x == FileOf(j)
<1>1. /\ x \in File /\ FileTyped /\ JobTyped /\ JobTypedAt(j) /\ JobValues(j)
      /\ Equipped(j) /\ OneVersion(j) /\ Recorded(x) /\ Published(x)
  BY JobAt
<1>2. /\ lock' = [lock EXCEPT ![x] = j]
      /\ pc' = [pc EXCEPT ![j] = step] /\ result' = [result EXCEPT ![j] = r]
      /\ attempt' = attempt /\ resume' = resume /\ response' = response
  BY DEF Locked
<1>3. /\ record' = record /\ blob' = blob /\ torn' = torn
      /\ kind' = kind /\ plan' = plan /\ clock' = clock /\ budget' = budget
  BY DEF auxVars
<1>4. lock'[x] = j /\ data'[x] = d /\ pc'[j] = step /\ result'[j] = r
  BY <1>1, <1>2 DEF FileTyped, JobTyped
<1>5. JobOnly(j)
  BY <1>1, <1>2 DEF JobOnly, JobTyped
<1>6. JobEffect(j)
  <2>1. pc[j] \notin Holding /\ pc'[j] \in Holding
    BY <1>4 DEF Holding
  <2>2. /\ data' = [data EXCEPT ![x] = data'[x]] /\ record' = [record EXCEPT ![x] = record'[x]]
        /\ blob' = [blob EXCEPT ![x] = blob'[x]] /\ lock' = [lock EXCEPT ![x] = lock'[x]]
        /\ torn' = [torn EXCEPT ![x] = torn'[x]]
    BY <1>1, <1>2, <1>3, <1>4 DEF FileTyped
  <2>3. pc[j] \notin {"idle", "done", "collected"} /\ pc'[j] \notin {"idle", "collected"}
    BY <1>4
  <2> QED
    BY <1>3, <1>4, <1>5, <2>1, <2>2, <2>3 DEF JobEffect, JobOnly
<1>7. FileOf(j)' = x
  BY <1>6, JobFiles
<1>8. JobTypedAt(j)'
  BY <1>1, <1>2, <1>3, <1>4, <1>7 DEF JobTypedAt, JobSteps
<1>9. Equipped(j)'
  BY <1>1, <1>2, <1>4, <1>7 DEF Equipped, Answered, Holding, Ended
<1>10. Honest(j)'
  BY <1>4, <1>7 DEF Honest
<1>11. OneVersion(j)'
  <2>1. /\ response[j].mode = "fresh" => response[j].validator \in {response[j].version, None}
        /\ response[j].mode = "resume" /\ kind[x] # "lfs"
               => response[j].validator = response[j].version
    BY <1>1 DEF OneVersion
  <2>2. response'[j] = response[j]
    BY <1>2
  <2>3. OneVersion(j)' <=>
          /\ pc'[j] \in {"locking", "body", "retain"} /\ response[j].mode = "fresh" =>
                 response[j].validator \in {response[j].version, None}
          /\ pc'[j] \in {"locking", "body", "retain"} /\ response[j].mode = "resume"
                 /\ kind[x] # "lfs" => response[j].validator = response[j].version
          /\ pc'[j] \in {"body", "retain"} => response[j].mode # "refuse"
          /\ pc'[j] \in {"body", "retain"} /\ Bound(x)' =>
                 d = Copies(response[j].version, Len(d))
          /\ pc'[j] = "publish" /\ Bound(x)' =>
                 \E v \in Version : data'[x] = Copies(v, Len(data'[x]))
    BY <1>3, <1>4, <1>7, <2>2 DEF OneVersion, Copies
  <2>4. Bound(x)' = Bound(x)
    BY <1>3, <1>7 DEF Bound
  <2> QED
    BY <1>4, <2>1, <2>3, <2>4
<1>12. Recorded(x)'
  BY <1>1, <1>3, <1>4, <1>7 DEF Recorded
<1>13. Published(x)'
  BY <1>1, <1>3, <1>7 DEF Published
<1> QED
  BY <1>6, <1>7, <1>8, <1>9, <1>10, <1>11, <1>12, <1>13, JobInv DEF JobKeeps

\* The body is read, or found cancelled at once.
LEMMA BodyBegins ==
  ASSUME NEW j
  PROVE  /\ BodyStep(j) \in {"body", "retain"}
         /\ BodyResult(j) \in {None} \cup Result
         /\ BodyStep(j) = "retain" => BodyResult(j) \in Result /\ BodyResult(j).kind # "ok"
<1>1. Err("cancelled") \in Result /\ Err("cancelled").kind # "ok"
  BY Errors DEF ErrorKinds
<1> QED
  BY <1>1 DEF BodyStep, BodyResult

\* An empty partial is of any version.
LEMMA EmptyContent ==
  ASSUME NEW v
  PROVE  <<>> \in Contents /\ <<>> = Copies(v, Len(<<>>))
<1>1. <<>> \in [1 .. 0 -> Version] /\ 0 \in 0 .. Size
  BY BoundAssumption
<1>2. <<>> = [i \in 1 .. 0 |-> v]
  OBVIOUS
<1>3. Len(<<>>) = 0
  OBVIOUS
<1> QED
  BY <1>1, <1>2, <1>3 DEF Contents, Copies

\* The lock is taken for a whole file: the partial is emptied.
LEMMA LockFreshInv ==
  ASSUME IInv, NEW j \in Job, pc[j] = "locking", lock[FileOf(j)] = None, LockFresh(j),
         UNCHANGED <<fetchVars, gcVars, auxVars>>
  PROVE  IInv'
<1>1. /\ response[j].mode = "fresh" /\ Locked(j, BodyStep(j), BodyResult(j))
      /\ data' = [data EXCEPT ![FileOf(j)] = <<>>] /\ UNCHANGED <<record, blob>>
  BY DEF LockFresh
<1>2. <<>> \in Contents /\ <<>> = Copies(response[j].version, Len(<<>>))
  BY EmptyContent
<1>3. response[j].mode # "refuse"
  BY <1>1
<1>4. /\ BodyStep(j) \in {"body", "retain", "discard"} /\ BodyResult(j) \in {None} \cup Result
      /\ BodyStep(j) # "body" => BodyResult(j) \in Result /\ BodyResult(j).kind # "ok"
  BY BodyBegins
<1> QED
  BY <1>1, <1>2, <1>3, <1>4, LockTaken

\* The lock is not kept, and the attempt ends with r.
LEMMA LockLeft ==
  ASSUME IInv, NEW j \in Job, pc[j] = "locking", NEW r \in Result, EndAttempt(j, r),
         UNCHANGED <<diskVars, fetchVars, gcVars, auxVars>>,
         r.kind = "ok" => r.content \in blob[FileOf(j)]
  PROVE  IInv'
<1>1. budget' = budget /\ plan' = plan /\ blob' = blob
  BY DEF auxVars, diskVars
<1>2. /\ JobOnly(j) /\ JobValues(j)' /\ pc'[j] \in {"attempt", "done"}
      /\ pc'[j] = "done" => result'[j] = r
  BY <1>1, AttemptEnds DEF IInv
<1>3. FileOf(j)' = FileOf(j)
  BY <1>1 DEF FileOf
<1>4. (Equipped(j) /\ Honest(j) /\ OneVersion(j))'
  BY <1>1, <1>2, <1>3 DEF Equipped, Honest, OneVersion, Answered, Holding, Ended
<1> QED
  BY <1>2, <1>4, JobOffDisk

\* What has been published already is what the entry describes.
LEMMA LockPublishedInv ==
  ASSUME IInv, NEW j \in Job, pc[j] = "locking", LockPublished(j),
         UNCHANGED <<fetchVars, gcVars, auxVars>>
  PROVE  IInv'
<1> DEFINE r == Ok(Whole(Expected))
<1>1. /\ kind[FileOf(j)] = "lfs" /\ blob[FileOf(j)] # {} /\ EndAttempt(j, r)
      /\ UNCHANGED diskVars
  BY DEF LockPublished, BlobExists
<1>2. blob[FileOf(j)] \subseteq {Whole(Expected)}
  BY <1>1, JobAt DEF Published
<1>3. r.kind = "ok" /\ r.content \in blob[FileOf(j)]
  BY <1>1, <1>2 DEF Ok
<1>4. r \in Result
  <2>1. Whole(Expected) \in Seq(Version)
    BY ServerAssumption, BoundAssumption DEF Whole
  <2> QED
    BY <2>1 DEF Ok, Result
<1> HIDE DEF r
<1> QED
  BY <1>1, <1>3, <1>4, LockLeft

\* The lock is taken for a range: the partial must still be the one that the
\* request was made from, and its record names the version of the answer.
LEMMA LockResumeInv ==
  ASSUME IInv, NEW j \in Job, pc[j] = "locking", lock[FileOf(j)] = None, LockResume(j),
         UNCHANGED <<fetchVars, gcVars, auxVars>>
  PROVE  IInv'
<1> DEFINE x == FileOf(j)
<1>1. /\ x \in File /\ FileTyped /\ JobTyped /\ JobTypedAt(j) /\ JobValues(j)
      /\ Equipped(j) /\ OneVersion(j) /\ Recorded(x)
  BY JobAt
<1>2. response[j].mode = "resume" /\ UNCHANGED <<data, record, blob>>
  BY DEF LockResume
<1>3. \A e \in ErrorKinds : Err(e) \in Result /\ Err(e).kind # "ok"
  BY Errors
<1>4. CASE \E e \in ErrorKinds : EndAttempt(j, Err(e)) /\ UNCHANGED lock
  <2>1. PICK e \in ErrorKinds : EndAttempt(j, Err(e)) /\ UNCHANGED lock
    BY <1>4
  <2>2. UNCHANGED diskVars
    BY <1>2, <2>1 DEF diskVars
  <2>3. Err(e) \in Result /\ Err(e).kind # "ok"
    BY <1>3
  <2> QED
    BY <2>1, <2>2, <2>3, LockLeft
<1>5. data' = [data EXCEPT ![x] = data[x]] /\ data[x] \in {None} \cup Contents
  BY <1>1, <1>2 DEF FileTyped
<1>6. CASE Locked(j, "discard", Err("protocol"))
  <2>1. Err("protocol") \in Result /\ Err("protocol").kind # "ok"
    BY <1>3 DEF ErrorKinds
  <2> QED
    BY <1>2, <1>5, <1>6, <2>1, LockTaken
<1>7. CASE /\ Locked(j, BodyStep(j), BodyResult(j)) /\ data[x] # None /\ record[x] # None
           /\ ResumeOffset(x, response[j].validator) = resume[j].offset
  <2>1. resume[j] \in Resumption
    BY <1>1, <1>2 DEF Equipped, Answered
  <2>2. resume[j].offset # None
    BY <2>1, ActorAssumption, BoundAssumption DEF Resumption
  <2>3. record[x].received = Len(data[x]) /\ record[x].validator = response[j].validator
    BY <1>7, <2>2 DEF ResumeOffset
  <2>4. data[x] \in Contents /\ response[j].mode # "refuse"
    BY <1>2, <1>5, <1>7
  <2>5. lock[x] \notin Job
    BY ActorAssumption
  <2>6. Bound(x) => data[x] = Copies(response[j].version, Len(data[x]))
    <3> SUFFICES ASSUME Bound(x)
                 PROVE  data[x] = Copies(response[j].version, Len(data[x]))
      OBVIOUS
    <3>1. response[j].validator = response[j].version
      BY <1>1, <1>2 DEF OneVersion, Bound
    <3>2. data[x] = Copies(record[x].validator, Len(data[x]))
      BY <1>1, <1>7, <2>3, <2>5 DEF Recorded
    <3> QED
      BY <2>3, <3>1, <3>2
  <2>7. /\ BodyStep(j) \in {"body", "retain", "discard"} /\ BodyResult(j) \in {None} \cup Result
        /\ BodyStep(j) # "body" => BodyResult(j) \in Result /\ BodyResult(j).kind # "ok"
    BY BodyBegins
  <2> DEFINE s == BodyStep(j)
             r == BodyResult(j)
             d == data[x]
  <2>8. Locked(j, s, r) /\ data' = [data EXCEPT ![FileOf(j)] = d] /\ d \in {None} \cup Contents
    BY <1>5, <1>7
  <2>9. /\ s \in {"body", "retain", "discard"} /\ r \in {None} \cup Result
        /\ s # "body" => r \in Result /\ r.kind # "ok"
        /\ s # "discard" => d \in Contents /\ response[j].mode # "refuse"
        /\ s # "discard" /\ Bound(FileOf(j)) => d = Copies(response[j].version, Len(d))
    BY <2>4, <2>6, <2>7
  <2>10. UNCHANGED <<record, blob, fetchVars, gcVars, auxVars>>
    BY <1>2
  <2> HIDE DEF s, r, d
  <2> QED
    BY <2>8, <2>9, <2>10, LockTaken
<1>8. \/ \E e \in ErrorKinds : EndAttempt(j, Err(e)) /\ UNCHANGED lock
      \/ Locked(j, "discard", Err("protocol"))
      \/ /\ Locked(j, BodyStep(j), BodyResult(j)) /\ data[x] # None /\ record[x] # None
         /\ ResumeOffset(x, response[j].validator) = resume[j].offset
  BY DEF LockResume, ErrorKinds
<1> QED
  BY <1>4, <1>6, <1>7, <1>8

\* A response without the validator of the request: the partial goes.
LEMMA LockRefusedInv ==
  ASSUME IInv, NEW j \in Job, pc[j] = "locking", lock[FileOf(j)] = None, LockRefused(j),
         UNCHANGED <<fetchVars, gcVars, auxVars>>
  PROVE  IInv'
<1>1. FileOf(j) \in File /\ FileTyped
  BY JobAt
<1>2. Locked(j, "discard", Err("validation")) /\ UNCHANGED <<data, record, blob>>
  BY DEF LockRefused
<1>3. Err("validation") \in Result /\ Err("validation").kind # "ok"
  BY Errors DEF ErrorKinds
<1>4. /\ data' = [data EXCEPT ![FileOf(j)] = data[FileOf(j)]]
      /\ data[FileOf(j)] \in {None} \cup Contents
  BY <1>1, <1>2 DEF FileTyped
<1> QED
  BY <1>2, <1>3, <1>4, LockTaken

\* Whatever follows lock_partial.
LEMMA LockPartialInv ==
  ASSUME IInv, NEW j \in Job, LockPartial(j)
  PROVE  IInv'
<1>1. /\ pc[j] = "locking" /\ lock[FileOf(j)] = None
      /\ LockFresh(j) \/ LockPublished(j) \/ LockResume(j) \/ LockRefused(j)
      /\ UNCHANGED <<fetchVars, gcVars, auxVars>>
  BY DEF LockPartial
<1> QED
  BY <1>1, LockFreshInv, LockPublishedInv, LockResumeInv, LockRefusedInv

-----------------------------------------------------------------------------
(* The steps under the partial lock.                                       *)

\* A file variable that changes for one file only.
FileOnly(j) ==
    LET x == FileOf(j) IN
    /\ data' = [data EXCEPT ![x] = data'[x]]
    /\ record' = [record EXCEPT ![x] = record'[x]]
    /\ blob' = [blob EXCEPT ![x] = blob'[x]]
    /\ torn' = [torn EXCEPT ![x] = torn'[x]]
    /\ lock' = IF pc'[j] \in Holding THEN lock ELSE [lock EXCEPT ![x] = None]

\* A step of the holder of the lock, which keeps it or gives it back.
LEMMA HeldEffect ==
  ASSUME IInv, NEW j \in Job, pc[j] \in Holding, JobOnly(j), FileOnly(j),
         pc'[j] \in Holding \cup {"attempt", "done"},
         UNCHANGED <<fetchVars, gcVars, plan, kind, clock>>,
         budget'.attempts = budget.attempts,
         blob[FileOf(j)] \subseteq blob'[FileOf(j)], torn[FileOf(j)] => torn'[FileOf(j)]
  PROVE  /\ JobEffect(j) /\ FileOf(j)' = FileOf(j)
         /\ lock'[FileOf(j)] = IF pc'[j] \in Holding THEN j ELSE None
<1> DEFINE x == FileOf(j)
<1>1. pc[j] # "idle" /\ pc[j] \notin {"idle", "done", "collected"}
  BY DEF Holding
<1>2. x \in File /\ FileTyped
  BY <1>1, JobAt
<1>3. lock[x] = j
  BY DEF IInv, Exclusive
<1>4. /\ lock'[x] = IF pc'[j] \in Holding THEN j ELSE None
      /\ lock' = [lock EXCEPT ![x] = lock'[x]]
  BY <1>2, <1>3 DEF FileOnly, FileTyped
<1>5. pc'[j] \notin {"idle", "collected"}
  BY DEF Holding
<1>6. JobEffect(j)
  BY <1>1, <1>4, <1>5 DEF JobEffect, JobOnly, FileOnly
<1> QED
  BY <1>4, <1>6, JobFiles

\* While the lock is kept nothing is claimed of the data but by its holder.
LEMMA HeldKept ==
  ASSUME IInv, NEW j \in Job, pc[j] \in Holding, JobOnly(j), FileOnly(j),
         pc'[j] \in Holding, UNCHANGED <<fetchVars, gcVars, plan, kind, clock>>,
         budget' \in Budgets, budget'.attempts = budget.attempts,
         JobValues(j)', data'[FileOf(j)] \in {None} \cup Contents,
         record' = record, blob[FileOf(j)] \subseteq blob'[FileOf(j)], torn' = torn,
         blob'[FileOf(j)] \in SUBSET [1 .. Size -> Version], Published(FileOf(j))',
         (Equipped(j) /\ Honest(j) /\ OneVersion(j))'
  PROVE  IInv'
<1>1. /\ FileOf(j) \in File /\ FileTyped /\ Recorded(FileOf(j))
  BY JobAt DEF Holding
<1>2. /\ JobEffect(j) /\ FileOf(j)' = FileOf(j) /\ lock'[FileOf(j)] = j
  BY HeldEffect
<1>3. JobTypedAt(j)'
  BY <1>1, <1>2 DEF JobTypedAt, JobValues, FileTyped
<1>4. Recorded(FileOf(j))'
  BY <1>1, <1>2 DEF Recorded
<1> QED
  BY <1>2, <1>3, <1>4, JobInv DEF JobKeeps

\* Another chunk of the same version.
LEMMA AppendCopies ==
  ASSUME NEW c \in Contents, NEW v \in Version, Len(c) < Size
  PROVE  /\ Append(c, v) \in Contents
         /\ c = Copies(v, Len(c)) => Append(c, v) = Copies(v, Len(Append(c, v)))
<1>1. c \in Seq(Version) /\ Len(c) \in 0 .. Size /\ c \in [1 .. Len(c) -> Version]
  BY ContentIsSeq
<1>2. /\ Append(c, v) \in [1 .. Len(c) + 1 -> Version] /\ Len(Append(c, v)) = Len(c) + 1
      /\ \A i \in 1 .. Len(c) + 1 : Append(c, v)[i] = IF i <= Len(c) THEN c[i] ELSE v
  <2>1. Append(c, v) \in Seq(Version) /\ Len(Append(c, v)) = Len(c) + 1
    BY <1>1
  <2>2. Append(c, v) \in [1 .. Len(c) + 1 -> Version]
    <3>1. \A s \in Seq(Version) : s \in [1 .. Len(s) -> Version]
      OBVIOUS
    <3> QED
      BY <2>1, <3>1, Zenon
  <2>3. \A i \in 1 .. Len(c) : Append(c, v)[i] = c[i]
    BY <1>1
  <2>4. Append(c, v)[Len(c) + 1] = v
    BY <1>1
  <2> QED
    BY <1>1, <2>1, <2>2, <2>3, <2>4
<1>3. Len(c) + 1 \in 0 .. Size
  BY <1>1, BoundAssumption
<1>4. Append(c, v) \in Contents
  BY <1>2, <1>3 DEF Contents
<1>5. ASSUME c = Copies(v, Len(c))
      PROVE  Append(c, v) = Copies(v, Len(Append(c, v)))
  <2>1. \A i \in 1 .. Len(c) : c[i] = v
    BY <1>5 DEF Copies
  <2>2. \A i \in 1 .. Len(c) + 1 : Append(c, v)[i] = v
    BY <1>1, <1>2, <2>1
  <2> QED
    BY <1>2, <2>2 DEF Copies
<1> QED
  BY <1>4, <1>5

\* A chunk of the body.
LEMMA BodyChunkInv ==
  ASSUME IInv, NEW j \in Job, BodyChunk(j)
  PROVE  IInv'
<1> DEFINE x == FileOf(j)
           d == Append(data[x], response[j].version)
<1>1. /\ pc[j] = "body" /\ Len(data[x]) < Size
      /\ data' = [data EXCEPT ![x] = d]
      /\ pc' = [pc EXCEPT ![j] = BodyStep(j)]
      /\ result' = [result EXCEPT ![j] = BodyResult(j)]
      /\ record' = record /\ blob' = blob /\ lock' = lock
      /\ attempt' = attempt /\ resume' = resume /\ response' = response
      /\ torn' = torn /\ budget' = budget
      /\ UNCHANGED <<fetchVars, gcVars, plan, kind, clock>>
  BY DEF BodyChunk, auxVars
<1>2. /\ x \in File /\ FileTyped /\ JobTyped /\ JobTypedAt(j) /\ JobValues(j)
      /\ Equipped(j) /\ OneVersion(j) /\ Published(x)
  BY <1>1, JobAt
<1>3. pc[j] \in Holding /\ pc[j] \in Answered
  BY <1>1 DEF Holding, Answered
<1>4. /\ data[x] \in Contents /\ response[j] \in Response /\ response[j].version \in Version
  BY <1>1, <1>2, <1>3 DEF Equipped, Response
<1>5. /\ d \in Contents
      /\ data[x] = Copies(response[j].version, Len(data[x]))
             => d = Copies(response[j].version, Len(d))
  BY <1>1, <1>4, AppendCopies
<1>6. /\ BodyStep(j) \in {"body", "retain"} /\ BodyResult(j) \in {None} \cup Result
      /\ BodyStep(j) = "retain" => BodyResult(j) \in Result /\ BodyResult(j).kind # "ok"
  BY BodyBegins
<1> HIDE DEF d
<1>7. data'[x] = d /\ pc'[j] = BodyStep(j) /\ result'[j] = BodyResult(j) /\ FileOf(j)' = x
  BY <1>1, <1>2 DEF FileTyped, JobTyped, FileOf
<1>8. pc'[j] \in Holding /\ pc'[j] \in Answered
  BY <1>6, <1>7 DEF Holding, Answered
<1>9. JobOnly(j) /\ FileOnly(j)
  BY <1>1, <1>2, <1>7, <1>8 DEF JobOnly, FileOnly, FileTyped, JobTyped
<1>10. JobValues(j)'
  BY <1>1, <1>2, <1>6, <1>7 DEF JobValues, JobSteps
<1>11. Published(x)'
  BY <1>1, <1>2, <1>7 DEF Published
<1>12. Equipped(j)'
  BY <1>1, <1>2, <1>3, <1>4, <1>5, <1>6, <1>7 DEF Equipped, Ended
<1>13. Honest(j)'
  BY <1>6, <1>7 DEF Honest
<1>14. OneVersion(j)'
  <2>1. Bound(x)' = Bound(x)
    BY <1>1, <1>7 DEF Bound
  <2>2. response'[j] = response[j] /\ kind' = kind
    BY <1>1
  <2>3. Bound(x) => d = Copies(response[j].version, Len(d))
    BY <1>1, <1>2, <1>5 DEF OneVersion
  <2>4. /\ response[j].mode = "fresh" => response[j].validator \in {response[j].version, None}
        /\ response[j].mode = "resume" /\ kind[x] # "lfs"
               => response[j].validator = response[j].version
        /\ response[j].mode # "refuse"
    BY <1>1, <1>2 DEF OneVersion
  <2>5. pc'[j] # "publish"
    BY <1>6, <1>7
  <2> QED
    BY <1>7, <2>1, <2>2, <2>3, <2>4, <2>5 DEF OneVersion, Copies
<1>15. /\ budget' \in Budgets /\ blob'[x] \in SUBSET [1 .. Size -> Version]
       /\ data'[x] \in {None} \cup Contents
  BY <1>1, <1>2, <1>5, <1>7 DEF JobTypedAt
<1> QED
  BY <1>1, <1>3, <1>7, <1>8, <1>9, <1>10, <1>11, <1>12, <1>13, <1>14, <1>15, HeldKept

\* The end of the body: whichever way, the data stays.
LEMMA EndBodyInv ==
  ASSUME IInv, NEW j \in Job, pc[j] = "body",
         NEW step \in {"retain", "publish", "discard"}, NEW r \in Result, EndBody(j, step, r),
         step # "publish" => r.kind # "ok",
         step = "publish" => /\ Len(data[FileOf(j)]) = Size
                             /\ Verified(FileOf(j), data[FileOf(j)])
                             /\ r = Ok(data[FileOf(j)])
  PROVE  IInv'
<1> DEFINE x == FileOf(j)
<1>1. /\ pc' = [pc EXCEPT ![j] = step] /\ result' = [result EXCEPT ![j] = r]
      /\ data' = data /\ record' = record /\ blob' = blob /\ lock' = lock
      /\ attempt' = attempt /\ resume' = resume /\ response' = response
      /\ torn' = torn /\ budget' = budget
      /\ UNCHANGED <<fetchVars, gcVars, plan, kind, clock>>
  BY DEF EndBody, auxVars, diskVars
<1>2. /\ x \in File /\ FileTyped /\ JobTyped /\ JobTypedAt(j) /\ JobValues(j)
      /\ Equipped(j) /\ OneVersion(j) /\ Published(x)
  BY JobAt
<1>3. pc[j] \in Holding /\ pc[j] \in Answered
  BY DEF Holding, Answered
<1>4. data[x] \in Contents /\ response[j] \in Response /\ response[j].version \in Version
  BY <1>2, <1>3 DEF Equipped, Response
<1>5. pc'[j] = step /\ result'[j] = r /\ FileOf(j)' = x
  BY <1>1, <1>2 DEF FileTyped, JobTyped, FileOf
<1>6. pc'[j] \in Holding /\ pc'[j] \in Answered
  BY <1>5 DEF Holding, Answered
<1>7. JobOnly(j) /\ FileOnly(j)
  BY <1>1, <1>2, <1>5, <1>6 DEF JobOnly, FileOnly, FileTyped, JobTyped
<1>8. JobValues(j)'
  BY <1>1, <1>2, <1>5 DEF JobValues, JobSteps
<1>9. Published(x)'
  BY <1>1, <1>2, <1>5 DEF Published
<1>10. Equipped(j)'
  BY <1>1, <1>2, <1>3, <1>4, <1>5 DEF Equipped, Ended
<1>11. Honest(j)'
  BY <1>1, <1>5 DEF Honest, Verified
<1>12. OneVersion(j)'
  <2>1. Bound(x)' = Bound(x)
    BY <1>1, <1>5 DEF Bound
  <2> QED
    BY <1>1, <1>2, <1>4, <1>5, <2>1 DEF OneVersion, Copies
<1>13. /\ budget' \in Budgets /\ blob'[x] \in SUBSET [1 .. Size -> Version]
       /\ data'[x] \in {None} \cup Contents
  BY <1>1, <1>2, <1>4 DEF JobTypedAt
<1> QED
  BY <1>1, <1>3, <1>5, <1>6, <1>7, <1>8, <1>9, <1>10, <1>11, <1>12, <1>13, HeldKept

\* The three ways a body comes to an end.
LEMMA BodyOverInv ==
  ASSUME IInv, NEW j \in Job, BodyBreaks(j) \/ BodyMisfits(j) \/ BodyEnds(j)
  PROVE  IInv'
<1>1. pc[j] = "body"
  BY DEF BodyBreaks, BodyMisfits, BodyEnds
<1>2. \A e \in ErrorKinds : Err(e) \in Result /\ Err(e).kind # "ok"
  BY Errors
<1>3. data[FileOf(j)] \in Contents
  BY <1>1, JobAt DEF Equipped
<1>4. CASE \E step \in {"retain", "discard"}, e \in ErrorKinds : EndBody(j, step, Err(e))
  <2>1. PICK step \in {"retain", "discard"}, e \in ErrorKinds : EndBody(j, step, Err(e))
    BY <1>4
  <2>2. Err(e) \in Result /\ Err(e).kind # "ok" /\ step # "publish"
    BY <1>2, <2>1
  <2> QED
    BY <1>1, <2>1, <2>2, EndBodyInv
<1>5. CASE /\ EndBody(j, "publish", Ok(data[FileOf(j)]))
           /\ Len(data[FileOf(j)]) = Size /\ Verified(FileOf(j), data[FileOf(j)])
  <2>1. Ok(data[FileOf(j)]) \in Result
    BY <1>3, ContentIsSeq DEF Ok, Result
  <2> QED
    BY <1>1, <1>5, <2>1, EndBodyInv
<1>6. CASE BodyBreaks(j)
  BY <1>4, <1>6 DEF BodyBreaks, ErrorKinds
<1>7. CASE BodyMisfits(j)
  BY <1>4, <1>7 DEF BodyMisfits, ErrorKinds
<1>8. CASE BodyEnds(j)
  BY <1>4, <1>5, <1>8 DEF BodyEnds, ErrorKinds
<1> QED
  BY <1>6, <1>7, <1>8

\* What is spent from the budget leaves the settings alone.
LEMMA Spent ==
  ASSUME budget \in Budgets, NEW item \in {"faults", "drops", "cancels", "plans", "ticks"},
         Spend(item)
  PROVE  budget' \in Budgets /\ budget'.attempts = budget.attempts
BY DEF Spend, Budgets

\* The lock is given back: what is left of the partial is true of the record,
\* or no record says that it is.
LEMMA Released ==
  ASSUME IInv, NEW j \in Job, pc[j] \in Holding, NEW r \in Result, EndAttempt(j, r),
         Unlock(FileOf(j)), UNCHANGED <<data, blob, fetchVars, gcVars, plan, kind, clock>>,
         budget' \in Budgets, budget'.attempts = budget.attempts,
         NEW rec \in {None} \cup PartialRecord, record' = [record EXCEPT ![FileOf(j)] = rec],
         NEW t \in BOOLEAN, torn' = [torn EXCEPT ![FileOf(j)] = t], torn[FileOf(j)] => t,
         r.kind = "ok" => r.content \in blob[FileOf(j)],
         rec # None => rec.received \in 1 .. Size - 1,
         ~t /\ kind[FileOf(j)] # "lfs" /\ data[FileOf(j)] # None /\ rec # None
             /\ rec.received = Len(data[FileOf(j)])
             => data[FileOf(j)] = Copies(rec.validator, Len(data[FileOf(j)]))
  PROVE  IInv'
<1> DEFINE x == FileOf(j)
<1>1. /\ x \in File /\ FileTyped /\ JobTyped /\ JobTypedAt(j) /\ Published(x)
  BY JobAt DEF Holding
<1>2. /\ JobOnly(j) /\ JobValues(j)' /\ pc'[j] \in {"attempt", "done"}
      /\ pc'[j] = "done" => result'[j] = r
  BY AttemptEnds DEF IInv
<1>3. pc'[j] \notin Holding
  BY <1>2 DEF Holding
<1>4. /\ record'[x] = rec /\ torn'[x] = t /\ data'[x] = data[x] /\ blob'[x] = blob[x]
      /\ kind' = kind
  BY <1>1 DEF FileTyped
<1>5. FileOnly(j)
  BY <1>1, <1>3, <1>4 DEF FileOnly, FileTyped, Unlock
<1>6. JobEffect(j) /\ FileOf(j)' = x
  BY <1>2, <1>4, <1>5, HeldEffect
<1>7. JobTypedAt(j)'
  BY <1>1, <1>2, <1>4, <1>6 DEF JobTypedAt, JobValues
<1>8. (Equipped(j) /\ Honest(j) /\ OneVersion(j))'
  BY <1>2, <1>4, <1>6 DEF Equipped, Honest, OneVersion, Answered, Holding, Ended
<1>9. Recorded(x)'
  BY <1>4, <1>6 DEF Recorded, Bound, Copies
<1>10. Published(x)'
  BY <1>1, <1>4, <1>6 DEF Published
<1> QED
  BY <1>6, <1>7, <1>8, <1>9, <1>10, JobInv DEF JobKeeps

\* The rest of a body that was not read to its end, retained or not.
LEMMA RetainPartialInv ==
  ASSUME IInv, NEW j \in Job, RetainPartial(j)
  PROVE  IInv'
<1> DEFINE x == FileOf(j)
           received == Len(data[x])
           rec == [received |-> received, validator |-> response[j].validator, updated |-> clock]
<1>1. /\ pc[j] = "retain" /\ UNCHANGED <<data, blob, fetchVars, gcVars, plan, kind, clock, torn>>
  BY DEF RetainPartial
<1>2. /\ x \in File /\ FileTyped /\ JobTyped /\ JobTypedAt(j) /\ JobValues(j)
      /\ Equipped(j) /\ Honest(j) /\ OneVersion(j) /\ Published(x)
  BY <1>1, JobAt
<1>3. pc[j] \in Holding /\ pc[j] \in Answered /\ pc[j] \in Ended
  BY <1>1 DEF Holding, Answered, Ended
<1>4. /\ data[x] \in Contents /\ response[j] \in Response /\ result[j] \in Result
      /\ result[j].kind # "ok" /\ clock \in Nat /\ budget \in Budgets
  BY <1>1, <1>2, <1>3, Typed DEF Equipped, IInv
<1>5. CASE /\ received > 0 /\ received < Size
           /\ response[j].validator # None \/ kind[x] = "lfs"
           /\ record' = [record EXCEPT ![x] = rec]
           /\ Finish(j) /\ UNCHANGED budget
  <2>1. received \in 1 .. Size - 1 /\ received \in 0 .. Size
    BY <1>4, <1>5, ContentIsSeq, BoundAssumption
  <2>2. response[j].validator \in Validators
    BY <1>4 DEF Response
  <2>3. rec \in PartialRecord
    BY <1>4, <2>1, <2>2 DEF PartialRecord
  <2>4. ~torn[x] /\ kind[x] # "lfs" => data[x] = Copies(response[j].validator, received)
    <3> SUFFICES ASSUME ~torn[x], kind[x] # "lfs"
                 PROVE  data[x] = Copies(response[j].validator, received)
      OBVIOUS
    <3>1. data[x] = Copies(response[j].version, received)
      BY <1>1, <1>2 DEF OneVersion, Bound
    <3>2. response[j].mode \in {"fresh", "resume"}
      BY <1>1, <1>2, <1>4 DEF OneVersion, Response
    <3>3. response[j].validator = response[j].version
      BY <1>1, <1>2, <1>5, <3>2 DEF OneVersion
    <3> QED
      BY <3>1, <3>3
  <2>5. torn' = [torn EXCEPT ![x] = torn[x]] /\ torn[x] \in BOOLEAN
    BY <1>1, <1>2 DEF FileTyped
  <2>6. EndAttempt(j, result[j]) /\ Unlock(x)
    BY <1>5 DEF Finish
  <2>7. rec.received = received /\ rec.validator = response[j].validator
    OBVIOUS
  <2>8. /\ ~torn[x] /\ kind[x] # "lfs" /\ data[x] # None /\ rec # None
              /\ rec.received = Len(data[x])
              => data[x] = Copies(rec.validator, Len(data[x]))
        /\ rec.received \in 1 .. Size - 1
    BY <2>1, <2>4, <2>7
  <2>9. budget' \in Budgets /\ budget'.attempts = budget.attempts
    BY <1>4, <1>5
  <2>10. record' = [record EXCEPT ![x] = rec]
    BY <1>5
  <2> HIDE DEF rec
  <2> QED
    BY <1>1, <1>3, <1>4, <2>3, <2>5, <2>6, <2>8, <2>9, <2>10, Released
<1>6. CASE /\ UNCHANGED budget \/ Faulty
           /\ pc' = [pc EXCEPT ![j] = "discard"]
           /\ UNCHANGED <<record, lock, attempt, result, resume, response>>
  <2>1. budget' \in Budgets /\ budget'.attempts = budget.attempts
    BY <1>4, <1>6, Spent DEF Faulty
  <2>2. pc'[j] = "discard" /\ FileOf(j)' = x
    BY <1>1, <1>2, <1>6 DEF JobTyped, FileOf
  <2>3. pc'[j] \in Holding
    BY <2>2 DEF Holding
  <2>4. JobOnly(j) /\ FileOnly(j)
    BY <1>1, <1>2, <1>6, <2>2, <2>3 DEF JobOnly, FileOnly, FileTyped, JobTyped
  <2>5. JobValues(j)'
    BY <1>2, <1>6, <2>1, <2>2 DEF JobValues, JobSteps
  <2>6. Published(x)'
    BY <1>1, <1>2, <2>2 DEF Published
  <2>7. (Equipped(j) /\ Honest(j) /\ OneVersion(j))'
    BY <1>2, <1>3, <1>4, <1>6, <2>2 DEF Equipped, Honest, OneVersion
  <2>8. data'[x] \in {None} \cup Contents /\ blob'[x] \in SUBSET [1 .. Size -> Version]
    BY <1>1, <1>2 DEF JobTypedAt
  <2> QED
    BY <1>1, <1>3, <1>6, <2>1, <2>2, <2>3, <2>4, <2>5, <2>6, <2>7, <2>8, HeldKept
<1> QED
  BY <1>5, <1>6 DEF RetainPartial

\* The content of an entry with a digest is what it describes, and that of
\* a partial no transfer was cut short on is of one version.
LEMMA VerifiedContent ==
  ASSUME NEW j \in Job, pc[j] = "publish", Honest(j), OneVersion(j),
         data[FileOf(j)] \in Contents, kind[FileOf(j)] \in EntryKinds
  PROVE  /\ data[FileOf(j)] \in [1 .. Size -> Version]
         /\ kind[FileOf(j)] # "opaque" => data[FileOf(j)] = Whole(Expected)
         /\ ~torn[FileOf(j)] => data[FileOf(j)] \in {Whole(v) : v \in Version}
<1> DEFINE x == FileOf(j)
<1>1. /\ Len(data[x]) = Size /\ data[x] \in [1 .. Len(data[x]) -> Version]
  BY ContentIsSeq DEF Honest
<1>2. kind[x] # "opaque" => data[x] = Whole(Expected)
  BY DEF Honest, Verified
<1>3. Bound(x) => \E v \in Version : data[x] = Copies(v, Size)
  BY <1>1 DEF OneVersion
<1>4. Bound(x) => data[x] \in {Whole(v) : v \in Version}
  BY <1>3 DEF Copies, Whole
<1>5. ~torn[x] /\ ~Bound(x) => data[x] \in {Whole(v) : v \in Version}
  <2>1. kind[x] = "lfs" => kind[x] # "opaque"
    OBVIOUS
  <2> QED
    BY <1>2, <2>1, ServerAssumption DEF Bound
<1> QED
  BY <1>1, <1>2, <1>4, <1>5

\* The publication of what has been verified, or its failure.
LEMMA PublishPartialInv ==
  ASSUME IInv, NEW j \in Job, PublishPartial(j)
  PROVE  IInv'
<1> DEFINE x == FileOf(j)
<1>1. pc[j] = "publish" /\ UNCHANGED <<data, record, fetchVars, gcVars, plan, kind, clock, torn>>
  BY DEF PublishPartial
<1>2. /\ x \in File /\ FileTyped /\ JobTyped /\ JobTypedAt(j) /\ JobValues(j)
      /\ Equipped(j) /\ Honest(j) /\ OneVersion(j) /\ Recorded(x) /\ Published(x)
      /\ kind[x] \in EntryKinds
  BY <1>1, JobAt
<1>3. pc[j] \in Holding /\ pc[j] \in Answered /\ pc[j] \in Ended
  BY <1>1 DEF Holding, Answered, Ended
<1>4. /\ data[x] \in Contents /\ response[j] \in Response /\ result[j] \in Result
      /\ budget \in Budgets
  BY <1>1, <1>2, <1>3 DEF Equipped, JobTypedAt
<1>5. /\ data[x] \in [1 .. Size -> Version]
      /\ kind[x] # "opaque" => data[x] = Whole(Expected)
      /\ ~torn[x] => data[x] \in {Whole(v) : v \in Version}
  BY <1>1, <1>2, <1>4, VerifiedContent
<1>6. CASE /\ blob' = [blob EXCEPT ![x] = @ \cup {data[x]}]
           /\ pc' = [pc EXCEPT ![j] = "discard"]
           /\ UNCHANGED <<lock, attempt, resume, response, result, budget>>
  <2>1. pc'[j] = "discard" /\ FileOf(j)' = x /\ blob'[x] = blob[x] \cup {data[x]}
    BY <1>1, <1>2, <1>6 DEF JobTyped, FileTyped, FileOf
  <2>2. pc'[j] \in Holding
    BY <2>1 DEF Holding
  <2>3. JobOnly(j) /\ FileOnly(j)
    BY <1>1, <1>2, <1>6, <2>1, <2>2 DEF JobOnly, FileOnly, FileTyped, JobTyped
  <2>4. JobValues(j)'
    BY <1>2, <1>6, <2>1 DEF JobValues, JobSteps
  <2>5. Published(x)'
    BY <1>1, <1>2, <1>5, <2>1 DEF Published
  <2>6. Equipped(j)' /\ OneVersion(j)'
    BY <1>2, <1>3, <1>4, <1>6, <2>1 DEF Equipped, OneVersion
  <2>7. Honest(j)'
    <3>1. result[j] = Ok(data[x]) /\ result'[j] = result[j]
      BY <1>1, <1>2, <1>6 DEF Honest
    <3>2. result'[j].content \in blob'[x]
      BY <2>1, <3>1 DEF Ok
    <3> QED
      BY <2>1, <3>2 DEF Honest
  <2>8. data'[x] \in {None} \cup Contents /\ blob'[x] \in SUBSET [1 .. Size -> Version]
    BY <1>1, <1>2, <1>5, <2>1 DEF JobTypedAt
  <2>9. budget' \in Budgets /\ budget'.attempts = budget.attempts
    BY <1>4, <1>6
  <2> QED
    BY <1>1, <1>3, <2>1, <2>2, <2>3, <2>4, <2>5, <2>6, <2>7, <2>8, <2>9, HeldKept
<1>7. CASE Faulty /\ EndAttempt(j, Err("io")) /\ Unlock(x) /\ UNCHANGED blob
  <2>1. budget' \in Budgets /\ budget'.attempts = budget.attempts
    BY <1>4, <1>7, Spent DEF Faulty
  <2>2. Err("io") \in Result /\ Err("io").kind # "ok"
    BY Errors DEF ErrorKinds
  <2>3. /\ torn' = [torn EXCEPT ![x] = torn[x]] /\ torn[x] \in BOOLEAN
        /\ record' = [record EXCEPT ![x] = record[x]]
        /\ record[x] \in {None} \cup PartialRecord
    BY <1>1, <1>2 DEF FileTyped
  <2>4. record[x] # None => record[x].received \in 1 .. Size - 1
    BY <1>2 DEF Recorded
  <2>5. Len(data[x]) = Size
    BY <1>1, <1>2 DEF Honest
  <2>6. record[x] # None => record[x].received # Len(data[x])
    BY <2>4, <2>5, BoundAssumption
  <2> QED
    BY <1>1, <1>3, <1>7, <2>1, <2>2, <2>3, <2>4, <2>6, Released
<1> QED
  BY <1>6, <1>7 DEF PublishPartial

\* A partial that is discarded: nothing is left that its record could belie.
LEMMA DiscardInv ==
  ASSUME IInv, NEW j \in Job, DiscardData(j) \/ DiscardRecord(j)
  PROVE  IInv'
<1> DEFINE x == FileOf(j)
           r == IF result[j].kind \in {"ok", "protocol"} \/ response[j].mode = "refuse"
                THEN Err("io") ELSE result[j]
<1>1. /\ pc[j] \in {"discard", "discard record"}
      /\ UNCHANGED <<blob, fetchVars, gcVars, plan, kind, clock>>
  BY DEF DiscardData, DiscardRecord
<1>2. /\ x \in File /\ FileTyped /\ JobTyped /\ JobTypedAt(j) /\ JobValues(j)
      /\ Equipped(j) /\ Honest(j) /\ Recorded(x) /\ Published(x)
  BY <1>1, JobAt
<1>3. pc[j] \in Holding /\ pc[j] \in Answered /\ pc[j] \in Ended
  BY <1>1 DEF Holding, Answered, Ended
<1>4. result[j] \in Result /\ response[j] \in Response /\ budget \in Budgets
  BY <1>2, <1>3 DEF Equipped, JobTypedAt
<1>5. /\ record[x] \in {None} \cup PartialRecord
      /\ record[x] # None => record[x].received \in 1 .. Size - 1
      /\ torn[x] \in BOOLEAN
  BY <1>2 DEF Recorded, FileTyped
<1>6. CASE DiscardFails(j)
  <2>1. /\ EndAttempt(j, r) /\ Unlock(x) /\ torn' = [torn EXCEPT ![x] = TRUE]
        /\ UNCHANGED <<data, record>>
    BY <1>6 DEF DiscardFails
  <2>2. budget' \in Budgets /\ budget'.attempts = budget.attempts
    BY <1>4, <1>6, Spent DEF DiscardFails, Faulty
  <2>3. r \in Result /\ r.kind # "ok"
    BY <1>4, Errors DEF ErrorKinds
  <2>4. record' = [record EXCEPT ![x] = record[x]]
    BY <1>2, <2>1 DEF FileTyped
  <2> HIDE DEF r
  <2> QED
    BY <1>1, <1>3, <1>5, <2>1, <2>2, <2>3, <2>4, Released
<1>7. CASE /\ pc[j] = "discard" /\ data' = [data EXCEPT ![x] = None]
           /\ pc' = [pc EXCEPT ![j] = "discard record"]
           /\ UNCHANGED <<record, lock, attempt, resume, response, result, budget, torn>>
  <2>1. pc'[j] = "discard record" /\ FileOf(j)' = x /\ data'[x] = None
    BY <1>1, <1>2, <1>7 DEF JobTyped, FileTyped, FileOf
  <2>2. pc'[j] \in Holding
    BY <2>1 DEF Holding
  <2>3. JobOnly(j) /\ FileOnly(j)
    BY <1>1, <1>2, <1>7, <2>1, <2>2 DEF JobOnly, FileOnly, FileTyped, JobTyped
  <2>4. JobValues(j)'
    BY <1>2, <1>7, <2>1 DEF JobValues, JobSteps
  <2>5. Published(x)'
    BY <1>1, <1>2, <1>7, <2>1 DEF Published
  <2>6. (Equipped(j) /\ Honest(j) /\ OneVersion(j))'
    BY <1>1, <1>2, <1>3, <1>4, <1>7, <2>1 DEF Equipped, Honest, OneVersion
  <2>7. data'[x] \in {None} \cup Contents /\ blob'[x] \in SUBSET [1 .. Size -> Version]
    BY <1>1, <1>2, <2>1 DEF JobTypedAt
  <2>8. budget' \in Budgets /\ budget'.attempts = budget.attempts
    BY <1>4, <1>7
  <2> QED
    BY <1>1, <1>3, <1>7, <2>1, <2>2, <2>3, <2>4, <2>5, <2>6, <2>7, <2>8, HeldKept
<1>8. CASE /\ record' = [record EXCEPT ![x] = None]
           /\ Finish(j) /\ UNCHANGED <<data, budget, torn>>
  <2>1. EndAttempt(j, result[j]) /\ Unlock(x)
    BY <1>8 DEF Finish
  <2>2. result[j].kind = "ok" => result[j].content \in blob[x]
    BY <1>1, <1>2 DEF Honest
  <2>3. torn' = [torn EXCEPT ![x] = torn[x]]
    BY <1>2, <1>8 DEF FileTyped
  <2>4. budget' \in Budgets /\ budget'.attempts = budget.attempts
    BY <1>4, <1>8
  <2> QED
    BY <1>1, <1>3, <1>4, <1>5, <1>8, <2>1, <2>2, <2>3, <2>4, Released
<1> QED
  BY <1>6, <1>7, <1>8 DEF DiscardData, DiscardRecord

\* Every step of a job.
LEMMA JobStepInv ==
  ASSUME IInv, NEW j \in Job, JobStep(j)
  PROVE  IInv'
BY StartAttemptInv, RequestFailsInv, FullResponseInv, RangeResponseInv, LockPartialInv,
   BodyChunkInv, BodyOverInv, RetainPartialInv, PublishPartialInv, DiscardInv DEF JobStep

-----------------------------------------------------------------------------
(* The scheduler (run_bounded), the caller and the process.                *)

\* A fetch starts jobs, takes those that are done, or drops all it has: a
\* lock it drops marks the file.
LEMMA FetchInv ==
  ASSUME IInv,
         UNCHANGED <<data, record, blob, gcVars, plan, kind, clock, attempt, resume, response>>,
         budget' \in Budgets, budget'.attempts = budget.attempts,
         lock' \in [File -> {None} \cup Job \cup Collector], torn' \in [File -> BOOLEAN],
         pc' \in [Job -> JobSteps], result' \in [Job -> {None} \cup Result],
         FetchTyped', Started', \A o \in Fetch : Collected(o)',
         \A k \in Job :
             \/ pc'[k] = pc[k] /\ result'[k] = result[k]
             \/ pc'[k] \in {"attempt", "collected"} /\ pc[k] \notin Holding
             \/ pc'[k] = "collected" /\ pc[k] \in Holding /\ lock'[FileOf(k)] = None,
         \A x \in File :
             \/ lock'[x] = lock[x] /\ torn'[x] = torn[x]
             \/ lock[x] \in Job /\ pc'[lock[x]] = "collected" /\ lock'[x] = None /\ torn'[x],
         \A o \in Fetch : phase'[o] \notin {"new", "running"} =>
             \A k \in Jobs(o) : pc'[k] \in {"idle", "collected"}
  PROVE  IInv'
<1>1. FileTyped /\ JobTyped /\ GcTyped /\ clock \in Nat
  BY Typed DEF IInv
<1>2. /\ \A k : FileOf(k)' = FileOf(k)
      /\ \A o : Jobs(o)' = Jobs(o)
      /\ \A g : GcFile(g)' = GcFile(g)
  BY DEF FileOf, Jobs, GcFile, gcVars
<1>3. \A k \in Job : pc[k] \in Holding => FileOf(k) \in File /\ lock[FileOf(k)] = k
  BY StartedJob DEF IInv, Exclusive, Holding
<1>4. None \notin Job /\ None \notin Collector /\ Job \cap Collector = {}
  BY ActorAssumption
<1>5. TypeOK'
  <2>1. FileTyped' /\ JobTyped' /\ GcTyped' /\ clock' \in Nat
    BY <1>1 DEF FileTyped, JobTyped, GcTyped, gcVars
  <2> QED
    BY <2>1, TypedNext
<1>6. Planned'
  BY DEF IInv, Planned
<1>7. Exclusive'
  <2>1. Exclusive
    BY DEF IInv
  <2>2. \A k \in Job : pc'[k] \in Holding => pc[k] \in Holding /\ pc'[k] = pc[k]
    BY DEF Holding
  <2>3. ASSUME NEW x \in File, NEW k \in Job, lock'[x] = k
        PROVE  pc'[k] \in Holding /\ FileOf(k) = x
    <3>1. lock[x] = k
      BY <1>4, <2>3
    <3>2. pc[k] \in Holding /\ FileOf(k) = x
      BY <2>1, <3>1 DEF Exclusive
    <3> QED
      BY <1>4, <2>3, <3>2
  <2>4. ASSUME NEW k \in Job, pc'[k] \in Holding
        PROVE  lock'[FileOf(k)] = k
    <3>1. pc[k] \in Holding /\ pc'[k] # "collected"
      BY <2>2, <2>4 DEF Holding
    <3> QED
      BY <1>3, <3>1
  <2>5. ASSUME NEW x \in File, NEW g \in Collector, lock'[x] = g
        PROVE  gc[g] \in Collecting /\ GcFile(g) = x
    BY <1>4, <2>1, <2>5 DEF Exclusive
  <2>6. ASSUME NEW g \in Collector, gc[g] \in Collecting
        PROVE  lock'[GcFile(g)] = g
    <3>1. lock[GcFile(g)] = g /\ GcFile(g) \in File
      BY <2>1, <2>6, Candidates DEF Exclusive, IInv, Collecting
    <3> QED
      BY <1>4, <3>1
  <2> QED
    BY <1>2, <2>3, <2>4, <2>5, <2>6 DEF Exclusive, gcVars
<1>8. ASSUME NEW k \in Job
      PROVE  (Equipped(k) /\ Honest(k) /\ OneVersion(k))'
  <2>1. Equipped(k) /\ Honest(k) /\ OneVersion(k)
    BY DEF IInv
  <2>2. CASE pc'[k] = pc[k] /\ result'[k] = result[k]
    <3>1. CASE pc[k] = "idle"
      BY <2>2, <3>1 DEF Equipped, Honest, OneVersion, Answered, Holding, Ended
    <3>2. CASE pc[k] # "idle"
      <4>1. FileOf(k) \in File
        BY <3>2, StartedJob DEF IInv
      <4>2. Bound(FileOf(k))' => Bound(FileOf(k))
        BY <1>1, <1>2, <4>1 DEF Bound, FileTyped
      <4> QED
        BY <1>2, <2>1, <2>2, <4>2, ZenonT(40) DEF Equipped, Honest, Verified, OneVersion, Copies
    <3> QED
      BY <3>1, <3>2
  <2>3. CASE pc'[k] \in {"attempt", "collected"}
    BY <2>3 DEF Equipped, Honest, OneVersion, Answered, Holding, Ended
  <2> QED
    BY <2>2, <2>3
<1>9. ASSUME NEW x \in File
      PROVE  (Recorded(x) /\ Published(x))'
  <2>1. Recorded(x) /\ Published(x)
    BY DEF IInv
  <2> QED
    BY <2>1 DEF Recorded, Published, Bound, Copies
<1>10. ASSUME NEW g \in Collector
       PROVE  Trashed(g)'
  <2>1. Trashed(g)
    BY DEF IInv
  <2> QED
    BY <1>2, <2>1 DEF Trashed, gcVars
<1>11. NoJobOutlivesFetch'
  <2>1. \A o \in Fetch : Jobs(o) \subseteq Job
    BY JobsTyped DEF IInv
  <2>2. ASSUME NEW o \in Fetch, phase'[o] \notin {"new", "running"}
        PROVE  /\ \A x \in File : lock'[x] \notin Jobs(o)
               /\ \A k \in Jobs(o) : pc'[k] \in {"idle", "collected"}
    <3>1. \A k \in Jobs(o) : pc'[k] \in {"idle", "collected"}
      BY <2>2
    <3> QED
      BY <1>7, <2>1, <3>1 DEF Exclusive, Holding
  <2> QED
    BY <1>2, <2>2 DEF NoJobOutlivesFetch
<1>12. TrashHasTombstone'
  BY DEF IInv, TrashHasTombstone, gcVars
<1> QED
  BY <1>5, <1>6, <1>7, <1>8, <1>9, <1>10, <1>11, <1>12 DEF IInv

\* The jobs a fetch begins with are the first ones, as many as it may run.
LEMMA FirstJobs ==
  ASSUME Planned, budget \in Budgets, NEW o \in Fetch, plan[o] # <<>>,
         NEW first, first = {j \in Jobs(o) : j[2] <= budget.width}
  PROVE  /\ Cardinality(first) \in 1 .. Len(plan[o])
         /\ \A j \in Jobs(o) : j \in first <=> j[2] <= Cardinality(first)
<1>1. Len(plan[o]) \in Nat \ {0} /\ DOMAIN plan[o] = 1 .. Len(plan[o])
  BY DEF Planned
<1>2. budget.width \in Nat \ {0}
  BY DEF Budgets
<1> DEFINE m == IF budget.width <= Len(plan[o]) THEN budget.width ELSE Len(plan[o])
           f == [i \in 1 .. m |-> <<o, i>>]
<1>3. m \in 1 .. Len(plan[o]) /\ m \in Nat
  BY <1>1, <1>2
<1>4. \A i \in 1 .. Len(plan[o]) : i <= budget.width <=> i <= m
  BY <1>1, <1>2
<1>5. \A j \in Jobs(o) : j = <<o, j[2]>> /\ j[2] \in 1 .. Len(plan[o])
  BY <1>1 DEF Jobs
<1> HIDE DEF m
<1>6. \A i \in 1 .. m : <<o, i>> \in first
  BY <1>1, <1>3, <1>4 DEF Jobs
<1>7. \A j \in first : j[2] \in 1 .. m /\ f[j[2]] = j
  BY <1>3, <1>4, <1>5
<1>8. f \in [1 .. m -> first]
  BY <1>6
<1>9. \A i, k \in 1 .. m : f[i] = f[k] => i = k
  OBVIOUS
<1>10. f \in Bijection(1 .. m, first)
  <2>1. \A j \in first : \E i \in 1 .. m : f[i] = j
    BY <1>7
  <2> HIDE DEF f
  <2> QED
    BY <1>8, <1>9, <2>1, Fun_IsBij
<1>11. Cardinality(1 .. m) = m /\ IsFiniteSet(1 .. m)
  BY <1>3, FS_Interval
<1>12. Cardinality(first) = m
  BY <1>10, <1>11, FS_Bijection DEF ExistsBijection
<1> QED
  BY <1>3, <1>4, <1>5, <1>12

\* What holds of a fetch whichever step is made.
LEMMA FetchAt ==
  ASSUME IInv
  PROVE  /\ FileTyped /\ JobTyped /\ FetchTyped /\ budget \in Budgets /\ Planned /\ Started
         /\ \A o \in Fetch : Collected(o) /\ Jobs(o) \subseteq Job
         /\ \A o \in Fetch, k \in Job : k \in Jobs(o) => k[1] = o /\ k[2] \in 1 .. Len(plan[o])
         /\ \A o \in Fetch : Len(plan[o]) \in Nat /\ DOMAIN plan[o] = 1 .. Len(plan[o])
<1>1. FileTyped /\ JobTyped /\ FetchTyped /\ budget \in Budgets
  BY Typed DEF IInv
<1>2. \A o \in Fetch : Len(plan[o]) \in Nat /\ DOMAIN plan[o] = 1 .. Len(plan[o])
  BY DEF IInv, Planned
<1>3. \A o \in Fetch : Jobs(o) \subseteq Job
  BY JobsTyped DEF IInv
<1>4. \A o \in Fetch, k \in Job : k \in Jobs(o) => k[1] = o /\ k[2] \in 1 .. Len(plan[o])
  BY <1>2 DEF Jobs
<1> QED
  BY <1>1, <1>2, <1>3, <1>4 DEF IInv

\* A fetch begins.
LEMMA BeginFetchInv ==
  ASSUME IInv, NEW o \in Fetch, BeginFetch(o)
  PROVE  IInv'
<1> DEFINE first == {j \in Jobs(o) : j[2] <= budget.width}
           n == Cardinality(first)
<1>1. /\ phase[o] = "new" /\ plan[o] # <<>>
      /\ UNCHANGED <<attempt, resume, response, result, token, results, error,
                     diskVars, gcVars, auxVars>>
  BY DEF BeginFetch
<1>2. /\ data' = data /\ record' = record /\ blob' = blob /\ lock' = lock /\ torn' = torn
      /\ budget' = budget /\ plan' = plan /\ kind' = kind /\ clock' = clock
      /\ token' = token /\ results' = results /\ error' = error /\ result' = result
  BY <1>1 DEF diskVars, auxVars
<1>3. /\ FileTyped /\ JobTyped /\ FetchTyped /\ budget \in Budgets /\ Planned /\ Started
      /\ \A q \in Fetch : Collected(q) /\ Jobs(q) \subseteq Job
      /\ \A q \in Fetch, k \in Job : k \in Jobs(q) => k[1] = q /\ k[2] \in 1 .. Len(plan[q])
      /\ \A q \in Fetch : Len(plan[q]) \in Nat /\ DOMAIN plan[q] = 1 .. Len(plan[q])
  BY FetchAt
<1>4. \A q : Jobs(q)' = Jobs(q)
  BY <1>2 DEF Jobs
<1>5. next[o] = 1 /\ \A k \in Jobs(o) : pc[k] = "idle"
  <2>1. next[o] = 1
    BY <1>1, <1>3 DEF Started
  <2>2. \A k \in Jobs(o) : pc[k] # "idle" => k[2] < next[o] /\ k[2] \in 1 .. Len(plan[o])
    BY <1>3 DEF Started
  <2> QED
    BY <1>3, <2>1, <2>2
<1>6. results[o] = {}
  <2>1. ASSUME NEW p \in results[o] PROVE FALSE
    <3>1. p[1] \in DOMAIN plan[o] /\ pc[<<o, p[1]>>] = "collected"
      BY <1>3, <2>1 DEF Collected
    <3>2. <<o, p[1]>> \in Jobs(o)
      BY <3>1 DEF Jobs
    <3> QED
      BY <1>5, <3>1, <3>2
  <2> QED
    BY <2>1
<1>7. CASE token[o]
  <2>1. phase' = [phase EXCEPT ![o] = "cancelled"] /\ pc' = pc /\ next' = next
    BY <1>1, <1>7 DEF BeginFetch, Return
  <2>2. FetchTyped'
    BY <1>2, <1>3, <2>1 DEF FetchTyped
  <2>3. Started'
    BY <1>2, <1>3, <1>4, <1>5, <2>1 DEF Started, FetchTyped
  <2>4. ASSUME NEW q \in Fetch PROVE Collected(q)'
    <3>1. q # o => phase'[q] = phase[q]
      BY <1>3, <2>1 DEF FetchTyped
    <3>2. phase'[o] = "cancelled"
      BY <1>3, <2>1 DEF FetchTyped
    <3>3. Active(q)' = Active(q)
      BY <1>4, <2>1 DEF Active
    <3>4. Collected(q)
      BY <1>3
    <3> QED
      BY <1>2, <1>4, <2>1, <3>1, <3>2, <3>3, <3>4 DEF Collected
  <2>5. \A q \in Fetch : phase'[q] \notin {"new", "running"} =>
             \A k \in Jobs(q) : pc'[k] \in {"idle", "collected"}
    BY <1>3, <1>5, <2>1 DEF FetchTyped, IInv, NoJobOutlivesFetch
  <2> QED
    BY <1>1, <1>2, <1>3, <2>1, <2>2, <2>3, <2>4, <2>5, FetchInv DEF FileTyped, JobTyped
<1>8. CASE ~token[o]
  <2>1. /\ phase' = [phase EXCEPT ![o] = "running"] /\ pc' = Start(first)
        /\ next' = [next EXCEPT ![o] = n + 1]
    BY <1>1, <1>8 DEF BeginFetch, Return
  <2>2. n \in 1 .. Len(plan[o]) /\ \A j \in Jobs(o) : j \in first <=> j[2] <= n
    BY <1>1, <1>3, FirstJobs
  <2>3. first \subseteq Jobs(o)
    OBVIOUS
  <2> HIDE DEF first, n
  <2>4. /\ \A k \in Job : pc'[k] = IF k \in first THEN "attempt" ELSE pc[k]
        /\ pc' \in [Job -> JobSteps]
    BY <1>3, <2>1 DEF Start, JobTyped, JobSteps
  <2>5. /\ next'[o] = n + 1 /\ phase'[o] = "running"
        /\ \A q \in Fetch : q # o => next'[q] = next[q] /\ phase'[q] = phase[q]
        /\ next' \in [Fetch -> Nat]
    BY <1>3, <2>1, <2>2 DEF FetchTyped
  <2>6. FetchTyped'
    BY <1>2, <1>3, <2>1, <2>2, <2>5 DEF FetchTyped
  <2>7. \A q \in Fetch, k \in Job : q # o /\ k \in Jobs(q) => pc'[k] = pc[k]
    BY <1>3, <2>3, <2>4
  <2>8. Started'
    <3>1. ASSUME NEW k \in Job, pc'[k] # "idle"
          PROVE  k \in Jobs(k[1]) /\ k[2] < next'[k[1]]
      <4>1. CASE k \in first
        BY <1>3, <2>2, <2>3, <2>5, <4>1
      <4>2. CASE k \notin first
        <5>1. k \in Jobs(k[1]) /\ k[2] < next[k[1]] /\ k[1] \in Fetch /\ pc[k] # "idle"
          BY <1>3, <2>4, <3>1, <4>2 DEF Started, Job
        <5>2. k[1] # o
          BY <1>5, <5>1
        <5> QED
          BY <2>5, <5>1, <5>2
      <4> QED
        BY <4>1, <4>2
    <3>2. ASSUME NEW q \in Fetch, NEW k \in Jobs(q), k[2] < next'[q]
          PROVE  pc'[k] # "idle"
      <4>1. k \in Job /\ k[2] \in 1 .. Len(plan[q])
        BY <1>3
      <4>2. CASE q = o
        BY <2>2, <2>4, <2>5, <3>2, <4>1, <4>2
      <4>3. CASE q # o
        BY <1>3, <2>5, <2>7, <3>2, <4>1, <4>3 DEF Started
      <4> QED
        BY <4>2, <4>3
    <3>3. \A q \in Fetch : phase'[q] = "new" => next'[q] = 1
      BY <1>3, <2>5 DEF Started
    <3> QED
      BY <1>4, <3>1, <3>2, <3>3 DEF Started
  <2>9. ASSUME NEW q \in Fetch PROVE Collected(q)'
    <3>1. CASE q # o
      <4>1. Collected(q)
        BY <1>3
      <4>2. \A k \in Jobs(q) : pc'[k] = pc[k]
        BY <1>3, <2>7, <3>1
      <4>3. Active(q)' = Active(q)
        BY <1>4, <2>5, <3>1, <4>2 DEF Active
      <4>4. \A p \in results[q] : p[1] \in DOMAIN plan[q] => <<q, p[1]>> \in Jobs(q)
        BY DEF Jobs
      <4> QED
        BY <1>2, <1>4, <2>5, <3>1, <4>1, <4>2, <4>3, <4>4 DEF Collected
    <3>2. CASE q = o
      <4>1. \A k \in Jobs(o) : pc'[k] # "collected"
        BY <1>3, <1>5, <2>4
      <4>2. <<o, 1>> \in Jobs(o)
        BY <1>3, <2>2 DEF Jobs
      <4>3. <<o, 1>>[2] < next'[o] /\ pc'[<<o, 1>>] = "attempt"
        BY <1>3, <2>2, <2>4, <2>5, <4>2
      <4>4. <<o, 1>> \in Active(o)'
        BY <1>4, <4>2, <4>3 DEF Active
      <4> QED
        BY <1>2, <1>4, <1>6, <2>5, <3>2, <4>1, <4>4 DEF Collected
    <3> QED
      BY <3>1, <3>2
  <2>10. \A q \in Fetch : phase'[q] \notin {"new", "running"} =>
             \A k \in Jobs(q) : pc'[k] \in {"idle", "collected"}
    BY <1>3, <2>5, <2>7 DEF IInv, NoJobOutlivesFetch
  <2>11. \A k \in Job : \/ pc'[k] = pc[k] /\ result'[k] = result[k]
                        \/ pc'[k] \in {"attempt", "collected"} /\ pc[k] \notin Holding
    BY <1>2, <1>5, <2>3, <2>4 DEF Holding
  <2> QED
    BY <1>1, <1>2, <1>3, <2>4, <2>6, <2>8, <2>9, <2>10, <2>11, FetchInv DEF FileTyped, JobTyped
<1> QED
  BY <1>7, <1>8

\* A finished job is taken, and the next one starts while nothing has failed.
LEMMA CollectJobInv ==
  ASSUME IInv, NEW o \in Fetch, NEW j \in Jobs(o), CollectJob(o, j)
  PROVE  IInv'
<1> DEFINE failed == result[j].kind # "ok"
           first == error[o] = None
           more == More(o, failed)
           new == IF more THEN {<<o, next[o]>>} ELSE {}
<1>1. /\ FileTyped /\ JobTyped /\ FetchTyped /\ budget \in Budgets /\ Planned /\ Started
      /\ \A q \in Fetch : Collected(q) /\ Jobs(q) \subseteq Job
      /\ \A q \in Fetch, k \in Job : k \in Jobs(q) => k[1] = q /\ k[2] \in 1 .. Len(plan[q])
      /\ \A q \in Fetch : Len(plan[q]) \in Nat /\ DOMAIN plan[q] = 1 .. Len(plan[q])
  BY FetchAt
<1>2. j \in Job /\ j[1] = o /\ j[2] \in 1 .. Len(plan[o]) /\ j = <<o, j[2]>>
  BY <1>1 DEF Jobs
<1>3. /\ Polled(o) /\ pc[j] = "done"
      /\ token' = [token EXCEPT ![o] = @ \/ (failed /\ first)]
      /\ error' = [error EXCEPT ![o] = IF failed /\ first THEN result[j].kind ELSE @]
      /\ results' = [results EXCEPT ![o] =
             IF ~failed /\ first THEN @ \cup {<<j[2], result[j].content>>} ELSE @]
      /\ next' = [next EXCEPT ![o] = IF more THEN @ + 1 ELSE @]
      /\ pc' = [Start(new) EXCEPT ![j] = "collected"]
      /\ result' = [result EXCEPT ![j] = None]
      /\ UNCHANGED <<attempt, resume, response, phase, diskVars, gcVars, auxVars>>
  BY DEF CollectJob
<1>4. /\ data' = data /\ record' = record /\ blob' = blob /\ lock' = lock /\ torn' = torn
      /\ budget' = budget /\ plan' = plan /\ kind' = kind /\ clock' = clock /\ phase' = phase
  BY <1>3 DEF diskVars, auxVars
<1>5. /\ result[j] \in Result /\ (result[j].kind = "ok" => result[j].content \in blob[FileOf(j)])
  BY <1>2, <1>3 DEF IInv, Equipped, Honest, Ended
<1>6. phase[o] = "running" /\ j[2] < next[o]
  BY <1>1, <1>2, <1>3 DEF Polled, Started
<1>7. FileOf(j) = plan[o][j[2]] /\ FileOf(j) \in File
  BY <1>1, <1>2, JobsTyped DEF FileOf
<1>8. more => ~failed /\ first /\ ~token[o] /\ <<o, next[o]>> \in Jobs(o) /\ next[o] <= Len(plan[o])
  <2>1. more => ~failed /\ first /\ ~token[o] /\ <<o, next[o]>> \in Jobs(o)
    BY DEF More
  <2> QED
    BY <1>1, <2>1 DEF Jobs
<1>9. ~more /\ ~failed /\ first /\ ~token[o] => next[o] = Len(plan[o]) + 1
  <2>1. ~more /\ ~failed /\ first /\ ~token[o] => <<o, next[o]>> \notin Jobs(o)
    BY DEF More
  <2>2. next[o] \in 1 .. Len(plan[o]) + 1
    BY <1>1 DEF FetchTyped
  <2>3. next[o] \in 1 .. Len(plan[o]) => <<o, next[o]>> \in Jobs(o)
    BY <1>1 DEF Jobs
  <2> QED
    BY <1>1, <2>1, <2>2, <2>3
<1>10. failed => result[j].kind \in ErrorKinds
  BY <1>5 DEF Result
<1>11. ~failed => result[j].content \in blob[FileOf(j)] /\ result[j].content \in [1 .. Size -> Version]
  BY <1>1, <1>5, <1>7 DEF FileTyped
<1>12. new \subseteq Jobs(o) /\ \A k \in new : more /\ k = <<o, next[o]>> /\ pc[k] = "idle" /\ k # j
  <2>1. ASSUME more
        PROVE  <<o, next[o]>> \in Jobs(o) /\ pc[<<o, next[o]>>] = "idle" /\ <<o, next[o]>> # j
    <3> DEFINE k == <<o, next[o]>>
    <3>1. k \in Jobs(o) /\ k \in Job /\ k[1] = o /\ k[2] = next[o] /\ next[o] \in Nat
      BY <1>1, <1>8, <2>1 DEF FetchTyped
    <3>2. ~(k[2] < next[k[1]])
      BY <3>1
    <3>3. pc[k] = "idle"
      BY <1>1, <3>1, <3>2 DEF Started
    <3> QED
      BY <1>3, <3>1, <3>3
  <2> QED
    BY <2>1
<1> HIDE DEF failed, more, new
<1>13. /\ pc'[j] = "collected" /\ pc' \in [Job -> JobSteps]
       /\ \A k \in Job : k # j => pc'[k] = IF k \in new THEN "attempt" ELSE pc[k]
  BY <1>1, <1>2, <1>3 DEF Start, JobTyped, JobSteps
<1>14. \A q : Jobs(q)' = Jobs(q)
  BY <1>4 DEF Jobs
<1>15. \A q \in Fetch, k \in Job : q # o /\ k \in Jobs(q) => pc'[k] = pc[k]
  BY <1>1, <1>2, <1>12, <1>13
<1>16. /\ \A q \in Fetch : q # o => /\ next'[q] = next[q] /\ token'[q] = token[q]
                                    /\ error'[q] = error[q] /\ results'[q] = results[q]
       /\ next'[o] = (IF more THEN next[o] + 1 ELSE next[o])
       /\ token'[o] = (token[o] \/ (failed /\ first))
       /\ error'[o] = (IF failed /\ first THEN result[j].kind ELSE error[o])
       /\ results'[o] = (IF ~failed /\ first THEN results[o] \cup {<<j[2], result[j].content>>}
                         ELSE results[o])
  BY <1>1, <1>3 DEF FetchTyped
<1>17. FetchTyped'
  <2>1. next' \in [Fetch -> Nat] /\ next'[o] \in 1 .. Len(plan[o]) + 1
    BY <1>1, <1>3, <1>8, <1>16 DEF FetchTyped
  <2>2. error' \in [Fetch -> {None} \cup ErrorKinds]
    BY <1>1, <1>3, <1>10 DEF FetchTyped
  <2>3. token' \in [Fetch -> BOOLEAN]
    BY <1>1, <1>3 DEF FetchTyped
  <2>4. results' \in [Fetch -> SUBSET ((1 .. Cardinality(File)) \X [1 .. Size -> Version])]
    <3>1. j[2] \in 1 .. Cardinality(File)
      BY <1>2 DEF Job
    <3> QED
      BY <1>1, <1>3, <1>11, <3>1 DEF FetchTyped
  <2> QED
    BY <1>1, <1>4, <1>16, <2>1, <2>2, <2>3, <2>4 DEF FetchTyped
<1>18. Started'
  <2>1. ASSUME NEW k \in Job, pc'[k] # "idle"
        PROVE  k \in Jobs(k[1]) /\ k[2] < next'[k[1]]
    <3>1. CASE k \in new
      BY <1>1, <1>12, <1>16, <3>1 DEF FetchTyped
    <3>2. CASE k \notin new
      <4>1. pc[k] # "idle"
        BY <1>3, <1>13, <2>1, <3>2
      <4>2. k \in Jobs(k[1]) /\ k[2] < next[k[1]] /\ k[1] \in Fetch
        BY <1>1, <4>1 DEF Started, Job
      <4>3. k[2] \in Nat /\ next[k[1]] \in Nat
        BY <1>1, <4>2 DEF FetchTyped
      <4> QED
        BY <1>16, <4>2, <4>3
    <3> QED
      BY <3>1, <3>2
  <2>2. ASSUME NEW q \in Fetch, NEW k \in Jobs(q), k[2] < next'[q]
        PROVE  pc'[k] # "idle"
    <3>1. k \in Job /\ k[1] = q /\ k[2] \in 1 .. Len(plan[q]) /\ next[q] \in Nat /\ k = <<q, k[2]>>
      BY <1>1 DEF FetchTyped, Jobs
    <3>2. CASE k[2] < next[q]
      BY <1>1, <1>13, <3>1, <3>2 DEF Started
    <3>3. CASE ~(k[2] < next[q])
      <4>1. q = o /\ more /\ k[2] = next[o]
        BY <1>16, <2>2, <3>1, <3>3
      <4>2. k \in new
        BY <3>1, <4>1 DEF new
      <4> QED
        BY <1>12, <1>13, <3>1, <4>2
    <3> QED
      BY <3>2, <3>3
  <2> QED
    BY <1>1, <1>4, <1>6, <1>14, <1>16, <2>1, <2>2 DEF Started
<1>19. ASSUME NEW q \in Fetch PROVE Collected(q)'
  <2>1. CASE q # o
    <3>1. Collected(q)
      BY <1>1
    <3>2. \A k \in Jobs(q) : pc'[k] = pc[k]
      BY <1>1, <1>15, <2>1
    <3>3. Active(q)' = Active(q)
      BY <1>14, <1>16, <2>1, <3>2 DEF Active
    <3>4. \A p \in results[q] : p[1] \in DOMAIN plan[q] => <<q, p[1]>> \in Jobs(q)
      BY DEF Jobs
    <3> QED
      BY <1>4, <1>14, <1>16, <2>1, <3>1, <3>2, <3>3, <3>4 DEF Collected
  <2>2. CASE q = o
    <3>1. Collected(o)
      BY <1>1
    <3>2. \A k \in Jobs(o) : k # j => (pc'[k] = "collected" <=> pc[k] = "collected")
      BY <1>1, <1>12, <1>13
    <3>3. \A p \in results[o] : /\ p[1] \in DOMAIN plan[o] /\ p[2] \in blob[plan[o][p[1]]]
                                /\ pc[<<o, p[1]>>] = "collected" /\ <<o, p[1]>> \in Jobs(o)
                                /\ p[1] # j[2]
      BY <1>2, <1>3, <3>1 DEF Collected, Jobs
    <3> DEFINE p0 == <<j[2], result[j].content>>
    <3>4. results'[o] \subseteq results[o] \cup {p0} /\ (p0 \in results'[o] => ~failed \/ p0 \in results[o])
      BY <1>16
    <3>5. p0[1] = j[2] /\ p0[2] = result[j].content
      OBVIOUS
    <3> HIDE DEF p0
    <3>6. \A p \in results'[o] : /\ p[1] \in DOMAIN plan[o] /\ p[2] \in blob[plan[o][p[1]]]
                                 /\ pc'[<<o, p[1]>>] = "collected"
      BY <1>1, <1>2, <1>7, <1>11, <1>13, <3>2, <3>3, <3>4, <3>5
    <3>7. \A p, r \in results'[o] : p[1] = r[1] => p = r
      BY <3>1, <3>3, <3>4, <3>5, ZenonT(40) DEF Collected
    <3>8. error'[o] = None => first /\ (failed => result[j].kind = None)
      BY <1>16
    <3>9. None \notin ErrorKinds => (error'[o] = None => first /\ ~failed)
      BY <1>10, <3>8
    <3>10. error'[o] = None /\ ~failed =>
             \A k \in Jobs(o) : pc'[k] = "collected" => \E p \in results'[o] : p[1] = k[2]
      <4> SUFFICES ASSUME error'[o] = None, ~failed, NEW k \in Jobs(o), pc'[k] = "collected"
                   PROVE  \E p \in results'[o] : p[1] = k[2]
        OBVIOUS
      <4>1. results'[o] = results[o] \cup {p0} /\ error[o] = None
        BY <1>16, <3>8 DEF p0
      <4>2. CASE k = j
        BY <3>5, <4>1, <4>2
      <4>3. CASE k # j
        BY <1>6, <3>1, <3>2, <4>1, <4>3 DEF Collected
      <4> QED
        BY <4>2, <4>3
    <3>11. error'[o] = None /\ ~failed /\ ~token'[o] =>
             next'[o] = Len(plan[o]) + 1 \/ Active(o)' # {}
      <4> SUFFICES ASSUME error'[o] = None, ~failed, ~token'[o]
                   PROVE  next'[o] = Len(plan[o]) + 1 \/ Active(o)' # {}
        OBVIOUS
      <4>1. first /\ ~token[o]
        BY <1>16, <3>8
      <4>2. CASE ~more
        BY <1>9, <1>16, <4>1, <4>2
      <4>3. CASE more
        <5>1. <<o, next[o]>> \in Jobs(o) /\ <<o, next[o]>> \in Job /\ <<o, next[o]>> # j
          BY <1>1, <1>8, <1>12, <4>3 DEF new
        <5>2. pc'[<<o, next[o]>>] = "attempt"
          BY <1>13, <4>3, <5>1 DEF new
        <5>3. <<o, next[o]>>[2] < next'[o]
          BY <1>1, <1>16, <4>3 DEF FetchTyped
        <5>4. <<o, next[o]>> \in Active(o)'
          BY <1>14, <5>1, <5>2, <5>3 DEF Active
        <5> QED
          BY <5>4
      <4> QED
        BY <4>2, <4>3
    <3>12. None \notin ErrorKinds
      BY ErrorAssumption
    <3> QED
      BY <1>4, <1>6, <1>14, <2>2, <3>6, <3>7, <3>9, <3>10, <3>11, <3>12 DEF Collected
  <2> QED
    BY <2>1, <2>2
<1>20. \A q \in Fetch : phase'[q] \notin {"new", "running"} =>
             \A k \in Jobs(q) : pc'[k] \in {"idle", "collected"}
  <2>1. ASSUME NEW q \in Fetch, phase[q] \notin {"new", "running"}, NEW k \in Jobs(q)
        PROVE  pc'[k] \in {"idle", "collected"}
    <3>1. q # o
      BY <1>6, <2>1
    <3> QED
      BY <1>1, <1>15, <2>1, <3>1 DEF IInv, NoJobOutlivesFetch
  <2> QED
    BY <1>4, <2>1
<1>21. result' \in [Job -> {None} \cup Result] /\ \A k \in Job : k # j => result'[k] = result[k]
  BY <1>1, <1>3 DEF JobTyped
<1>22. \A k \in Job : \/ pc'[k] = pc[k] /\ result'[k] = result[k]
                      \/ pc'[k] \in {"attempt", "collected"} /\ pc[k] \notin Holding
  BY <1>1, <1>3, <1>12, <1>13, <1>21 DEF Holding
<1> QED
  BY <1>1, <1>3, <1>4, <1>13, <1>17, <1>18, <1>19, <1>20, <1>21, <1>22, FetchInv
     DEF FileTyped

\* A fetch returns when none of its jobs is left.
LEMMA EndFetchInv ==
  ASSUME IInv, NEW o \in Fetch, EndFetch(o)
  PROVE  IInv'
<1> DEFINE step == IF error[o] # None THEN "failed"
                   ELSE IF token[o] THEN "cancelled" ELSE "complete"
<1>1. /\ Polled(o) /\ Active(o) = {} /\ phase' = [phase EXCEPT ![o] = step]
      /\ UNCHANGED <<jobVars, token, next, results, error, diskVars, gcVars, auxVars>>
  BY DEF EndFetch, Return
<1>2. /\ data' = data /\ record' = record /\ blob' = blob /\ lock' = lock /\ torn' = torn
      /\ budget' = budget /\ plan' = plan /\ kind' = kind /\ clock' = clock
      /\ pc' = pc /\ attempt' = attempt /\ resume' = resume /\ response' = response
      /\ result' = result
  BY <1>1 DEF diskVars, auxVars, jobVars
<1>3. /\ FileTyped /\ JobTyped /\ FetchTyped /\ budget \in Budgets /\ Planned /\ Started
      /\ \A q \in Fetch : Collected(q) /\ Jobs(q) \subseteq Job
      /\ \A q \in Fetch, k \in Job : k \in Jobs(q) => k[1] = q /\ k[2] \in 1 .. Len(plan[q])
      /\ \A q \in Fetch : Len(plan[q]) \in Nat /\ DOMAIN plan[q] = 1 .. Len(plan[q])
  BY FetchAt
<1>4. step \in {"failed", "cancelled", "complete"}
  OBVIOUS
<1>5. step = "complete" => error[o] = None /\ ~token[o]
  OBVIOUS
<1> HIDE DEF step
<1>6. /\ phase'[o] = step /\ \A q \in Fetch : q # o => phase'[q] = phase[q]
  BY <1>1, <1>3 DEF FetchTyped
<1>7. \A q : Jobs(q)' = Jobs(q)
  BY <1>2 DEF Jobs
<1>8. \A k \in Jobs(o) : pc[k] \in {"idle", "collected"}
  <2> SUFFICES ASSUME NEW k \in Jobs(o), pc[k] # "idle" PROVE pc[k] = "collected"
    OBVIOUS
  <2>1. k \in Job /\ k[1] = o
    BY <1>3
  <2>2. k[2] < next[o]
    BY <1>3, <2>1 DEF Started
  <2> QED
    BY <1>1, <2>2 DEF Active
<1>9. step = "complete" => \A k \in Jobs(o) : pc[k] = "collected"
  <2> SUFFICES ASSUME step = "complete", NEW k \in Jobs(o) PROVE pc[k] = "collected"
    OBVIOUS
  <2>1. next[o] = Len(plan[o]) + 1
    BY <1>1, <1>3, <1>5 DEF Collected, Polled
  <2>2. k \in Job /\ k[2] \in 1 .. Len(plan[o])
    BY <1>3
  <2>3. pc[k] # "idle"
    BY <1>3, <2>1, <2>2 DEF Started
  <2> QED
    BY <1>8, <2>3
<1>10. FetchTyped'
  BY <1>1, <1>2, <1>3, <1>4 DEF FetchTyped
<1>11. Started'
  BY <1>1, <1>2, <1>3, <1>4, <1>6, <1>7 DEF Started
<1>12. ASSUME NEW q \in Fetch PROVE Collected(q)'
  <2>1. Collected(q)
    BY <1>3
  <2>2. Active(q)' = Active(q)
    BY <1>1, <1>2, <1>7 DEF Active
  <2>3. CASE q # o
    BY <1>1, <1>2, <1>6, <1>7, <2>1, <2>2, <2>3 DEF Collected
  <2>4. CASE q = o
    <3>1. phase[o] = "running" /\ phase'[o] # "running"
      BY <1>1, <1>4, <1>6 DEF Polled
    <3> QED
      BY <1>1, <1>2, <1>5, <1>6, <1>7, <1>9, <2>1, <2>4, <3>1 DEF Collected
  <2> QED
    BY <2>3, <2>4
<1>13. \A q \in Fetch : phase'[q] \notin {"new", "running"} =>
             \A k \in Jobs(q) : pc'[k] \in {"idle", "collected"}
  BY <1>2, <1>6, <1>8 DEF IInv, NoJobOutlivesFetch
<1> QED
  BY <1>1, <1>2, <1>3, <1>10, <1>11, <1>12, <1>13, FetchInv DEF FileTyped, JobTyped

\* The caller cancels.
LEMMA CancelInv ==
  ASSUME IInv, NEW o \in Fetch, Cancel(o)
  PROVE  IInv'
<1>1. /\ Spend("cancels") /\ token' = [token EXCEPT ![o] = TRUE]
      /\ UNCHANGED <<jobVars, phase, next, results, error, diskVars, gcVars, plan, kind, clock, torn>>
  BY DEF Cancel
<1>2. /\ data' = data /\ record' = record /\ blob' = blob /\ lock' = lock
      /\ pc' = pc /\ attempt' = attempt /\ resume' = resume /\ response' = response
      /\ result' = result
  BY <1>1 DEF diskVars, jobVars
<1>3. /\ FileTyped /\ JobTyped /\ FetchTyped /\ budget \in Budgets /\ Started
      /\ \A q \in Fetch : Collected(q)
  BY FetchAt
<1>4. budget' \in Budgets /\ budget'.attempts = budget.attempts
  BY <1>1, <1>3, Spent
<1>5. \A q : Jobs(q)' = Jobs(q)
  BY <1>1 DEF Jobs
<1>6. FetchTyped'
  BY <1>1, <1>3 DEF FetchTyped
<1>7. Started'
  BY <1>1, <1>2, <1>3, <1>5 DEF Started
<1>8. ASSUME NEW q \in Fetch PROVE Collected(q)'
  <2>1. Collected(q) /\ (token[q] => token'[q])
    BY <1>1, <1>3 DEF FetchTyped
  <2>2. Active(q)' = Active(q)
    BY <1>1, <1>2, <1>5 DEF Active
  <2> QED
    BY <1>1, <1>2, <1>5, <2>1, <2>2 DEF Collected
<1>9. \A q \in Fetch : phase'[q] \notin {"new", "running"} =>
             \A k \in Jobs(q) : pc'[k] \in {"idle", "collected"}
  BY <1>1, <1>2 DEF IInv, NoJobOutlivesFetch
<1> QED
  BY <1>1, <1>2, <1>3, <1>4, <1>6, <1>7, <1>8, <1>9, FetchInv DEF FileTyped, JobTyped

\* A fetch is dropped: its locks are free, and the files they were for are
\* remembered as cut short.
LEMMA DropFetchInv ==
  ASSUME IInv, NEW o \in Fetch, DropFetch(o)
  PROVE  IInv'
<1> DEFINE held == {x \in File : lock[x] \in Jobs(o)}
<1>1. /\ phase[o] = "running" /\ Spend("drops")
      /\ lock' = [x \in File |-> IF x \in held THEN None ELSE lock[x]]
      /\ torn' = [x \in File |-> torn[x] \/ x \in held]
      /\ phase' = [phase EXCEPT ![o] = "dropped"]
      /\ pc' = [j \in Job |-> IF j \in Jobs(o) /\ pc[j] # "idle" THEN "collected" ELSE pc[j]]
      /\ UNCHANGED <<data, record, blob, attempt, resume, response, result, token, next,
                     results, error, gcVars, plan, kind, clock>>
  BY DEF DropFetch, Return
<1>2. /\ FileTyped /\ JobTyped /\ FetchTyped /\ budget \in Budgets /\ Planned /\ Started
      /\ \A q \in Fetch : Collected(q) /\ Jobs(q) \subseteq Job
      /\ \A q \in Fetch, k \in Job : k \in Jobs(q) => k[1] = q /\ k[2] \in 1 .. Len(plan[q])
      /\ \A q \in Fetch : Len(plan[q]) \in Nat /\ DOMAIN plan[q] = 1 .. Len(plan[q])
  BY FetchAt
<1>3. budget' \in Budgets /\ budget'.attempts = budget.attempts
  BY <1>1, <1>2, Spent
<1>4. \A q : Jobs(q)' = Jobs(q)
  BY <1>1 DEF Jobs
<1>5. /\ phase'[o] = "dropped" /\ \A q \in Fetch : q # o => phase'[q] = phase[q]
  BY <1>1, <1>2 DEF FetchTyped
<1>6. /\ pc' \in [Job -> JobSteps]
      /\ \A k \in Job : pc'[k] = IF k \in Jobs(o) /\ pc[k] # "idle" THEN "collected" ELSE pc[k]
      /\ \A q \in Fetch : q # o => \A k \in Jobs(q) : pc'[k] = pc[k]
  <2>1. \A k \in Job : pc'[k] = IF k \in Jobs(o) /\ pc[k] # "idle" THEN "collected" ELSE pc[k]
    BY <1>1
  <2>2. pc' \in [Job -> JobSteps]
    <3>1. \A k \in Job : (IF k \in Jobs(o) /\ pc[k] # "idle" THEN "collected" ELSE pc[k]) \in JobSteps
      BY <1>2 DEF JobTyped, JobSteps
    <3> QED
      BY <1>1, <3>1
  <2>3. \A q \in Fetch : q # o => \A k \in Jobs(q) : k \in Job /\ k \notin Jobs(o)
    BY <1>2
  <2> QED
    BY <2>1, <2>2, <2>3
<1>7. \A x \in File :
         \/ lock'[x] = lock[x] /\ torn'[x] = torn[x]
         \/ lock[x] \in Job /\ pc'[lock[x]] = "collected" /\ lock'[x] = None /\ torn'[x]
  <2>1. ASSUME NEW x \in File, x \in held
        PROVE  lock[x] \in Job /\ pc'[lock[x]] = "collected" /\ lock'[x] = None /\ torn'[x]
    <3>1. lock[x] \in Job /\ lock[x] \in Jobs(o)
      BY <1>2, <2>1
    <3>2. pc[lock[x]] \in Holding
      BY <3>1 DEF IInv, Exclusive
    <3>3. pc'[lock[x]] = "collected"
      BY <1>6, <3>1, <3>2 DEF Holding
    <3> QED
      BY <1>1, <2>1, <3>1, <3>3
  <2>2. ASSUME NEW x \in File, x \notin held
        PROVE  lock'[x] = lock[x] /\ torn'[x] = torn[x]
    BY <1>1, <1>2, <2>2 DEF FileTyped
  <2> QED
    BY <2>1, <2>2
<1>8. lock' \in [File -> {None} \cup Job \cup Collector] /\ torn' \in [File -> BOOLEAN]
  <2>1. lock' \in [File -> {None} \cup Job \cup Collector]
    BY <1>1, <1>2 DEF FileTyped
  <2>2. torn' \in [File -> BOOLEAN]
    <3>1. \A x \in File : (torn[x] \/ x \in held) \in BOOLEAN
      OBVIOUS
    <3> QED
      BY <1>1, <3>1
  <2> QED
    BY <2>1, <2>2
<1>9. \A k \in Job : k \in Jobs(o) /\ pc[k] \in Holding => lock'[FileOf(k)] = None
  <2> SUFFICES ASSUME NEW k \in Jobs(o), k \in Job, pc[k] \in Holding
               PROVE  lock'[FileOf(k)] = None
    OBVIOUS
  <2>1. lock[FileOf(k)] = k
    BY DEF IInv, Exclusive
  <2>2. FileOf(k) \in File
    BY <1>2, JobsTyped
  <2> QED
    BY <1>1, <2>1, <2>2
<1>10. FetchTyped'
  BY <1>1, <1>2 DEF FetchTyped
<1>11. Started'
  <2>1. \A k \in Job : pc'[k] # "idle" <=> pc[k] # "idle"
    BY <1>6
  <2>2. \A q \in Fetch : phase'[q] = "new" => phase[q] = "new"
    BY <1>5
  <2> QED
    BY <1>1, <1>2, <1>4, <2>1, <2>2 DEF Started
<1>12. ASSUME NEW q \in Fetch PROVE Collected(q)'
  <2>1. Collected(q)
    BY <1>2
  <2>2. \A p \in results[q] : /\ p[1] \in DOMAIN plan[q] /\ p[2] \in blob[plan[q][p[1]]]
                              /\ pc'[<<q, p[1]>>] = "collected"
    <3> SUFFICES ASSUME NEW p \in results[q]
                 PROVE  /\ p[1] \in DOMAIN plan[q] /\ p[2] \in blob[plan[q][p[1]]]
                        /\ pc'[<<q, p[1]>>] = "collected"
      OBVIOUS
    <3>1. /\ p[1] \in DOMAIN plan[q] /\ p[2] \in blob[plan[q][p[1]]]
          /\ pc[<<q, p[1]>>] = "collected"
      BY <2>1 DEF Collected
    <3>2. <<q, p[1]>> \in Job
      BY <1>2, <3>1 DEF Jobs
    <3> QED
      BY <1>6, <3>1, <3>2
  <2>3. CASE q # o
    <3>1. \A k \in Jobs(q) : pc'[k] = pc[k]
      BY <1>6, <2>3
    <3>2. Active(q)' = Active(q)
      BY <1>1, <1>4, <3>1 DEF Active
    <3> QED
      BY <1>1, <1>4, <1>5, <2>1, <2>2, <2>3, <3>1, <3>2, SMTT(30) DEF Collected
  <2>4. CASE q = o
    BY <1>1, <1>4, <1>5, <2>1, <2>2, <2>4 DEF Collected
  <2> QED
    BY <2>3, <2>4
<1>13. \A q \in Fetch : phase'[q] \notin {"new", "running"} =>
             \A k \in Jobs(q) : pc'[k] \in {"idle", "collected"}
  BY <1>2, <1>5, <1>6 DEF IInv, NoJobOutlivesFetch
<1>14. \A k \in Job :
           \/ pc'[k] = pc[k] /\ result'[k] = result[k]
           \/ pc'[k] \in {"attempt", "collected"} /\ pc[k] \notin Holding
           \/ pc'[k] = "collected" /\ pc[k] \in Holding /\ lock'[FileOf(k)] = None
  BY <1>1, <1>6, <1>9
<1>15. result' \in [Job -> {None} \cup Result]
  BY <1>1, <1>2 DEF JobTyped
<1> QED
  BY <1>1, <1>3, <1>6, <1>7, <1>8, <1>10, <1>11, <1>12, <1>13, <1>14, <1>15, FetchInv

-----------------------------------------------------------------------------
(* The collection of partials.                                             *)

\* A step of a collector disturbs one file at most, which no job holds.
LEMMA GcInv ==
  ASSUME IInv, NEW g \in Collector, NEW x \in File,
         UNCHANGED <<blob, jobVars, fetchVars, plan, kind, clock, torn>>,
         budget' \in Budgets, budget'.attempts = budget.attempts,
         gc' = [gc EXCEPT ![g] = gc'[g]], gc'[g] \in GcSteps,
         trash' = [trash EXCEPT ![g] = trash'[g]],
         trash'[g] \in SUBSET {"tombstone", "record", "data"},
         candidate' = [candidate EXCEPT ![g] = candidate'[g]],
         candidate'[g] \in {None} \cup Candidate,
         data' = [data EXCEPT ![x] = data'[x]], data'[x] \in {None, data[x]},
         record' = [record EXCEPT ![x] = record'[x]], record'[x] \in {None, record[x]},
         lock' = [lock EXCEPT ![x] = lock'[x]],
         \/ lock[x] \in {None, g}
         \/ data'[x] = data[x] /\ record'[x] = record[x],
         gc[g] \in Collecting => GcFile(g) = x,
         gc'[g] \in Collecting => GcFile(g)' = x /\ lock[x] \in {None, g},
         lock'[x] = IF gc'[g] \in Collecting THEN g ELSE IF lock[x] = g THEN None ELSE lock[x],
         Trashed(g)', trash'[g] # {} => "tombstone" \in trash'[g]
  PROVE  IInv'
<1>1. FileTyped /\ JobTyped /\ FetchTyped /\ GcTyped /\ clock \in Nat
  BY Typed DEF IInv
<1>2. /\ pc' = pc /\ attempt' = attempt /\ resume' = resume /\ response' = response
      /\ result' = result /\ token' = token /\ phase' = phase /\ next' = next
      /\ results' = results /\ error' = error
  BY DEF jobVars, fetchVars
<1>3. /\ \A k : FileOf(k)' = FileOf(k)
      /\ \A o : Jobs(o)' = Jobs(o)
      /\ \A h \in Collector : h # g => gc'[h] = gc[h] /\ trash'[h] = trash[h] /\ GcFile(h)' = GcFile(h)
                                       /\ candidate'[h] = candidate[h]
  BY <1>1 DEF FileOf, Jobs, GcFile, GcTyped
<1>4. \A y \in File : y # x => data'[y] = data[y] /\ record'[y] = record[y] /\ lock'[y] = lock[y]
  BY <1>1 DEF FileTyped
<1>5. None \notin Job /\ None \notin Collector /\ Job \cap Collector = {}
  BY ActorAssumption
<1>6. Exclusive
  BY DEF IInv
<1>7. gc[g] \in Collecting <=> lock[x] = g
  BY <1>6 DEF Exclusive
<1>8. \A y \in File : lock[y] = g => y = x
  BY <1>6 DEF Exclusive
<1>9. \A k \in Job : pc[k] \in Holding => FileOf(k) \in File /\ lock[FileOf(k)] = k
  BY <1>6, StartedJob DEF IInv, Exclusive, Holding
<1>10. \A h \in Collector : gc[h] \in Collecting => GcFile(h) \in File /\ lock[GcFile(h)] = h
  BY <1>6, Candidates DEF IInv, Exclusive, Collecting
<1>11. TypeOK'
  <2>1. FileTyped'
    <3>1. /\ data'[x] \in {None} \cup Contents /\ record'[x] \in {None} \cup PartialRecord
          /\ lock'[x] \in {None} \cup Job \cup Collector
      BY <1>1 DEF FileTyped
    <3> QED
      BY <1>1, <3>1 DEF FileTyped
  <2>2. JobTyped'
    BY <1>1, <1>2 DEF JobTyped
  <2>3. FetchTyped'
    BY <1>1, <1>2 DEF FetchTyped
  <2>4. GcTyped'
    BY <1>1 DEF GcTyped
  <2> QED
    BY <1>1, <2>1, <2>2, <2>3, <2>4, TypedNext
<1>12. Planned' /\ Started'
  BY <1>2, <1>3 DEF IInv, Planned, Started
<1>13. Exclusive'
  <2>1. ASSUME NEW y \in File, NEW k \in Job, lock'[y] = k
        PROVE  pc'[k] \in Holding /\ FileOf(k)' = y
    <3>1. lock[y] = k
      BY <1>4, <1>5, <2>1
    <3> QED
      BY <1>2, <1>3, <1>6, <3>1 DEF Exclusive
  <2>2. ASSUME NEW k \in Job, pc'[k] \in Holding
        PROVE  lock'[FileOf(k)] = k
    <3>1. FileOf(k) \in File /\ lock[FileOf(k)] = k
      BY <1>2, <1>9, <2>2
    <3> QED
      BY <1>4, <1>5, <3>1
  <2>3. ASSUME NEW y \in File, NEW h \in Collector, lock'[y] = h
        PROVE  gc'[h] \in Collecting /\ GcFile(h)' = y
    <3>1. CASE h = g
      BY <1>4, <1>5, <1>8, <2>3, <3>1
    <3>2. CASE h # g
      <4>1. lock[y] = h
        BY <1>4, <1>5, <2>3, <3>2
      <4> QED
        BY <1>3, <1>6, <3>2, <4>1 DEF Exclusive
    <3> QED
      BY <3>1, <3>2
  <2>4. ASSUME NEW h \in Collector, gc'[h] \in Collecting
        PROVE  lock'[GcFile(h)'] = h
    <3>1. CASE h = g
      BY <2>4, <3>1
    <3>2. CASE h # g
      <4>1. GcFile(h)' = GcFile(h) /\ GcFile(h) \in File /\ lock[GcFile(h)] = h
        BY <1>3, <1>10, <2>4, <3>2
      <4> QED
        BY <1>4, <1>5, <3>2, <4>1
    <3> QED
      BY <3>1, <3>2
  <2> QED
    BY <1>3, <2>1, <2>2, <2>3, <2>4 DEF Exclusive
<1>14. ASSUME NEW k \in Job
       PROVE  (Equipped(k) /\ Honest(k) /\ OneVersion(k))'
  <2>1. Equipped(k) /\ Honest(k) /\ OneVersion(k)
    BY DEF IInv
  <2>2. pc[k] \in Holding => data'[FileOf(k)] = data[FileOf(k)]
    BY <1>4, <1>5, <1>9
  <2>3. Equipped(k)'
    BY <1>2, <1>3, <2>1, <2>2 DEF Equipped, Holding
  <2>4. Honest(k)'
    BY <1>2, <1>3, <2>1, <2>2 DEF Honest, Holding, Verified
  <2>5. OneVersion(k)'
    BY <1>2, <1>3, <2>1, <2>2, ZenonT(40) DEF OneVersion, Holding, Bound, Copies
  <2> QED
    BY <2>3, <2>4, <2>5
<1>15. ASSUME NEW y \in File
       PROVE  (Recorded(y) /\ Published(y))'
  <2>1. Recorded(y) /\ Published(y)
    BY DEF IInv
  <2>2. Published(y)'
    BY <2>1 DEF Published
  <2>3. CASE y # x
    BY <1>4, <2>1, <2>2, <2>3 DEF Recorded, Bound, Copies
  <2>4. CASE y = x
    <3>1. lock'[x] \notin Job => lock[x] \notin Job
      BY <1>5
    <3> QED
      BY <2>1, <2>2, <2>4, <3>1 DEF Recorded, Bound, Copies
  <2> QED
    BY <2>3, <2>4
<1>16. ASSUME NEW o \in Fetch
       PROVE  Collected(o)'
  <2>1. Collected(o)
    BY DEF IInv
  <2>2. Active(o)' = Active(o)
    BY <1>2, <1>3 DEF Active
  <2> QED
    BY <1>2, <1>3, <2>1, <2>2 DEF Collected
<1>17. ASSUME NEW h \in Collector
       PROVE  Trashed(h)'
  <2>1. CASE h # g
    <3>1. Trashed(h)
      BY DEF IInv
    <3>2. gc[h] \in Collecting =>
            data'[GcFile(h)] = data[GcFile(h)] /\ record'[GcFile(h)] = record[GcFile(h)]
      BY <1>4, <1>5, <1>10, <2>1
    <3> QED
      BY <1>3, <2>1, <3>1, <3>2, ZenonT(40) DEF Trashed, Collecting
  <2> QED
    BY <2>1
<1>18. NoJobOutlivesFetch'
  <2>1. \A o \in Fetch : Jobs(o) \subseteq Job
    BY JobsTyped DEF IInv
  <2>2. \A o \in Fetch : phase[o] \notin {"new", "running"} =>
            \A k \in Jobs(o) : pc[k] \in {"idle", "collected"}
    BY DEF IInv, NoJobOutlivesFetch
  <2>3. \A o \in Fetch : phase[o] \notin {"new", "running"} =>
            \A y \in File : lock'[y] \notin Jobs(o)
    BY <1>2, <1>13, <2>1, <2>2 DEF Exclusive, Holding
  <2> QED
    BY <1>2, <1>3, <2>2, <2>3 DEF NoJobOutlivesFetch
<1>19. TrashHasTombstone'
  BY <1>3 DEF IInv, TrashHasTombstone
<1> QED
  BY <1>11, <1>12, <1>13, <1>14, <1>15, <1>16, <1>17, <1>18, <1>19 DEF IInv

\* What holds of a collector whichever step is made.
LEMMA GcAt ==
  ASSUME IInv, NEW g \in Collector
  PROVE  /\ FileTyped /\ GcTyped /\ Trashed(g) /\ budget \in Budgets
         /\ gc[g] # "idle" => GcFile(g) \in File /\ candidate[g] \in Candidate
         /\ trash[g] # {} => "tombstone" \in trash[g]
         /\ gc[g] \in Collecting => lock[GcFile(g)] = g
         /\ \A y \in File : lock[y] = g => gc[g] \in Collecting /\ GcFile(g) = y
BY Typed, Candidates DEF IInv, Exclusive, TrashHasTombstone, Trashed

\* A collection is planned.
LEMMA PlanPartialGcInv ==
  ASSUME IInv, NEW g \in Collector, PlanPartialGc(g)
  PROVE  IInv'
<1>1. /\ gc[g] = "idle" /\ Spend("plans") /\ gc' = [gc EXCEPT ![g] = "planned"]
      /\ UNCHANGED <<trash, diskVars, jobVars, fetchVars, plan, kind, clock, torn>>
  BY DEF PlanPartialGc, Step
<1>2. PICK x \in File : /\ record[x] # None
                        /\ candidate' = [candidate EXCEPT ![g] = [file |-> x, record |-> record[x]]]
  BY DEF PlanPartialGc
<1>3. /\ data' = data /\ record' = record /\ blob' = blob /\ lock' = lock
  BY <1>1 DEF diskVars
<1>4. /\ FileTyped /\ GcTyped /\ Trashed(g) /\ budget \in Budgets
      /\ \A y \in File : lock[y] = g => gc[g] \in Collecting
  BY GcAt
<1>5. budget' \in Budgets /\ budget'.attempts = budget.attempts
  BY <1>1, <1>4, Spent
<1>6. gc'[g] = "planned" /\ candidate'[g] \in Candidate /\ trash'[g] = trash[g] /\ trash[g] = {}
  BY <1>1, <1>2, <1>4 DEF FileTyped, GcTyped, Candidate, Trashed
<1>7. gc[g] \notin Collecting /\ gc'[g] \notin Collecting
  BY <1>1, <1>6 DEF Collecting
<1>8. Trashed(g)'
  BY <1>6 DEF Trashed, Collecting
<1>9. /\ gc' = [gc EXCEPT ![g] = gc'[g]] /\ trash' = [trash EXCEPT ![g] = trash'[g]]
      /\ candidate' = [candidate EXCEPT ![g] = candidate'[g]]
      /\ gc'[g] \in GcSteps /\ trash'[g] \in SUBSET {"tombstone", "record", "data"}
  BY <1>1, <1>2, <1>4, <1>6 DEF GcTyped, GcSteps
<1>10. /\ data' = [data EXCEPT ![x] = data'[x]] /\ record' = [record EXCEPT ![x] = record'[x]]
       /\ lock' = [lock EXCEPT ![x] = lock'[x]]
  BY <1>3, <1>4 DEF FileTyped
<1> QED
  BY <1>1, <1>3, <1>4, <1>5, <1>6, <1>7, <1>8, <1>9, <1>10, GcInv

\* A step of a collector to step, that leaves t in the trash and d and r of
\* the data and the record of its candidate.
GcMoves(g, step, t, d, r) ==
    LET x == GcFile(g) IN
    /\ gc' = [gc EXCEPT ![g] = step] /\ step \in GcSteps \ {"idle"}
    /\ UNCHANGED <<candidate, blob, jobVars, fetchVars, plan, kind, clock, torn>>
    /\ budget' \in Budgets /\ budget'.attempts = budget.attempts
    /\ trash' = [trash EXCEPT ![g] = t] /\ t \in SUBSET {"tombstone", "record", "data"}
    /\ data' = [data EXCEPT ![x] = d] /\ d \in {None, data[x]}
    /\ record' = [record EXCEPT ![x] = r] /\ r \in {None, record[x]}
    /\ lock' = [lock EXCEPT ![x] =
                   IF step \in Collecting THEN g ELSE IF lock[x] = g THEN None ELSE lock[x]]
    /\ \/ lock[x] \in {None, g}
       \/ d = data[x] /\ r = record[x] /\ step \notin Collecting
    /\ t # {} => "tombstone" \in t
    /\ step \in {"planned", "locking"} => t = {}
    /\ step \in Collecting => "tombstone" \in t
    /\ step = "trash record" =>
           r = candidate[g].record /\ d # None /\ Len(d) = candidate[g].record.received
    /\ step \in {"trash data", "empty"} => r = None

\* Such a step keeps the invariant.
LEMMA GcStepInv ==
  ASSUME IInv, NEW g \in Collector, gc[g] # "idle",
         NEW step, NEW t, NEW d, NEW r, GcMoves(g, step, t, d, r)
  PROVE  IInv'
<1> DEFINE x == GcFile(g)
<1>a. /\ gc' = [gc EXCEPT ![g] = step] /\ step \in GcSteps \ {"idle"}
      /\ UNCHANGED <<candidate, blob, jobVars, fetchVars, plan, kind, clock, torn>>
      /\ budget' \in Budgets /\ budget'.attempts = budget.attempts
      /\ trash' = [trash EXCEPT ![g] = t] /\ t \in SUBSET {"tombstone", "record", "data"}
      /\ data' = [data EXCEPT ![x] = d] /\ d \in {None, data[x]}
      /\ record' = [record EXCEPT ![x] = r] /\ r \in {None, record[x]}
      /\ lock' = [lock EXCEPT ![x] =
                     IF step \in Collecting THEN g ELSE IF lock[x] = g THEN None ELSE lock[x]]
  BY DEF GcMoves
<1>b. /\ lock[x] \in {None, g} \/ (d = data[x] /\ r = record[x] /\ step \notin Collecting)
      /\ t # {} => "tombstone" \in t
      /\ step \in {"planned", "locking"} => t = {}
      /\ step \in Collecting => "tombstone" \in t
      /\ step = "trash record" =>
             r = candidate[g].record /\ d # None /\ Len(d) = candidate[g].record.received
      /\ step \in {"trash data", "empty"} => r = None
  BY DEF GcMoves
<1>1. /\ FileTyped /\ GcTyped /\ x \in File /\ candidate[g] \in Candidate
      /\ gc[g] \in Collecting => lock[x] = g
      /\ \A y \in File : lock[y] = g => gc[g] \in Collecting /\ GcFile(g) = y
  BY GcAt
<1>2. /\ gc'[g] = step /\ trash'[g] = t /\ data'[x] = d /\ record'[x] = r
      /\ lock'[x] = IF step \in Collecting THEN g ELSE IF lock[x] = g THEN None ELSE lock[x]
      /\ candidate' = candidate /\ GcFile(g)' = x
  BY <1>a, <1>b, <1>1 DEF FileTyped, GcTyped, GcFile
<1>3. Trashed(g)'
  BY <1>a, <1>b, <1>1, <1>2 DEF Trashed
<1>4. /\ gc' = [gc EXCEPT ![g] = gc'[g]] /\ trash' = [trash EXCEPT ![g] = trash'[g]]
      /\ candidate' = [candidate EXCEPT ![g] = candidate'[g]]
      /\ data' = [data EXCEPT ![x] = data'[x]] /\ record' = [record EXCEPT ![x] = record'[x]]
      /\ lock' = [lock EXCEPT ![x] = lock'[x]]
  BY <1>a, <1>b, <1>1, <1>2 DEF GcTyped, FileTyped
<1> HIDE DEF x
<1>5. gc[g] \in Collecting => GcFile(g) = x
  BY DEF x
<1>6. gc'[g] \in Collecting => GcFile(g)' = x /\ lock[x] \in {None, g}
  BY <1>a, <1>b, <1>2 DEF x
<1>7. /\ data'[x] \in {None, data[x]} /\ record'[x] \in {None, record[x]}
      /\ lock[x] \in {None, g} \/ (data'[x] = data[x] /\ record'[x] = record[x])
  BY <1>a, <1>b, <1>2 DEF x
<1>8. /\ gc'[g] \in GcSteps /\ trash'[g] \in SUBSET {"tombstone", "record", "data"}
      /\ candidate'[g] \in {None} \cup Candidate /\ (trash'[g] # {} => "tombstone" \in trash'[g])
      /\ lock'[x] = IF gc'[g] \in Collecting THEN g ELSE IF lock[x] = g THEN None ELSE lock[x]
  BY <1>a, <1>b, <1>1, <1>2
<1> QED
  BY <1>a, <1>1, <1>3, <1>4, <1>5, <1>6, <1>7, <1>8, GcInv

\* The maintenance lock, and the revalidation under the partial lock.
LEMMA RevalidateInv ==
  ASSUME IInv, NEW g \in Collector, EnterMaintenance(g) \/ RevalidatePartial(g)
  PROVE  IInv'
<1> DEFINE x == GcFile(g)
<1>1. gc[g] \in {"planned", "locking"}
      /\ UNCHANGED <<candidate, data, record, blob, jobVars, fetchVars, auxVars>>
  BY DEF EnterMaintenance, RevalidatePartial, diskVars
<1>2. /\ FileTyped /\ GcTyped /\ Trashed(g) /\ budget \in Budgets /\ x \in File
      /\ trash[g] = {} /\ lock[x] # g
  BY <1>1, GcAt DEF Trashed, Collecting
<1>3. /\ data' = [data EXCEPT ![x] = data[x]] /\ record' = [record EXCEPT ![x] = record[x]]
      /\ plan' = plan /\ kind' = kind /\ clock' = clock /\ torn' = torn /\ budget' = budget
  BY <1>1, <1>2 DEF FileTyped, auxVars
<1>4. gc[g] # "idle"
  BY <1>1
<1>5. CASE StillCandidate(g) /\ RevalidatePartial(g)
  <2>1. /\ lock[x] = None /\ lock' = [lock EXCEPT ![x] = g]
        /\ trash' = [trash EXCEPT ![g] = {"tombstone"}]
        /\ gc' = [gc EXCEPT ![g] = "trash record"]
    BY <1>5 DEF RevalidatePartial, Step
  <2>2. record[x] = candidate[g].record /\ data[x] # None /\ Len(data[x]) = candidate[g].record.received
    BY <1>5 DEF StillCandidate
  <2>3. "trash record" \in GcSteps \ {"idle"} /\ "trash record" \in Collecting
    BY DEF GcSteps, Collecting
  <2>4. GcMoves(g, "trash record", {"tombstone"}, data[x], record[x])
    BY <1>1, <1>2, <1>3, <2>1, <2>2, <2>3 DEF GcMoves
  <2> QED
    BY <1>4, <2>4, GcStepInv
<1>6. CASE \E step \in {"locking", "done"} :
               gc' = [gc EXCEPT ![g] = step] /\ lock' = lock /\ trash' = trash
  <2>1. PICK step \in {"locking", "done"} :
               gc' = [gc EXCEPT ![g] = step] /\ lock' = lock /\ trash' = trash
    BY <1>6
  <2>2. step \in GcSteps \ {"idle"} /\ step \notin Collecting
    BY DEF GcSteps, Collecting
  <2>3. lock' = [lock EXCEPT ![x] =
                     IF step \in Collecting THEN g ELSE IF lock[x] = g THEN None ELSE lock[x]]
    BY <1>2, <2>1, <2>2 DEF FileTyped
  <2>4. trash' = [trash EXCEPT ![g] = {}]
    BY <1>2, <2>1 DEF GcTyped
  <2>5. /\ step \notin {"trash record", "trash data", "empty"}
        /\ step \in Collecting => "tombstone" \in {}
    BY <2>2 DEF Collecting
  <2>6. GcMoves(g, step, {}, data[x], record[x])
    BY <1>1, <1>2, <1>3, <2>1, <2>2, <2>3, <2>4, <2>5 DEF GcMoves
  <2> QED
    BY <1>4, <2>6, GcStepInv
<1>7. EnterMaintenance(g) => gc' = [gc EXCEPT ![g] = "locking"] /\ lock' = lock /\ trash' = trash
  BY DEF EnterMaintenance, Step, diskVars
<1>8. RevalidatePartial(g) /\ ~StillCandidate(g) =>
        gc' = [gc EXCEPT ![g] = "done"] /\ lock' = lock /\ trash' = trash
  BY DEF RevalidatePartial, Step
<1> QED
  BY <1>5, <1>6, <1>7, <1>8

\* The record and then the data go to the trash.
LEMMA TrashInv ==
  ASSUME IInv, NEW g \in Collector, TrashRecord(g) \/ TrashData(g)
  PROVE  IInv'
<1> DEFINE x == GcFile(g)
<1>1. /\ gc[g] \in {"trash record", "trash data"}
      /\ UNCHANGED <<candidate, blob, jobVars, fetchVars, plan, kind, clock, torn>>
  BY DEF TrashRecord, TrashData, auxVars
<1>2. gc[g] \in Collecting /\ gc[g] # "idle"
  BY <1>1 DEF Collecting
<1>3. /\ FileTyped /\ GcTyped /\ Trashed(g) /\ budget \in Budgets /\ x \in File
      /\ lock[x] = g /\ "tombstone" \in trash[g]
      /\ trash[g] \in SUBSET {"tombstone", "record", "data"}
  <2>1. /\ FileTyped /\ GcTyped /\ Trashed(g) /\ budget \in Budgets /\ x \in File /\ lock[x] = g
    BY <1>2, GcAt
  <2> QED
    BY <1>2, <2>1 DEF Trashed, GcTyped
<1>4. /\ "trash data" \in GcSteps \ {"idle"} /\ "trash data" \in Collecting
      /\ "empty" \in GcSteps \ {"idle"} /\ "empty" \in Collecting
      /\ "done" \in GcSteps \ {"idle"} /\ "done" \notin Collecting
  BY DEF GcSteps, Collecting
<1>5. CASE TrashRecord(g)
  <2>1. /\ record' = [record EXCEPT ![x] = None] /\ data' = data /\ lock' = lock /\ budget' = budget
        /\ trash' = [trash EXCEPT ![g] = trash[g] \cup {"record"}]
        /\ gc' = [gc EXCEPT ![g] = "trash data"]
    BY <1>3, <1>5 DEF TrashRecord, Step, auxVars, GcTyped
  <2>2. data' = [data EXCEPT ![x] = data[x]] /\ lock' = [lock EXCEPT ![x] = g]
    BY <1>3, <2>1 DEF FileTyped
  <2>3. trash[g] \cup {"record"} \in SUBSET {"tombstone", "record", "data"}
    BY <1>3
  <2>4. GcMoves(g, "trash data", trash[g] \cup {"record"}, data[x], None)
    BY <1>1, <1>3, <1>4, <2>1, <2>2, <2>3 DEF GcMoves
  <2> QED
    BY <1>2, <2>4, GcStepInv
<1>6. CASE /\ gc[g] = "trash data" /\ data' = [data EXCEPT ![x] = None]
           /\ trash' = [trash EXCEPT ![g] = trash[g] \cup {"data"}]
           /\ Step(g, "empty") /\ UNCHANGED <<lock, budget>> /\ record' = record
  <2>1. gc' = [gc EXCEPT ![g] = "empty"] /\ record[x] = None
    BY <1>3, <1>6 DEF Step, Trashed
  <2>2. record' = [record EXCEPT ![x] = None] /\ lock' = [lock EXCEPT ![x] = g]
    BY <1>3, <1>6, <2>1 DEF FileTyped
  <2>3. trash[g] \cup {"data"} \in SUBSET {"tombstone", "record", "data"}
    BY <1>3
  <2>4. GcMoves(g, "empty", trash[g] \cup {"data"}, None, None)
    BY <1>1, <1>3, <1>4, <1>6, <2>1, <2>2, <2>3 DEF GcMoves
  <2> QED
    BY <1>2, <2>4, GcStepInv
<1>7. CASE /\ gc[g] = "trash data" /\ Faulty /\ Step(g, "done") /\ Unlock(x)
           /\ UNCHANGED <<data, trash, record>>
  <2>1. /\ gc' = [gc EXCEPT ![g] = "done"] /\ lock' = [lock EXCEPT ![x] = None]
        /\ data' = [data EXCEPT ![x] = data[x]] /\ record' = [record EXCEPT ![x] = record[x]]
        /\ trash' = [trash EXCEPT ![g] = trash[g]]
    BY <1>3, <1>7 DEF Step, Unlock, FileTyped, GcTyped
  <2>2. budget' \in Budgets /\ budget'.attempts = budget.attempts
    BY <1>3, <1>7, Spent DEF Faulty
  <2>3. GcMoves(g, "done", trash[g], data[x], record[x])
    BY <1>1, <1>3, <1>4, <2>1, <2>2 DEF GcMoves
  <2> QED
    BY <1>2, <2>3, GcStepInv
<1>8. TrashData(g) =>
        \/ /\ gc[g] = "trash data" /\ data' = [data EXCEPT ![x] = None]
           /\ trash' = [trash EXCEPT ![g] = trash[g] \cup {"data"}]
           /\ Step(g, "empty") /\ UNCHANGED <<lock, budget>> /\ record' = record
        \/ /\ gc[g] = "trash data" /\ Faulty /\ Step(g, "done") /\ Unlock(x)
           /\ UNCHANGED <<data, trash, record>>
  BY <1>3 DEF TrashData, GcTyped
<1> QED
  BY <1>5, <1>6, <1>7, <1>8

\* The trash is emptied, the tombstone last.
LEMMA EmptyTrashInv ==
  ASSUME IInv, NEW g \in Collector, EmptyTrash(g)
  PROVE  IInv'
<1> DEFINE x == GcFile(g)
           first(k) == /\ RemovalOrder[k] \in trash[g]
                       /\ \A m \in 1 .. k - 1 : RemovalOrder[m] \notin trash[g]
           i == CHOOSE k \in 1 .. 3 : first(k)
           t == trash[g] \ {RemovalOrder[i]}
<1>1. /\ gc[g] = "empty"
      /\ UNCHANGED <<candidate, data, record, blob, jobVars, fetchVars, auxVars>>
      /\ trash' = [trash EXCEPT ![g] = @ \ {RemovalOrder[i]}]
      /\ IF i = 3 THEN Step(g, "done") /\ Unlock(x) ELSE UNCHANGED <<gc, lock>>
  BY DEF EmptyTrash
<1>2. gc[g] \in Collecting /\ gc[g] # "idle"
  BY <1>1 DEF Collecting
<1>3. /\ FileTyped /\ GcTyped /\ Trashed(g) /\ budget \in Budgets /\ x \in File
      /\ lock[x] = g /\ "tombstone" \in trash[g] /\ record[x] = None
      /\ trash[g] \in SUBSET {"tombstone", "record", "data"}
  <2>1. /\ FileTyped /\ GcTyped /\ Trashed(g) /\ budget \in Budgets /\ x \in File /\ lock[x] = g
    BY <1>2, GcAt
  <2> QED
    BY <1>1, <1>2, <2>1 DEF Trashed, GcTyped
<1>4. /\ RemovalOrder[1] = "record" /\ RemovalOrder[2] = "data" /\ RemovalOrder[3] = "tombstone"
  BY DEF RemovalOrder
<1>5. \E k \in 1 .. 3 : first(k)
  <2>1. first(1) \/ first(2) \/ first(3)
    <3>1. \A m \in 1 .. 3 - 1 : m = 1 \/ m = 2
      OBVIOUS
    <3>2. \A m \in 1 .. 2 - 1 : m = 1
      OBVIOUS
    <3>3. \A m \in 1 .. 1 - 1 : FALSE
      OBVIOUS
    <3> QED
      BY <1>3, <1>4, <3>1, <3>2, <3>3
  <2> HIDE DEF first
  <2> QED
    BY <2>1
<1>6. i \in 1 .. 3 /\ first(i)
  <2> HIDE DEF first
  <2> QED
    BY <1>5
<1>7. trash' = [trash EXCEPT ![g] = t]
  BY <1>1, <1>3 DEF GcTyped
<1> HIDE DEF i
<1>8. i # 3 => "tombstone" \in t
  <2>1. i # 3 => i = 1 \/ i = 2
    BY <1>6
  <2> QED
    BY <1>3, <1>4, <2>1
<1>9. i = 3 => t = {}
  <2>1. i = 3 => RemovalOrder[1] \notin trash[g] /\ RemovalOrder[2] \notin trash[g]
    BY <1>6
  <2> QED
    BY <1>3, <1>4, <2>1
<1>10. t \in SUBSET {"tombstone", "record", "data"}
  BY <1>3
<1> HIDE DEF t
<1>11. /\ data' = [data EXCEPT ![x] = data[x]] /\ record' = [record EXCEPT ![x] = None]
       /\ plan' = plan /\ kind' = kind /\ clock' = clock /\ torn' = torn /\ budget' = budget
  BY <1>1, <1>3 DEF FileTyped, auxVars
<1>12. /\ "empty" \in GcSteps \ {"idle"} /\ "empty" \in Collecting
       /\ "done" \in GcSteps \ {"idle"} /\ "done" \notin Collecting
  BY DEF GcSteps, Collecting
<1>13. CASE i = 3
  <2>1. gc' = [gc EXCEPT ![g] = "done"] /\ lock' = [lock EXCEPT ![x] = None]
    BY <1>1, <1>13 DEF Step, Unlock
  <2>2. GcMoves(g, "done", t, data[x], None)
    BY <1>1, <1>3, <1>7, <1>9, <1>10, <1>11, <1>12, <1>13, <2>1 DEF GcMoves
  <2> QED
    BY <1>2, <2>2, GcStepInv
<1>14. CASE i # 3
  <2>1. gc' = [gc EXCEPT ![g] = "empty"] /\ lock' = [lock EXCEPT ![x] = g]
    BY <1>1, <1>3, <1>14 DEF GcTyped, FileTyped
  <2>2. GcMoves(g, "empty", t, data[x], None)
    BY <1>1, <1>3, <1>7, <1>8, <1>10, <1>11, <1>12, <1>14, <2>1 DEF GcMoves
  <2> QED
    BY <1>2, <2>2, GcStepInv
<1> QED
  BY <1>13, <1>14

\* A collection is cut short.
LEMMA DropCollectorInv ==
  ASSUME IInv, NEW g \in Collector, DropCollector(g)
  PROVE  IInv'
<1> DEFINE x == GcFile(g)
<1>1. /\ gc[g] # "idle" /\ Spend("drops") /\ gc' = [gc EXCEPT ![g] = "done"]
      /\ lock' = [y \in File |-> IF lock[y] = g THEN None ELSE lock[y]]
      /\ UNCHANGED <<candidate, trash, data, record, blob, jobVars, fetchVars, plan, kind, clock, torn>>
  BY DEF DropCollector, Step
<1>2. /\ FileTyped /\ GcTyped /\ Trashed(g) /\ budget \in Budgets /\ x \in File
      /\ trash[g] # {} => "tombstone" \in trash[g]
      /\ \A y \in File : lock[y] = g => x = y
  BY <1>1, GcAt
<1>3. budget' \in Budgets /\ budget'.attempts = budget.attempts
  BY <1>1, <1>2, Spent
<1>4. "done" \in GcSteps \ {"idle"} /\ "done" \notin Collecting
  BY DEF GcSteps, Collecting
<1>5. lock' = [lock EXCEPT ![x] = IF lock[x] = g THEN None ELSE @]
  BY <1>1, <1>2 DEF FileTyped
<1>6. /\ data' = [data EXCEPT ![x] = data[x]] /\ record' = [record EXCEPT ![x] = record[x]]
      /\ trash' = [trash EXCEPT ![g] = trash[g]]
      /\ trash[g] \in SUBSET {"tombstone", "record", "data"}
  BY <1>1, <1>2 DEF FileTyped, GcTyped
<1>7. GcMoves(g, "done", trash[g], data[x], record[x])
  BY <1>1, <1>2, <1>3, <1>4, <1>5, <1>6 DEF GcMoves
<1> QED
  BY <1>1, <1>7, GcStepInv

-----------------------------------------------------------------------------
(* The invariant.                                                          *)

\* What no part of the invariant but the types reads may change freely.
LEMMA SameInv ==
  ASSUME IInv, TypeOK',
         UNCHANGED <<diskVars, jobVars, fetchVars, gcVars, plan, kind, torn>>
  PROVE  IInv'
<1>1. /\ data' = data /\ record' = record /\ blob' = blob /\ lock' = lock
      /\ pc' = pc /\ resume' = resume /\ response' = response
      /\ result' = result /\ token' = token /\ phase' = phase /\ next' = next
      /\ results' = results /\ error' = error
      /\ gc' = gc /\ candidate' = candidate /\ trash' = trash
  BY DEF diskVars, jobVars, fetchVars, gcVars
<1>2. /\ \A k : FileOf(k)' = FileOf(k)
      /\ \A o : Jobs(o)' = Jobs(o)
      /\ \A o : Active(o)' = Active(o)
      /\ \A g : GcFile(g)' = GcFile(g)
  BY <1>1 DEF FileOf, Jobs, GcFile, Active
<1>3. Planned' /\ Started' /\ Exclusive'
  BY <1>1, <1>2 DEF IInv, Planned, Started, Exclusive
<1>4. ASSUME NEW k \in Job
      PROVE  (Equipped(k) /\ Honest(k) /\ OneVersion(k))'
  BY <1>1, <1>2 DEF IInv, Equipped, Honest, Verified, OneVersion, Bound, Copies
<1>5. ASSUME NEW x \in File
      PROVE  (Recorded(x) /\ Published(x))'
  BY <1>1 DEF IInv, Recorded, Published, Bound, Copies
<1>6. ASSUME NEW o \in Fetch
      PROVE  Collected(o)'
  <2>1. Collected(o)
    BY DEF IInv
  <2> QED
    BY <1>1, <1>2, <2>1 DEF Collected
<1>7. ASSUME NEW g \in Collector
      PROVE  Trashed(g)'
  BY <1>1, <1>2 DEF IInv, Trashed
<1>8. NoJobOutlivesFetch' /\ TrashHasTombstone'
  BY <1>1, <1>2 DEF IInv, NoJobOutlivesFetch, TrashHasTombstone
<1> QED
  BY <1>3, <1>4, <1>5, <1>6, <1>7, <1>8 DEF IInv

\* Time passes, or nothing does.
LEMMA IdleInv ==
  ASSUME IInv, Tick \/ UNCHANGED vars
  PROVE  IInv'
<1>1. UNCHANGED <<diskVars, jobVars, fetchVars, gcVars, plan, kind, torn>>
  BY DEF Tick, vars, auxVars
<1>2. FileTyped /\ JobTyped /\ FetchTyped /\ GcTyped /\ clock \in Nat /\ budget \in Budgets
  BY Typed DEF IInv
<1>3. clock' \in Nat /\ budget' \in Budgets /\ budget'.attempts = budget.attempts
  BY <1>2, Spent DEF Tick, vars, auxVars
<1>4. FileTyped' /\ FetchTyped' /\ GcTyped'
  BY <1>1, <1>2 DEF FileTyped, FetchTyped, GcTyped, diskVars, fetchVars, gcVars
<1>5. JobTyped'
  BY <1>1, <1>2, <1>3 DEF JobTyped, jobVars
<1>6. TypeOK'
  BY <1>3, <1>4, <1>5, TypedNext
<1> QED
  BY <1>1, <1>6, SameInv

\* Every step of every actor.
LEMMA NextInv ==
  ASSUME IInv, [Next]_vars
  PROVE  IInv'
<1>1. ASSUME NEW o \in Fetch, NEW j \in Jobs(o), JobStep(j)
      PROVE  IInv'
  BY <1>1, JobsTyped, JobStepInv DEF IInv
<1>2. ASSUME NEW o \in Fetch, FetchStep(o)
      PROVE  IInv'
  BY <1>2, BeginFetchInv, EndFetchInv, CollectJobInv DEF FetchStep
<1>3. ASSUME NEW o \in Fetch, Cancel(o) \/ DropFetch(o)
      PROVE  IInv'
  BY <1>3, CancelInv, DropFetchInv
<1>4. ASSUME NEW g \in Collector, PlanPartialGc(g) \/ CollectorStep(g) \/ DropCollector(g)
      PROVE  IInv'
  BY <1>4, PlanPartialGcInv, RevalidateInv, TrashInv, EmptyTrashInv, DropCollectorInv
     DEF CollectorStep
<1> QED
  BY <1>1, <1>2, <1>3, <1>4, IdleInv DEF Next

\* Nothing is on disk and nothing has started.
LEMMA InitInv ==
  ASSUME Init
  PROVE  IInv
<1>1. PICK s \in Scenarios : plan = s.plan /\ kind = s.kind /\ budget = s.budget
  BY DEF Init
<1>2. Planned /\ budget \in Budgets
  BY <1>1, ScenarioAssumption DEF Planned
<1>3. budget.attempts \in Nat \ {0}
  BY <1>2 DEF Budgets
<1>4. /\ \A o \in Fetch : Len(plan[o]) \in Nat /\ next[o] = 1 /\ results[o] = {}
                          /\ phase[o] = "new"
      /\ \A j \in Job : pc[j] = "idle"
      /\ \A x \in File : data[x] = None /\ record[x] = None /\ blob[x] = {} /\ lock[x] = None
      /\ \A g \in Collector : gc[g] = "idle" /\ trash[g] = {}
  BY <1>2 DEF Init, Planned
<1>5. FileTyped
  BY DEF Init, FileTyped
<1>6. JobTyped
  BY <1>3 DEF Init, JobTyped, JobSteps
<1>7. FetchTyped
  <2>1. next \in [Fetch -> Nat] /\ \A o \in Fetch : next[o] \in 1 .. Len(plan[o]) + 1
    BY <1>4 DEF Init
  <2>2. results \in [Fetch -> SUBSET ((1 .. Cardinality(File)) \X [1 .. Size -> Version])]
    BY DEF Init
  <2> QED
    BY <2>1, <2>2 DEF Init, FetchTyped
<1>8. GcTyped /\ clock \in Nat
  BY DEF Init, GcTyped, GcSteps
<1>9. TypeOK
  BY <1>2, <1>5, <1>6, <1>7, <1>8, Typed
<1>10. Started
  <2>1. \A o \in Fetch : \A j \in Jobs(o) : ~(j[2] < next[o])
    <3> SUFFICES ASSUME NEW o \in Fetch, NEW j \in Jobs(o) PROVE ~(j[2] < next[o])
      OBVIOUS
    <3>1. j[2] \in 1 .. Len(plan[o])
      BY <1>2 DEF Jobs, Planned
    <3> QED
      BY <1>4, <3>1
  <2> QED
    BY <1>4, <2>1 DEF Started
<1>11. Exclusive
  BY <1>4, ActorAssumption DEF Exclusive, Holding, Collecting
<1>12. ASSUME NEW j \in Job
       PROVE  Equipped(j) /\ Honest(j) /\ OneVersion(j)
  BY <1>4 DEF Equipped, Honest, OneVersion, Answered, Holding, Ended
<1>13. ASSUME NEW x \in File
       PROVE  Recorded(x) /\ Published(x)
  BY <1>4 DEF Recorded, Published
<1>14. ASSUME NEW o \in Fetch
       PROVE  Collected(o)
  BY <1>4 DEF Collected
<1>15. ASSUME NEW g \in Collector
       PROVE  Trashed(g)
  BY <1>4 DEF Trashed, Collecting
<1>16. NoJobOutlivesFetch /\ TrashHasTombstone
  BY <1>4 DEF NoJobOutlivesFetch, TrashHasTombstone
<1> QED
  BY <1>2, <1>9, <1>10, <1>11, <1>12, <1>13, <1>14, <1>15, <1>16 DEF IInv

\* IInv is an invariant of the transfers, whatever is planned and whatever
\* fails, is cancelled or is cut short meanwhile.
THEOREM Inductive == Spec => []IInv
BY InitInv, NextInv, PTL DEF Spec

-----------------------------------------------------------------------------
(* The safety properties.                                                  *)

\* Every variable keeps its type, and no partial file outgrows the size of
\* its entry (append_bounded_body).
THEOREM TypeCorrect == Spec => []TypeOK
<1>1. IInv => TypeOK
  BY DEF IInv
<1> QED
  BY <1>1, Inductive, PTL

\* What is published for an entry with a digest is exactly what the entry
\* describes (stream_validated_body, publish_validated_partial).
THEOREM PublishedMatches == Spec => []PublishedMatchesEntry
<1>1. IInv => PublishedMatchesEntry
  BY DEF IInv, Published, PublishedMatchesEntry
<1> QED
  BY <1>1, Inductive, PTL

\* What is published with only its size to check is one version from end to
\* end, unless a transfer of the file was cut short (resume_offset_if_eligible
\* and the validator of a range response).
THEOREM PublishedWhole == Spec => []PublishedIsOneVersion
<1>1. IInv => PublishedIsOneVersion
  BY DEF IInv, Published, PublishedIsOneVersion
<1> QED
  BY <1>1, Inductive, PTL

\* A record a transfer may resume from tells the truth about its data
\* (retain_resumable_partial).
THEOREM RecordTrue == Spec => []ResumableRecordIsTrue
<1>1. IInv => ResumableRecordIsTrue
  BY ActorAssumption DEF IInv, Recorded, Bound, Copies, ResumableRecordIsTrue
<1> QED
  BY <1>1, Inductive, PTL

\* The results of a fetch that collected every job are one for each.
LEMMA OneResultEach ==
  ASSUME IInv, NEW o \in Fetch, phase[o] = "complete"
  PROVE  /\ Cardinality(results[o]) = Len(plan[o])
         /\ \A j \in Jobs(o) : \E p \in results[o] : p[1] = j[2] /\ p[2] \in blob[FileOf(j)]
<1> DEFINE n == Len(plan[o])
           f == [p \in results[o] |-> p[1]]
<1>1. Collected(o) /\ n \in Nat /\ DOMAIN plan[o] = 1 .. n
  BY DEF IInv, Planned
<1>2. error[o] = None /\ \A j \in Jobs(o) : pc[j] = "collected"
  BY <1>1 DEF Collected
<1>3. /\ \A p \in results[o] : p[1] \in 1 .. n /\ p[2] \in blob[plan[o][p[1]]]
      /\ \A p, q \in results[o] : p[1] = q[1] => p = q
      /\ \A j \in Jobs(o) : \E p \in results[o] : p[1] = j[2]
  BY <1>1, <1>2 DEF Collected
<1>4. \A i \in 1 .. n : \E p \in results[o] : p[1] = i
  <2> SUFFICES ASSUME NEW i \in 1 .. n
               PROVE  \E p \in results[o] : p[1] = i
    OBVIOUS
  <2>1. <<o, i>> \in Jobs(o) /\ <<o, i>>[2] = i
    BY <1>1 DEF Jobs
  <2> QED
    BY <1>3, <2>1
<1>5. f \in [results[o] -> 1 .. n]
  BY <1>3
<1>6. \A p, q \in results[o] : f[p] = f[q] => p = q
  BY <1>3
<1>7. \A i \in 1 .. n : \E p \in results[o] : f[p] = i
  BY <1>4
<1> HIDE DEF f
<1>8. f \in Injection(results[o], 1 .. n) /\ f \in Surjection(results[o], 1 .. n)
  <2>1. f \in Bijection(results[o], 1 .. n)
    BY <1>5, <1>6, <1>7, Fun_IsBij
  <2> QED
    BY <2>1 DEF Bijection
<1>9. IsFiniteSet(1 .. n) /\ Cardinality(1 .. n) = n
  BY <1>1, FS_Interval
<1>10. Cardinality(results[o]) = n
  BY <1>8, <1>9, FS_Injection
<1>11. \A j \in Jobs(o) : \E p \in results[o] : p[1] = j[2] /\ p[2] \in blob[FileOf(j)]
  BY <1>3 DEF Jobs, FileOf
<1> QED
  BY <1>10, <1>11

\* A completed fetch returns one digest for every planned file, each that of
\* a published blob (run_bounded).
THEOREM CompletePublished == Spec => []CompleteMeansPublished
<1>1. IInv => CompleteMeansPublished
  BY OneResultEach DEF CompleteMeansPublished
<1> QED
  BY <1>1, Inductive, PTL

\* A fetch that returned or was dropped leaves no lock and no job behind.
THEOREM NoJobLeft == Spec => []NoJobOutlivesFetch
<1>1. IInv => NoJobOutlivesFetch
  BY DEF IInv
<1> QED
  BY <1>1, Inductive, PTL

\* What a collection has moved is accounted for by its tombstone, wherever it
\* fails or is cut short (execute_partial_gc).
THEOREM Tombstones == Spec => []TrashHasTombstone
<1>1. IInv => TrashHasTombstone
  BY DEF IInv
<1> QED
  BY <1>1, Inductive, PTL

\* A partial that was touched since the collection was planned is not
\* collected (the revalidation of execute_partial_gc).
THEOREM TouchedKept == Spec => TouchedPartialKept
<1>1. IInv /\ [Next]_vars => [KeptStep]_vars
  BY DEF IInv, Trashed, KeptStep
<1> QED
  BY <1>1, Inductive, PTL DEF Spec, TouchedPartialKept
=============================================================================

------------------------------ MODULE StagedFile ------------------------------
(***************************************************************************)
(* One file of a cache, and the ways the code writes it: every writer      *)
(* fills a staging file of its own and then links it (create once) or      *)
(* renames it (replace) to its name, under a lock or not, with the checks, *)
(* error flags and cleanup that differ from writer to writer.  The other   *)
(* models take each of these writes as one step.                           *)
(*                                                                         *)
(*   create   create_once: layout marker, scaffold of a local directory    *)
(*   record   publish_encoded_immutable_record: trees, manifests, bindings *)
(*   replace  replace_from_staging: refs, partial and completion records   *)
(*   etag     replace_record of a local directory: hints of its files      *)
(*   blob     publish_blob                                                 *)
(*   hint     write_tree_hint of a local directory                         *)
(***************************************************************************)
EXTENDS Naturals, FiniteSets, Sequences

CONSTANTS Process, Value, None,
    Protocols, \* the ways of writing to choose from
    MaxOps,    \* operations begun
    MaxFaults, \* calls that fail
    MaxCrashes,
    MaxRemovals, \* blobs collected
    MaxForeign \* files written by other programs

ASSUME BoundsAssumption ==
    {MaxOps, MaxFaults, MaxCrashes, MaxRemovals, MaxForeign} \subseteq Nat
ASSUME ValueAssumption == Value # {}

VARIABLES
    protocol, \* how this file is written
    dest,     \* 0, or the inode under its name
    content,  \* content[n]: what inode n holds, None if not made yet
    staged,   \* staged[p]: 0, or the inode under the staging name of p
    debris,   \* staging names whose writer is gone
    lock,     \* None, or who holds the lock file
    step,     \* step[p]: the next call of p
    task,     \* task[p]: None, or what p does and what came of it
    found,    \* found[p]: 0, or the inode a reader has open
    answer,   \* answer[p]: what the last operation of p returned
    spent     \* how much of each bound is used up

vars == <<protocol, dest, content, staged, debris, lock, step, task, found, answer, spent>>

AllProtocols == {"create", "record", "replace", "etag", "blob", "hint"}
ASSUME ProtocolsAssumption == Protocols \subseteq AllProtocols

Torn == "torn"
Nothing == "nothing"
Inode == 1..(MaxOps + MaxForeign)
HeldBy(n) == IF n = 0 THEN None ELSE content[n]

Tasks ==
    [write : BOOLEAN, arg : Value \cup {None}, did : BOOLEAN,
     saw : Value \cup {None, Torn, Nothing}]

ASSUME NoneAssumption ==
    None \notin Process /\ None \notin Value /\ None # Torn /\ None \notin Tasks

-----------------------------------------------------------------------------
(* The calls of each writer when nothing is in its way.                    *)
Calls ==
    [create |-> <<"look", "stage", "write", "install", "reread", "clean">>,
     record |-> <<"lock", "look", "stage", "write", "install", "reread", "clean", "sync">>,
     replace |-> <<"lock", "stage", "write", "install", "reread", "sync">>,
     etag |-> <<"lock", "stage", "write", "install", "reread", "sync">>,
     blob |-> <<"stage", "write", "lock", "look", "install", "reread", "clean", "sync">>,
     hint |-> <<"lock", "look", "stage", "write", "install", "reread", "sync">>]

OtherCalls == {"compare", "again", "discard", "open", "read"}
Steps == {"idle"} \cup OtherCalls \cup UNION {{Calls[w][i] : i \in DOMAIN Calls[w]} : w \in AllProtocols}

FirstCall == Calls[protocol][1]
NextCall(s) ==
    LET i == CHOOSE i \in DOMAIN Calls[protocol] : Calls[protocol][i] = s IN
    Calls[protocol][i + 1]

(* may_have_published of an error: the calls whose error claims that       *)
(* nothing was published.  The error of create_once claims nothing.        *)
Denying ==
    CASE protocol = "create" -> {}
      [] protocol = "record" -> {"lock", "look", "compare", "again"}
      [] protocol = "replace" -> {"lock"}
      [] protocol = "etag" -> {"lock", "stage", "write"}
      [] protocol = "blob" -> {"stage", "write", "lock", "look", "install", "compare", "again", "discard"}
      [] protocol = "hint" -> {"lock", "look", "compare", "stage", "write"}

MayHavePublished(p) == step[p] \notin Denying

-----------------------------------------------------------------------------
Goto(p, s) == step' = [step EXCEPT ![p] = s]
\* Defect: the guard of the lock is kept.
Locked(p) == lock' = lock
Unlock(p) == lock' = IF lock = p THEN None ELSE lock
Says(outcome, value, may) == [outcome |-> outcome, value |-> value, may |-> may]

(* The operation of p returns: its guards are dropped.                     *)
Return(p, a) ==
    /\ Goto(p, "idle") /\ Unlock(p)
    /\ task' = [task EXCEPT ![p] = None]
    /\ found' = [found EXCEPT ![p] = 0]
    /\ answer' = [answer EXCEPT ![p] = a]
    /\ UNCHANGED <<protocol, dest, content>>

Done(p) == Return(p, Says("done", None, FALSE))
NoCleanup == UNCHANGED <<staged, debris>>
Cleanup(p) == staged' = [staged EXCEPT ![p] = 0] /\ UNCHANGED debris
Abandon(p) ==
    /\ staged' = [staged EXCEPT ![p] = 0]
    /\ debris' = debris + (IF staged[p] = 0 THEN 0 ELSE 1)

(* The guard of the staging name, when it is dropped: write_tree_hint      *)
(* deactivates it as soon as it has made its file.                         *)
DropGuard(p) == IF protocol = "hint" /\ task[p].did THEN Abandon(p) ELSE Cleanup(p)

Advance(p) == Goto(p, NextCall(step[p]))
Sees(p, value) == task' = [task EXCEPT ![p].saw = value]
Idle(p) == step[p] = "idle"

Begin(p, write, v) ==
    /\ Idle(p) /\ spent.ops < MaxOps
    /\ spent' = [spent EXCEPT !.ops = @ + 1]
    /\ task' = [task EXCEPT ![p] = [write |-> write, arg |-> v, did |-> FALSE, saw |-> Nothing]]
    /\ answer' = [answer EXCEPT ![p] = None]
    /\ Goto(p, IF write THEN FirstCall ELSE "open")
    /\ UNCHANGED <<protocol, dest, content, staged, debris, lock, found>>

-----------------------------------------------------------------------------
(* Writers.                                                                *)
LockFile(p) ==
    /\ step[p] = "lock" /\ lock = None
    /\ lock' = p /\ Advance(p)
    /\ UNCHANGED <<protocol, dest, content, staged, debris, task, found, answer, spent>>

(* entry_kind of the destination.  What an existing file means depends on  *)
(* the writer.                                                             *)
LookMissing(p) ==
    /\ step[p] = "look" /\ dest = 0
    /\ Advance(p)
    /\ UNCHANGED <<protocol, dest, content, staged, debris, lock, task, found, answer, spent>>

LookExisting(p) ==
    /\ step[p] = "look" /\ dest # 0 /\ protocol # "create"
    /\ Goto(p, "compare") /\ Sees(p, HeldBy(dest))
    /\ UNCHANGED <<protocol, dest, content, staged, debris, lock, found, answer, spent>>

CreateExists(p) ==
    /\ step[p] = "look" /\ dest # 0 /\ protocol = "create"
    /\ Return(p, Says("existing", None, FALSE)) /\ NoCleanup
    /\ UNCHANGED spent

(* create_new of a staging name nobody else uses, then its bytes.          *)
Fresh == Cardinality({n \in Inode : content[n] # None}) + 1

Stage(p) ==
    /\ step[p] = "stage"
    /\ staged' = [staged EXCEPT ![p] = Fresh]
    /\ content' = [content EXCEPT ![Fresh] = Torn]
    /\ Advance(p)
    /\ UNCHANGED <<protocol, dest, debris, lock, task, found, answer, spent>>

Write(p) ==
    /\ step[p] = "write"
    /\ content' = [content EXCEPT ![staged[p]] = task[p].arg]
    /\ Advance(p)
    /\ UNCHANGED <<protocol, dest, staged, debris, lock, task, found, answer, spent>>

(* install_staged_replace renames; install_staged_create_once links, and   *)
(* finds out when there is a file already.                                 *)

\* Defect: every staging file is renamed to its place.
RenamesAlways == TRUE
Renames == protocol \in {"replace", "etag"}

Install(p) ==
    /\ step[p] = "install" /\ (Renames \/ dest = 0)
    /\ dest' = staged[p]
    /\ staged' = [staged EXCEPT ![p] = IF Renames THEN 0 ELSE @]
    /\ task' = [task EXCEPT ![p].did = TRUE, ![p].saw = content[staged[p]]]
    /\ Advance(p)
    /\ UNCHANGED <<protocol, content, debris, lock, found, answer, spent>>

AfterExisting ==
    CASE protocol \in {"create", "record"} -> "clean"
      [] protocol = "blob" -> "compare"
      [] OTHER -> "reread"

InstallFindsFile(p) ==
    /\ step[p] = "install" /\ ~Renames /\ dest # 0
    /\ Sees(p, HeldBy(dest)) /\ Goto(p, AfterExisting)
    /\ UNCHANGED <<protocol, dest, content, staged, debris, lock, found, answer, spent>>

(* The file is read back, and must be what was written.                    *)
RereadSame(p) ==
    /\ step[p] = "reread" /\ HeldBy(dest) = task[p].arg
    /\ Sees(p, HeldBy(dest)) /\ Advance(p)
    /\ UNCHANGED <<protocol, dest, content, staged, debris, lock, found, answer, spent>>

RereadDiffers(p) ==
    /\ step[p] = "reread" /\ HeldBy(dest) # task[p].arg
    /\ Return(p, Says("error", None, MayHavePublished(p))) /\ DropGuard(p)
    /\ UNCHANGED spent

(* The staging name of a link is removed, and the writer goes on.          *)
Cleaned(p) ==
    \/ /\ protocol = "create"
       /\ Return(p, Says(IF task[p].did THEN "done" ELSE "existing", None, FALSE))
    \/ /\ protocol # "create"
       /\ Goto(p, IF task[p].did THEN "sync" ELSE "again")
       /\ UNCHANGED <<protocol, dest, content, lock, task, found, answer>>

\* Defect: a staging name that became the file is not removed.
CleanUnlinked(p) ==
    /\ step[p] = "clean"
    /\ IF task[p].did THEN Abandon(p) ELSE Cleanup(p)
    /\ Cleaned(p)
    /\ UNCHANGED spent

Clean(p) ==
    /\ step[p] = "clean"
    /\ Cleanup(p) /\ Cleaned(p)
    /\ UNCHANGED spent

(* A staging name that cannot be removed stays; only for a blob is that an *)
(* error (Fail).                                                           *)
CleanIgnored(p) ==
    /\ step[p] = "clean" /\ protocol # "blob" /\ spent.faults < MaxFaults
    /\ spent' = [spent EXCEPT !.faults = @ + 1]
    /\ Abandon(p) /\ Cleaned(p)

(* The directory is synced and the operation returns.                      *)
Sync(p) ==
    /\ step[p] = "sync" /\ Done(p) /\ DropGuard(p)
    /\ UNCHANGED spent

(* A file that was there already is compared with what was to be written.  *)
Same(p) == HeldBy(dest) = task[p].arg

ReuseRecord(p) ==
    /\ step[p] \in {"compare", "again"} /\ protocol # "blob" /\ Same(p)
    /\ Done(p) /\ NoCleanup /\ UNCHANGED spent

RefuseRecord(p) ==
    /\ step[p] \in {"compare", "again"} /\ protocol # "blob" /\ ~Same(p)
    /\ Return(p, Says(IF dest = 0 THEN "error" ELSE "conflict", None, FALSE)) /\ NoCleanup
    /\ UNCHANGED spent

CompareBlob(p) ==
    /\ step[p] = "compare" /\ protocol = "blob"
    /\ IF Same(p)
       THEN /\ Sees(p, HeldBy(dest)) /\ Goto(p, "discard") /\ NoCleanup
            /\ UNCHANGED <<protocol, dest, content, lock, found, answer>>
       ELSE Return(p, Says("error", None, MayHavePublished(p))) /\ Cleanup(p)
    /\ UNCHANGED spent

Discard(p) ==
    /\ step[p] = "discard" /\ Done(p) /\ Cleanup(p)
    /\ UNCHANGED spent

-----------------------------------------------------------------------------
(* Readers take no lock: they open what the name holds and read it.        *)
Open(p) ==
    /\ step[p] = "open"
    /\ found' = [found EXCEPT ![p] = dest] /\ Sees(p, HeldBy(dest))
    /\ Goto(p, "read")
    /\ UNCHANGED <<protocol, dest, content, staged, debris, lock, answer, spent>>

Read(p) ==
    /\ step[p] = "read"
    /\ Return(p, Says("read", HeldBy(found[p]), FALSE)) /\ NoCleanup
    /\ UNCHANGED spent

(* A collector renames a blob away under its lock.                         *)
Collect ==
    /\ protocol = "blob" /\ dest # 0 /\ lock = None
    /\ spent.removals < MaxRemovals
    /\ spent' = [spent EXCEPT !.removals = @ + 1]
    /\ dest' = 0
    /\ UNCHANGED <<protocol, content, staged, debris, lock, step, task, found, answer>>

(* Another program replaces a file that is not ours alone: a ref of the    *)
(* standard cache or a hint of a file.                                     *)
Foreign(v) ==
    /\ protocol \in {"replace", "etag"} /\ spent.foreign < MaxForeign
    /\ spent' = [spent EXCEPT !.foreign = @ + 1]
    /\ content' = [content EXCEPT ![Fresh] = v] /\ dest' = Fresh
    /\ UNCHANGED <<protocol, staged, debris, lock, step, task, found, answer>>

-----------------------------------------------------------------------------
(* Failures.  A call fails without effect, and the guard of the staging    *)
(* name is dropped, which may fail as well.                                *)
Faulty(n) == spent.faults + n <= MaxFaults /\ spent' = [spent EXCEPT !.faults = @ + n]

Fail(p) ==
    /\ ~Idle(p) /\ (step[p] = "clean" => protocol = "blob")
    /\ Return(p, Says("error", None, MayHavePublished(p)))
    /\ \/ Faulty(1) /\ DropGuard(p)
       \/ Faulty(2) /\ staged[p] # 0 /\ Abandon(p)

(* A process dies: the system drops its locks, its staging name stays.     *)
Crash(p) ==
    /\ ~Idle(p) /\ spent.crashes < MaxCrashes
    /\ spent' = [spent EXCEPT !.crashes = @ + 1]
    /\ Return(p, Says("crashed", None, FALSE)) /\ Abandon(p)

-----------------------------------------------------------------------------
Init ==
    /\ protocol \in Protocols
    /\ dest = 0 /\ content = [n \in Inode |-> None]
    /\ staged = [p \in Process |-> 0] /\ debris = 0
    /\ lock = None
    /\ step = [p \in Process |-> "idle"] /\ task = [p \in Process |-> None]
    /\ found = [p \in Process |-> 0] /\ answer = [p \in Process |-> None]
    /\ spent = [ops |-> 0, faults |-> 0, crashes |-> 0, removals |-> 0, foreign |-> 0]

(* A blob is named by its content: all its writers write the same.         *)
Writable == IF protocol = "blob" THEN {CHOOSE v \in Value : TRUE} ELSE Value

Writer(p) ==
    \/ LockFile(p)
    \/ LookMissing(p) \/ LookExisting(p) \/ CreateExists(p)
    \/ Stage(p) \/ Write(p)
    \/ Install(p) \/ InstallFindsFile(p)
    \/ RereadSame(p) \/ RereadDiffers(p)
    \/ Clean(p) \/ CleanIgnored(p) \/ Sync(p)
    \/ ReuseRecord(p) \/ RefuseRecord(p)
    \/ CompareBlob(p) \/ Discard(p)

Reader(p) == Open(p) \/ Read(p)

Next ==
    \/ \E p \in Process :
           \/ \E v \in Writable : Begin(p, TRUE, v)
           \/ Begin(p, FALSE, None)
           \/ Writer(p) \/ Reader(p)
           \/ Fail(p) \/ Crash(p)
    \/ Collect
    \/ \E v \in Value : Foreign(v)

Spec == Init /\ [][Next]_vars

-----------------------------------------------------------------------------
Answers ==
    [outcome : {"done", "existing", "conflict", "read", "error", "crashed"},
     value : Value \cup {None, Torn}, may : BOOLEAN]

(* Every variable has its type; a lock is held by a process in an          *)
(* operation, no two writers share a staging file, and nothing but an      *)
(* inode that was made is under a name (StagingCleanup, OsRootedLockGuard).*)
TypeOK ==
    /\ protocol \in Protocols
    /\ dest \in 0..(MaxOps + MaxForeign) /\ content \in [Inode -> Value \cup {None, Torn}]
    /\ staged \in [Process -> 0..(MaxOps + MaxForeign)] /\ debris \in 0..MaxOps
    /\ lock \in Process \cup {None}
    /\ step \in [Process -> Steps] /\ task \in [Process -> Tasks \cup {None}]
    /\ found \in [Process -> 0..(MaxOps + MaxForeign)] /\ answer \in [Process -> Answers \cup {None}]
    /\ spent \in [ops : 0..MaxOps, faults : 0..MaxFaults,
                  crashes : 0..MaxCrashes, removals : 0..MaxRemovals, foreign : 0..MaxForeign]
    /\ \A p \in Process : Idle(p) <=> task[p] = None
    /\ lock # None => ~Idle(lock)
    /\ \A p, q \in Process : staged[p] = staged[q] /\ p # q => staged[p] = 0
    /\ dest # 0 => content[dest] # None

Discipline ==
    CASE protocol \in {"replace", "etag"} -> "mutable"
      [] protocol = "blob" -> "blob"
      [] OTHER -> "once"

Atomic == INSTANCE AtomicFile WITH
    discipline <- Discipline, value <- HeldBy(dest), pending <- task

(* Every way of writing is one atomic write: whatever other writers,       *)
(* readers, failures, crashes and collections do in between, nobody reads  *)
(* a file half written, what is written once is never replaced, a writer   *)
(* that returns success or a conflict has seen the file so, and an error   *)
(* that denies having published is right (create_once_from_staging,        *)
(* replace_from_staging, publish_blob and their callers).                  *)
ImplementsAtomicFile == Atomic!Spec

(* Where no call fails, no process dies and no other program interferes,   *)
(* no writer fails, and its staging name is gone when it returns, however  *)
(* writers, readers and collections meet; but for write_tree_hint, whose   *)
(* staging name stays (StagingCleanup, BookkeepingStagingCleanup).         *)
UndisturbedLeavesNothing ==
    spent.faults = 0 /\ spent.crashes = 0 /\ spent.foreign = 0 =>
        /\ \A p \in Process : answer[p] # None => answer[p].outcome # "error"
        /\ protocol # "hint" => debris = 0
        /\ \A p \in Process : Idle(p) => staged[p] = 0

-----------------------------------------------------------------------------
(* The inductive invariant, from which the properties above are proved.    *)

\* The inodes that were made, and the writers that have yet to make theirs
\* or to give it up.
Made == {n \in Inode : content[n] # None}
Unstaged == {p \in Process : staged[p] = 0 /\ step[p] \in {"lock", "look", "stage"}}
Owing == Unstaged \cup {p \in Process : staged[p] # 0}

(* Inodes are made in order, and there is one for every operation that     *)
(* stages and every foreign write; no operation leaves two names behind.   *)
Counted ==
    /\ Made = 1 .. Cardinality(Made)
    /\ IsFiniteSet(Owing)
    /\ Cardinality(Made) + Cardinality(Unstaged) <= spent.ops + spent.foreign
    /\ debris + Cardinality(Owing) <= spent.ops

(* The calls a writer can be at.                                           *)
Route ==
    CASE protocol = "create" -> {"look", "stage", "write", "install", "reread", "clean"}
      [] protocol = "record" ->
          {"lock", "look", "compare", "stage", "write", "install", "reread", "clean", "sync"}
      [] protocol \in {"replace", "etag"} -> {"lock", "stage", "write", "install", "reread", "sync"}
      [] protocol = "blob" ->
          {"stage", "write", "lock", "look", "compare", "discard", "install", "reread", "clean", "sync"}
      [] protocol = "hint" ->
          {"lock", "look", "compare", "stage", "write", "install", "reread", "sync"}

Placed(p) ==
    \/ Idle(p)
    \/ ~Idle(p) /\ ~task[p].write /\ step[p] \in {"open", "read"} /\ ~task[p].did
    \/ ~Idle(p) /\ task[p].write /\ task[p].arg \in Writable /\ step[p] \in Route

(* The calls made under the lock: all but the first writes of a blob, and  *)
(* none of create_once.                                                    *)
Guarded ==
    CASE protocol = "create" -> {}
      [] protocol = "blob" -> Route \ {"stage", "write", "lock"}
      [] OTHER -> Route \ {"lock"}

(* What the staging name of p holds at each call.                          *)
Unmade(p) ==
    \/ step[p] \in {"idle", "open", "read", "stage"}
    \/ step[p] \in {"lock", "look", "compare"} /\ protocol # "blob"
    \/ step[p] = "sync" /\ protocol # "hint"
    \/ step[p] = "reread" /\ Renames
Written(p) ==
    \/ step[p] = "install"
    \/ step[p] \in {"lock", "look"} /\ protocol = "blob"

Staging(p) ==
    /\ Unmade(p) => staged[p] = 0
    /\ step[p] = "write" =>
        staged[p] \notin {0, dest} /\ \A q \in Process : found[q] # staged[p]
    /\ Written(p) => staged[p] # 0 /\ content[staged[p]] = task[p].arg
    /\ staged[p] # 0 => content[staged[p]] # None

(* What p knows of the file, and whether it has written it.                *)
Knowing(p) ==
    /\ step[p] \in {"lock", "look", "stage", "write", "install", "compare", "discard"} => ~task[p].did
    /\ step[p] \in {"reread", "clean"} => task[p].did \/ (protocol = "create" /\ step[p] = "clean")
    /\ step[p] = "clean" => task[p].saw \in Value /\ (task[p].did => task[p].saw = task[p].arg)
    /\ step[p] \in {"sync", "discard"} => task[p].saw = task[p].arg
    /\ step[p] = "sync" => task[p].did
    /\ step[p] = "read" => task[p].saw = HeldBy(found[p])

(* What is under the name where nobody else may change it.                 *)
Settled(p) ==
    /\ protocol \in {"record", "hint"} /\ step[p] \in {"stage", "write", "install"} => dest = 0
    /\ step[p] = "compare" => dest # 0
    /\ step[p] = "reread" /\ spent.foreign = 0 => HeldBy(dest) = task[p].arg

Whole ==
    /\ dest # 0 => content[dest] \in Writable
    /\ \A p \in Process : found[p] # 0 => content[found[p]] \in Value

IInv ==
    /\ TypeOK /\ UndisturbedLeavesNothing
    /\ Counted /\ Whole
    /\ \A p \in Process :
        /\ Placed(p) /\ Staging(p) /\ Knowing(p) /\ Settled(p)
        /\ step[p] \in Guarded => lock = p
=============================================================================

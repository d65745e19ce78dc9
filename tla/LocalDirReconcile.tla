--------------------------- MODULE LocalDirReconcile ---------------------------
(***************************************************************************)
(* The reconciliation of a caller-owned local directory with a selection   *)
(* of a commit (local_dir_reconciliation.rs, local_dir_materialization.rs, *)
(* local_dir_bookkeeping.rs) and the strict offline reader of its          *)
(* completion record (local_dir_completion.rs).                            *)
(*                                                                         *)
(* Processes of this library coordinate through one lock in the directory. *)
(* The caller and other programs edit the files at any moment without it.  *)
(* One step is one call on the rooted file system that other processes can *)
(* observe or that observes them; staging files, which no reader opens,    *)
(* and directory syncs are not kept.                                       *)
(***************************************************************************)
EXTENDS Naturals, FiniteSets

CONSTANTS
    Process,        \* processes that reconcile and open the directory
    Files,          \* number of paths, 1 .. Files in canonical path order
    Commit,
    Content,        \* regular file contents
    Tree,           \* Tree[c][x]: the content of path x in commit c
    Available,      \* contents some candidate source holds, validated
    Missing,        \* no entry at the path
    Directory,      \* a directory at the path
    Special,        \* a link or a special file at the path
    Openings,       \* what an instance starts with: the files and a budget
    None

Path == 1 .. Files
Entry == Content \cup {Missing, Directory, Special}
Policies == {"reject", "replace"}

(* A selection of a commit, with the policy for existing regular files.    *)
Identity == [commit : Commit, paths : (SUBSET Path) \ {{}}]
Request == [commit : Commit, paths : (SUBSET Path) \ {{}}, policy : Policies]

(* How an operation ends, and whether it says the directory may have       *)
(* changed (may_have_changed).                                             *)
Outcomes == {"conflict", "needs transport", "invalid", "error", "tree conflict", "reconciled",
             "incomplete", "stale", "opened", "cancelled", "crashed"}
Report == [outcome : Outcomes, may : BOOLEAN]

(* The budget bounds the operations started, the outside edits, the local  *)
(* I/O faults, the cancellations and the crashes.                          *)
Budgets == [{"ops", "edits", "faults", "cancels", "crashes"} -> Nat]

ASSUME FilesAssumption == Files \in Nat \ {0}
ASSUME TreeAssumption ==
    /\ Tree \in [Commit -> [Path -> Content]]
    /\ Available \subseteq Content
ASSUME EntryAssumption ==
    /\ Content \cap {Missing, Directory, Special} = {}
    /\ Missing # Directory /\ Missing # Special /\ Directory # Special
ASSUME NoneAssumption == None \notin Process \cup Commit \cup Report
ASSUME OpeningAssumption == Openings \subseteq [file : [Path -> Entry], budget : Budgets]

VARIABLES
    \* the directory
    file,       \* file[x]: what is at path x
    record,     \* None, or the completion record
    treeHint,   \* treeHint[c]: None, or the paths of the tree record of c
    fileHint,   \* fileHint[x]: None, or the commit of the download metadata
    lock,       \* the holder of the coordination lock
    \* the processes
    step,       \* step[p]: the step process p takes next
    request,    \* request[p]: what it works on
    todo,       \* todo[p]: the paths the current pass has still to visit
    pass,       \* pass[p]: the first or the second inspection pass
    seen,       \* seen[p][x]: what the inspection pass found
    prepared,   \* prepared[p]: the paths with a prepared source
    result,     \* result[p]: the outcome of the last operation
    \* what is needed to state the properties
    touched,    \* touched[p]: paths edited by others since p last read them
    changed,    \* changed[p]: the operation of p changed the directory
    budget

dirVars == <<file, record, treeHint, fileHint>>
procVars == <<step, request, todo, pass, seen, prepared, result>>
auxVars == <<touched, changed, budget>>
vars == <<dirVars, lock, procVars, auxVars>>

(***************************************************************************)
(* Helpers                                                                 *)
(***************************************************************************)
Target(p, x) == Tree[request[p].commit][x]
IdentityOf(r) == [commit |-> r.commit, paths |-> r.paths]

InspectionBySize(p, x) ==
    IF file[x] = Missing THEN "missing"
    ELSE IF file[x] \in {Directory, Special} THEN "conflict" ELSE "exact"

(* inspect_destination: what is at the path, against the target.           *)
Inspection(p, x) ==
    IF file[x] = Missing THEN "missing"
    ELSE IF file[x] \in {Directory, Special} THEN "conflict"
    ELSE IF file[x] = Target(p, x) THEN "exact" ELSE "different"

Refused(p, found) ==
    found = "conflict" \/ (found = "different" /\ request[p].policy = "reject")

(* The file being visited: paths are visited in canonical order.           *)
Visited(p) == CHOOSE x \in todo[p] : \A y \in todo[p] : x <= y
Last(p) == todo[p] = {Visited(p)}

Goto(p, s) == step' = [step EXCEPT ![p] = s]
Keep == UNCHANGED <<request, result>>
Read(p) == touched' = [touched EXCEPT ![p] = @ \ {Visited(p)}]
Changes(p) == changed' = [changed EXCEPT ![p] = TRUE]
Spend(item) == budget[item] > 0 /\ budget' = [budget EXCEPT ![item] = @ - 1]

(* The pass goes again to the next path, or on to the next step.           *)
Advance(p, again, next) ==
    IF Last(p)
    THEN Goto(p, next) /\ todo' = [todo EXCEPT ![p] = request[p].paths]
    ELSE Goto(p, again) /\ todo' = [todo EXCEPT ![p] = @ \ {Visited(p)}]

EndHoldingLock(p, outcome, may) ==
    /\ Goto(p, "idle")
    /\ result' = [result EXCEPT ![p] = [outcome |-> outcome, may |-> may]]
    /\ todo' = [todo EXCEPT ![p] = {}]
    /\ pass' = [pass EXCEPT ![p] = 1]
    /\ seen' = [seen EXCEPT ![p] = [x \in Path |-> "unseen"]]
    /\ prepared' = [prepared EXCEPT ![p] = {}]
    /\ UNCHANGED <<lock, request>>

(* An operation ends: its guard releases the lock. may is the error's      *)
(* may_have_changed.                                                       *)
End(p, outcome, may) ==
    /\ Goto(p, "idle")
    /\ result' = [result EXCEPT ![p] = [outcome |-> outcome, may |-> may]]
    /\ todo' = [todo EXCEPT ![p] = {}]
    /\ pass' = [pass EXCEPT ![p] = 1]
    /\ seen' = [seen EXCEPT ![p] = [x \in Path |-> "unseen"]]
    /\ prepared' = [prepared EXCEPT ![p] = {}]
    /\ lock' = IF lock = p THEN None ELSE lock
    /\ UNCHANGED request

MarkedOnceWritten == {"verify", "validate", "hints", "tree", "complete"}

(* with_change: every error after the in-progress record was published     *)
(* says that the directory may have changed.                               *)
Marked == {"materialize", "install", "existing", "replace", "rename", "verify", "validate",
           "hints", "tree", "complete"}
WithChange(p) == step[p] \in Marked

Fails(p, outcome) == End(p, outcome, WithChange(p))

(***************************************************************************)
(* Starting an operation and taking the coordination lock                  *)
(***************************************************************************)
Starts(p, r, s) ==
    /\ step[p] = "idle" /\ Spend("ops")
    /\ Goto(p, s)
    /\ request' = [request EXCEPT ![p] = r]
    /\ result' = [result EXCEPT ![p] = None]
    /\ changed' = [changed EXCEPT ![p] = FALSE]
    /\ touched' = [touched EXCEPT ![p] = {}]
    /\ UNCHANGED <<dirVars, lock, todo, pass, seen, prepared>>

StartReconcile(p) == \E r \in Request : Starts(p, r, "lock")
StartOpen(p) == \E r \in Request : r.policy = "reject" /\ Starts(p, r, "open lock")

AcquireShared(p) ==
    /\ step[p] \in {"lock", "open lock"}
    /\ lock' = p
    /\ Goto(p, IF step[p] = "lock" THEN "inspect" ELSE "read")
    /\ todo' = [todo EXCEPT ![p] = request[p].paths]
    /\ Keep
    /\ UNCHANGED <<dirVars, pass, seen, prepared, auxVars>>

AcquireLock(p) ==
    /\ step[p] \in {"lock", "open lock"} /\ lock = None
    /\ lock' = p
    /\ Goto(p, IF step[p] = "lock" THEN "inspect" ELSE "read")
    /\ todo' = [todo EXCEPT ![p] = request[p].paths]
    /\ Keep
    /\ UNCHANGED <<dirVars, pass, seen, prepared, auxVars>>

(***************************************************************************)
(* Before the directory changes (prepare_sources)                          *)
(***************************************************************************)
InspectNext(p) ==
    /\ step[p] = "inspect"
    /\ seen' = [seen EXCEPT ![p][Visited(p)] = Inspection(p, Visited(p))]
    /\ Advance(p, "inspect", "prepare") /\ Read(p)
    /\ Keep
    /\ UNCHANGED <<dirVars, lock, pass, prepared, changed, budget>>

(* validate_policy over the whole selection, then prepare_needed. The      *)
(* directory is inspected again after the sources were prepared.           *)
Needs(p) == {x \in request[p].paths : seen[p][x] # "exact"} \ prepared[p]
Sources(p) == {x \in Needs(p) : Target(p, x) \in Available}

PrepareSources(p) ==
    /\ step[p] = "prepare"
    /\ IF \E x \in request[p].paths : Refused(p, seen[p][x])
       THEN Fails(p, "conflict")
       ELSE IF Needs(p) # Sources(p)
       THEN End(p, "needs transport", FALSE)
       ELSE /\ prepared' = [prepared EXCEPT ![p] = @ \cup Sources(p)]
            /\ pass' = [pass EXCEPT ![p] = 2]
            /\ Goto(p, IF pass[p] = 1 THEN "inspect" ELSE "begin")
            /\ Keep /\ UNCHANGED <<lock, todo, seen>>
    /\ UNCHANGED <<dirVars, auxVars>>

PublishNothing(p) ==
    /\ step[p] = "begin"
    /\ Goto(p, "materialize")
    /\ Keep
    /\ UNCHANGED <<dirVars, lock, todo, pass, seen, prepared, auxVars>>

PublishInProgress(p) ==
    /\ step[p] = "begin"
    /\ record' = [request |-> IdentityOf(request[p]), complete |-> FALSE]
    /\ Goto(p, "materialize") /\ Changes(p)
    /\ Keep
    /\ UNCHANGED <<file, treeHint, fileHint, lock, todo, pass, seen, prepared, touched, budget>>

(***************************************************************************)
(* One file (materialize_file, materialize_with_cancellation)              *)
(***************************************************************************)
Unmoved == UNCHANGED <<file, lock, todo, pass, seen, prepared>>

(* A file without a source was exact at the second pass and must still be. *)
(* One with a source is inspected and copied to staging; it is inspected   *)
(* again before it is installed.                                           *)
MaterializeFile(p) ==
    LET x == Visited(p)
        found == Inspection(p, x) IN
    /\ step[p] = "materialize"
    /\ \/ /\ found = "exact"
          /\ Advance(p, "materialize", "validate") /\ Keep
          /\ UNCHANGED <<lock, pass, seen, prepared>>
       \/ /\ found # "exact" /\ x \notin prepared[p]
          /\ Fails(p, "invalid")
       \/ /\ found # "exact" /\ x \in prepared[p] /\ Refused(p, found)
          /\ Fails(p, "conflict")
       \/ /\ found # "exact" /\ x \in prepared[p] /\ ~Refused(p, found)
          /\ Goto(p, IF found = "missing" THEN "install" ELSE "replace")
          /\ Keep /\ Unmoved
    /\ Read(p)
    /\ UNCHANGED <<dirVars, changed, budget>>

Writes(p) ==
    /\ file' = [file EXCEPT ![Visited(p)] = Target(p, Visited(p))]
    /\ Goto(p, "verify") /\ Changes(p) /\ Keep
    /\ UNCHANGED <<lock, todo, pass, seen, prepared>>

InstallByRename(p) ==
    /\ step[p] = "install"
    /\ IF file[Visited(p)] \notin {Directory, Special} THEN Writes(p)
       ELSE Goto(p, "existing") /\ Keep /\ Unmoved /\ UNCHANGED changed
    /\ UNCHANGED <<record, treeHint, fileHint, touched, budget>>

(* install_missing: the staged file is linked to the name unless the name  *)
(* exists.                                                                 *)
InstallMissing(p) ==
    /\ step[p] = "install"
    /\ IF file[Visited(p)] = Missing THEN Writes(p)
       ELSE Goto(p, "existing") /\ Keep /\ Unmoved /\ UNCHANGED changed
    /\ UNCHANGED <<record, treeHint, fileHint, touched, budget>>

InspectExisting(p) ==
    LET found == Inspection(p, Visited(p)) IN
    /\ step[p] = "existing"
    /\ \/ /\ found = "exact"
          /\ Advance(p, "materialize", "validate") /\ Keep
          /\ UNCHANGED <<lock, pass, seen, prepared>>
       \/ /\ found = "different" /\ request[p].policy = "replace"
          /\ Goto(p, "replace") /\ Keep /\ Unmoved
       \/ /\ found = "missing" \/ Refused(p, found)
          /\ Fails(p, "conflict")
    /\ Read(p)
    /\ UNCHANGED <<dirVars, changed, budget>>

(* install_staged_replace: the kind of what is at the path is looked at,   *)
(* and the staged file renamed to the path in a second call, which only a  *)
(* directory resists.                                                      *)
CheckReplacement(p) ==
    /\ step[p] = "replace"
    /\ IF file[Visited(p)] \in {Directory, Special} THEN Fails(p, "error")
       ELSE Goto(p, "rename") /\ Keep /\ UNCHANGED <<lock, todo, pass, seen, prepared>>
    /\ Read(p)
    /\ UNCHANGED <<dirVars, changed, budget>>

InstallReplacement(p) ==
    /\ step[p] = "rename"
    /\ IF file[Visited(p)] = Directory THEN Fails(p, "error") /\ UNCHANGED <<file, changed>>
       ELSE Writes(p)
    /\ UNCHANGED <<record, treeHint, fileHint, touched, budget>>

FinishInstall(p) ==
    /\ step[p] = "verify"
    /\ IF Inspection(p, Visited(p)) = "exact"
       THEN Advance(p, "materialize", "validate") /\ Keep /\ UNCHANGED <<lock, pass, seen, prepared>>
       ELSE Fails(p, "invalid")
    /\ Read(p)
    /\ UNCHANGED <<dirVars, changed, budget>>

(***************************************************************************)
(* After the files (validate_all, the hints, the completion record)        *)
(***************************************************************************)
ValidateNext(p) ==
    /\ step[p] = "validate"
    /\ IF Inspection(p, Visited(p)) = "exact"
       THEN Advance(p, "validate", "hints") /\ Keep /\ UNCHANGED <<lock, pass, seen, prepared>>
       ELSE Fails(p, "invalid")
    /\ Read(p)
    /\ UNCHANGED <<dirVars, changed, budget>>

(* write_file_hint needs a regular file at the path, with any content.     *)
WriteFileHint(p) ==
    LET x == Visited(p) IN
    /\ step[p] = "hints"
    /\ IF file[x] \in Content
       THEN /\ fileHint' = [fileHint EXCEPT ![x] = request[p].commit]
            /\ Advance(p, "hints", "tree") /\ Changes(p) /\ Keep
            /\ UNCHANGED <<lock, pass, seen, prepared>>
       ELSE Fails(p, "conflict") /\ UNCHANGED <<fileHint, changed>>
    /\ UNCHANGED <<file, record, treeHint, touched, budget>>

(* write_tree_hint: the tree record of a commit is created once, lists the *)
(* selected files, and must be the same if it exists.                      *)
WriteTreeHint(p) ==
    LET r == request[p] IN
    /\ step[p] = "tree"
    /\ IF treeHint[r.commit] \in {None, r.paths}
       THEN /\ treeHint' = [treeHint EXCEPT ![r.commit] = r.paths]
            /\ Goto(p, "complete") /\ Changes(p) /\ Keep
            /\ UNCHANGED <<lock, todo, pass, seen, prepared>>
       ELSE Fails(p, "tree conflict") /\ UNCHANGED <<treeHint, changed>>
    /\ UNCHANGED <<file, record, fileHint, touched, budget>>

PublishComplete(p) ==
    /\ step[p] = "complete"
    /\ record' = [request |-> IdentityOf(request[p]), complete |-> TRUE]
    /\ End(p, "reconciled", FALSE) /\ Changes(p)
    /\ UNCHANGED <<file, treeHint, fileHint, touched, budget>>

(***************************************************************************)
(* The strict offline reader (LocalDirOfflineReader::open)                 *)
(***************************************************************************)
MatchesAny(p) == record # None /\ record.complete
Matches(p) == record # None /\ record.complete /\ record.request = IdentityOf(request[p])

ReadState(p) ==
    /\ step[p] = "read"
    /\ IF record = None \/ ~record.complete THEN Fails(p, "incomplete")
       ELSE IF ~Matches(p) THEN Fails(p, "stale")
       ELSE Goto(p, "hash") /\ Keep /\ UNCHANGED <<lock, todo, pass, seen, prepared>>
    /\ UNCHANGED <<dirVars, auxVars>>

HashNext(p) ==
    /\ step[p] = "hash"
    /\ IF Inspection(p, Visited(p)) = "exact"
       THEN Advance(p, "hash", "reread") /\ Keep /\ UNCHANGED <<lock, pass, seen, prepared>>
       ELSE Fails(p, "incomplete")
    /\ Read(p)
    /\ UNCHANGED <<dirVars, changed, budget>>

RereadState(p) ==
    /\ step[p] = "reread"
    /\ Fails(p, IF Matches(p) THEN "opened" ELSE "stale")
    /\ UNCHANGED <<dirVars, auxVars>>

(***************************************************************************)
(* Faults, cancellation, crashes and the owner of the directory            *)
(***************************************************************************)
Working(p) == step[p] \notin {"idle", "lock", "open lock"}

(* A call on the file system fails before it takes effect; a failure after *)
(* it did is a failure of the step that follows.                           *)
Fault(p) ==
    /\ Working(p) /\ Spend("faults")
    /\ Fails(p, "error")
    /\ UNCHANGED <<dirVars, touched, changed>>

(* The token is checked up to the end of validate_all, but not between the *)
(* two calls of a replacement.                                             *)
Cancelled(p) ==
    /\ step[p] \notin {"idle", "open lock", "read", "hash", "reread", "rename",
                       "hints", "tree", "complete"}
    /\ Spend("cancels")
    /\ Fails(p, "cancelled")
    /\ UNCHANGED <<dirVars, touched, changed>>

Crash(p) ==
    /\ Working(p) /\ Spend("crashes")
    /\ End(p, "crashed", TRUE)
    /\ UNCHANGED <<dirVars, touched, changed>>

(* The owner of the directory, or a program that does not take the lock,   *)
(* writes, replaces or removes an entry.                                   *)
Edit(x, e) ==
    /\ file[x] # e /\ Spend("edits")
    /\ file' = [file EXCEPT ![x] = e]
    /\ touched' = [p \in Process |-> touched[p] \cup {x}]
    /\ UNCHANGED <<record, treeHint, fileHint, lock, procVars, changed>>

(***************************************************************************)
(* Specification                                                           *)
(***************************************************************************)
Init ==
    /\ \E o \in Openings : file = o.file /\ budget = o.budget
    /\ record = None
    /\ treeHint = [c \in Commit |-> None]
    /\ fileHint = [x \in Path |-> None]
    /\ lock = None
    /\ step = [p \in Process |-> "idle"]
    /\ request = [p \in Process |-> None]
    /\ todo = [p \in Process |-> {}]
    /\ pass = [p \in Process |-> 1]
    /\ seen = [p \in Process |-> [x \in Path |-> "unseen"]]
    /\ prepared = [p \in Process |-> {}]
    /\ result = [p \in Process |-> None]
    /\ touched = [p \in Process |-> {}]
    /\ changed = [p \in Process |-> FALSE]

Reconcile(p) ==
    \/ InspectNext(p) \/ PrepareSources(p) \/ PublishInProgress(p)
    \/ MaterializeFile(p) \/ InstallMissing(p) \/ InspectExisting(p)
    \/ CheckReplacement(p) \/ InstallReplacement(p) \/ FinishInstall(p) \/ ValidateNext(p)
    \/ WriteFileHint(p) \/ WriteTreeHint(p) \/ PublishComplete(p)

Open(p) == ReadState(p) \/ HashNext(p) \/ RereadState(p)

Proceed(p) == AcquireLock(p) \/ Reconcile(p) \/ Open(p)

Next ==
    \/ \E p \in Process :
           StartReconcile(p) \/ StartOpen(p) \/ Proceed(p) \/ Fault(p) \/ Cancelled(p) \/ Crash(p)
    \/ \E x \in Path, e \in Entry : Edit(x, e)

Spec == Init /\ [][Next]_vars

(* A process that runs takes its next step; the lock, polled by a          *)
(* reconciliation and awaited by a reader, is taken once it stays free.    *)
Fairness == \A p \in Process : WF_vars(Proceed(p))
FairSpec == Spec /\ Fairness

(***************************************************************************)
(* Properties                                                              *)
(***************************************************************************)
Steps == Marked \cup {"idle", "lock", "open lock", "inspect", "prepare", "begin",
                      "read", "hash", "reread"}

(* Every variable keeps its type, and a process past its lock holds it.    *)
TypeOK ==
    /\ file \in [Path -> Entry]
    /\ record \in {None} \cup [request : Identity, complete : BOOLEAN]
    /\ treeHint \in [Commit -> {None} \cup SUBSET Path]
    /\ fileHint \in [Path -> {None} \cup Commit]
    /\ lock \in {None} \cup Process
    /\ step \in [Process -> Steps]
    /\ request \in [Process -> {None} \cup Request]
    /\ todo \in [Process -> SUBSET Path]
    /\ pass \in [Process -> 1 .. 2]
    /\ seen \in [Process -> [Path -> {"unseen", "missing", "exact", "different", "conflict"}]]
    /\ prepared \in [Process -> SUBSET Path]
    /\ result \in [Process -> {None} \cup Report]
    /\ touched \in [Process -> SUBSET Path]
    /\ changed \in [Process -> BOOLEAN]
    /\ budget \in Budgets
    /\ \A p \in Process : Working(p) <=> lock = p

Acts(p) == step'[p] # step[p] \/ todo'[p] # todo[p]

(* Bytes the owner of the directory has not agreed to lose survive: a      *)
(* reconciliation changes only paths it selected, never a directory, under *)
(* the reject policy only paths where nothing was (adr/0006:33-54), and    *)
(* under the replace policy no link or special file that was there when p  *)
(* last looked at its kind, just before the rename (rooted_fs.rs:711-722). *)
OwnerBytesStep ==
    \A p \in Process, x \in Path : Acts(p) /\ file'[x] # file[x] =>
        /\ x \in request[p].paths
        /\ file[x] # Directory
        /\ request[p].policy = "reject" => file[x] = Missing
        /\ file[x] = Special => x \in touched[p]
OwnerBytesKept == [][OwnerBytesStep]_vars

(* While a completion record is complete no process of the library changes *)
(* the files or the hints of any path: an interrupted mixture of old and   *)
(* new files is never under a complete record (adr/0006:80-91).            *)
CompleteStep ==
    (record # None /\ record.complete /\ \E p \in Process : Acts(p))
        => UNCHANGED <<file, fileHint, treeHint>>
CompleteBeforeChange == [][CompleteStep]_vars

(* A completion record is published complete only when every selected file *)
(* holds the content of the commit, edits made by others since the final   *)
(* validation apart (local_dir_reconciliation.rs:404-445).                 *)
CompletionStep ==
    \A p \in Process :
        (step[p] = "complete" /\ result'[p] # result[p] /\ result'[p].outcome = "reconciled") =>
            \A x \in request[p].paths : file[x] = Target(p, x) \/ x \in touched[p]
CompletionIsExact == [][CompletionStep]_vars

(* An offline open that is accepted stands on the complete record of       *)
(* exactly that request and on files that were all exact when read.        *)
OpenStep ==
    \A p \in Process :
        (step[p] = "reread" /\ result'[p] # result[p] /\ result'[p].outcome = "opened") =>
            /\ record = [request |-> IdentityOf(request[p]), complete |-> TRUE]
            /\ \A x \in request[p].paths : file[x] = Target(p, x) \/ x \in touched[p]
OpenedIsExact == [][OpenStep]_vars

(* An error that says the directory did not change says the truth.         *)
ErrorsTellOfChange ==
    \A p \in Process :
        (step[p] = "idle" /\ result[p] # None
            /\ result[p].outcome \notin {"reconciled", "opened"} /\ ~result[p].may)
        => ~changed[p]

(* Every operation returns, whatever the other processes do with the lock. *)
OperationsReturn == \A p \in Process : step[p] # "idle" ~> step[p] = "idle"

(* The process whose request the completion record marks as in progress.   *)
Session == IF lock # None /\ step[lock] \in Marked THEN lock ELSE None

(* The completion record behaves as LocalDirectory promises.               *)
Promise == INSTANCE LocalDirectory WITH
    Owner <- Process, Request <- Identity, None <- None,
    session <- Session, record <- record
ImplementsLocalDirectory == Promise!Spec

(* The inductive invariant behind the safety properties: what the place of *)
(* a process in the code says of its request, of the paths it has left, of *)
(* the completion record, and of the files it has already read.            *)
ExactOrTouched(p, x) == file[x] = Target(p, x) \/ x \in touched[p]
AllExact == {"hints", "tree", "complete", "reread"}

Control(p) ==
    /\ step[p] # "idle" => request[p] \in Request /\ result[p] = None
    /\ Working(p) => todo[p] # {} /\ todo[p] \subseteq request[p].paths
    /\ step[p] = "read" => todo[p] = request[p].paths
    /\ step[p] \in {"replace", "rename"} => request[p].policy = "replace"

RecordMarked(p) ==
    step[p] \in Marked => record = [request |-> IdentityOf(request[p]), complete |-> FALSE]

ChangeReported(p) ==
    changed[p] =>
        \/ step[p] \in Marked
        \/ step[p] = "idle" /\ result[p] # None /\ (result[p].may \/ result[p].outcome = "reconciled")

ReadExact(p) ==
    /\ step[p] \in {"validate", "hash"} =>
           \A x \in request[p].paths \ todo[p] : ExactOrTouched(p, x)
    /\ step[p] \in AllExact => \A x \in request[p].paths : ExactOrTouched(p, x)
    /\ step[p] = "rename" => file[Visited(p)] # Special \/ Visited(p) \in touched[p]

IInv ==
    /\ TypeOK
    /\ \A p \in Process : Control(p) /\ RecordMarked(p) /\ ChangeReported(p) /\ ReadExact(p)

(* A request that nothing and nobody disturbs is carried out, also when    *)
(* the directory holds an earlier selection (adr/0006:33-36).              *)
LaterSelectionCompletes ==
    \A p \in Process : result[p] # None => result[p].outcome # "tree conflict"
==============================================================================

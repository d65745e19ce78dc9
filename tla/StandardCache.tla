----------------------------- MODULE StandardCache -----------------------------
(***************************************************************************)
(* The compatible view: publication into the cache directory of the Python *)
(* huggingface_hub client (standard_cache.rs), import of what Python wrote *)
(* and strict offline reading of both (compatible_cache.rs, hub_cache.rs). *)
(*                                                                         *)
(* Python's files carry no completion record and other programs change     *)
(* them. The library adds bindings (blob key to digest) and manifests of   *)
(* its own, and one lock per blob key that Python takes as well. One step  *)
(* is one access to a file that another process can change.                *)
(***************************************************************************)
EXTENDS Naturals, FiniteSets

CONSTANTS
    Process,        \* processes of this library
    Commit,
    Paths, Keys,    \* numbers of paths and of blob keys, in their orders
    Tree,           \* Tree[c][x]: the blob key of path x in commit c
    Opaque,         \* keys that are neither a sha256 nor a git sha1
    Openings,       \* what an instance starts with
    None

Path == 1 .. Paths
Key == 1 .. Keys

(* The bytes of a key: the ones it names, others of their size, and bytes  *)
(* of another size.                                                        *)
Content == {"good", "alt", "bad"}

(* A snapshot entry is a relative link to the blob or a copy.              *)
Link == "link"

Selection == (SUBSET Path) \ {{}}
Task == [op : {"publish", "import", "open"}, commit : Commit \cup {None},
         paths : Selection, symbolic : BOOLEAN]

(* The budget bounds the operations started, the additions and the         *)
(* removals or alterations by others, the local faults and the crashes.    *)
Budgets == [{"ops", "adds", "damages", "faults", "crashes"} -> Nat]

(* How an operation ends, and whether it says that it may have published.  *)
Outcomes == {"ok", "error", "corrupt", "conflict", "incomplete", "crashed"}
Report == [outcome : Outcomes, may : BOOLEAN]

(* What a manifest records: the contents of the selected paths.            *)
Record == UNION {[s -> Content] : s \in Selection}

ASSUME SizeAssumption == Paths \in Nat \ {0} /\ Keys \in Nat \ {0}
ASSUME TreeAssumption == Tree \in [Commit -> [Path -> Key]] /\ Opaque \subseteq Key
ASSUME NoneAssumption ==
    None \notin Commit \cup Process \cup Content \cup {Link} \cup Report \cup Record
ASSUME OpeningAssumption ==
    \A o \in Openings :
        /\ o.work \in [Process -> SUBSET Task] /\ o.budget \in Budgets
        /\ \A p \in Process : \A t \in o.work[p] :
               (t.op = "publish" => t.commit # None) /\ (t.commit = None => t.symbolic)

VARIABLES
    \* Python's files
    blob,       \* blob[k]: None, or the bytes of the blob
    snap,       \* snap[c][x]: None, Link, or the bytes of a copy
    tree,       \* the commits with a tree record
    ref,        \* None, or the commit the one branch points at
    \* the library's own files
    binding,    \* binding[k]: None, or the content bound to the key
    manifest,   \* manifest[c][s]: None, or the contents by path
    lock,       \* lock[k]: the holder of the blob lock of k
    refLock,
    \* the processes
    step, task,
    left,       \* left[p]: the keys or paths the current pass has to visit
    staged,     \* staged[p]: None, or the bytes staged for the current key
    prepared,   \* prepared[p][k]: None, or the content p found or stored
    published,  \* published[p]: a prepared blob was newly published
    result,
    \* what is needed to state the properties
    wrote,      \* wrote[p]: the operation created or replaced a file
    touched,    \* touched[p]: entries others changed, or whose blob others
                \* changed, since p validated them
    handed,     \* the contents operations that succeeded stand for
    work, budget

pythonVars == <<blob, snap, tree, ref>>
ownVars == <<binding, manifest>>
lockVars == <<lock, refLock>>
procVars == <<step, task, left, staged, prepared, published, result>>
auxVars == <<wrote, touched, handed, work, budget>>
vars == <<pythonVars, ownVars, lockVars, procVars, auxVars>>

(***************************************************************************)
(* Content and snapshot entries                                            *)
(***************************************************************************)
Smallest(S) == CHOOSE i \in S : \A k \in S : i <= k

(* copy_and_validate_content: an opaque key is checked by size alone.      *)
Valid(k) == IF k \in Opaque THEN {"good", "alt"} ELSE {"good"}

KeysOf(c, s) == {Tree[c][x] : x \in s}

(* read_snapshot_file: the content of an entry, "incomplete" or "corrupt". *)
(* A copy must agree with the blob if there is one.                        *)
Reading(c, x) ==
    LET k == Tree[c][x]
        entry == snap[c][x] IN
    IF entry = None \/ (entry = Link /\ blob[k] = None) THEN "incomplete"
    ELSE IF entry = Link THEN IF blob[k] \in Valid(k) THEN blob[k] ELSE "corrupt"
    ELSE IF entry \in Valid(k) /\ blob[k] \in {None, entry} THEN entry ELSE "corrupt"

(***************************************************************************)
(* Control                                                                 *)
(***************************************************************************)
CommitOf(p) == task[p].commit
Turn(p) == Smallest(left[p])

(* The first path, in selection order, whose blob is still to be visited.  *)
KeyTurnByPath(p) ==
    Tree[CommitOf(p)][Smallest({x \in task[p].paths : Tree[CommitOf(p)][x] \in left[p]})]

(* Blobs are visited, and their locks taken, in key order.                 *)
KeyTurn(p) == Turn(p)

Goto(p, s) == step' = [step EXCEPT ![p] = s]
Wrote(p) == wrote' = [wrote EXCEPT ![p] = TRUE]
Spend(item) == budget[item] > 0 /\ budget' = [budget EXCEPT ![item] = @ - 1]
Checked(p, x) == touched' = [touched EXCEPT ![p] = @ \ {<<CommitOf(p), x>>}]

KeysLeft(p) == KeysOf(CommitOf(p), task[p].paths)

(* The pass goes on, or the next one starts over the given keys or paths.  *)
Advance(p, done, again, next, over) ==
    IF left[p] = {done}
    THEN Goto(p, next) /\ left' = [left EXCEPT ![p] = over]
    ELSE Goto(p, again) /\ left' = [left EXCEPT ![p] = @ \ {done}]

(* An operation ends: its guards release the locks.                        *)
End(p, outcome, may) ==
    /\ Goto(p, "idle")
    /\ result' = [result EXCEPT ![p] = [outcome |-> outcome, may |-> may]]
    /\ task' = [task EXCEPT ![p] = None]
    /\ left' = [left EXCEPT ![p] = {}]
    /\ staged' = [staged EXCEPT ![p] = None]
    /\ prepared' = [prepared EXCEPT ![p] = [k \in Key |-> None]]
    /\ published' = [published EXCEPT ![p] = FALSE]
    /\ lock' = [k \in Key |-> IF lock[k] = p THEN None ELSE lock[k]]
    /\ refLock' = IF refLock = p THEN None ELSE refLock

(* with_may_have_published: the errors of publish_prepared, those of an    *)
(* import once its files were read, and before that the errors that follow *)
(* a newly published blob.                                                 *)
Preparing == {"lock", "examine", "install", "validate"}
MayHavePublished(p) ==
    CASE task[p].op = "publish" -> step[p] \notin Preparing \/ published[p]
      [] task[p].op = "import" -> step[p] \notin {"index", "read"}
      [] task[p].op = "open" -> FALSE

Fails(p, outcome) == End(p, outcome, MayHavePublished(p))

(* What most steps leave alone.                                            *)
Keep == UNCHANGED <<lockVars, task, prepared, published, result>>

(***************************************************************************)
(* Starting (publish, import, open)                                        *)
(***************************************************************************)
Start(p, t) ==
    /\ step[p] = "idle" /\ Spend("ops")
    /\ task' = [task EXCEPT ![p] = t]
    /\ Goto(p, IF t.op = "publish" THEN "lock" ELSE "index")
    /\ left' = [left EXCEPT ![p] = IF t.op = "publish" THEN KeysOf(t.commit, t.paths) ELSE t.paths]
    /\ result' = [result EXCEPT ![p] = None]
    /\ wrote' = [wrote EXCEPT ![p] = FALSE]
    /\ touched' = [touched EXCEPT ![p] = {}]
    /\ UNCHANGED <<pythonVars, ownVars, lockVars, staged, prepared, published, handed, work>>

(***************************************************************************)
(* The blobs of a publication (prepare_blobs)                              *)
(***************************************************************************)
LockBlobAnyway(p) ==
    /\ step[p] = "lock"
    /\ lock' = [lock EXCEPT ![KeyTurn(p)] = p]
    /\ Goto(p, "examine")
    /\ UNCHANGED <<pythonVars, ownVars, refLock, task, left, staged, prepared, published, result,
                   auxVars>>

LockBlob(p) ==
    /\ step[p] = "lock" /\ lock[KeyTurn(p)] = None
    /\ lock' = [lock EXCEPT ![KeyTurn(p)] = p]
    /\ Goto(p, "examine")
    /\ UNCHANGED <<pythonVars, ownVars, refLock, task, left, staged, prepared, published, result,
                   auxVars>>

Takes(p, content, stage) ==
    /\ prepared' = [prepared EXCEPT ![p][KeyTurn(p)] = content]
    /\ staged' = [staged EXCEPT ![p] = stage]
    /\ Goto(p, "install")
    /\ UNCHANGED <<lockVars, task, left, published, result>>

(* prepare_blob and prepare_missing_blob: an existing blob is taken over   *)
(* if it is valid; a missing one is staged from a snapshot copy, which     *)
(* must be valid, or else from the source.                                 *)
ExamineBlob(p) ==
    LET k == KeyTurn(p)
        x == Smallest({y \in task[p].paths : Tree[CommitOf(p)][y] = k})
        copy == Reading(CommitOf(p), x) IN
    /\ step[p] = "examine"
    /\ \/ blob[k] \in Valid(k) /\ Takes(p, blob[k], None)
       \/ blob[k] = None /\ copy \in Valid(k) /\ Takes(p, copy, copy)
       \/ /\ blob[k] = None /\ copy = "incomplete"
          /\ \E source \in Valid(k) : Takes(p, source, source)
       \/ /\ blob[k] \notin Valid(k) \cup {None} \/ (blob[k] = None /\ copy = "corrupt")
          /\ Fails(p, "corrupt")
    /\ UNCHANGED <<pythonVars, ownVars, auxVars>>

MarksLast(p, created) == created

(* published_any: some blob of the publication was newly published.        *)
Marks(p, created) == published[p] \/ created

(* publish_blob_locked: the staged blob gets its name unless it is taken.  *)
InstallBlob(p) ==
    LET k == KeyTurn(p)
        created == staged[p] # None /\ blob[k] = None IN
    /\ step[p] = "install"
    /\ blob' = IF created THEN [blob EXCEPT ![k] = staged[p]] ELSE blob
    /\ published' = [published EXCEPT ![p] = Marks(p, created)]
    /\ wrote' = [wrote EXCEPT ![p] = @ \/ created]
    /\ staged' = [staged EXCEPT ![p] = None]
    /\ Goto(p, "validate")
    /\ UNCHANGED <<snap, tree, ref, ownVars, lockVars, task, left, prepared, result,
                   touched, handed, work, budget>>

ValidateBlob(p) ==
    LET k == KeyTurn(p) IN
    /\ step[p] = "validate"
    /\ IF blob[k] = prepared[p][k]
       THEN Advance(p, k, "lock", "tree", {}) /\ Keep /\ UNCHANGED staged
       ELSE Fails(p, "corrupt")
    /\ UNCHANGED <<pythonVars, ownVars, auxVars>>

(***************************************************************************)
(* The tree record and the snapshot entries (publish_prepared)             *)
(***************************************************************************)
PublishTree(p) ==
    /\ step[p] = "tree"
    /\ tree' = tree \cup {CommitOf(p)}
    /\ wrote' = [wrote EXCEPT ![p] = @ \/ CommitOf(p) \notin tree]
    /\ Goto(p, "inspect") /\ left' = [left EXCEPT ![p] = task[p].paths]
    /\ Keep
    /\ UNCHANGED <<blob, snap, ref, ownVars, staged, touched, handed, work, budget>>

RefFirst(p) == IF task[p].symbolic THEN "ref lock" ELSE "bind"

(* Bindings and the manifest follow the files, and the ref follows them.   *)
AfterFiles(p) == "bind"

(* validate_snapshot_file: the entry has the content prepared for its key. *)
Found(p, x) == Reading(CommitOf(p), x) = prepared[p][Tree[CommitOf(p)][x]]

FoundAny(p, x) == Reading(CommitOf(p), x) # "incomplete"

Accepts(p, x) ==
    /\ Advance(p, x, "inspect", AfterFiles(p), KeysLeft(p))
    /\ Checked(p, x) /\ Keep /\ UNCHANGED staged

InspectEntry(p) ==
    LET x == Turn(p) IN
    /\ step[p] = "inspect"
    /\ \/ Found(p, x) /\ Accepts(p, x)
       \/ /\ Reading(CommitOf(p), x) = "incomplete" /\ Goto(p, "place")
          /\ Keep /\ UNCHANGED <<left, staged, touched>>
       \/ /\ ~Found(p, x) /\ Reading(CommitOf(p), x) # "incomplete"
          /\ Fails(p, "corrupt") /\ UNCHANGED touched
    /\ UNCHANGED <<pythonVars, ownVars, wrote, handed, work, budget>>

Places(p, entry) ==
    /\ snap' = [snap EXCEPT ![CommitOf(p)][Turn(p)] = entry]
    /\ wrote' = [wrote EXCEPT ![p] = @ \/ snap' # snap]
    /\ Goto(p, "recheck") /\ Keep /\ UNCHANGED <<left, staged>>

PlaceOver(p) ==
    LET k == Tree[CommitOf(p)][Turn(p)] IN
    /\ step[p] = "place"
    /\ \/ Places(p, Link)
       \/ blob[k] # None /\ Places(p, blob[k])
    /\ UNCHANGED <<blob, tree, ref, ownVars, touched, handed, work, budget>>

(* The entry is linked, or copied where links are not supported, unless    *)
(* something has the name; an entry that exists is left to the recheck.    *)
PlaceEntry(p) ==
    LET k == Tree[CommitOf(p)][Turn(p)]
        entry == snap[CommitOf(p)][Turn(p)] IN
    /\ step[p] = "place"
    /\ \/ Places(p, IF entry = None THEN Link ELSE entry)
       \/ blob[k] # None /\ Places(p, IF entry = None THEN blob[k] ELSE entry)
       \/ blob[k] = None /\ Fails(p, "error") /\ UNCHANGED <<snap, wrote>>
    /\ UNCHANGED <<blob, tree, ref, ownVars, touched, handed, work, budget>>

RecheckAny(p) ==
    /\ step[p] = "recheck"
    /\ IF FoundAny(p, Turn(p)) THEN Accepts(p, Turn(p)) ELSE Fails(p, "corrupt") /\ UNCHANGED touched
    /\ UNCHANGED <<pythonVars, ownVars, wrote, handed, work, budget>>

RecheckEntry(p) ==
    /\ step[p] = "recheck"
    /\ IF Found(p, Turn(p)) THEN Accepts(p, Turn(p)) ELSE Fails(p, "corrupt") /\ UNCHANGED touched
    /\ UNCHANGED <<pythonVars, ownVars, wrote, handed, work, budget>>

(***************************************************************************)
(* The library's own records                                               *)
(***************************************************************************)
Contents(p) == [x \in task[p].paths |-> prepared[p][Tree[CommitOf(p)][x]]]

PublishBindingOver(p) ==
    LET k == Turn(p) IN
    /\ step[p] = "bind"
    /\ binding' = [binding EXCEPT ![k] = prepared[p][k]]
    /\ Wrote(p) /\ Advance(p, k, "bind", "manifest", {}) /\ Keep /\ UNCHANGED staged
    /\ UNCHANGED <<pythonVars, manifest, touched, handed, work, budget>>

(* publish_hub_blob_binding: created once, and equal if it exists.         *)
PublishBinding(p) ==
    LET k == Turn(p) IN
    /\ step[p] = "bind"
    /\ IF binding[k] \in {None, prepared[p][k]}
       THEN /\ binding' = [binding EXCEPT ![k] = prepared[p][k]]
            /\ wrote' = [wrote EXCEPT ![p] = @ \/ binding' # binding]
            /\ Advance(p, k, "bind", "manifest", {}) /\ Keep /\ UNCHANGED staged
       ELSE Fails(p, "conflict") /\ UNCHANGED <<binding, wrote>>
    /\ UNCHANGED <<pythonVars, manifest, touched, handed, work, budget>>

(* publish_compatible_manifest reads the bindings again first; the         *)
(* manifest of a commit and a selection is created once.                   *)
PublishManifest(p) ==
    LET c == CommitOf(p)
        s == task[p].paths IN
    /\ step[p] = "manifest"
    /\ IF /\ \A x \in s : binding[Tree[c][x]] = Contents(p)[x]
          /\ manifest[c][s] \in {None, Contents(p)}
       THEN /\ manifest' = [manifest EXCEPT ![c][s] = Contents(p)]
            /\ wrote' = [wrote EXCEPT ![p] = @ \/ manifest' # manifest]
            /\ Goto(p, "reopen") /\ left' = [left EXCEPT ![p] = s]
            /\ Keep /\ UNCHANGED staged
       ELSE Fails(p, "conflict") /\ UNCHANGED <<manifest, wrote>>
    /\ UNCHANGED <<pythonVars, binding, touched, handed, work, budget>>

(***************************************************************************)
(* Reading: the index, an import's files, and the offline open             *)
(***************************************************************************)
(* read_index: the ref unless the revision is a commit, then the tree.     *)
ReadIndex(p) ==
    LET c == IF CommitOf(p) = None THEN ref ELSE CommitOf(p)
        imports == step[p] = "index" /\ task[p].op = "import" IN
    /\ step[p] \in {"index", "reopen"}
    /\ \/ /\ c \in tree
          /\ task' = [task EXCEPT ![p].commit = c]
          /\ Goto(p, IF imports THEN "read" ELSE "open")
          /\ UNCHANGED <<lockVars, left, staged, prepared, published, result>>
       \/ c \notin tree /\ Fails(p, "incomplete")
    /\ UNCHANGED <<pythonVars, ownVars, auxVars>>

(* PreparedSnapshot::read: two paths of one key must agree.                *)
ReadEntry(p) ==
    LET x == Turn(p)
        k == Tree[CommitOf(p)][x]
        content == Reading(CommitOf(p), x) IN
    /\ step[p] = "read"
    /\ IF content \in Content /\ prepared[p][k] \in {None, content}
       THEN /\ prepared' = [prepared EXCEPT ![p][k] = content]
            /\ Advance(p, x, "read", "bind", KeysLeft(p)) /\ Checked(p, x)
            /\ UNCHANGED <<lockVars, task, staged, published, result>>
       ELSE Fails(p, "corrupt") /\ UNCHANGED touched
    /\ UNCHANGED <<pythonVars, ownVars, wrote, handed, work, budget>>

(* CompatibleCacheOffline::open: the manifest, and again under the lease.  *)
LoadManifest(p) ==
    /\ step[p] = "open"
    /\ IF manifest[CommitOf(p)][task[p].paths] # None
       THEN Goto(p, "check") /\ Keep /\ UNCHANGED <<left, staged>>
       ELSE Fails(p, "incomplete")
    /\ UNCHANGED <<pythonVars, ownVars, auxVars>>

Recorded(p) == manifest[CommitOf(p)][task[p].paths]

Finish(p) ==
    /\ handed' = handed \cup {<<Tree[CommitOf(p)][x], Recorded(p)[x]>> : x \in task[p].paths}
    /\ End(p, "ok", FALSE)

CheckEntry(p) ==
    LET x == Turn(p)
        k == Tree[CommitOf(p)][x]
        last == left[p] = {x}
        activates == task[p].op = "publish" /\ task[p].symbolic IN
    /\ step[p] = "check"
    /\ IF binding[k] = Recorded(p)[x] /\ Reading(CommitOf(p), x) = Recorded(p)[x]
       THEN /\ Checked(p, x)
            /\ IF last /\ ~activates THEN Finish(p)
               ELSE /\ Advance(p, x, "check", "ref lock", {}) /\ Keep
                    /\ UNCHANGED <<staged, handed>>
       ELSE Fails(p, "corrupt") /\ UNCHANGED <<touched, handed>>
    /\ UNCHANGED <<pythonVars, ownVars, wrote, work, budget>>

(***************************************************************************)
(* The ref (publish_ref)                                                   *)
(***************************************************************************)
LockRef(p) ==
    /\ step[p] = "ref lock" /\ refLock = None
    /\ refLock' = p
    /\ Goto(p, "replace ref")
    /\ UNCHANGED <<pythonVars, ownVars, lock, task, left, staged, prepared, published, result,
                   auxVars>>

ReplaceRef(p) ==
    /\ step[p] = "replace ref"
    /\ ref' = CommitOf(p)
    /\ Wrote(p) /\ Goto(p, "read ref") /\ Keep
    /\ UNCHANGED <<blob, snap, tree, ownVars, left, staged, touched, handed, work, budget>>

ReadRef(p) ==
    /\ step[p] = "read ref"
    /\ IF ref = CommitOf(p) /\ ref \in tree THEN Finish(p)
       ELSE Fails(p, "corrupt") /\ UNCHANGED handed
    /\ UNCHANGED <<pythonVars, ownVars, wrote, touched, work, budget>>

(***************************************************************************)
(* Faults, crashes and the other programs                                  *)
(***************************************************************************)
(* A call fails before it takes effect; a failure after it did is a        *)
(* failure of the step that follows.                                       *)
Fault(p) ==
    /\ step[p] # "idle" /\ Spend("faults")
    /\ Fails(p, "error")
    /\ UNCHANGED <<pythonVars, ownVars, wrote, touched, handed, work>>

Crash(p) ==
    /\ step[p] # "idle" /\ Spend("crashes")
    /\ End(p, "crashed", TRUE)
    /\ UNCHANGED <<pythonVars, ownVars, wrote, touched, handed, work>>

Touch(entries) == touched' = [p \in Process |-> touched[p] \cup entries]
EntriesOf(k) == {e \in Commit \X Path : Tree[e[1]][e[2]] = k}
OutsideOnly == UNCHANGED <<ownVars, lockVars, procVars, wrote, handed, work>>

(* Python downloads a blob under its lock, links or copies it into a       *)
(* snapshot, saves a tree, and moves the branch.                           *)
AddBlob(k) ==
    /\ Spend("adds") /\ lock[k] = None /\ blob[k] = None
    /\ \E content \in Valid(k) : blob' = [blob EXCEPT ![k] = content]
    /\ Touch(EntriesOf(k))
    /\ OutsideOnly /\ UNCHANGED <<snap, tree, ref>>

AddEntry(c, x) ==
    LET k == Tree[c][x] IN
    /\ Spend("adds") /\ snap[c][x] = None
    /\ \E entry \in Valid(k) \cup {Link} :
           /\ entry = Link => blob[k] # None
           /\ snap' = [snap EXCEPT ![c][x] = entry]
    /\ tree' = tree \cup {c}
    /\ Touch({<<c, x>>})
    /\ OutsideOnly /\ UNCHANGED <<blob, ref>>

MoveRef(c) ==
    /\ Spend("adds") /\ c \in tree /\ ref # c
    /\ ref' = c
    /\ OutsideOnly /\ UNCHANGED <<blob, snap, tree, touched>>

(* A program that takes no lock removes or alters a file: Python's         *)
(* delete_revisions, a user, or a damaged disk.                            *)
DamageBlob(k) ==
    /\ Spend("damages")
    /\ \E content \in {None, "bad"} :
           blob[k] # content /\ blob' = [blob EXCEPT ![k] = content]
    /\ Touch(EntriesOf(k))
    /\ OutsideOnly /\ UNCHANGED <<snap, tree, ref>>

RemoveSnapshot(c) ==
    /\ Spend("damages") /\ c \in tree
    /\ snap' = [snap EXCEPT ![c] = [x \in Path |-> None]]
    /\ tree' = tree \ {c}
    /\ ref' = IF ref = c THEN None ELSE ref
    /\ Touch({c} \X Path)
    /\ OutsideOnly /\ UNCHANGED blob

(***************************************************************************)
(* Specification                                                           *)
(***************************************************************************)
InitWith(o) ==
    /\ work = o.work /\ budget = o.budget
    /\ blob = [k \in Key |-> None]
    /\ snap = [c \in Commit |-> [x \in Path |-> None]]
    /\ tree = {} /\ ref = None
    /\ binding = [k \in Key |-> None]
    /\ manifest = [c \in Commit |-> [s \in Selection |-> None]]
    /\ lock = [k \in Key |-> None] /\ refLock = None
    /\ step = [p \in Process |-> "idle"]
    /\ task = [p \in Process |-> None]
    /\ left = [p \in Process |-> {}]
    /\ staged = [p \in Process |-> None]
    /\ prepared = [p \in Process |-> [k \in Key |-> None]]
    /\ published = [p \in Process |-> FALSE]
    /\ result = [p \in Process |-> None]
    /\ wrote = [p \in Process |-> FALSE]
    /\ touched = [p \in Process |-> {}]
    /\ handed = {}

Init == \E o \in Openings : InitWith(o)

Proceed(p) ==
    \/ LockBlob(p) \/ ExamineBlob(p) \/ InstallBlob(p) \/ ValidateBlob(p)
    \/ PublishTree(p) \/ InspectEntry(p) \/ PlaceEntry(p) \/ RecheckEntry(p)
    \/ PublishBinding(p) \/ PublishManifest(p)
    \/ ReadIndex(p) \/ ReadEntry(p) \/ LoadManifest(p) \/ CheckEntry(p)
    \/ LockRef(p) \/ ReplaceRef(p) \/ ReadRef(p)

Outside ==
    \/ \E k \in Key : AddBlob(k) \/ DamageBlob(k)
    \/ \E c \in Commit, x \in Path : AddEntry(c, x)
    \/ \E c \in Commit : MoveRef(c) \/ RemoveSnapshot(c)

Next ==
    \/ \E p \in Process :
           (\E t \in work[p] : Start(p, t)) \/ Proceed(p) \/ Fault(p) \/ Crash(p)
    \/ Outside

Spec == Init /\ [][Next]_vars

(* A process that runs takes its next step; a lock is taken once it stays  *)
(* free.                                                                   *)
Fairness == \A p \in Process : WF_vars(Proceed(p))
FairSpec == Spec /\ Fairness

(***************************************************************************)
(* Properties                                                              *)
(***************************************************************************)
Steps == Preparing \cup
    {"idle", "tree", "inspect", "place", "recheck", "bind", "manifest", "index", "reopen",
     "read", "open", "check", "ref lock", "replace ref", "read ref"}

(* Every variable keeps its type, and whoever works on a blob or on the    *)
(* ref holds its lock.                                                     *)
TypeOK ==
    /\ blob \in [Key -> Content \cup {None}]
    /\ snap \in [Commit -> [Path -> Content \cup {None, Link}]]
    /\ tree \subseteq Commit /\ ref \in Commit \cup {None}
    /\ binding \in [Key -> Content \cup {None}]
    /\ manifest \in [Commit -> [Selection -> Record \cup {None}]]
    /\ \A c \in Commit, s \in Selection : manifest[c][s] \in [s -> Content] \cup {None}
    /\ lock \in [Key -> Process \cup {None}] /\ refLock \in Process \cup {None}
    /\ step \in [Process -> Steps]
    /\ task \in [Process -> Task \cup {None}]
    /\ left \in [Process -> SUBSET (Path \cup Key)]
    /\ staged \in [Process -> Content \cup {None}]
    /\ prepared \in [Process -> [Key -> Content \cup {None}]]
    /\ published \in [Process -> BOOLEAN] /\ wrote \in [Process -> BOOLEAN]
    /\ result \in [Process -> Report \cup {None}]
    /\ touched \in [Process -> SUBSET (Commit \X Path)] /\ handed \subseteq Key \X Content
    /\ work \in [Process -> SUBSET Task] /\ budget \in Budgets
    /\ \A p \in Process :
           /\ step[p] \in Preparing \ {"lock"} => lock[KeyTurn(p)] = p
           /\ refLock = p <=> step[p] \in {"replace ref", "read ref"}

Readable(p, c, s) ==
    \A x \in s : Reading(c, x) = manifest[c][s][x] \/ <<c, x>> \in touched[p]

(* The ref is the last thing a publication writes: when it moves, the      *)
(* commit has a manifest of the selection, every file of it is bound and,  *)
(* what others touched since apart, readable (adr/0003, publish_prepared). *)
RefStep ==
    \A p \in Process : step[p] = "replace ref" /\ step'[p] = "read ref" =>
        LET c == task[p].commit
            s == task[p].paths IN
        /\ manifest[c][s] # None
        /\ \A x \in s : binding[Tree[c][x]] = manifest[c][s][x]
        /\ Readable(p, c, s)
RefPublishedLast == [][RefStep]_vars

(* A publication writes a manifest only over entries that read back as it  *)
(* says, what others touched since they were validated apart; so does an   *)
(* import of keys that name their bytes.                                   *)
ManifestStep ==
    \A p \in Process : step[p] = "manifest" /\ step'[p] = "reopen" =>
        LET c == task[p].commit
            s == task[p].paths IN
        \A x \in s : task[p].op = "publish" \/ Tree[c][x] \notin Opaque =>
            Reading(c, x) = manifest'[c][s][x] \/ <<c, x>> \in touched[p]
ManifestsStand == [][ManifestStep]_vars

(* Whatever is in Python's cache stays as it is: the library never         *)
(* replaces or removes a blob, a snapshot entry or a tree record, whoever  *)
(* put it there and whenever (adr/0003: create-once publication).          *)
PythonBytesStep ==
    (\E p \in Process : step'[p] # step[p]) =>
        /\ \A k \in Key : blob[k] # None => blob'[k] = blob[k]
        /\ \A c \in Commit, x \in Path : snap[c][x] # None => snap'[c][x] = snap[c][x]
        /\ tree \subseteq tree'
PythonBytesKept == [][PythonBytesStep]_vars

(* An error that says nothing was published says the truth.                *)
ErrorsTellOfPublication ==
    \A p \in Process :
        (result[p] # None /\ result[p].outcome # "ok" /\ ~result[p].may) => ~wrote[p]

(* Two operations that succeed, at any time and in any process, agree on   *)
(* the content of a blob key, also when the key does not name its bytes.   *)
OpensAgree == \A a, b \in handed : a[1] = b[1] => a[2] = b[2]

(* Every operation returns, although a publication holds the locks of all  *)
(* its blobs to its end.                                                   *)
OperationsReturn == \A p \in Process : step[p] # "idle" ~> step[p] = "idle"

(* The inductive invariant behind the safety properties: what the place of *)
(* a process in the code says of its task and of what it has left, of the  *)
(* locks it holds, of the contents it has prepared and of the entries it   *)
(* has read.                                                               *)
RefSteps == {"ref lock", "replace ref", "read ref"}
EntrySteps == {"inspect", "place", "recheck"}

Control(p) ==
    /\ step[p] # "idle" => task[p] \in Task /\ result[p] = None
    /\ step[p] \notin {"idle", "index"} => CommitOf(p) \in Commit
    /\ step[p] \in Preparing \cup RefSteps \cup EntrySteps \cup {"tree"} => task[p].op = "publish"
    /\ step[p] = "read" => task[p].op = "import"
    /\ step[p] = "index" => task[p].op # "publish"
    /\ step[p] \in {"bind", "manifest", "reopen"} => task[p].op # "open"
    /\ step[p] \in Preparing \cup {"bind"} => left[p] # {} /\ left[p] \subseteq KeysLeft(p)
    /\ step[p] \in EntrySteps \cup {"read", "check"} =>
           left[p] # {} /\ left[p] \subseteq task[p].paths
    /\ step[p] \in {"index", "reopen", "open"} => left[p] = task[p].paths

(* The keys of its blobs a publication is done with.                       *)
Done(p) == IF step[p] \in Preparing THEN KeysLeft(p) \ left[p] ELSE KeysLeft(p)

Locked(p) ==
    step[p] # "idle" /\ task[p].op = "publish" => \A k \in Done(p) : lock[k] = p

Prepared(p) ==
    /\ step[p] \in Preparing => \A k \in Done(p) : prepared[p][k] # None
    /\ step[p] = "validate" => prepared[p][KeyTurn(p)] # None
    /\ step[p] = "install" =>
           /\ prepared[p][KeyTurn(p)] # None
           /\ staged[p] \in Valid(KeyTurn(p)) \cup {None}
    /\ step[p] = "read" =>
           \A x \in task[p].paths \ left[p] : prepared[p][Tree[CommitOf(p)][x]] # None
    /\ step[p] \in EntrySteps \cup {"tree", "bind", "manifest"} =>
           \A k \in KeysLeft(p) : prepared[p][k] # None

(* An entry p has read: what it holds stays, changes by others apart. An   *)
(* import has no lock, and an opaque key can get another blob.             *)
Lasting(p, x) == task[p].op = "publish" \/ Tree[CommitOf(p)][x] \notin Opaque
AsPrepared(p, x) ==
    Lasting(p, x) =>
        Reading(CommitOf(p), x) = prepared[p][Tree[CommitOf(p)][x]]
            \/ <<CommitOf(p), x>> \in touched[p]

Exact(p) ==
    /\ step[p] \in EntrySteps \cup {"read"} =>
           \A x \in task[p].paths \ left[p] : AsPrepared(p, x)
    /\ step[p] \in {"bind", "manifest"} => \A x \in task[p].paths : AsPrepared(p, x)
    /\ step[p] \in RefSteps \cup {"check"} => manifest[CommitOf(p)][task[p].paths] # None
    /\ step[p] = "check" /\ task[p].op = "publish" =>
           \A x \in task[p].paths \ left[p] :
               Reading(CommitOf(p), x) = Recorded(p)[x] \/ <<CommitOf(p), x>> \in touched[p]
    /\ step[p] \in RefSteps => Readable(p, CommitOf(p), task[p].paths)

Reported(p) ==
    wrote[p] =>
        IF step[p] = "idle"
        THEN result[p] # None => result[p].outcome = "ok" \/ result[p].may
        ELSE MayHavePublished(p)

(* A manifest stands on bindings, and so does what was handed out; only    *)
(* work that has a commit to publish is a publication.                     *)
Bound ==
    /\ \A c \in Commit, s \in Selection : manifest[c][s] # None =>
           \A x \in s : binding[Tree[c][x]] = manifest[c][s][x]
    /\ \A h \in handed : binding[h[1]] = h[2]
    /\ \A p \in Process : \A t \in work[p] : t.op = "publish" => t.commit # None

IInv ==
    /\ TypeOK /\ Bound
    /\ \A p \in Process :
           Control(p) /\ Locked(p) /\ Prepared(p) /\ Exact(p) /\ Reported(p)
==============================================================================

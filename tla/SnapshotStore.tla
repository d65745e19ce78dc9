--------------------------- MODULE SnapshotStore ---------------------------
(***************************************************************************)
(* What the owned cache promises: snapshots become available whole, a      *)
(* handle keeps its snapshot, a revision is named only by a holder of a    *)
(* snapshot of the commit, and reclaiming a snapshot neither touches one   *)
(* that is held nor leaves a named commit without any.                     *)
(***************************************************************************)
CONSTANTS Client, Revision, Commit, Selection, None

VARIABLES
    available,  \* snapshots that can be opened
    named,      \* the commit each revision names, or None
    handle      \* the snapshot each client holds, or None

storeVars == <<available, named, handle>>

Init ==
    /\ available = {}
    /\ named = [r \in Revision |-> None]
    /\ handle = [p \in Client |-> None]

Publish(s) ==
    /\ available' = available \cup {s}
    /\ UNCHANGED <<named, handle>>

Open(p, s) ==
    /\ handle[p] = None
    /\ s \in available
    /\ handle' = [handle EXCEPT ![p] = s]
    /\ UNCHANGED <<available, named>>

Release(p) ==
    /\ handle' = [handle EXCEPT ![p] = None]
    /\ UNCHANGED <<available, named>>

Name(p, r) ==
    /\ handle[p] # None
    /\ named' = [named EXCEPT ![r] = handle[p][1]]
    /\ UNCHANGED <<available, handle>>

Reclaim(s) ==
    /\ \A p \in Client : handle[p] # s
    /\ \A r \in Revision :
        named[r] = s[1] => \E S \in Selection :
                            <<s[1], S>> # s /\ <<s[1], S>> \in available
    /\ available' = available \ {s}
    /\ UNCHANGED <<named, handle>>

Next ==
    \/ \E s \in Commit \X Selection : Publish(s) \/ Reclaim(s)
    \/ \E p \in Client, s \in Commit \X Selection : Open(p, s)
    \/ \E p \in Client : Release(p)
    \/ \E p \in Client, r \in Revision : Name(p, r)

Spec == Init /\ [][Next]_storeVars
=============================================================================

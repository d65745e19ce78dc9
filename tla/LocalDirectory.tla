---------------------------- MODULE LocalDirectory ----------------------------
(***************************************************************************)
(* What the completion record of a local directory promises (ADR 0006):    *)
(* one materialiser at a time owns the directory; it first marks its       *)
(* request as in progress, and only the request that is in progress, by    *)
(* the materialiser that marked it and has owned the directory ever since, *)
(* becomes the complete one. Giving up leaves the mark.                    *)
(***************************************************************************)
CONSTANTS
    Owner,      \* materialisers
    Request,    \* what can be asked of the directory
    None

VARIABLES
    session,    \* the owner that has marked its request, or None
    record      \* None, or a request and whether it is complete

Mark(r, complete) == [request |-> r, complete |-> complete]

Init == session = None /\ record = None

Begin(w, r) ==
    /\ session = None
    /\ session' = w
    /\ record' = Mark(r, FALSE)

Complete(w) ==
    /\ session = w
    /\ session' = None
    /\ record' = Mark(record.request, TRUE)

Abandon(w) ==
    /\ session = w
    /\ session' = None
    /\ UNCHANGED record

Next ==
    \E w \in Owner : (\E r \in Request : Begin(w, r)) \/ Complete(w) \/ Abandon(w)

Spec == Init /\ [][Next]_<<session, record>>
==============================================================================

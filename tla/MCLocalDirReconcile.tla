------------------------- MODULE MCLocalDirReconcile -------------------------
(* Instances of LocalDirReconcile for TLC. *)
EXTENDS LocalDirReconcile, TLC

CONSTANTS p1, p2, c1, c2, a, b, w

(* Two commits that share the second file; w is in no commit.              *)
Trees == (c1 :> <<a, a>>) @@ (c2 :> <<b, a>>)

Budget(o, e, f, n, k) == [ops |-> o, edits |-> e, faults |-> f, cancels |-> n, crashes |-> k]
Opening(one, two, bud) == [file |-> <<one, two>>, budget |-> bud]

(* Two directories whose owner edits them, one request and two; three in   *)
(* which something fails, with files in the way; and a sequence of three   *)
(* requests.                                                               *)
Edited == {Opening(Missing, Missing, Budget(1, 2, 0, 0, 0)),
           Opening(Missing, Special, Budget(2, 1, 0, 0, 0))}
Failing == {Opening(w, Missing, Budget(2, 0, 1, 1, 0)), Opening(b, Directory, Budget(2, 0, 1, 1, 0)),
            Opening(Missing, a, Budget(2, 0, 0, 0, 1))}
Sequence == {Opening(Missing, w, Budget(3, 0, 0, 0, 0))}
AllOpenings == Edited \cup Failing \cup Sequence

Undisturbed == {Opening(Missing, Missing, Budget(2, 0, 0, 0, 0))}
==============================================================================

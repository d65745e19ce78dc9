-------------------------- MODULE MCPartialTransfer --------------------------
(* Instances of PartialTransfer for TLC: a lone fetch with one of          *)
(* everything that can happen to it, two fetches racing for one file, one  *)
(* fetch scheduling two files, and two identical fetches of two files.     *)
EXTENDS PartialTransfer, TLC

CONSTANTS o1, o2, fa, fb, g1, good, other

Kinds(k) == (fa :> k) @@ (fb :> "git")
Budget(a, f, d, c, p, t) ==
    [attempts |-> a, width |-> 2, faults |-> f, drops |-> d, cancels |-> c, plans |-> p, ticks |-> t]
Scenario(one, two, k, b) ==
    [plan |-> (o1 :> one) @@ (o2 :> two), kind |-> Kinds(k), budget |-> b]

Lone(k, b) == Scenario(<<fa>>, <<>>, k, b)
Race(k, b) == Scenario(<<fa>>, <<fa>>, k, b)
Scheduled(k, b) == Scenario(<<fa, fb>>, <<>>, k, b)
Identical(k, b) == Scenario(<<fa, fb>>, <<fa, fb>>, k, b)

Single ==
    {Lone("lfs", Budget(2, 1, 1, 1, 1, 1)), Lone("opaque", Budget(2, 1, 1, 1, 1, 1))}
Raced ==
    {Race("opaque", Budget(2, 0, 0, 0, 0, 0)), Race("opaque", Budget(1, 0, 0, 0, 1, 1)),
     Race("git", Budget(1, 0, 0, 1, 0, 0)), Race("lfs", Budget(1, 1, 1, 0, 0, 0))}
Pair ==
    {Scheduled("lfs", [Budget(1, 0, 0, 1, 0, 0) EXCEPT !.width = w]) : w \in 1 .. 2}
Transfers == Single \cup Raced \cup Pair
TwoIdentical == {Identical("git", Budget(1, 0, 0, 0, 0, 0))}
==============================================================================

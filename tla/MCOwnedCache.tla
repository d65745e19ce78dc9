---------------------------- MODULE MCOwnedCache ----------------------------
(***************************************************************************)
(* Instances of OwnedCache for TLC: two commits that share one file and    *)
(* differ in another.                                                      *)
(***************************************************************************)
EXTENDS OwnedCache, TLC

CONSTANTS old, new,         \* commits
          config, weights,  \* paths
          dc, dw1, dw2      \* digests: config, weights of old, weights of new

MCContent ==
    [c \in Commit |-> config :> dc @@ weights :> IF c = old THEN dw1 ELSE dw2]

Whole == {{config, weights}}
OnlyWeights == {{weights}}
TwoSelections == {{weights}, {config, weights}}

\* Snapshot keys sort by commit text, then selection text.
MCRank ==
    [s \in Snapshot |-> (IF s[1] = old THEN 0 ELSE 2) + Cardinality(s[2]) - 1]

ClientSymmetry == Permutations(Client)
CollectorSymmetry == Permutations(Collector)
=============================================================================

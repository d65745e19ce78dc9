----------------------------- MODULE MCStagedFile -----------------------------
(* Values of the constants of StagedFile for TLC.                          *)
EXTENDS StagedFile, TLC

CONSTANTS p1, p2, p3, v, w

Interchangeable == Permutations(Process)
=============================================================================

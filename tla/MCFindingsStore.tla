--------------------------- MODULE MCFindingsStore --------------------------
(* FindingsStore with two fingerprints and one request beside the scan.   *)
EXTENDS FindingsStore, TLC

Symmetry == Permutations(F)
=============================================================================

--------------------------- MODULE MCScanPipeline ---------------------------
(* ScanPipeline with a pipeline pattern and an ordinary finding, weighted  *)
(* as in router.py, and budgets that are easily used up.                   *)
EXTENDS ScanPipeline, TLC

CONSTANTS p, k, r1

MCKind == p :> "pattern" @@ k :> "other"
MCCategoryWeight == p :> 65 @@ k :> 50
=============================================================================

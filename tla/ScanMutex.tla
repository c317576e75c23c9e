------------------------------ MODULE ScanMutex -----------------------------
(***************************************************************************)
(* What the scan lock promises: at any time at most one scan runs, and one *)
(* scan's turn ends before another's begins.                               *)
(***************************************************************************)
CONSTANT Scan
VARIABLE running    \* the scans that run

Init == running = {}

Start(s) == running = {} /\ running' = {s}
Finish(s) == running = {s} /\ running' = {}

Next == \E s \in Scan : Start(s) \/ Finish(s)

Spec == Init /\ [][Next]_running
=============================================================================

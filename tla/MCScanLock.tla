----------------------------- MODULE MCScanLock -----------------------------
(* ScanLock on small instances: one replica, a lock of three ticks.          *)
EXTENDS ScanLock, TLC
=============================================================================

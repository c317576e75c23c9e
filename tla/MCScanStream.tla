---------------------------- MODULE MCScanStream ----------------------------
(* ScanStream with two clients and one or two scans.                        *)
EXTENDS ScanStream, TLC
=============================================================================

------------------------------ MODULE MCAgents ------------------------------
(* Agents with one permit, one scan, a chat and a correction on one session. *)
EXTENDS Agents, TLC

CONSTANTS s1, q1, k1

MCScans == {s1}
MCChats == {q1}
MCCorrections == {k1}
MCCalls == {s1, q1, k1}
MCSizes == {1, 2, 4}
=============================================================================

------------------------------ MODULE AgentPool -----------------------------
(***************************************************************************)
(* What the agent runtime promises its callers: at most Cap of them are    *)
(* served at a time, in the order they asked, and everyone who asked is    *)
(* served or gives up, and everyone who is served is through one day.      *)
(***************************************************************************)
EXTENDS Naturals, Sequences, FiniteSets, SequencesExt

CONSTANTS Clients, Cap
VARIABLES queue,    \* those who asked, the first at the head
          served    \* those who are being served

vars == <<queue, served>>
Queued(c) == Contains(queue, c)

Init == queue = <<>> /\ served = {}

Ask(c) ==
    /\ ~Queued(c) /\ c \notin served
    /\ queue' = Append(queue, c)
    /\ UNCHANGED served

Serve ==
    /\ queue # <<>> /\ Cardinality(served) < Cap
    /\ served' = served \cup {Head(queue)}
    /\ queue' = Tail(queue)

GiveUp(c) == Queued(c) /\ queue' = RemoveFirst(queue, c) /\ UNCHANGED served
Through(c) == c \in served /\ served' = served \ {c} /\ UNCHANGED queue

Next == Serve \/ \E c \in Clients : Ask(c) \/ GiveUp(c) \/ Through(c)

Spec == /\ Init /\ [][Next]_vars
        /\ WF_vars(Serve)
        /\ \A c \in Clients : WF_vars(Through(c))
=============================================================================

------------------------------- MODULE Agents -------------------------------
(***************************************************************************)
(* One runtime and all who call it: the scans of Reasoning, the chats and  *)
(* corrections of ChatStream, and the sessions of AgentRuntime they wait   *)
(* for and run in.                                                         *)
(***************************************************************************)
EXTENDS Reasoning, ChatStream

ASSUME AgentsAssumption ==
    /\ Calls = Scans \cup Requests
    /\ Scans \cap Requests = {}

vars == <<rvars, reasoningVars, chatVars>>

TypeOK == RuntimeTypeOK /\ ReasoningTypeOK /\ ChatTypeOK
Init == RuntimeInit /\ ReasoningInit /\ ChatInit

Sessions(c) == Session(c) /\ UNCHANGED <<reasoningVars, chatVars>>
Reasons(s) == Reason(s) /\ UNCHANGED chatVars
Serves(q) == Serve(q) /\ UNCHANGED reasoningVars

Next ==
    \/ \E c \in Calls : Sessions(c)
    \/ \E s \in Scans : Reasons(s)
    \/ \E q \in Requests : Serves(q)

\* The event loop runs what is ready, and the timer of asyncio.wait_for fires.
\* No timeout of this code covers the opening and the closing down of a session:
\* that both come to an end is left to the SDK and assumed of it.  Nothing else
\* is assumed of the CLI, nothing of the tools, and nobody need start a scan or
\* a chat.
Fairness ==
    /\ WF_vars((\E c \in Calls : Acquire(c)) /\ UNCHANGED <<reasoningVars, chatVars>>)
    /\ \A c \in Calls :
         WF_vars((Opens(c) \/ IdleTimesOut(c) \/ Left(c))
                 /\ UNCHANGED <<reasoningVars, chatVars>>)
    /\ \A s \in Scans :
         WF_vars((TriageEnds(s) \/ LoopEnds(s) \/ ExtractionEnds(s) \/ Stopped(s))
                 /\ UNCHANGED chatVars)
    /\ \A q \in Requests :
         WF_vars((Told(q) \/ Save(q) \/ SaveFails(q) \/ Corrected(q) \/ OrphanEnds(q))
                 /\ UNCHANGED reasoningVars)

Spec == Init /\ [][Next]_vars /\ Fairness

-----------------------------------------------------------------------------
\* The runtime implements the pool: every call is served in turn and gets out
\* again, whoever makes it, with a CLI that may hang and a tool that may never
\* return (ClaudeCodeRuntime, _iter_with_idle_timeout).
Pool == INSTANCE AgentPool WITH Clients <- Calls, queue <- waiters, served <- Open
ServedInTurn == Pool!Spec
=============================================================================

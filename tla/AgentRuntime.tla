----------------------------- MODULE AgentRuntime ---------------------------
(***************************************************************************)
(* The Claude Code runtime of reasoning/claude_agent.py: the semaphore     *)
(* that caps the CLI subprocesses, one session per call of complete or     *)
(* run_agent with its opening and its closing down, the messages it sends, *)
(* the tools it has this process execute and the budget on what they       *)
(* return, the idle timeout, the second turn that asks for a summary, and  *)
(* the ways a call ends.                                                   *)
(*                                                                         *)
(* The permit is held from the opening of the session to the end of its    *)
(* closing down; the idle timeout watches the two turns in between only.   *)
(* A call belongs to a task of its own: a scan's, a chat's or a request's. *)
(***************************************************************************)
EXTENDS Integers, Sequences, FiniteSets, SequencesExt

CONSTANTS
    Calls,          \* the tasks that call the runtime
    MaxConcurrent,  \* llm_max_concurrent_agents
    IdleTimeout,    \* TRUE: llm_agent_idle_timeout_s is not 0
    MaxTurns,       \* bound: assistant messages of a turn that may use tools
    MaxUses,        \* bound: tool calls of one message
    Budget,         \* _HISTORY_BUDGET
    Floor,          \* _RESULT_FLOOR
    Marker,         \* length of the text that stands for what was elided
    Sizes           \* bound: lengths of what a tool returns

ASSUME RuntimeAssumption ==
    /\ MaxConcurrent \in Int /\ IdleTimeout \in BOOLEAN
    /\ MaxTurns \in Nat /\ MaxUses \in Nat
    /\ Budget \in Nat /\ Floor \in Nat \ {0} /\ Marker \in Nat
    /\ Sizes \subseteq Nat
    /\ IsFiniteSet(Calls)

VARIABLES
    at,         \* where the task of each call is
    permits,    \* the value of the semaphore
    waiters,    \* the tasks that wait for it, first come first served
    run         \* what the call was asked for and what came back so far

rvars == <<at, permits, waiters, run>>

Cap == IF MaxConcurrent < 1 THEN 1 ELSE MaxConcurrent
\* A session is opened, asked, asked again for a closing summary, and left.
SessionPlaces == {"opening", "asked", "closing", "leaving"}
Places == {"idle", "waiting", "ended"} \cup SessionPlaces
Open == {c \in Calls : at[c] \in SessionPlaces}
InTurn == {c \in Calls : at[c] \in {"asked", "closing"}}

\* The last text of the narration comes from the first turn or the second.
Said == {"nothing", "narration", "closing"}
\* How a call ended, or the content it returned.
Ends == {"raised", "cancelled", "answer", "halfway", "summary"} \cup Said
Runs == [tooled : BOOLEAN, summarise : BOOLEAN, turns : 0..MaxTurns + 1,
         last : Said, pending : Nat, used : BOOLEAN, returned : Nat,
         out : Ends \cup {"open"}]
Fresh == [tooled |-> FALSE, summarise |-> FALSE, turns |-> 0,
          last |-> "nothing", pending |-> 0, used |-> FALSE, returned |-> 0,
          out |-> "open"]

\* A ResultMessage, as far as the runtime looks at it.
Results == [text : BOOLEAN, is_error : BOOLEAN,
            stop_reason : {"", "max_turns", "tool_use"},
            subtype : {"success", "error_max_turns"}]

RuntimeTypeOK ==
    /\ at \in [Calls -> Places]
    /\ permits \in 0..Cap
    /\ run \in [Calls -> Runs]

RuntimeInit ==
    /\ at = [c \in Calls |-> "idle"]
    /\ permits = Cap
    /\ waiters = <<>>
    /\ run = [c \in Calls |-> Fresh]

-----------------------------------------------------------------------------
(* complete and run_agent, up to the semaphore.                            *)

\* complete is the call without tools; only investigations ask for a summary.
Call(c, tooled, summarise) ==
    /\ at[c] \in {"idle", "ended"}
    /\ at' = [at EXCEPT ![c] = "waiting"]
    /\ waiters' = Append(waiters, c)
    /\ run' = [run EXCEPT ![c] = [Fresh EXCEPT !.tooled = tooled,
                                               !.summarise = summarise]]
    /\ UNCHANGED permits

\* release hands the permit to the first waiter as it wakes it: the session is
\* "opening" from then on, though its task has not run yet.
Acquire(c) ==
    /\ at[c] = "waiting"
    /\ waiters # <<>> /\ Head(waiters) = c
    /\ permits > 0
    /\ permits' = permits - 1
    /\ waiters' = Tail(waiters)
    /\ at' = [at EXCEPT ![c] = "opening"]
    /\ UNCHANGED run

\* The session's __aenter__ returns: the CLI is up and is sent the prompt.
Opens(c) ==
    /\ at[c] = "opening"
    /\ at' = [at EXCEPT ![c] = "asked"]
    /\ UNCHANGED <<permits, waiters, run>>

\* What is left of a run: whether it used tools, and its outcome.
EndedRun(r, out) ==
    [Fresh EXCEPT !.summarise = r.summarise, !.used = r.used, !.out = out]

\* Every way out of a turn passes the session's __aexit__, under the permit.
Closes(c, out) ==
    /\ at' = [at EXCEPT ![c] = "leaving"]
    /\ run' = [run EXCEPT ![c] = EndedRun(run[c], out)]
    /\ UNCHANGED <<permits, waiters>>

\* And every way out of the session the semaphore's.
Leave(c, out) ==
    /\ at' = [at EXCEPT ![c] = "ended"]
    /\ permits' = permits + 1
    /\ run' = [run EXCEPT ![c] = EndedRun(run[c], out)]
    /\ UNCHANGED waiters

\* The CLI is down.
Left(c) == at[c] = "leaving" /\ Leave(c, run[c].out)

-----------------------------------------------------------------------------
(* The session: messages, tools, and the end of a turn.                    *)

TurnsOf(c) == IF run[c].tooled THEN MaxTurns ELSE 1

\* One AssistantMessage: perhaps a text block, perhaps tool calls.
AssistantMessage(c, text, uses) ==
    /\ c \in InTurn
    /\ run[c].pending = 0 /\ run[c].turns < TurnsOf(c)
    /\ run[c].tooled \/ uses = 0
    /\ run' = [run EXCEPT
         ![c].turns = @ + 1,
         ![c].pending = uses,
         ![c].last = IF ~text THEN @
                     ELSE IF at[c] = "closing" THEN "closing" ELSE "narration"]
    /\ UNCHANGED <<at, permits, waiters>>

\* Mutant: a floor applied per call.
LimitPerCall(returned) ==
    IF Budget - returned < Floor THEN Floor ELSE Budget - returned
\* What the next result may add; 0 when it is withheld.
Limit(returned) ==
    IF Budget - returned < Floor THEN 0 ELSE Budget - returned

\* bounded_tool_output keeps two halves of the limit and says so between them.
BoundedOutput(size, limit) ==
    IF size <= limit THEN size ELSE 2 * (limit \div 2) + Marker

\* A tool's result comes back, is recorded, and what is left of it counted.  A
\* notice stands for what is withheld; as in the code, it is not counted.
ToolReturns(c, size) ==
    /\ c \in InTurn
    /\ run[c].pending > 0
    /\ run' = [run EXCEPT
         ![c].pending = @ - 1,
         ![c].used = TRUE,
         ![c].returned =
             IF Limit(@) = 0 THEN @ ELSE @ + BoundedOutput(size, Limit(@))]
    /\ UNCHANGED <<at, permits, waiters>>

HitTurnLimit(r) ==
    IF r.stop_reason # "" THEN r.stop_reason = "max_turns"
    ELSE r.subtype = "error_max_turns"

\* The result's text, or the last of the narration.  The text of a turn that
\* was cut short is the thought the agent stopped on.
Final(c, r) ==
    IF ~r.text THEN run[c].last
    ELSE IF at[c] = "closing" THEN "summary"
    ELSE IF HitTurnLimit(r) THEN "halfway" ELSE "answer"

\* The ResultMessage ends the turn: raise, ask for a summary, or answer.
TurnEnds(c, r) ==
    /\ c \in InTurn /\ run[c].pending = 0
    /\ IF r.is_error THEN Closes(c, "raised")
       ELSE IF at[c] = "asked" /\ run[c].summarise /\ HitTurnLimit(r)
       THEN /\ at' = [at EXCEPT ![c] = "closing"]
            /\ run' = [run EXCEPT ![c].turns = 0]
            /\ UNCHANGED <<permits, waiters>>
       ELSE Closes(c, Final(c, r))

\* Mutant: a session that cannot be opened keeps its permit.
SessionLost(c) ==
    \/ c \in InTurn /\ Closes(c, "raised")
    \/ at[c] = "leaving" /\ Leave(c, "raised")
    \/ /\ at[c] = "opening"
       /\ at' = [at EXCEPT ![c] = "ended"]
       /\ run' = [run EXCEPT ![c].out = "raised"]
       /\ UNCHANGED <<permits, waiters>>
\* The CLI dies or ends its stream without a result; it does not start, or
\* fails as it is closed down.
SessionFails(c) ==
    \/ c \in InTurn /\ Closes(c, "raised")
    \/ at[c] \in {"opening", "leaving"} /\ Leave(c, "raised")

\* Mutant: only the first turn is watched for silence.
IdleTimeoutFirst(c) == at[c] = "asked" /\ IdleTimeout /\ Closes(c, "raised")
\* No message within the window.
IdleTimesOut(c) == c \in InTurn /\ IdleTimeout /\ Closes(c, "raised")

\* Mutant: a call that is cancelled while it waits releases all the same.
CancelReleasing(c) ==
    \/ c \in InTurn /\ Closes(c, "cancelled")
    \/ at[c] \in {"opening", "leaving"} /\ Leave(c, "cancelled")
    \/ /\ at[c] = "waiting"
       /\ waiters' = RemoveFirst(waiters, c)
       /\ at' = [at EXCEPT ![c] = "ended"]
       /\ run' = [run EXCEPT ![c].out = "cancelled"]
       /\ permits' = permits + 1
\* task.cancel() on the task that waits for the call.
Cancel(c) ==
    \/ c \in InTurn /\ Closes(c, "cancelled")
    \/ at[c] \in {"opening", "leaving"} /\ Leave(c, "cancelled")
    \/ /\ at[c] = "waiting"
       /\ at' = [at EXCEPT ![c] = "ended"]
       /\ waiters' = RemoveFirst(waiters, c)
       /\ run' = [run EXCEPT ![c].out = "cancelled"]
       /\ UNCHANGED permits

\* The caller has what it came for.
Return(c) ==
    /\ at[c] = "ended"
    /\ at' = [at EXCEPT ![c] = "idle"]
    /\ run' = [run EXCEPT ![c] = Fresh]
    /\ UNCHANGED <<permits, waiters>>

Session(c) ==
    \/ Acquire(c) \/ Opens(c) \/ Left(c)
    \/ \E text \in BOOLEAN, uses \in 0..MaxUses : AssistantMessage(c, text, uses)
    \/ \E size \in Sizes : ToolReturns(c, size)
    \/ \E r \in Results : TurnEnds(c, r)
    \/ SessionFails(c)
    \/ IdleTimesOut(c)

RuntimeNext ==
    \E c \in Calls :
        \/ Session(c)
        \/ \E tooled, summarise \in BOOLEAN : Call(c, tooled, summarise)
        \/ Cancel(c)
        \/ Return(c)

RuntimeSpec == RuntimeInit /\ [][RuntimeNext]_rvars

-----------------------------------------------------------------------------
(* Properties.                                                             *)

\* Every permit is free or held by exactly one open session: the number of
\* CLI processes never exceeds the cap, and no permit is lost however a call
\* ends (ClaudeCodeRuntime.complete, run_agent).
PermitsConserved == permits + Cardinality(Open) = Cap

\* What the tools of one call return, the fixed notices in place of withheld
\* results aside, is bounded by the budget and one marker, however many calls
\* the agent makes (ToolCallRecorder.bound).
BudgetBound == \A c \in Calls : run[c].returned <= Budget + Marker
=============================================================================

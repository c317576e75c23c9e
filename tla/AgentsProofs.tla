----------------------------- MODULE AgentsProofs ---------------------------
(***************************************************************************)
(* Proofs about Agents for any set of callers, any cap, budget, floor and  *)
(* tool output: the permits, the budget, the pool that the runtime         *)
(* implements, investigations and triage, the transcript of a session, and *)
(* the types, in every composed behaviour of scans, chats and corrections. *)
(*                                                                         *)
(* A composed step is a step of the runtime or leaves its variables alone  *)
(* (ComposedStep), so what is about the runtime is shown of RuntimeNext.   *)
(***************************************************************************)
EXTENDS Agents, SequenceFacts, FiniteSetTheorems, TLAPS

\* What is returned fits, and a turn that is over or withheld has no more.
RuntimeInv ==
    /\ RuntimeTypeOK
    /\ PermitsConserved
    /\ BudgetBound
   

USE RuntimeAssumption

LEMMA CapType == Cap \in Nat \ {0}
  BY DEF Cap

LEMMA OpenFinite == IsFiniteSet(Open) /\ Cardinality(Open) \in Nat
<1>1. Open \subseteq Calls
  BY DEF Open
<1>2. IsFiniteSet(Open)
  BY <1>1, FS_Subset
<1> QED
  BY <1>2, FS_CardinalityType

-----------------------------------------------------------------------------
(* The open sessions, when one begins, goes on or ends.                    *)

LEMMA OpenSame ==
    ASSUME NEW c \in Calls, at \in [Calls -> Places],
           NEW v, at' = [at EXCEPT ![c] = v],
           c \in Open <=> v \in SessionPlaces
    PROVE  Open' = Open
  BY DEF Open

LEMMA OpenGrows ==
    ASSUME NEW c \in Calls, at \in [Calls -> Places],
           c \notin Open, at' = [at EXCEPT ![c] = "opening"]
    PROVE  Cardinality(Open') = Cardinality(Open) + 1
<1>1. Open' = Open \cup {c}
  BY DEF Open, SessionPlaces
<1> QED
  BY <1>1, OpenFinite, FS_AddElement

LEMMA OpenShrinks ==
    ASSUME NEW c \in Open, at \in [Calls -> Places],
           at' = [at EXCEPT ![c] = "ended"]
    PROVE  Cardinality(Open') = Cardinality(Open) - 1
<1>1. Open' = Open \ {c}
  BY DEF Open, SessionPlaces
<1> QED
  BY <1>1, OpenFinite, FS_RemoveElement

\* What a tool may add never takes the sum past the budget and one marker.
LEMMA BoundedSum ==
    ASSUME NEW returned \in Nat, NEW size \in Nat,
           returned <= Budget + Marker, Limit(returned) # 0
    PROVE  /\ BoundedOutput(size, Limit(returned)) \in Nat
           /\ returned + BoundedOutput(size, Limit(returned)) <= Budget + Marker
<1>1. Limit(returned) = Budget - returned /\ Limit(returned) \in Nat
  BY DEF Limit
<1>2. 2 * (Limit(returned) \div 2) <= Limit(returned) /\ 2 * (Limit(returned) \div 2) \in Nat
  BY <1>1
<1> QED
  BY <1>1, <1>2 DEF BoundedOutput

-----------------------------------------------------------------------------
LEMMA FreshType == Fresh \in Runs
  BY DEF Fresh, Runs, Ends, Said

LEMMA RuntimeInitInv == RuntimeInit => RuntimeInv
<1> SUFFICES ASSUME RuntimeInit PROVE RuntimeInv
  OBVIOUS
<1>1. Open = {}
  BY DEF RuntimeInit, Open, SessionPlaces
<1>2. PermitsConserved
  BY <1>1, FS_EmptySet, CapType DEF PermitsConserved, RuntimeInit
<1>3. RuntimeTypeOK
  BY CapType, FreshType DEF RuntimeInit, RuntimeTypeOK, Places, SessionPlaces
<1>4. BudgetBound
  BY DEF RuntimeInit, BudgetBound, Fresh
<1> QED
  BY <1>2, <1>3, <1>4 DEF RuntimeInv

\* A step that changes one run for another of the type keeps what is said of
\* every run.
LEMMA RunChanges ==
    ASSUME RuntimeInv, NEW c \in Calls, NEW r \in Runs,
           run' = [run EXCEPT ![c] = r], r.returned <= Budget + Marker
    PROVE  run' \in [Calls -> Runs] /\ BudgetBound'
<1>1. run' \in [Calls -> Runs] /\ run'[c] = r /\ \A d \in Calls : d # c => run'[d] = run[d]
  BY DEF RuntimeInv, RuntimeTypeOK
<1> QED
  BY <1>1 DEF RuntimeInv, BudgetBound

\* What is left of a run is a run.
LEMMA EndedRunType ==
    ASSUME NEW r \in Runs, NEW out \in Ends \cup {"open"}
    PROVE  EndedRun(r, out) \in Runs /\ EndedRun(r, out).returned = 0
<1>1. r.summarise \in BOOLEAN /\ r.used \in BOOLEAN
  BY DEF Runs
<1>2. Fresh \in Runs
  BY FreshType
<1>3. EndedRun(r, out) \in Runs
  BY <1>1, <1>2 DEF EndedRun, Runs
<1>4. Fresh.returned = 0
  BY DEF Fresh
<1> QED
  BY <1>2, <1>3, <1>4 DEF EndedRun, Runs

LEMMA RunEnds ==
    ASSUME RuntimeInv, NEW c \in Calls, NEW out \in Ends \cup {"open"},
           run' = [run EXCEPT ![c] = EndedRun(run[c], out)]
    PROVE  run' \in [Calls -> Runs] /\ BudgetBound'
<1>1. run[c] \in Runs
  BY DEF RuntimeInv, RuntimeTypeOK
<1> DEFINE r == EndedRun(run[c], out)
<1>2. r \in Runs /\ r.returned = 0 /\ run' = [run EXCEPT ![c] = r]
  BY <1>1, EndedRunType
<1> HIDE DEF r
<1>3. r.returned <= Budget + Marker
  BY <1>2
<1> QED
  BY <1>2, <1>3, RunChanges

\* A task that moves within its session, or outside one.
LEMMA MoveInv ==
    ASSUME RuntimeInv, NEW c \in Calls, NEW v \in Places,
           at' = [at EXCEPT ![c] = v], c \in Open <=> v \in SessionPlaces,
           UNCHANGED permits, run' \in [Calls -> Runs], BudgetBound'
    PROVE  RuntimeInv'
<1>1. at \in [Calls -> Places]
  BY DEF RuntimeInv, RuntimeTypeOK
<1>2. Open' = Open
  BY <1>1, OpenSame
<1>3. at' \in [Calls -> Places]
  BY <1>1
<1> QED
  BY <1>2, <1>3 DEF RuntimeInv, RuntimeTypeOK, PermitsConserved

\* A turn's end keeps the permit while the session is closed down.
LEMMA ClosesInv ==
    ASSUME RuntimeInv, NEW c \in InTurn, NEW out \in Ends \cup {"open"}, Closes(c, out)
    PROVE  RuntimeInv'
<1>1. c \in Calls /\ c \in Open
  BY DEF InTurn, Open, SessionPlaces
<1>2. /\ at' = [at EXCEPT ![c] = "leaving"] /\ UNCHANGED permits
      /\ run' = [run EXCEPT ![c] = EndedRun(run[c], out)]
  BY DEF Closes
<1>3. run' \in [Calls -> Runs] /\ BudgetBound'
  BY <1>1, <1>2, RunEnds
<1>4. "leaving" \in Places /\ "leaving" \in SessionPlaces
  BY DEF Places, SessionPlaces
<1> QED
  BY <1>1, <1>2, <1>3, <1>4, MoveInv

\* Every way out of a session gives its permit back.
LEMMA LeaveInv ==
    ASSUME RuntimeInv, NEW c \in Open, NEW out \in Ends \cup {"open"}, Leave(c, out)
    PROVE  RuntimeInv'
<1>0. c \in Calls
  BY DEF Open
<1>1. at \in [Calls -> Places] /\ permits \in 0..Cap
  BY DEF RuntimeInv, RuntimeTypeOK
<1>2. /\ at' = [at EXCEPT ![c] = "ended"] /\ permits' = permits + 1
      /\ run' = [run EXCEPT ![c] = EndedRun(run[c], out)]
  BY DEF Leave
<1>3. Cardinality(Open') = Cardinality(Open) - 1
  BY <1>1, <1>2, OpenShrinks
<1>4. permits + Cardinality(Open) = Cap
  BY DEF RuntimeInv, PermitsConserved
<1>5. PermitsConserved'
  BY <1>1, <1>2, <1>3, <1>4, OpenFinite, CapType DEF PermitsConserved, Cap
<1>6. \E i \in Open : TRUE
  OBVIOUS
<1>7. Cardinality(Open) # 0
  BY <1>6, OpenFinite, FS_EmptySet
<1>8. permits' \in 0..Cap
  BY <1>1, <1>2, <1>4, <1>7, OpenFinite, CapType DEF Cap
<1>9. run' \in [Calls -> Runs] /\ BudgetBound'
  BY <1>0, <1>2, RunEnds
<1>10. at' \in [Calls -> Places]
  BY <1>1, <1>2 DEF Places
<1> QED
  BY <1>5, <1>8, <1>9, <1>10 DEF RuntimeInv, RuntimeTypeOK

\* The outcomes by which a session is left early.
LEMMA EarlyEnds == "raised" \in Ends /\ "cancelled" \in Ends
  BY DEF Ends

\* A step within a session.
LEMMA SessionInv ==
    ASSUME RuntimeInv, NEW c \in Calls, Session(c)
    PROVE  RuntimeInv'
<1>a. at \in [Calls -> Places] /\ run[c] \in Runs /\ permits \in 0..Cap
      /\ run \in [Calls -> Runs] /\ BudgetBound
  BY DEF RuntimeInv, RuntimeTypeOK
<1>b. UNCHANGED run => BudgetBound'
  BY <1>a DEF BudgetBound
<1>c. run[c].returned \in Nat /\ run[c].returned <= Budget + Marker
  BY <1>a DEF BudgetBound, Runs
<1>1. CASE Acquire(c)
  <2>1. c \notin Open
    BY <1>1 DEF Acquire, Open, SessionPlaces
  <2>2. Cardinality(Open') = Cardinality(Open) + 1
    BY <1>1, <1>a, <2>1, OpenGrows DEF Acquire
  <2>3. UNCHANGED run /\ permits' = permits - 1 /\ permits > 0
    BY <1>1 DEF Acquire
  <2>4. PermitsConserved' /\ permits' \in 0..Cap
    BY <1>a, <2>2, <2>3, OpenFinite, CapType DEF RuntimeInv, PermitsConserved
  <2>5. at' \in [Calls -> Places]
    BY <1>1, <1>a DEF Acquire, Places, SessionPlaces
  <2> QED
    BY <1>a, <1>b, <2>3, <2>4, <2>5 DEF RuntimeInv, RuntimeTypeOK
<1>2. CASE Opens(c)
  <2>1. c \in Open /\ "asked" \in Places /\ "asked" \in SessionPlaces
    BY <1>2 DEF Opens, Open, Places, SessionPlaces
  <2> QED
    BY <1>2, <1>a, <1>b, <2>1, MoveInv DEF Opens
<1>3. CASE Left(c)
  <2>1. c \in Open /\ Leave(c, run[c].out)
    BY <1>3 DEF Left, Open, SessionPlaces
  <2>2. run[c].out \in Ends \cup {"open"}
    BY <1>a DEF Runs
  <2> QED
    BY <2>1, <2>2, LeaveInv
<1>4. ASSUME NEW text \in BOOLEAN, NEW uses \in 0..MaxUses,
             AssistantMessage(c, text, uses)
      PROVE  RuntimeInv'
  <2>1. PICK r : run' = [run EXCEPT ![c] = r] /\ r \in Runs /\ r.returned = run[c].returned
    <3> DEFINE said == IF ~text THEN run[c].last
                       ELSE IF at[c] = "closing" THEN "closing" ELSE "narration"
               r == [run[c] EXCEPT !.turns = @ + 1, !.pending = uses, !.last = said]
    <3>1. run' = [run EXCEPT ![c] = r]
      BY <1>4, <1>a DEF AssistantMessage, Runs
    <3>2. run[c].turns + 1 \in 0..MaxTurns + 1 /\ said \in Said /\ uses \in Nat
      BY <1>4, <1>a DEF AssistantMessage, TurnsOf, Runs, Said
    <3>3. r \in Runs /\ r.returned = run[c].returned
      BY <1>a, <3>2 DEF Runs
    <3> QED
      BY <3>1, <3>3
  <2>2. run' \in [Calls -> Runs] /\ BudgetBound'
    BY <1>c, <2>1, RunChanges
  <2>3. Open' = Open /\ UNCHANGED <<at, permits>>
    BY <1>4 DEF AssistantMessage, Open
  <2> QED
    BY <2>2, <2>3 DEF RuntimeInv, RuntimeTypeOK, PermitsConserved
<1>5. ASSUME NEW size \in Sizes, ToolReturns(c, size)
      PROVE  RuntimeInv'
  <2> DEFINE sum == IF Limit(run[c].returned) = 0 THEN run[c].returned
                    ELSE run[c].returned
                         + BoundedOutput(size, Limit(run[c].returned))
             r == [run[c] EXCEPT !.pending = @ - 1, !.used = TRUE, !.returned = sum]
  <2>1. run' = [run EXCEPT ![c] = r]
    BY <1>5, <1>a DEF ToolReturns, Runs
  <2>2. size \in Nat
    OBVIOUS
  <2>3. sum \in Nat /\ sum <= Budget + Marker
    BY <1>c, <2>2, BoundedSum
  <2>4. run[c].pending - 1 \in Nat
    BY <1>5, <1>a DEF ToolReturns, Runs
  <2> HIDE DEF sum
  <2>5. r \in Runs /\ r.returned = sum
    BY <1>a, <2>3, <2>4 DEF Runs
  <2> HIDE DEF r
  <2>6. run' \in [Calls -> Runs] /\ BudgetBound'
    BY <2>1, <2>3, <2>5, RunChanges
  <2>7. Open' = Open /\ UNCHANGED <<at, permits>>
    BY <1>5 DEF ToolReturns, Open
  <2> QED
    BY <2>6, <2>7 DEF RuntimeInv, RuntimeTypeOK, PermitsConserved
<1>6. ASSUME NEW m \in Results, TurnEnds(c, m)
      PROVE  RuntimeInv'
  <2>0. c \in InTurn
    BY <1>6 DEF TurnEnds
  <2>1. CASE m.is_error
    <3>1. Closes(c, "raised")
      BY <2>1, <1>6 DEF TurnEnds
    <3> QED
      BY <2>0, <3>1, EarlyEnds, ClosesInv
  <2>2. CASE /\ ~m.is_error
             /\ at[c] = "asked" /\ run[c].summarise /\ HitTurnLimit(m)
    <3>1. /\ at' = [at EXCEPT ![c] = "closing"]
          /\ run' = [run EXCEPT ![c].turns = 0]
          /\ UNCHANGED permits
      BY <1>6, <2>2 DEF TurnEnds
    <3> DEFINE r == [run[c] EXCEPT !.turns = 0]
    <3>2. run' = [run EXCEPT ![c] = r] /\ r \in Runs /\ r.returned = run[c].returned
      BY <1>a, <3>1 DEF Runs
    <3> HIDE DEF r
    <3>3. run' \in [Calls -> Runs] /\ BudgetBound'
      BY <1>c, <3>2, RunChanges
    <3>4. c \in Open /\ "closing" \in Places /\ "closing" \in SessionPlaces
      BY <2>0 DEF InTurn, Open, Places, SessionPlaces
    <3> QED
      BY <3>1, <3>3, <3>4, MoveInv
  <2>3. CASE /\ ~m.is_error
             /\ ~(at[c] = "asked" /\ run[c].summarise /\ HitTurnLimit(m))
    <3>1. Closes(c, Final(c, m))
      BY <1>6, <2>3 DEF TurnEnds
    <3>2. Final(c, m) \in Ends
      BY <1>a DEF Final, Ends, Runs
    <3> QED
      BY <2>0, <3>1, <3>2, ClosesInv
  <2> QED
    BY <2>1, <2>2, <2>3
<1>7. CASE SessionFails(c)
  <2>1. CASE c \in InTurn /\ Closes(c, "raised")
    BY <2>1, EarlyEnds, ClosesInv
  <2>2. CASE at[c] \in {"opening", "leaving"} /\ Leave(c, "raised")
    <3>1. c \in Open
      BY <2>2 DEF Open, SessionPlaces
    <3> QED
      BY <2>2, <3>1, EarlyEnds, LeaveInv
  <2> QED
    BY <1>7, <2>1, <2>2 DEF SessionFails
<1>8. CASE IdleTimesOut(c)
  <2>1. c \in InTurn /\ Closes(c, "raised")
    BY <1>8 DEF IdleTimesOut
  <2> QED
    BY <2>1, EarlyEnds, ClosesInv
<1> QED
  BY <1>1, <1>2, <1>3, <1>4, <1>5, <1>6, <1>7, <1>8 DEF Session

LEMMA CallerInv ==
    ASSUME RuntimeInv, NEW c \in Calls,
           \/ \E tooled, summarise \in BOOLEAN : Call(c, tooled, summarise)
           \/ Cancel(c)
           \/ Return(c)
    PROVE  RuntimeInv'
<1>a. at \in [Calls -> Places] /\ run[c] \in Runs
  BY DEF RuntimeInv, RuntimeTypeOK
<1>b. run[c].returned \in Nat /\ run[c].returned <= Budget + Marker
  BY <1>a DEF RuntimeInv, BudgetBound, Runs
<1>c. {"idle", "waiting", "ended"} \subseteq Places \ SessionPlaces
  BY DEF Places, SessionPlaces
<1>d. c \in Open <=> at[c] \in SessionPlaces
  BY DEF Open
<1>1. ASSUME NEW tooled \in BOOLEAN, NEW summarise \in BOOLEAN,
             Call(c, tooled, summarise)
      PROVE  RuntimeInv'
  <2> DEFINE r == [Fresh EXCEPT !.tooled = tooled, !.summarise = summarise]
  <2>1. r \in Runs
    BY FreshType DEF Runs
  <2>2. r.returned <= Budget + Marker
    BY DEF Fresh
  <2>3. at[c] \in {"idle", "ended"} /\ at' = [at EXCEPT ![c] = "waiting"]
        /\ UNCHANGED permits /\ run' = [run EXCEPT ![c] = r]
    BY <1>1 DEF Call
  <2> HIDE DEF r
  <2>4. run' \in [Calls -> Runs] /\ BudgetBound'
    BY <2>1, <2>2, <2>3, RunChanges
  <2> QED
    BY <1>c, <1>d, <2>3, <2>4, MoveInv
<1>2. CASE c \in InTurn /\ Closes(c, "cancelled")
  BY <1>2, EarlyEnds, ClosesInv
<1>3. CASE at[c] \in {"opening", "leaving"} /\ Leave(c, "cancelled")
  <2>1. c \in Open
    BY <1>3 DEF Open, SessionPlaces
  <2> QED
    BY <1>3, <2>1, EarlyEnds, LeaveInv
<1>4. CASE /\ at[c] = "waiting"
           /\ at' = [at EXCEPT ![c] = "ended"]
           /\ run' = [run EXCEPT ![c].out = "cancelled"]
           /\ UNCHANGED permits
  <2> DEFINE r == [run[c] EXCEPT !.out = "cancelled"]
  <2>1. r \in Runs /\ r.returned = run[c].returned
    BY <1>a DEF Runs, Ends
  <2>2. run' = [run EXCEPT ![c] = r]
    BY <1>4, <1>a DEF RuntimeInv, RuntimeTypeOK, Runs
  <2> HIDE DEF r
  <2>3. run' \in [Calls -> Runs] /\ BudgetBound'
    BY <1>b, <2>1, <2>2, RunChanges
  <2> QED
    BY <1>4, <1>c, <1>d, <2>3, MoveInv
<1>5. CASE Return(c)
  <2>1. at[c] = "ended" /\ at' = [at EXCEPT ![c] = "idle"] /\ UNCHANGED permits
        /\ run' = [run EXCEPT ![c] = Fresh]
    BY <1>5 DEF Return
  <2>2. Fresh.returned <= Budget + Marker
    BY DEF Fresh
  <2>3. run' \in [Calls -> Runs] /\ BudgetBound'
    BY <2>1, <2>2, FreshType, RunChanges
  <2> QED
    BY <1>c, <1>d, <2>1, <2>3, MoveInv
<1> QED
  BY <1>1, <1>2, <1>3, <1>4, <1>5 DEF Cancel

-----------------------------------------------------------------------------
(* The composition.                                                        *)

\* Whoever takes it, a step of the whole is a step of the runtime or none.
LEMMA ComposedStep == [Next]_vars => [RuntimeNext]_rvars
<1> SUFFICES ASSUME [Next]_vars PROVE [RuntimeNext]_rvars
  OBVIOUS
<1>1. CASE UNCHANGED vars
  BY <1>1 DEF vars
<1>2. ASSUME NEW c \in Calls, Sessions(c) PROVE RuntimeNext
  BY <1>2 DEF Sessions, RuntimeNext
<1>3. ASSUME NEW s \in Scans, Reasons(s) PROVE [RuntimeNext]_rvars
  <2>1. s \in Calls
    BY ReasoningAssumption
  <2>2. \/ Cancel(s) \/ Return(s) \/ UNCHANGED rvars
        \/ \E tooled, summarise \in BOOLEAN : Call(s, tooled, summarise)
    BY <1>3 DEF Reasons, Reason, StartTriage, TriageEnds, Investigate, LoopEnds,
                ExtractionEnds, Store, StopScan, Stopped
  <2> QED
    BY <2>1, <2>2 DEF RuntimeNext
<1>4. ASSUME NEW q \in Requests, Serves(q) PROVE [RuntimeNext]_rvars
  <2>1. q \in Calls
    BY ChatAssumption DEF Requests
  <2>2. \/ Return(q) \/ UNCHANGED rvars
        \/ \E tooled, summarise \in BOOLEAN : Call(q, tooled, summarise)
    <3>1. CASE Request(q)
      <4>1. Call(q, q \in Chats, FALSE)
        BY <3>1 DEF Request
      <4>2. (q \in Chats) \in BOOLEAN
        OBVIOUS
      <4> QED
        BY <4>1, <4>2, Zenon
    <3>2. CASE ~Request(q)
      BY <1>4, <3>2 DEF Serves, Serve, Told, Save, SaveFails, Corrected, Leaves,
                         OrphanEnds
    <3> QED
      BY <3>1, <3>2
  <2> QED
    BY <2>1, <2>2 DEF RuntimeNext
<1> QED
  BY <1>1, <1>2, <1>3, <1>4 DEF Next

LEMMA RuntimeInvHolds == Spec => []RuntimeInv
<1>1. Init => RuntimeInv
  BY RuntimeInitInv DEF Init
<1>2. RuntimeInv /\ [Next]_vars => RuntimeInv'
  <2> SUFFICES ASSUME RuntimeInv, [RuntimeNext]_rvars PROVE RuntimeInv'
    BY ComposedStep
  <2>1. CASE UNCHANGED rvars
    BY <2>1 DEF rvars, RuntimeInv, RuntimeTypeOK, PermitsConserved, BudgetBound, Open
  <2>2. CASE RuntimeNext
    BY <2>2, SessionInv, CallerInv DEF RuntimeNext
  <2> QED
    BY <2>1, <2>2
<1> QED
  BY <1>1, <1>2, PTL DEF Spec

\* No permit is lost or made up, so never more than Cap sessions are open,
\* whatever scans, chats and corrections do to each other.
THEOREM PermitsAlwaysConserved == Spec => [](PermitsConserved /\ Cardinality(Open) <= Cap)
<1>1. RuntimeInv => PermitsConserved /\ Cardinality(Open) <= Cap
  BY OpenFinite, CapType DEF RuntimeInv, RuntimeTypeOK, PermitsConserved
<1> QED
  BY <1>1, RuntimeInvHolds, PTL

\* No number of tool calls takes what a call's tools return past the budget.
THEOREM BudgetAlwaysBound == Spec => []BudgetBound
<1>1. RuntimeInv => BudgetBound
  BY DEF RuntimeInv
<1> QED
  BY <1>1, RuntimeInvHolds, PTL

-----------------------------------------------------------------------------
(* The queue of the semaphore, and the pool it implements.                 *)

\* The waiters are exactly the tasks that wait, each once.
QueueInv ==
    /\ waiters \in Seq(Calls)
    /\ \A i \in 1..Len(waiters) : at[waiters[i]] = "waiting"
    /\ \A c \in Calls : at[c] = "waiting" => Contains(waiters, c)
    /\ \A i, j \in 1..Len(waiters) : waiters[i] = waiters[j] => i = j

\* A task that does not wait before the step, nor after it.
LEMMA QueueUntouched ==
    ASSUME RuntimeTypeOK, QueueInv, NEW c \in Calls, at[c] # "waiting",
           NEW v \in Places \ {"waiting"}, at' = [at EXCEPT ![c] = v],
           UNCHANGED waiters
    PROVE  QueueInv'
<1>1. \A d \in Calls : at'[d] = IF d = c THEN v ELSE at[d]
  BY DEF RuntimeTypeOK
<1>2. \A i \in 1..Len(waiters) : waiters[i] \in Calls /\ waiters[i] # c
  BY DEF QueueInv
<1> QED
  BY <1>1, <1>2 DEF QueueInv, Contains

LEMMA QueueAsked ==
    ASSUME RuntimeTypeOK, QueueInv, NEW c \in Calls, at[c] # "waiting",
           at' = [at EXCEPT ![c] = "waiting"], waiters' = Append(waiters, c)
    PROVE  QueueInv'
<1>1. \A d \in Calls : at'[d] = IF d = c THEN "waiting" ELSE at[d]
  BY DEF RuntimeTypeOK
<1>2. waiters \in Seq(Calls) /\ Len(waiters) \in Nat
  BY DEF QueueInv
<1>3. /\ waiters' \in Seq(Calls) /\ Len(waiters') = Len(waiters) + 1
      /\ waiters'[Len(waiters) + 1] = c
      /\ \A i \in 1..Len(waiters) : waiters'[i] = waiters[i]
  BY <1>2, AppendProperties
<1>4. \A i \in 1..Len(waiters) : waiters[i] \in Calls /\ waiters[i] # c
  BY DEF QueueInv
<1>5. \A i \in 1..Len(waiters') : at'[waiters'[i]] = "waiting"
  BY <1>1, <1>2, <1>3, <1>4 DEF QueueInv
<1>6. \A d \in Calls : at'[d] = "waiting" => Contains(waiters', d)
  <2> SUFFICES ASSUME NEW d \in Calls, at'[d] = "waiting" PROVE Contains(waiters', d)
    OBVIOUS
  <2>1. CASE d = c
    BY <2>1, <1>2, <1>3 DEF Contains
  <2>2. CASE d # c
    <3>1. PICK i \in 1..Len(waiters) : waiters[i] = d
      BY <1>1, <2>2 DEF QueueInv, Contains
    <3>2. i \in 1..Len(waiters') /\ waiters'[i] = d
      BY <1>2, <1>3, <3>1
    <3> QED
      BY <3>2 DEF Contains
  <2> QED
    BY <2>1, <2>2
<1>7. \A i, j \in 1..Len(waiters') : waiters'[i] = waiters'[j] => i = j
  BY <1>2, <1>3, <1>4 DEF QueueInv
<1> QED
  BY <1>3, <1>5, <1>6, <1>7 DEF QueueInv

\* The first waiter goes in.
LEMMA QueueServed ==
    ASSUME RuntimeTypeOK, QueueInv, NEW c \in Calls, waiters # <<>>,
           Head(waiters) = c, at' = [at EXCEPT ![c] = "opening"],
           waiters' = Tail(waiters)
    PROVE  QueueInv'
<1>1. \A d \in Calls : at'[d] = IF d = c THEN "opening" ELSE at[d]
  BY DEF RuntimeTypeOK
<1>2. waiters \in Seq(Calls) /\ Len(waiters) \in Nat \ {0} /\ waiters[1] = c
  BY EmptySeq DEF QueueInv
<1>3. /\ waiters' \in Seq(Calls) /\ Len(waiters') = Len(waiters) - 1
      /\ \A i \in 1..(Len(waiters) - 1) : waiters'[i] = waiters[i + 1]
  BY <1>2, HeadTailProperties
<1>4. \A i \in 1..Len(waiters') :
        /\ i + 1 \in 1..Len(waiters) /\ waiters'[i] = waiters[i + 1]
        /\ waiters'[i] \in Calls /\ waiters'[i] # c
  BY <1>2, <1>3 DEF QueueInv
<1>5. \A i \in 1..Len(waiters') : at'[waiters'[i]] = "waiting"
  BY <1>1, <1>4 DEF QueueInv
<1>6. ASSUME NEW d \in Calls, at'[d] = "waiting"
      PROVE  Contains(waiters', d)
  <2>1. PICK i \in 1..Len(waiters) : waiters[i] = d
    BY <1>1, <1>6 DEF QueueInv, Contains
  <2>2. d # c
    BY <1>1, <1>6
  <2>3. i - 1 \in 1..Len(waiters') /\ waiters'[i - 1] = d
    BY <1>2, <1>3, <2>1, <2>2
  <2> QED
    BY <2>3 DEF Contains
<1>7. \A i, j \in 1..Len(waiters') : waiters'[i] = waiters'[j] => i = j
  BY <1>2, <1>3, <1>4 DEF QueueInv
<1> QED
  BY <1>3, <1>5, <1>6, <1>7 DEF QueueInv

\* A waiter is cancelled.
LEMMA QueueLeft ==
    ASSUME RuntimeTypeOK, QueueInv, NEW c \in Calls, at[c] = "waiting",
           at' = [at EXCEPT ![c] = "ended"],
           waiters' = RemoveFirst(waiters, c)
    PROVE  QueueInv' /\ Contains(waiters, c)
<1>1. \A d \in Calls : at'[d] = IF d = c THEN "ended" ELSE at[d]
  BY DEF RuntimeTypeOK
<1>2. waiters \in Seq(Calls) /\ Len(waiters) \in Nat /\ Contains(waiters, c)
  BY DEF QueueInv
<1>3. PICK k \in 1..Len(waiters) :
        /\ waiters[k] = c
        /\ \A i \in 1..(Len(waiters) - 1) :
             waiters'[i] = IF i < k THEN waiters[i] ELSE waiters[i + 1]
  BY <1>2, RemoveFirstProperties
<1>4. waiters' \in Seq(Calls) /\ Len(waiters') = Len(waiters) - 1
  BY <1>2, RemoveFirstProperties
<1> DEFINE old(i) == IF i < k THEN i ELSE i + 1
<1>5. \A i \in 1..Len(waiters') :
        /\ old(i) \in 1..Len(waiters) /\ old(i) # k
        /\ waiters'[i] = waiters[old(i)]
  BY <1>2, <1>3, <1>4
<1>6. \A i \in 1..Len(waiters') : waiters'[i] \in Calls /\ waiters'[i] # c
  BY <1>3, <1>5 DEF QueueInv
<1>7. \A i \in 1..Len(waiters') : at'[waiters'[i]] = "waiting"
  BY <1>1, <1>5, <1>6 DEF QueueInv
<1>8. ASSUME NEW d \in Calls, at'[d] = "waiting"
      PROVE  Contains(waiters', d)
  <2>1. d # c /\ at[d] = "waiting"
    BY <1>1, <1>8
  <2>2. PICK i \in 1..Len(waiters) : waiters[i] = d
    BY <2>1 DEF QueueInv, Contains
  <2>3. i # k
    BY <1>3, <2>1, <2>2
  <2>4. CASE i < k
    <3>1. i \in 1..Len(waiters') /\ waiters'[i] = d
      BY <1>2, <1>3, <1>4, <2>2, <2>4
    <3> QED
      BY <3>1 DEF Contains
  <2>5. CASE ~(i < k)
    <3>1. i - 1 \in 1..Len(waiters') /\ ~(i - 1 < k) /\ (i - 1) + 1 = i
      BY <1>2, <1>3, <1>4, <2>3, <2>5
    <3>2. waiters'[i - 1] = d
      BY <1>3, <1>4, <2>2, <3>1
    <3> QED
      BY <3>1, <3>2 DEF Contains
  <2> QED
    BY <2>4, <2>5
<1>9. ASSUME NEW i \in 1..Len(waiters'), NEW j \in 1..Len(waiters'),
             waiters'[i] = waiters'[j]
      PROVE  i = j
  <2>1. old(i) = old(j)
    BY <1>5, <1>9 DEF QueueInv
  <2> QED
    BY <2>1, <1>3, <1>4, <1>2
<1> QED
  BY <1>2, <1>4, <1>7, <1>8, <1>9 DEF QueueInv


\* What a step of the runtime does to the queue and to the open sessions: it
\* leaves the queue alone and opens no session, or someone asks, is served, or
\* gives up.
Stays(c) ==
    /\ at[c] # "waiting"
    /\ UNCHANGED waiters
    /\ \E v \in {"idle", "asked", "closing", "leaving", "ended"} :
         /\ v \in SessionPlaces => c \in Open
         /\ at' = [at EXCEPT ![c] = v]
Asks(c) ==
    /\ at[c] # "waiting" /\ c \notin Open
    /\ at' = [at EXCEPT ![c] = "waiting"]
    /\ waiters' = Append(waiters, c)
Enters(c) ==
    /\ waiters # <<>> /\ Head(waiters) = c /\ permits > 0
    /\ at' = [at EXCEPT ![c] = "opening"]
    /\ waiters' = Tail(waiters)
GivesUp(c) ==
    /\ at[c] = "waiting"
    /\ at' = [at EXCEPT ![c] = "ended"]
    /\ waiters' = RemoveFirst(waiters, c)

LEMMA RuntimeMoves ==
    ASSUME RuntimeTypeOK, RuntimeNext
    PROVE  \/ UNCHANGED <<at, waiters>>
           \/ \E c \in Calls : Stays(c) \/ Asks(c) \/ Enters(c) \/ GivesUp(c)
<1>1. PICK c \in Calls :
        \/ Session(c)
        \/ \E tooled, summarise \in BOOLEAN : Call(c, tooled, summarise)
        \/ Cancel(c)
        \/ Return(c)
  BY DEF RuntimeNext
<1>2. ASSUME c \in Open, \E out : Leave(c, out) \/ Closes(c, out) PROVE Stays(c)
  BY <1>2 DEF Leave, Closes, Stays, Open, SessionPlaces
<1>0. c \in InTurn \/ at[c] \in {"opening", "leaving"} => c \in Open
  BY DEF InTurn, Open, SessionPlaces
<1>3. CASE Session(c)
  <2>1. CASE Acquire(c)
    BY <2>1 DEF Acquire, Enters
  <2>2. CASE \E text \in BOOLEAN, uses \in 0..MaxUses : AssistantMessage(c, text, uses)
    BY <2>2 DEF AssistantMessage
  <2>3. CASE \E size \in Sizes : ToolReturns(c, size)
    BY <2>3 DEF ToolReturns
  <2>4. ASSUME NEW m \in Results, TurnEnds(c, m)
        PROVE  Stays(c)
    <3>1. c \in Open
      BY <2>4, <1>0 DEF TurnEnds
    <3>2. CASE \E out : Closes(c, out)
      BY <3>1, <3>2, <1>2
    <3>3. CASE /\ at' = [at EXCEPT ![c] = "closing"]
               /\ UNCHANGED <<permits, waiters>>
      BY <3>1, <3>3 DEF Stays, Open, SessionPlaces
    <3> QED
      BY <2>4, <3>2, <3>3 DEF TurnEnds
  <2>5. CASE SessionFails(c)
    BY <2>5, <1>0, <1>2 DEF SessionFails
  <2>6. CASE IdleTimesOut(c)
    BY <2>6, <1>0, <1>2 DEF IdleTimesOut
  <2>7. CASE Opens(c)
    BY <2>7, <1>0 DEF Opens, Stays
  <2>8. CASE Left(c)
    BY <2>8, <1>0, <1>2 DEF Left
  <2> QED
    BY <1>3, <2>1, <2>2, <2>3, <2>4, <2>5, <2>6, <2>7, <2>8 DEF Session
<1>4. CASE \E tooled, summarise \in BOOLEAN : Call(c, tooled, summarise)
  BY <1>4 DEF Call, Asks, Open, SessionPlaces
<1>5. CASE Cancel(c)
  BY <1>5, <1>0, <1>2 DEF Cancel, GivesUp
<1>6. CASE Return(c)
  BY <1>6 DEF Return, Stays, SessionPlaces
<1> QED
  BY <1>1, <1>3, <1>4, <1>5, <1>6

LEMMA QueueStep ==
    ASSUME RuntimeTypeOK, QueueInv, [RuntimeNext]_rvars
    PROVE  QueueInv'
<1>1. CASE UNCHANGED <<at, waiters>>
  BY <1>1 DEF QueueInv, Contains
<1>2. ASSUME NEW c \in Calls, Stays(c) PROVE QueueInv'
  <2>1. PICK v \in {"idle", "asked", "closing", "leaving", "ended"} :
          at' = [at EXCEPT ![c] = v]
    BY <1>2 DEF Stays
  <2> QED
    BY <1>2, <2>1, QueueUntouched DEF Stays, Places, SessionPlaces
<1>3. ASSUME NEW c \in Calls, Asks(c) PROVE QueueInv'
  BY <1>3, QueueAsked DEF Asks
<1>4. ASSUME NEW c \in Calls, Enters(c) PROVE QueueInv'
  BY <1>4, QueueServed DEF Enters
<1>5. ASSUME NEW c \in Calls, GivesUp(c) PROVE QueueInv'
  BY <1>5, QueueLeft DEF GivesUp
<1> QED
  BY <1>1, <1>2, <1>3, <1>4, <1>5, RuntimeMoves DEF rvars

\* The pool means the same by the library's operators.
LEMMA PoolOperators ==
    /\ \A s, c : Pool!Contains(s, c) <=> Contains(s, c)
    /\ \A s, c : Pool!RemoveFirst(s, c) = RemoveFirst(s, c)
    /\ \A S : Pool!Cardinality(S) = Cardinality(S)
<1>1. \A s, c : Pool!Contains(s, c) <=> Contains(s, c)
  BY DEF Pool!Contains, Contains
<1>2. \A s, c : Pool!RemoveFirst(s, c) = RemoveFirst(s, c)
  BY DEF Pool!RemoveFirst, RemoveFirst, Pool!RemoveAt, RemoveAt,
         Pool!SelectInSeq, SelectInSeq, Pool!Min, Min
<1>3. \A S : Pool!Cardinality(S) = Cardinality(S)
  BY DEF Pool!Cardinality, Cardinality
<1> QED
  BY <1>1, <1>2, <1>3

\* Every step of the runtime is a step of the pool or none.
LEMMA PoolStep ==
    ASSUME RuntimeInv, QueueInv, [RuntimeNext]_rvars
    PROVE  [Pool!Next]_<<waiters, Open>>
<1>a. RuntimeTypeOK /\ at \in [Calls -> Places]
  BY DEF RuntimeInv, RuntimeTypeOK
<1>b. waiters \in Seq(Calls)
  BY DEF QueueInv
<1>1. CASE UNCHANGED <<at, waiters>>
  BY <1>1 DEF Open
<1>2. ASSUME NEW c \in Calls, Stays(c) PROVE [Pool!Next]_<<waiters, Open>>
  <2>1. PICK v \in {"idle", "asked", "closing", "leaving", "ended"} :
          at' = [at EXCEPT ![c] = v] /\ (v \in SessionPlaces => c \in Open)
    BY <1>2 DEF Stays
  <2>2. CASE c \in Open /\ v \notin SessionPlaces
    <3>1. Open' = Open \ {c}
      BY <1>a, <2>1, <2>2 DEF Open
    <3> QED
      BY <1>2, <2>2, <3>1 DEF Stays, Pool!Next, Pool!Through
  <2>3. CASE ~(c \in Open /\ v \notin SessionPlaces)
    <3>1. Open' = Open
      BY <1>a, <2>1, <2>3 DEF Open
    <3> QED
      BY <1>2, <3>1 DEF Stays
  <2> QED
    BY <2>2, <2>3
<1>3. ASSUME NEW c \in Calls, Asks(c) PROVE Pool!Next
  <2>1. Open' = Open
    BY <1>3, <1>a, OpenSame DEF Asks, SessionPlaces
  <2>2. ~Contains(waiters, c)
    BY <1>3 DEF Asks, QueueInv, Contains
  <2> QED
    BY <1>3, <2>1, <2>2, PoolOperators DEF Asks, Pool!Next, Pool!Ask, Pool!Queued
<1>4. ASSUME NEW c \in Calls, Enters(c) PROVE Pool!Next
  <2>1. Open' = Open \cup {c}
    BY <1>4, <1>a DEF Enters, Open, SessionPlaces
  <2>2. Cardinality(Open) < Cap
    BY <1>4, OpenFinite, CapType
       DEF Enters, RuntimeInv, RuntimeTypeOK, PermitsConserved
  <2> QED
    BY <1>4, <2>1, <2>2, PoolOperators DEF Enters, Pool!Next, Pool!Serve
<1>5. ASSUME NEW c \in Calls, GivesUp(c) PROVE Pool!Next
  <2>1. Open' = Open
    BY <1>5, <1>a, OpenSame DEF GivesUp, Open, SessionPlaces
  <2>2. Contains(waiters, c)
    BY <1>5 DEF GivesUp, QueueInv
  <2> QED
    BY <1>5, <2>1, <2>2, PoolOperators DEF GivesUp, Pool!Next, Pool!GiveUp, Pool!Queued
<1> QED
  BY <1>a, <1>1, <1>2, <1>3, <1>4, <1>5, RuntimeMoves DEF rvars

\* Whoever calls, and however calls end, the runtime serves its callers as the
\* pool does: at most Cap at a time and in the order they asked.  (That each
\* is served in the end is the part of ServedInTurn left to model checking.)
THEOREM PoolRefined == Spec => Pool!Init /\ [][Pool!Next]_<<waiters, Open>>
<1>1. Init => QueueInv /\ Pool!Init
  <2> SUFFICES ASSUME Init PROVE QueueInv /\ Pool!Init
    OBVIOUS
  <2>1. waiters = <<>> /\ \A c \in Calls : at[c] = "idle"
    BY DEF Init, RuntimeInit
  <2>2. Open = {}
    BY <2>1 DEF Open, SessionPlaces
  <2> QED
    BY <2>1, <2>2 DEF QueueInv, Pool!Init
<1>2. RuntimeInv /\ QueueInv /\ [Next]_vars => QueueInv' /\ [Pool!Next]_<<waiters, Open>>
  BY ComposedStep, QueueStep, PoolStep DEF RuntimeInv
<1> QED
  BY <1>1, <1>2, RuntimeInvHolds, PTL DEF Spec

-----------------------------------------------------------------------------
(* What the callers make of the answers.                                   *)

\* While an investigation is under way there is none yet, and what is sent to
\* the extraction came from a run that finished.
Founded(j, i, e) ==
    /\ j # "done" => i = NoInvestigation
    /\ j = "extract" => e = "finished"
    /\ i # NoInvestigation =>
         e = "finished" /\ (i.confidence \in {"medium", "high"} => i.parsed)

FoundedInv ==
    /\ job \in [Scans -> Jobs]
    /\ inv \in [Scans -> Investigations]
    /\ ended \in [Scans -> {"none", "raised", "finished"}]
    /\ \A s \in Scans : Founded(job[s], inv[s], ended[s])

Moves(s, j, i, e) ==
    /\ job' = [job EXCEPT ![s] = j]
    /\ inv' = [inv EXCEPT ![s] = i]
    /\ ended' = [ended EXCEPT ![s] = e]

\* It is enough to look at the scan that takes the step.
LEMMA FoundedStep ==
    ASSUME FoundedInv, NEW s \in Scans,
           NEW j \in Jobs, NEW i \in Investigations,
           NEW e \in {"none", "raised", "finished"},
           Moves(s, j, i, e), Founded(j, i, e)
    PROVE  FoundedInv'
<1> USE DEF Moves
<1>1. /\ job' \in [Scans -> Jobs]
      /\ inv' \in [Scans -> Investigations]
      /\ ended' \in [Scans -> {"none", "raised", "finished"}]
  BY DEF FoundedInv
<1>2. ASSUME NEW t \in Scans
      PROVE  Founded(job'[t], inv'[t], ended'[t])
  <2>1. CASE t = s
    <3>1. job'[t] = j /\ inv'[t] = i /\ ended'[t] = e
      BY <2>1 DEF FoundedInv
    <3> QED
      BY <3>1
  <2>2. CASE t # s
    <3>1. job'[t] = job[t] /\ inv'[t] = inv[t] /\ ended'[t] = ended[t]
      BY <2>2 DEF FoundedInv
    <3> QED
      BY <3>1 DEF FoundedInv
  <2> QED
    BY <2>1, <2>2
<1> QED
  BY <1>1, <1>2 DEF FoundedInv

LEMMA InvestigationValues ==
    /\ NoInvestigation \in Investigations /\ Unextracted \in Investigations
    /\ \A c \in {"low", "medium", "high"} :
         /\ Extracted(c) \in Investigations
         /\ Extracted(c).parsed
    /\ ~(Unextracted.confidence \in {"medium", "high"})
  BY DEF NoInvestigation, Unextracted, Extracted, Investigations

\* Every step of a scan keeps it.
LEMMA ReasonFounded ==
    ASSUME FoundedInv, NEW s \in Scans, Reason(s)
    PROVE  FoundedInv'
<1> USE InvestigationValues
<1>0. /\ inv = [inv EXCEPT ![s] = inv[s]] /\ ended = [ended EXCEPT ![s] = ended[s]]
      /\ job[s] \in Jobs /\ inv[s] \in Investigations
      /\ ended[s] \in {"none", "raised", "finished"}
      /\ Founded(job[s], inv[s], ended[s])
  BY DEF FoundedInv
<1>10. ASSUME NEW j \in Jobs, job[s] # "done", j # "extract",
             job' = [job EXCEPT ![s] = j], UNCHANGED <<inv, ended>>
      PROVE  FoundedInv'
  <2>1. Founded(j, inv[s], ended[s])
    BY <1>10, <1>0 DEF Founded
  <2>2. Moves(s, j, inv[s], ended[s])
    BY <1>10, <1>0 DEF Moves
  <2> QED
    BY <1>0, FoundedStep, <2>1, <2>2
<1>11. ASSUME NEW j \in Jobs, j # "extract", Moves(s, j, NoInvestigation, "none")
      PROVE  FoundedInv'
  <2>1. Founded(j, NoInvestigation, "none")
    BY <1>11 DEF Founded
  <2> QED
    BY <1>11, <2>1, FoundedStep
<1>1. CASE StartTriage(s)
  BY <1>1, <1>10 DEF StartTriage, Jobs
<1>2. CASE TriageEnds(s)
  <2>1. PICK j \in {"off", "triaged"} : job' = [job EXCEPT ![s] = j]
    BY <1>2 DEF TriageEnds
  <2>2. job[s] = "triage" /\ UNCHANGED <<inv, ended>>
    BY <1>2 DEF TriageEnds
  <2> QED
    BY <2>1, <2>2, <1>10 DEF Jobs
<1>3. CASE Investigate(s)
  <2>1. Moves(s, "loop", NoInvestigation, "none")
    BY <1>3 DEF Investigate, Moves
  <2> QED
    BY <2>1, <1>11 DEF Jobs
<1>4. CASE LoopEnds(s)
  <2>1. job[s] = "loop" /\ UNCHANGED inv
    BY <1>4 DEF LoopEnds
  <2>2. inv[s] = NoInvestigation
    BY <2>1, <1>0 DEF Founded
  <2> DEFINE e == IF run[s].out = "raised" THEN "raised" ELSE "finished"
  <2>3. ended' = [ended EXCEPT ![s] = e]
    BY <1>4 DEF LoopEnds
  <2>4. CASE LoopResult(s) = NoLoop
    <3>1. Moves(s, "done", NoInvestigation, e)
      BY <1>4, <1>0, <2>1, <2>2, <2>3, <2>4 DEF LoopEnds, Moves
    <3>2. Founded("done", NoInvestigation, e) /\ "done" \in Jobs
          /\ e \in {"none", "raised", "finished"}
      BY DEF Founded, Jobs
    <3> HIDE DEF e
    <3> QED
      BY <3>1, <3>2, FoundedStep
  <2>5. CASE LoopResult(s) # NoLoop
    <3>1. e = "finished"
      BY <2>5 DEF LoopResult
    <3>2. Moves(s, "extract", NoInvestigation, "finished")
      BY <1>4, <1>0, <2>1, <2>2, <2>3, <2>5, <3>1 DEF LoopEnds, Moves
    <3>3. Founded("extract", NoInvestigation, "finished") /\ "extract" \in Jobs
      BY DEF Founded, Jobs
    <3> QED
      BY <3>2, <3>3, FoundedStep
  <2> QED
    BY <2>4, <2>5
<1>5. CASE ExtractionEnds(s)
  <2>1. /\ job[s] = "extract" /\ UNCHANGED ended
        /\ job' = [job EXCEPT ![s] = "done"]
    BY <1>5 DEF ExtractionEnds
  <2>2. ended[s] = "finished"
    BY <2>1, <1>0 DEF Founded
  <2>3. PICK i \in {Unextracted} \cup {Extracted(c) : c \in {"low", "medium", "high"}} :
          inv' = [inv EXCEPT ![s] = i]
    BY <1>5 DEF ExtractionEnds
  <2>4. Moves(s, "done", i, "finished")
    BY <1>0, <2>1, <2>2, <2>3 DEF Moves
  <2>5. i \in Investigations /\ Founded("done", i, "finished") /\ "done" \in Jobs
    BY <2>3 DEF Founded, Jobs
  <2> QED
    BY <2>4, <2>5, FoundedStep
<1>6. CASE Store(s)
  <2>1. Moves(s, "off", NoInvestigation, "none")
    BY <1>6 DEF Store, Moves
  <2> QED
    BY <2>1, <1>11 DEF Jobs
<1>7. CASE StopScan(s)
  BY <1>7 DEF StopScan, reasoningVars, FoundedInv
<1>8. CASE Stopped(s)
  <2>1. inv[s] = NoInvestigation
    BY <1>8, <1>0 DEF Stopped, Founded
  <2>2. Moves(s, "off", NoInvestigation, "none")
    BY <1>8, <1>0, <2>1 DEF Stopped, Moves
  <2> QED
    BY <2>2, <1>11 DEF Jobs
<1> QED
  BY <1>1, <1>2, <1>3, <1>4, <1>5, <1>6, <1>7, <1>8 DEF Reason

LEMMA FoundedInvHolds == Spec => []FoundedInv
<1>1. Init => FoundedInv
  BY InvestigationValues DEF Init, ReasoningInit, FoundedInv, Founded, Jobs
<1>2. FoundedInv /\ [Next]_vars => FoundedInv'
  <2> SUFFICES ASSUME FoundedInv, [Next]_vars PROVE FoundedInv'
    OBVIOUS
  <2>1. ASSUME NEW s \in Scans, Reasons(s) PROVE FoundedInv'
    BY <2>1, ReasonFounded DEF Reasons
  <2>2. CASE UNCHANGED reasoningVars
    BY <2>2 DEF reasoningVars, FoundedInv
  <2> QED
    BY <2>1, <2>2 DEF Next, Sessions, Serves, vars
<1> QED
  BY <1>1, <1>2, PTL DEF Spec

\* Every investigation comes from a run that finished, and one whose structure
\* was not parsed is of low confidence.
THEOREM AlwaysFounded == Spec => []InvestigationIsFounded
<1>1. FoundedInv => InvestigationIsFounded
  BY DEF FoundedInv, Founded, InvestigationIsFounded
<1> QED
  BY <1>1, FoundedInvHolds, PTL

\* One triage decision, said of any, and what it is made of.
OpenTriage(t) ==
    LET Spoken == {i \in Findings : i <= Len(t.answer)}
        Kept == t.to_investigate \cup t.dismissed
    IN  /\ Kept \subseteq Findings
        /\ t.how \in {"none", "failed", "unparsed", "answered"}
        /\ t.how \in {"failed", "unparsed"} =>
             t.to_investigate = Findings /\ t.dismissed = {}
        /\ t.how = "answered" =>
             /\ t.dismissed = {i \in Spoken : t.answer[i].action = "DISMISS"}
             /\ t.to_investigate \cap t.dismissed = {}
             /\ \A i \in Spoken :
                  \/ i \in Kept
                  \/ \E g \in t.groups : i \in g.related /\ g.primary \in Kept

\* The loop over the items covers every finding they speak of, whatever they
\* are and however their groups point at each other.
LEMMA ClassifyOpen ==
    ASSUME NEW answer
    PROVE  OpenTriage(Classify(answer))
<1> DEFINE I == {i \in Findings : i <= Len(answer)}
           Grouped == {i \in I : answer[i].action = "CORRELATE"
                                 /\ answer[i].group \in Findings}
           Dismissed == {i \in I : answer[i].action = "DISMISS"}
           Primaries == {answer[i].group : i \in Grouped}
           Related(g) == {i \in Grouped : answer[i].group = g} \ {g}
           t == Classify(answer)
<1>1. /\ t.to_investigate = (I \ (Grouped \cup Dismissed)) \cup (Primaries \ Dismissed)
      /\ t.dismissed = Dismissed
      /\ t.groups = {[primary |-> g, related |-> Related(g)] : g \in Primaries}
      /\ t.answer = answer /\ t.how = "answered"
  BY DEF Classify
<1>2. t.to_investigate \cap t.dismissed = {}
  BY <1>1
<1>3. ASSUME NEW i \in I
      PROVE  \/ i \in t.to_investigate \cup t.dismissed
             \/ \E g \in t.groups : /\ i \in g.related
                                    /\ g.primary \in t.to_investigate \cup t.dismissed
  <2>1. CASE i \notin Grouped
    BY <1>1, <2>1
  <2>2. CASE i \in Grouped /\ answer[i].group = i
    BY <1>1, <2>2
  <2>3. CASE i \in Grouped /\ answer[i].group # i
    <3> DEFINE p == answer[i].group
               g == [primary |-> p, related |-> Related(p)]
    <3>1. g \in t.groups /\ p \in Primaries
      BY <1>1, <2>3
    <3>2. i \in g.related /\ g.primary = p
      BY <2>3
    <3>3. p \in t.to_investigate \cup t.dismissed
      BY <1>1, <3>1
    <3> QED
      BY <3>1, <3>2, <3>3
  <2> QED
    BY <2>1, <2>2, <2>3
<1>4. {i \in Findings : i <= Len(t.answer)} = I
  BY <1>1
<1>5. t.dismissed = {i \in I : t.answer[i].action = "DISMISS"}
  BY <1>1
<1>6. t.how = "answered" /\ t.to_investigate \cup t.dismissed \subseteq Findings
  BY <1>1
<1>7. OpenTriage(t)
  <2> HIDE DEF t, I
  <2> QED
    BY <1>2, <1>3, <1>4, <1>5, <1>6 DEF OpenTriage
<1> QED
  BY <1>7

\* Every decision a triage leaves is one of these.
TriageInv ==
    /\ triage = [s \in Scans |-> triage[s]]
    /\ \A s \in Scans : OpenTriage(triage[s])

LEMMA OtherTriages ==
    /\ OpenTriage(Untriaged)
    /\ \A how \in {"failed", "unparsed"} : OpenTriage(AllIn(how))
  BY DEF OpenTriage, Untriaged, AllIn

LEMMA TriageStep ==
    ASSUME TriageInv, NEW s \in Scans, NEW t, OpenTriage(t),
           triage' = [triage EXCEPT ![s] = t]
    PROVE  TriageInv'
<1>1. triage' = [r \in Scans |-> triage'[r]]
  BY DEF TriageInv
<1>2. ASSUME NEW r \in Scans
      PROVE  OpenTriage(triage'[r])
  <2>1. triage'[r] = IF r = s THEN t ELSE triage[r]
    BY DEF TriageInv
  <2> QED
    BY <2>1 DEF TriageInv
<1> QED
  BY <1>1, <1>2 DEF TriageInv

LEMMA ReasonOpen ==
    ASSUME TriageInv, NEW s \in Scans, Reason(s)
    PROVE  TriageInv'
<1>1. CASE UNCHANGED triage
  BY <1>1 DEF TriageInv
<1>2. CASE triage' = [triage EXCEPT ![s] = Untriaged]
  BY <1>2, OtherTriages, TriageStep
<1>3. CASE TriageEnds(s)
  <2>1. CASE triage' = [triage EXCEPT ![s] = AllIn("failed")]
    BY <2>1, OtherTriages, TriageStep
  <2>2. CASE triage' = [triage EXCEPT ![s] = AllIn("unparsed")]
    BY <2>2, OtherTriages, TriageStep
  <2>3. ASSUME NEW answer, triage' = [triage EXCEPT ![s] = Classify(answer)]
        PROVE  TriageInv'
    <3>1. OpenTriage(Classify(answer))
      BY ClassifyOpen
    <3> QED
      BY <2>3, <3>1, TriageStep
  <2>4. \/ triage' = [triage EXCEPT ![s] = AllIn("failed")]
        \/ triage' = [triage EXCEPT ![s] = AllIn("unparsed")]
        \/ UNCHANGED triage
        \/ \E answer \in Answers :
             triage' = [triage EXCEPT ![s] = Classify(answer)]
    BY <1>3 DEF TriageEnds
  <2> QED
    BY <1>1, <2>1, <2>2, <2>3, <2>4
<1>4. UNCHANGED triage \/ triage' = [triage EXCEPT ![s] = Untriaged] \/ TriageEnds(s)
  BY DEF Reason, StartTriage, Investigate, LoopEnds, ExtractionEnds,
         Store, StopScan, Stopped, reasoningVars
<1> QED
  BY <1>1, <1>2, <1>3, <1>4

LEMMA TriageInvHolds == Spec => []TriageInv
<1>1. Init => TriageInv
  BY OtherTriages DEF Init, ReasoningInit, TriageInv
<1>2. TriageInv /\ [Next]_vars => TriageInv'
  <2> SUFFICES ASSUME TriageInv, [Next]_vars PROVE TriageInv'
    OBVIOUS
  <2>1. ASSUME NEW s \in Scans, Reasons(s) PROVE TriageInv'
    BY <2>1, ReasonOpen DEF Reasons
  <2>2. CASE UNCHANGED reasoningVars
    BY <2>2 DEF reasoningVars, TriageInv
  <2> QED
    BY <2>1, <2>2 DEF Next, Sessions, Serves, vars
<1> QED
  BY <1>1, <1>2, PTL DEF Spec

\* No finding is lost to a triage that failed, could not be read, or answered
\* with groups that point at each other.
THEOREM TriageAlwaysFailsOpen == Spec => []TriageFailsOpen
<1>1. TriageInv => TriageFailsOpen
  BY DEF TriageInv, TriageFailsOpen, OpenTriage
<1> QED
  BY <1>1, TriageInvHolds, PTL

-----------------------------------------------------------------------------
(* The transcripts.                                                        *)

USE ChatAssumption

\* A transcript holds exchanges that were told, each once and in order.
Sound(s, exchanges) ==
    /\ s \in Seq(exchanges)
    /\ \A i, j \in 1..Len(s) : i < j => s[i] < s[j]
Avoids(s, e) == \A i \in 1..Len(s) : s[i] # e

\* Requests under way have numbers of their own, which no transcript but
\* their own holds.
SoundInv ==
    /\ ChatTypeOK
    /\ told \subseteq 1..asked
    /\ Sound(session, told)
    /\ \A q \in Requests :
         /\ Sound(transcript[q], told)
         /\ req[q] # "off" =>
              /\ nr[q] \in 1..asked
              /\ Avoids(session, nr[q])
              /\ \A p \in Requests \ {q} :
                   /\ Avoids(transcript[p], nr[q])
                   /\ req[p] # "off" => nr[p] # nr[q]
         /\ req[q] \in {"streaming", "left"} =>
              \A i \in 1..Len(transcript[q]) : transcript[q][i] < nr[q]

HistoryType ==
    /\ since \in [Requests -> SUBSET Exchanges]
    /\ overtaken \subseteq Exchanges /\ unsaved \subseteq Exchanges

LEMMA EmptySound == \A S : Sound(<<>>, S)
  BY DEF Sound

LEMMA EmptyAvoids == \A e : Avoids(<<>>, e)
  BY DEF Avoids

\* What a sequence of exchanges is sound for, when more or fewer are told.
LEMMA SoundSuperset ==
    ASSUME NEW S, NEW T, S \subseteq T, NEW s, Sound(s, S)
    PROVE  Sound(s, T)
  BY SeqMonotonic DEF Sound

LEMMA SoundWithout ==
    ASSUME NEW S, NEW s, NEW e, Sound(s, S), Avoids(s, e)
    PROVE  Sound(s, S \ {e})
<1>1. s \in [1..Len(s) -> S] /\ Len(s) \in Nat
  BY LenProperties DEF Sound
<1>2. s \in [1..Len(s) -> S \ {e}]
  BY <1>1 DEF Avoids
<1>3. s \in Seq(S \ {e})
  BY <1>1, <1>2, SeqDef
<1> QED
  BY <1>3 DEF Sound

\* An exchange later than all in the transcript goes to its end.
LEMMA SoundAppend ==
    ASSUME NEW S, NEW s, Sound(s, S), NEW e, S \subseteq Int, e \in Int,
           \A i \in 1..Len(s) : s[i] < e
    PROVE  /\ Sound(Append(s, e), S \cup {e})
           /\ \A d : d # e /\ Avoids(s, d) => Avoids(Append(s, e), d)
<1>1. s \in Seq(S \cup {e}) /\ Len(s) \in Nat
  BY SeqMonotonic, LenProperties DEF Sound
<1>2. /\ Append(s, e) \in Seq(S \cup {e})
      /\ Len(Append(s, e)) = Len(s) + 1
      /\ \A i \in 1..Len(s) : Append(s, e)[i] = s[i]
      /\ Append(s, e)[Len(s) + 1] = e
  BY <1>1, AppendProperties
<1>3. ASSUME NEW i \in 1..(Len(s) + 1), NEW j \in 1..(Len(s) + 1), i < j
      PROVE  Append(s, e)[i] < Append(s, e)[j]
  BY <1>1, <1>2, <1>3 DEF Sound
<1>4. ASSUME NEW d, d # e, Avoids(s, d)
      PROVE  Avoids(Append(s, e), d)
  BY <1>1, <1>2, <1>4 DEF Avoids
<1> QED
  BY <1>2, <1>3, <1>4 DEF Sound

LEMMA RequestSound ==
    ASSUME SoundInv, NEW q \in Requests, Request(q)
    PROVE  SoundInv'
<1> USE DEF SoundInv
<1>1. /\ req' = [req EXCEPT ![q] = "streaming"]
      /\ nr' = [nr EXCEPT ![q] = asked + 1]
      /\ transcript' = [transcript EXCEPT ![q] = session]
      /\ asked' = asked + 1 /\ asked < MaxExchanges
      /\ UNCHANGED <<session, told, since, overtaken, unsaved>>
      /\ req[q] = "off"
  BY DEF Request, Load
<1>2. \A p \in Requests :
        /\ req'[p] = IF p = q THEN "streaming" ELSE req[p]
        /\ nr'[p] = IF p = q THEN asked + 1 ELSE nr[p]
        /\ transcript'[p] = IF p = q THEN session ELSE transcript[p]
  BY <1>1 DEF ChatTypeOK
<1>3. asked \in Nat /\ MaxExchanges \in Nat /\ asked + 1 \in 1..MaxExchanges
  BY <1>1 DEF ChatTypeOK
<1>4. ChatTypeOK'
  BY <1>1, <1>3 DEF ChatTypeOK, Exchanges
<1>5. told' \subseteq 1..asked'
  BY <1>1, <1>3
<1>6. \A s : Sound(s, told) => /\ Avoids(s, asked + 1)
                               /\ \A i \in 1..Len(s) : s[i] < asked + 1
  <2> SUFFICES ASSUME NEW s, Sound(s, told), NEW i \in 1..Len(s)
               PROVE  s[i] < asked + 1 /\ s[i] # asked + 1
    BY DEF Avoids
  <2>1. s[i] \in told
    BY ElementOfSeq DEF Sound
  <2>2. s[i] \in 1..asked
    BY <2>1
  <2> HIDE DEF SoundInv
  <2> QED
    BY <2>2, <1>3
<1>7. ASSUME NEW p \in Requests
      PROVE  /\ Sound(transcript'[p], told')
             /\ req'[p] # "off" =>
                  /\ nr'[p] \in 1..asked'
                  /\ Avoids(session', nr'[p])
                  /\ \A r \in Requests \ {p} :
                       /\ Avoids(transcript'[r], nr'[p])
                       /\ req'[r] # "off" => nr'[r] # nr'[p]
             /\ req'[p] \in {"streaming", "left"} =>
                  \A i \in 1..Len(transcript'[p]) : transcript'[p][i] < nr'[p]
  <2>1. CASE p = q
    BY <1>1, <1>2, <1>3, <1>6, <2>1
  <2>2. CASE p # q
    BY <1>1, <1>2, <1>3, <1>6, <2>2
  <2> QED
    BY <2>1, <2>2
<1> QED
  BY <1>1, <1>4, <1>5, <1>7

\* A request that ends, with what it leaves in the session and among the told,
\* leaves the others as they are.
LEMMA ForgetSound ==
    ASSUME SoundInv, NEW q \in Requests, req[q] # "off", Forget(q),
           UNCHANGED asked, told' \subseteq 1..asked,
           told \ {nr[q]} \subseteq told', told' \subseteq Exchanges,
           Sound(session', told'), HistoryType',
           \A p \in Requests \ {q} : req[p] # "off" => Avoids(session', nr[p])
    PROVE  SoundInv'
<1> USE DEF SoundInv
<1>1. \A p \in Requests :
        /\ req'[p] = IF p = q THEN "off" ELSE req[p]
        /\ nr'[p] = IF p = q THEN 0 ELSE nr[p]
        /\ transcript'[p] = IF p = q THEN <<>> ELSE transcript[p]
  BY DEF Forget, ChatTypeOK
<1>2. session' \in Seq(Exchanges)
  BY SeqMonotonic DEF Sound
<1>3. /\ req' \in [Requests -> {"off", "streaming", "done", "left"}]
      /\ nr' \in [Requests -> 0..MaxExchanges]
  BY DEF Forget, ChatTypeOK
<1>4. transcript' \in [Requests -> Seq(Exchanges)]
  BY DEF Forget, ChatTypeOK
<1>5. ChatTypeOK'
  BY <1>2, <1>3, <1>4 DEF ChatTypeOK, HistoryType
<1>6. ASSUME NEW p \in Requests
      PROVE  /\ Sound(transcript'[p], told')
             /\ req'[p] # "off" =>
                  /\ nr'[p] \in 1..asked'
                  /\ Avoids(session', nr'[p])
                  /\ \A r \in Requests \ {p} :
                       /\ Avoids(transcript'[r], nr'[p])
                       /\ req'[r] # "off" => nr'[r] # nr'[p]
             /\ req'[p] \in {"streaming", "left"} =>
                  \A i \in 1..Len(transcript'[p]) : transcript'[p][i] < nr'[p]
  <2>1. CASE p = q
    BY <1>1, <2>1, EmptySound
  <2>2. CASE p # q
    <3>1. Sound(transcript[p], told \ {nr[q]})
      BY <2>2, SoundWithout
    <3>2. Sound(transcript'[p], told')
      BY <1>1, <2>2, <3>1, SoundSuperset
    <3> QED
      BY <1>1, <2>2, <3>2, EmptyAvoids
  <2> QED
    BY <2>1, <2>2
<1> QED
  BY <1>5, <1>6

\* The exchange of a request under way, appended to its own transcript.
LEMMA ExchangedSound ==
    ASSUME SoundInv, NEW q \in Requests, req[q] = "streaming"
    PROVE  /\ Sound(Exchanged(q), told \cup {nr[q]})
           /\ \A d : d # nr[q] /\ Avoids(transcript[q], d) => Avoids(Exchanged(q), d)
<1>1. /\ Sound(transcript[q], told) /\ told \subseteq Int /\ nr[q] \in Int
      /\ \A i \in 1..Len(transcript[q]) : transcript[q][i] < nr[q]
  BY DEF SoundInv, ChatTypeOK
<1> DEFINE t == transcript[q]  e == nr[q]
<1> HIDE DEF t, e
<1>2. /\ Sound(Append(t, e), told \cup {e})
      /\ \A d : d # e /\ Avoids(t, d) => Avoids(Append(t, e), d)
  <2>1. /\ Sound(t, told) /\ told \subseteq Int /\ e \in Int
        /\ \A i \in 1..Len(t) : t[i] < e
    BY <1>1 DEF t, e
  <2> QED
    BY <2>1, SoundAppend
<1> QED
  BY <1>2 DEF t, e, Exchanged

LEMMA ToldSound ==
    ASSUME SoundInv, NEW q \in Requests, Told(q)
    PROVE  SoundInv'
<1> USE DEF SoundInv
<1>1. req[q] = "streaming" /\ req' = [req EXCEPT ![q] = "done"]
      /\ UNCHANGED <<nr, session, since, overtaken, unsaved, asked>>
  BY DEF Told
<1>2. nr[q] \in 1..asked /\ nr[q] \in Exchanges /\ asked \in Nat
  BY <1>1 DEF ChatTypeOK, Exchanges
<1>3. \A p \in Requests : req'[p] = IF p = q THEN "done" ELSE req[p]
  BY <1>1 DEF ChatTypeOK
<1>4. CASE Failed(q)
  <2>1. UNCHANGED <<transcript, told>>
    BY <1>4 DEF Told
  <2>2. ChatTypeOK'
    BY <1>1, <2>1 DEF ChatTypeOK
  <2>3. \A p \in Requests : req'[p] # "off" <=> req[p] # "off"
    BY <1>1, <1>3
  <2> QED
    BY <1>1, <1>3, <2>1, <2>2, <2>3
<1>5. CASE ~Failed(q)
  <2>1. /\ transcript' = [transcript EXCEPT ![q] = Exchanged(q)]
        /\ told' = told \cup {nr[q]}
    BY <1>5 DEF Told
  <2>2. \A p \in Requests :
          transcript'[p] = IF p = q THEN Exchanged(q) ELSE transcript[p]
    BY <2>1 DEF ChatTypeOK
  <2>3. Sound(Exchanged(q), told')
    BY <1>1, <2>1, ExchangedSound
  <2>4. told' \subseteq Exchanges /\ told' \subseteq 1..asked
    BY <1>2, <2>1 DEF ChatTypeOK
  <2>5. Exchanged(q) \in Seq(Exchanges)
    BY <2>3, <2>4, SeqMonotonic DEF Sound
  <2>6. ChatTypeOK'
    BY <1>1, <2>1, <2>4, <2>5 DEF ChatTypeOK
  <2>7. Sound(session', told')
    BY <1>1, <2>1, SoundSuperset
  <2>8. ASSUME NEW p \in Requests
        PROVE  /\ Sound(transcript'[p], told')
               /\ req'[p] # "off" =>
                    /\ nr'[p] \in 1..asked'
                    /\ Avoids(session', nr'[p])
                    /\ \A r \in Requests \ {p} :
                         /\ Avoids(transcript'[r], nr'[p])
                         /\ req'[r] # "off" => nr'[r] # nr'[p]
               /\ req'[p] \in {"streaming", "left"} =>
                    \A i \in 1..Len(transcript'[p]) : transcript'[p][i] < nr'[p]
    <3>1. Sound(transcript'[p], told')
      <4>1. CASE p = q
        BY <2>2, <2>3, <4>1
      <4>2. CASE p # q
        <5>1. transcript'[p] = transcript[p] /\ Sound(transcript[p], told)
          BY <2>2, <4>2
        <5> QED
          BY <5>1, <2>1, SoundSuperset
      <4> QED
        BY <4>1, <4>2
    <3>2. ASSUME req'[p] # "off", NEW r \in Requests \ {p}
          PROVE  Avoids(transcript'[r], nr'[p])
      <4>1. req[p] # "off" /\ nr'[p] = nr[p] /\ Avoids(transcript[r], nr[p])
        BY <1>1, <1>3, <3>2
      <4>2. CASE r = q
        <5>1. nr[p] # nr[q]
          BY <1>1, <4>1, <4>2
        <5> QED
          BY <1>1, <2>2, <4>1, <4>2, <5>1, ExchangedSound
      <4>3. CASE r # q
        BY <2>2, <4>1, <4>3
      <4> QED
        BY <4>2, <4>3
    <3>3. req'[p] # "off" => req[p] # "off"
      BY <1>1, <1>3
    <3>4. req'[p] \in {"streaming", "left"} => p # q /\ transcript'[p] = transcript[p]
      BY <1>3, <2>2
    <3>5. \A r \in Requests : req'[r] # "off" => req[r] # "off"
      BY <1>1, <1>3
    <3> QED
      BY <1>1, <1>3, <3>1, <3>2, <3>3, <3>4, <3>5
  <2> QED
    BY <2>4, <2>6, <2>7, <2>8, <1>1
<1> QED
  BY <1>4, <1>5

LEMMA HistoryTyped ==
    ASSUME SoundInv, NEW q \in Requests, Serve(q)
    PROVE  HistoryType'
<1>1. /\ since \in [Requests -> SUBSET Exchanges]
      /\ overtaken \subseteq Exchanges /\ unsaved \subseteq Exchanges
  BY DEF SoundInv, ChatTypeOK
<1>2. req[q] # "off" => nr[q] \in Exchanges
  BY DEF SoundInv, ChatTypeOK, Exchanges
<1>3. \A t : req[q] # "off" /\ Stores(q, t) =>
              /\ since' \in [Requests -> SUBSET Exchanges]
              /\ overtaken' \subseteq Exchanges
  BY <1>1, <1>2 DEF Stores
<1>4. NothingStored(q) => /\ since' \in [Requests -> SUBSET Exchanges]
                          /\ overtaken' \subseteq Exchanges
  BY <1>1 DEF NothingStored
<1>5. /\ \/ UNCHANGED <<since, overtaken>>
         \/ NothingStored(q)
         \/ req[q] # "off" /\ \E t : Stores(q, t)
      /\ UNCHANGED unsaved \/ (req[q] # "off" /\ unsaved' = unsaved \cup {nr[q]})
  BY DEF Serve, Request, Told, Save, SaveFails, Corrected, Leaves, OrphanEnds
<1> QED
  BY <1>1, <1>2, <1>3, <1>4, <1>5 DEF HistoryType

LEMMA ServeSound ==
    ASSUME SoundInv, NEW q \in Requests, Serve(q)
    PROVE  SoundInv'
<1>a. /\ told \subseteq Exchanges /\ told \subseteq 1..asked
      /\ Sound(session, told) /\ Sound(transcript[q], told)
      /\ \A p \in Requests \ {q} : req[p] # "off" =>
           /\ Avoids(session, nr[p]) /\ Avoids(transcript[q], nr[p])
           /\ req[q] # "off" => nr[p] # nr[q]
  BY DEF SoundInv, ChatTypeOK
<1>b. HistoryType'
  BY HistoryTyped
<1>1. CASE Request(q)
  BY <1>1, RequestSound
<1>2. CASE Told(q)
  BY <1>2, ToldSound
<1>3. CASE Save(q)
  BY <1>3, <1>a, <1>b, ForgetSound DEF Save, Stores
<1>4. CASE Corrected(q)
  <2>1. req[q] = "streaming" /\ Forget(q) /\ UNCHANGED asked
    BY <1>4 DEF Corrected
  <2>2. CASE NothingStored(q) /\ UNCHANGED told
    BY <1>a, <1>b, <2>1, <2>2, ForgetSound DEF NothingStored
  <2>3. CASE Stores(q, Exchanged(q)) /\ told' = told \cup {nr[q]}
    <3>1. session' = Exchanged(q) /\ told' = told \cup {nr[q]}
      BY <2>3 DEF Stores
    <3>2. nr[q] \in 1..asked /\ nr[q] \in Exchanges
      BY <2>1 DEF SoundInv, ChatTypeOK, Exchanges
    <3>3. \A p \in Requests \ {q} : req[p] # "off" => Avoids(session', nr[p])
      BY <1>a, <2>1, <3>1, ExchangedSound
    <3> QED
      BY <1>a, <1>b, <2>1, <3>1, <3>2, <3>3, ExchangedSound, ForgetSound
  <2> QED
    BY <1>4, <2>2, <2>3 DEF Corrected
<1>5. CASE Leaves(q)
  <2>1. /\ told' = told \ {nr[q]} /\ UNCHANGED <<session, asked>>
        /\ req[q] \in {"streaming", "done"}
    BY <1>5 DEF Leaves, NothingStored
  <2>2. Avoids(session, nr[q])
    BY <2>1 DEF SoundInv
  <2>3. Sound(session', told')
    BY <1>a, <2>1, <2>2, SoundWithout
  <2>4. CASE req[q] = "done"
    BY <1>5, <1>a, <1>b, <2>1, <2>3, <2>4, ForgetSound DEF Leaves
  <2>5. CASE req[q] = "streaming"
    <3>1. req' = [req EXCEPT ![q] = "left"] /\ UNCHANGED <<nr, transcript>>
      BY <1>5, <2>5 DEF Leaves
    <3>2. \A p \in Requests : req'[p] = IF p = q THEN "left" ELSE req[p]
      BY <3>1 DEF SoundInv, ChatTypeOK
    <3>3. ChatTypeOK'
      BY <1>b, <2>1, <3>1 DEF SoundInv, ChatTypeOK, HistoryType
    <3>4. Avoids(transcript[q], nr[q])
      BY <2>5 DEF SoundInv, Avoids, ChatTypeOK
    <3>5. \A p \in Requests : Avoids(transcript[p], nr[q]) /\ Sound(transcript[p], told)
      BY <2>1, <3>4 DEF SoundInv
    <3>6. \A p \in Requests : Sound(transcript'[p], told')
      BY <2>1, <3>1, <3>5, SoundWithout
    <3>7. \A p \in Requests : req'[p] # "off" <=> req[p] # "off"
      BY <2>5, <3>2
    <3>8. \A p \in Requests : req'[p] \in {"streaming", "left"} =>
                              req[p] \in {"streaming", "left"}
      BY <2>5, <3>2
    <3> QED
      BY <2>1, <2>3, <3>1, <3>3, <3>6, <3>7, <3>8 DEF SoundInv
  <2> QED
    BY <2>1, <2>4, <2>5
<1>6. CASE OrphanEnds(q)
  BY <1>6, <1>a, <1>b, ForgetSound DEF OrphanEnds
<1>7. CASE SaveFails(q)
  <2>1. req[q] = "done" /\ Forget(q) /\ UNCHANGED <<session, told, asked>>
    BY <1>7 DEF SaveFails, NothingStored
  <2> QED
    BY <1>a, <1>b, <2>1, ForgetSound
<1> QED
  BY <1>1, <1>2, <1>3, <1>4, <1>5, <1>6, <1>7 DEF Serve

LEMMA SoundHolds == Spec => []SoundInv
<1>1. Init => SoundInv
  <2> SUFFICES ASSUME Init PROVE SoundInv
    OBVIOUS
  <2>1. /\ req = [q \in Requests |-> "off"] /\ nr = [q \in Requests |-> 0]
        /\ transcript = [q \in Requests |-> <<>>]
        /\ since = [q \in Requests |-> {}] /\ overtaken = {} /\ unsaved = {}
        /\ session = <<>> /\ told = {} /\ asked = 0
    BY DEF Init, ChatInit
  <2>2. ChatTypeOK
    BY <2>1 DEF ChatTypeOK
  <2> QED
    BY <2>1, <2>2, EmptySound DEF SoundInv
<1>2. SoundInv /\ [Next]_vars => SoundInv'
  <2> SUFFICES ASSUME SoundInv, [Next]_vars PROVE SoundInv'
    OBVIOUS
  <2>1. ASSUME NEW q \in Requests, Serves(q) PROVE SoundInv'
    BY <2>1, ServeSound DEF Serves
  <2>2. CASE UNCHANGED chatVars
    BY <2>2 DEF chatVars, SoundInv, ChatTypeOK
  <2> QED
    BY <2>1, <2>2 DEF Next, Sessions, Reasons, vars
<1> QED
  BY <1>1, <1>2, PTL DEF Spec

\* What is sound of the session, in the words of the property.
LEMMA SessionIsSound ==
    SoundInv => /\ \A i \in DOMAIN session : session[i] \in told
                /\ \A i, j \in DOMAIN session : i < j => session[i] < session[j]
<1> SUFFICES ASSUME Sound(session, told)
             PROVE  /\ \A i \in DOMAIN session : session[i] \in told
                    /\ \A i, j \in DOMAIN session : i < j => session[i] < session[j]
  BY DEF SoundInv
<1>1. DOMAIN session = 1..Len(session) /\ session \in Seq(told)
  BY LenProperties DEF Sound
<1> QED
  BY <1>1, ElementOfSeq DEF Sound

-----------------------------------------------------------------------------
(* What the session keeps.                                                 *)

Holds(s, e) == \E i \in DOMAIN s : s[i] = e
Connected == {q \in Requests : req[q] \in {"streaming", "done"}}

\* An exchange is about to be stored, or it is stored, and each of those who may
\* yet write over the session has it too or is known not to have it.
Kept(e) ==
    \/ Pending(e)
    \/ /\ Holds(session, e)
       /\ \A p \in Connected : Holds(transcript[p], e) \/ e \in since[p]

KeptInv ==
    /\ \A q \in Requests :
         /\ req[q] = "streaming" => nr[q] \notin told
         /\ req[q] = "done" /\ nr[q] \in told => Holds(transcript[q], nr[q])
    /\ \A e \in told \ (overtaken \cup unsaved) : Kept(e)

\* What a sequence holds when an exchange goes to its end.
LEMMA HoldsAppended ==
    ASSUME NEW S, NEW s \in Seq(S), NEW e
    PROVE  Holds(Append(s, e), e) /\ \A d : Holds(s, d) => Holds(Append(s, e), d)
<1>1. s \in Seq(S \cup {e}) /\ Len(s) \in Nat /\ DOMAIN s = 1..Len(s)
  BY SeqMonotonic, LenProperties
<1>2. /\ Append(s, e) \in Seq(S \cup {e}) /\ Len(Append(s, e)) = Len(s) + 1
      /\ \A i \in 1..Len(s) : Append(s, e)[i] = s[i]
      /\ Append(s, e)[Len(s) + 1] = e
  BY <1>1, AppendProperties
<1>3. DOMAIN Append(s, e) = 1..(Len(s) + 1)
  BY <1>2, LenProperties
<1> QED
  BY <1>1, <1>2, <1>3 DEF Holds

\* A request that stores t: what was kept is in t or is overtaken now, and its
\* own exchange, if t has it, is new to all who are connected.
LEMMA StoresKeeps ==
    ASSUME SoundInv, NEW q \in Connected, NEW t, Stores(q, t), Forget(q),
           \A e : Holds(transcript[q], e) => Holds(t, e),
           NEW e, e \notin overtaken',
           \/ e = nr[q] /\ Holds(t, e)
           \/ Kept(e) /\ e # nr[q]
    PROVE  Kept(e)'
<1>a. q \in Requests /\ ChatTypeOK
  BY DEF Connected, SoundInv
<1>1. \A p \in Requests :
        /\ req'[p] = IF p = q THEN "off" ELSE req[p]
        /\ p # q => nr'[p] = nr[p] /\ transcript'[p] = transcript[p]
  BY <1>a DEF Forget, ChatTypeOK
<1>2. session' = t /\ e \notin since[q]
  BY DEF Stores
<1>3. \A p \in Connected' : p \in Connected /\ p # q
                            /\ since'[p] = since[p] \cup ({nr[q]} \cap ToSet(t))
  BY <1>1 DEF Stores, Connected
<1>4. CASE e = nr[q] /\ Holds(t, e)
  <2>1. e \in ToSet(t)
    BY <1>4 DEF Holds, ToSet
  <2> QED
    BY <1>2, <1>3, <1>4, <2>1 DEF Kept
<1>5. CASE Pending(e) /\ e # nr[q]
  <2>1. PICK p \in Chats : req[p] = "done" /\ nr[p] = e
    BY <1>5 DEF Pending
  <2>2. p \in Requests /\ p # q
    BY <1>5, <2>1 DEF Requests
  <2>3. req'[p] = "done" /\ nr'[p] = e
    BY <1>1, <2>1, <2>2
  <2> QED
    BY <2>3 DEF Kept, Pending
<1>6. CASE ~Pending(e) /\ Kept(e)
  <2>1. Holds(transcript[q], e)
    BY <1>2, <1>6 DEF Kept
  <2>2. Holds(session', e)
    BY <1>2, <2>1
  <2>3. \A p \in Connected' : Holds(transcript'[p], e) \/ e \in since'[p]
    BY <1>1, <1>3, <1>6 DEF Kept, Connected
  <2> QED
    BY <2>2, <2>3 DEF Kept
<1> QED
  BY <1>4, <1>5, <1>6

\* A step that stores nothing, of a request that is connected no more.
LEMMA NothingKeeps ==
    ASSUME SoundInv, NEW q \in Requests, req'[q] \notin {"streaming", "done"},
           UNCHANGED session,
           \A p \in Requests \ {q} : /\ req'[p] = req[p] /\ nr'[p] = nr[p]
                                     /\ transcript'[p] = transcript[p]
                                     /\ since'[p] = since[p],
           NEW e, Kept(e), req[q] = "done" /\ q \in Chats => e # nr[q]
    PROVE  Kept(e)'
<1>1. CASE Pending(e)
  <2>1. PICK p \in Chats : req[p] = "done" /\ nr[p] = e
    BY <1>1 DEF Pending
  <2>2. p \in Requests \ {q}
    BY <2>1 DEF Requests
  <2>3. req'[p] = "done" /\ nr'[p] = e
    BY <2>1, <2>2
  <2> QED
    BY <2>3 DEF Kept, Pending
<1>2. CASE ~Pending(e)
  <2>1. \A p \in Connected' : p \in Connected /\ p \in Requests \ {q}
    BY DEF Connected
  <2>2. Holds(session', e)
    BY <1>2 DEF Kept
  <2>3. \A p \in Connected' : Holds(transcript'[p], e) \/ e \in since'[p]
    BY <1>2, <2>1 DEF Kept
  <2> QED
    BY <2>2, <2>3 DEF Kept
<1> QED
  BY <1>1, <1>2

\* What a request that ends leaves of the others.
LEMMA OthersForget ==
    ASSUME ChatTypeOK, NEW q \in Requests, Forget(q)
    PROVE  /\ req'[q] = "off"
           /\ \A p \in Requests \ {q} : /\ req'[p] = req[p] /\ nr'[p] = nr[p]
                                        /\ transcript'[p] = transcript[p]
  BY DEF Forget, ChatTypeOK

LEMMA OthersNothing ==
    ASSUME ChatTypeOK, NEW q \in Requests, NothingStored(q)
    PROVE  UNCHANGED <<session, overtaken>>
           /\ \A p \in Requests \ {q} : since'[p] = since[p]
  BY DEF NothingStored, ChatTypeOK

\* Exchanges under way are told apart by their numbers.
LEMMA OwnNumbers ==
    ASSUME SoundInv, NEW q \in Requests, req[q] # "off"
    PROVE  \A p \in Requests \ {q} : req[p] # "off" => nr[p] # nr[q]
  BY DEF SoundInv

LEMMA ServeKeeps ==
    ASSUME SoundInv, KeptInv, NEW q \in Requests, Serve(q)
    PROVE  KeptInv'
<1>a. ChatTypeOK /\ told \subseteq 1..asked /\ asked \in Nat
  BY DEF SoundInv, ChatTypeOK
<1>b. \A e \in told \ (overtaken \cup unsaved) : Kept(e)
  BY DEF KeptInv
\* The part of each request, when only q goes on and only nr[q] may be told.
<1>c. ASSUME \A p \in Requests \ {q} : /\ req'[p] = req[p] /\ nr'[p] = nr[p]
                                       /\ transcript'[p] = transcript[p],
             told' \subseteq told \cup {nr[q]}, req[q] # "off",
             req'[q] \in {"off", "left"}
      PROVE  \A p \in Requests :
               /\ req'[p] = "streaming" => nr'[p] \notin told'
               /\ req'[p] = "done" /\ nr'[p] \in told' => Holds(transcript'[p], nr'[p])
  BY <1>c, OwnNumbers DEF KeptInv
<1>1. CASE Request(q)
  <2>1. /\ req' = [req EXCEPT ![q] = "streaming"]
        /\ nr' = [nr EXCEPT ![q] = asked + 1]
        /\ transcript' = [transcript EXCEPT ![q] = session]
        /\ req[q] = "off"
        /\ UNCHANGED <<session, told, since, overtaken, unsaved>>
    BY <1>1 DEF Request, Load
  <2>2. \A p \in Requests :
          /\ req'[p] = IF p = q THEN "streaming" ELSE req[p]
          /\ nr'[p] = IF p = q THEN asked + 1 ELSE nr[p]
          /\ transcript'[p] = IF p = q THEN session ELSE transcript[p]
    BY <1>a, <2>1 DEF ChatTypeOK
  <2>3. asked + 1 \notin told
    BY <1>a
  <2>4. \A p \in Requests :
          /\ req'[p] = "streaming" => nr'[p] \notin told'
          /\ req'[p] = "done" /\ nr'[p] \in told' => Holds(transcript'[p], nr'[p])
    BY <2>1, <2>2, <2>3 DEF KeptInv
  <2>5. ASSUME NEW e, Kept(e) PROVE Kept(e)'
    <3>1. CASE Pending(e)
      <4>1. PICK p \in Chats : req[p] = "done" /\ nr[p] = e
        BY <3>1 DEF Pending
      <4>2. p \in Requests /\ p # q
        BY <2>1, <4>1 DEF Requests
      <4>3. req'[p] = "done" /\ nr'[p] = e
        BY <2>2, <4>1, <4>2
      <4> QED
        BY <4>3 DEF Kept, Pending
    <3>2. CASE ~Pending(e)
      <4>1. \A p \in Connected' : p = q \/ p \in Connected
        BY <2>2 DEF Connected
      <4>2. \A p \in Connected' : Holds(transcript'[p], e) \/ e \in since'[p]
        BY <2>1, <2>2, <2>5, <3>2, <4>1 DEF Kept, Connected
      <4> QED
        BY <2>1, <2>5, <3>2, <4>2 DEF Kept
    <3> QED
      BY <3>1, <3>2
  <2> QED
    BY <1>b, <2>1, <2>4, <2>5 DEF KeptInv
<1>2. CASE Told(q)
  <2>1. /\ q \in Chats /\ req[q] = "streaming" /\ req' = [req EXCEPT ![q] = "done"]
        /\ UNCHANGED <<nr, session, since, overtaken, unsaved>>
    BY <1>2 DEF Told
  <2>2. \A p \in Requests : req'[p] = IF p = q THEN "done" ELSE req[p]
    BY <1>a, <2>1 DEF ChatTypeOK
  <2>3. Connected' = Connected
    BY <2>1, <2>2 DEF Connected
  <2>4. nr[q] \notin told
    BY <2>1 DEF KeptInv
  <2>5. \A e : Pending(e) => Pending(e)'
    BY <2>1, <2>2 DEF Pending, Requests
  <2>6. \A p \in Requests \ {q} : req[p] # "off" => nr[p] # nr[q]
    BY <2>1, OwnNumbers
  <2>7. CASE Failed(q)
    <3>1. UNCHANGED <<transcript, told>>
      BY <1>2, <2>7 DEF Told
    <3>2. \A e : Kept(e) => Kept(e)'
      BY <2>1, <2>3, <2>5, <3>1 DEF Kept
    <3>3. \A p \in Requests :
            /\ req'[p] = "streaming" => nr'[p] \notin told'
            /\ req'[p] = "done" /\ nr'[p] \in told' => Holds(transcript'[p], nr'[p])
      BY <2>1, <2>2, <2>4, <3>1 DEF KeptInv
    <3> QED
      BY <1>b, <2>1, <3>1, <3>2, <3>3 DEF KeptInv
  <2>8. CASE ~Failed(q)
    <3>1. /\ transcript' = [transcript EXCEPT ![q] = Append(transcript[q], nr[q])]
          /\ told' = told \cup {nr[q]}
      BY <1>2, <2>8 DEF Told, Exchanged
    <3>2. \A p \in Requests : transcript'[p] =
            IF p = q THEN Append(transcript[q], nr[q]) ELSE transcript[p]
      BY <1>a, <3>1 DEF ChatTypeOK
    <3>3. transcript[q] \in Seq(Exchanges)
      BY <1>a DEF ChatTypeOK
    <3>4. Holds(transcript'[q], nr[q])
      BY <3>2, <3>3, HoldsAppended
    <3>5. \A p \in Requests : \A e : Holds(transcript[p], e) => Holds(transcript'[p], e)
      BY <3>2, <3>3, HoldsAppended
    <3>6. \A e : Kept(e) => Kept(e)'
      BY <2>1, <2>3, <2>5, <3>5 DEF Kept, Connected
    <3>7. Kept(nr[q])'
      <4>1. req'[q] = "done" /\ nr'[q] = nr[q]
        BY <2>1, <2>2
      <4> QED
        BY <2>1, <4>1 DEF Kept, Pending
    <3>8. \A p \in Requests :
            /\ req'[p] = "streaming" => nr'[p] \notin told'
            /\ req'[p] = "done" /\ nr'[p] \in told' => Holds(transcript'[p], nr'[p])
      BY <2>1, <2>2, <2>6, <3>1, <3>2, <3>4 DEF KeptInv
    <3> QED
      BY <1>b, <2>1, <3>1, <3>6, <3>7, <3>8 DEF KeptInv
  <2> QED
    BY <2>7, <2>8
<1>3. CASE Save(q)
  <2>1. /\ q \in Chats /\ req[q] = "done" /\ Stores(q, transcript[q]) /\ Forget(q)
        /\ UNCHANGED <<told, unsaved>>
    BY <1>3 DEF Save
  <2>2. q \in Connected
    BY <2>1 DEF Connected
  <2>3. ASSUME NEW e \in told' \ (overtaken' \cup unsaved') PROVE Kept(e)'
    <3>1. e \in told \ (overtaken \cup unsaved) /\ e \notin overtaken'
      BY <2>1, <2>3 DEF Stores
    <3>2. e = nr[q] => Holds(transcript[q], e)
      BY <2>1, <3>1 DEF KeptInv
    <3> QED
      BY <1>b, <2>1, <2>2, <3>1, <3>2, StoresKeeps
  <2> QED
    BY <1>a, <1>c, <2>1, <2>3, OthersForget DEF KeptInv
<1>4. CASE SaveFails(q)
  <2>1. /\ q \in Chats /\ req[q] = "done" /\ NothingStored(q) /\ Forget(q)
        /\ UNCHANGED told /\ unsaved' = unsaved \cup {nr[q]}
    BY <1>4 DEF SaveFails
  <2>2. ASSUME NEW e \in told' \ (overtaken' \cup unsaved') PROVE Kept(e)'
    <3>1. e \in told \ (overtaken \cup unsaved) /\ e # nr[q]
      BY <1>a, <2>1, <2>2, OthersNothing
    <3>2. Kept(e)
      BY <1>b, <3>1
    <3>3. /\ req'[q] = "off"
          /\ \A p \in Requests \ {q} : /\ req'[p] = req[p] /\ nr'[p] = nr[p]
                                       /\ transcript'[p] = transcript[p]
      BY <1>a, <2>1, OthersForget
    <3>4. UNCHANGED session /\ \A p \in Requests \ {q} : since'[p] = since[p]
      BY <1>a, <2>1, OthersNothing
    <3> QED
      BY <3>1, <3>2, <3>3, <3>4, NothingKeeps, ZenonT(40)
  <2> QED
    BY <1>a, <1>c, <2>1, <2>2, OthersForget DEF KeptInv
<1>5. CASE Corrected(q)
  <2>1. q \in Corrections /\ req[q] = "streaming" /\ Forget(q) /\ UNCHANGED unsaved
    BY <1>5 DEF Corrected
  <2>2. q \in Connected /\ q \notin Chats
    BY <2>1 DEF Connected
  <2>3. CASE NothingStored(q) /\ UNCHANGED told
    <3>1. ASSUME NEW e \in told' \ (overtaken' \cup unsaved') PROVE Kept(e)'
      <4>1. e \in told \ (overtaken \cup unsaved)
        BY <1>a, <2>1, <2>3, <3>1, OthersNothing
      <4>2. Kept(e)
        BY <1>b, <4>1
      <4>3. /\ req'[q] = "off"
            /\ \A p \in Requests \ {q} : /\ req'[p] = req[p] /\ nr'[p] = nr[p]
                                         /\ transcript'[p] = transcript[p]
        BY <1>a, <2>1, OthersForget
      <4>4. UNCHANGED session /\ \A p \in Requests \ {q} : since'[p] = since[p]
        BY <1>a, <2>3, OthersNothing
      <4> QED
        BY <2>2, <4>2, <4>3, <4>4, NothingKeeps, ZenonT(40)
    <3> QED
      BY <1>a, <1>c, <2>1, <2>3, <3>1, OthersForget DEF KeptInv
  <2>4. CASE Stores(q, Exchanged(q)) /\ told' = told \cup {nr[q]}
    <3>1. transcript[q] \in Seq(Exchanges)
      BY <1>a DEF ChatTypeOK
    <3>2. /\ Holds(Exchanged(q), nr[q])
          /\ \A e : Holds(transcript[q], e) => Holds(Exchanged(q), e)
      BY <3>1, HoldsAppended DEF Exchanged
    <3>3. ASSUME NEW e \in told' \ (overtaken' \cup unsaved') PROVE Kept(e)'
      <4>1. /\ e = nr[q] \/ e \in told \ (overtaken \cup unsaved)
            /\ e \notin overtaken'
        BY <2>1, <2>4, <3>3 DEF Stores
      <4>2. e = nr[q] => Holds(Exchanged(q), e)
        BY <3>2
      <4> QED
        BY <1>b, <2>1, <2>2, <2>4, <3>2, <4>1, <4>2, StoresKeeps
    <3> QED
      BY <1>a, <1>c, <2>1, <2>4, <3>3, OthersForget DEF KeptInv
  <2> QED
    BY <1>5, <2>3, <2>4 DEF Corrected
<1>6. CASE Leaves(q)
  <2>1. /\ told' = told \ {nr[q]} /\ NothingStored(q) /\ UNCHANGED unsaved
        /\ req[q] \in {"streaming", "done"}
    BY <1>6 DEF Leaves
  <2>2. /\ req'[q] \in {"off", "left"}
        /\ \A p \in Requests \ {q} : /\ req'[p] = req[p] /\ nr'[p] = nr[p]
                                     /\ transcript'[p] = transcript[p]
    <3>1. CASE Forget(q)
      BY <1>a, <3>1, OthersForget
    <3>2. CASE req' = [req EXCEPT ![q] = "left"] /\ UNCHANGED <<nr, transcript>>
      BY <1>a, <3>2 DEF ChatTypeOK
    <3> QED
      BY <1>6, <3>1, <3>2 DEF Leaves
  <2>3. ASSUME NEW e \in told' \ (overtaken' \cup unsaved') PROVE Kept(e)'
    <3>1. e \in told \ (overtaken \cup unsaved) /\ e # nr[q]
      BY <1>a, <2>1, <2>3, OthersNothing
    <3> QED
      BY <1>a, <1>b, <2>1, <2>2, <3>1, OthersNothing, NothingKeeps
  <2> QED
    BY <1>c, <2>1, <2>2, <2>3 DEF KeptInv
<1>7. CASE OrphanEnds(q)
  <2>1. /\ req[q] = "left" /\ Forget(q)
        /\ UNCHANGED <<session, told, since, overtaken, unsaved>>
    BY <1>7 DEF OrphanEnds
  <2>2. \A e : Kept(e) => Kept(e)'
    BY <1>a, <2>1, OthersForget, NothingKeeps
  <2> QED
    BY <1>a, <1>b, <1>c, <2>1, <2>2, OthersForget DEF KeptInv
<1> QED
  BY <1>1, <1>2, <1>3, <1>4, <1>5, <1>6, <1>7 DEF Serve

\* For any number of clients and requests, however they overlap and however the
\* turns between fail or are left: what a client was told and waited for stays
\* in the session unless its write failed or a request that had loaded before
\* it stored after it, and the session holds nothing else.
THEOREM SessionAlwaysRemembers == Spec => []SessionRemembers
<1>1. Init => KeptInv
  BY DEF Init, ChatInit, KeptInv
<1>2. SoundInv /\ KeptInv /\ [Next]_vars => KeptInv'
  <2> SUFFICES ASSUME SoundInv, KeptInv, [Next]_vars PROVE KeptInv'
    OBVIOUS
  <2>1. ASSUME NEW q \in Requests, Serves(q) PROVE KeptInv'
    BY <2>1, ServeKeeps DEF Serves
  <2>2. CASE UNCHANGED chatVars
    BY <2>2 DEF chatVars, KeptInv, Kept, Pending, Connected
  <2> QED
    BY <2>1, <2>2 DEF Next, Sessions, Reasons, vars
<1>3. SoundInv /\ KeptInv => SessionRemembers
  BY SessionIsSound DEF KeptInv, Kept, Holds, InSession, SessionRemembers
<1> QED
  BY <1>1, <1>2, <1>3, SoundHolds, PTL DEF Spec

-----------------------------------------------------------------------------
(* Types.                                                                  *)

\* What the recorder of a run hands the engine.
LoopTyped == loop \in [Scans -> [written : BOOLEAN, tools : BOOLEAN]]

LEMMA LoopStep ==
    ASSUME RuntimeInv, LoopTyped, [Next]_vars
    PROVE  LoopTyped'
<1>1. CASE UNCHANGED loop
  BY <1>1 DEF LoopTyped
<1>2. ASSUME NEW s \in Scans, Reason(s)
      PROVE  LoopTyped'
  <2>1. run[s] \in Runs
    BY ReasoningAssumption DEF RuntimeInv, RuntimeTypeOK
  <2>2. LoopResult(s) \in [written : BOOLEAN, tools : BOOLEAN]
        /\ NoLoop \in [written : BOOLEAN, tools : BOOLEAN]
    BY <2>1 DEF LoopResult, NoLoop, Runs
  <2>3. \/ UNCHANGED loop
        \/ loop' = [loop EXCEPT ![s] = NoLoop]
        \/ loop' = [loop EXCEPT ![s] = LoopResult(s)]
    BY <1>2 DEF Reason, StartTriage, TriageEnds, Investigate, LoopEnds,
                ExtractionEnds, Store, StopScan, Stopped, reasoningVars
  <2> QED
    BY <2>2, <2>3 DEF LoopTyped
<1> QED
  BY <1>1, <1>2 DEF Next, Sessions, Reasons, Serves, reasoningVars, vars

\* The state of the runtime, of the scans and of the chats keeps its type.
THEOREM TypeCorrect == Spec => []TypeOK
<1>1. Init => LoopTyped
  BY DEF Init, ReasoningInit, LoopTyped, NoLoop
<1>2. RuntimeInv /\ LoopTyped /\ [Next]_vars => LoopTyped'
  BY LoopStep
<1>3. RuntimeInv /\ FoundedInv /\ TriageInv /\ SoundInv /\ LoopTyped => TypeOK
  <2> SUFFICES ASSUME RuntimeInv, FoundedInv, TriageInv, SoundInv, LoopTyped
               PROVE  TypeOK
    OBVIOUS
  <2>1. RuntimeTypeOK /\ ChatTypeOK
    BY DEF RuntimeInv, SoundInv
  <2>2. ReasoningTypeOK
    BY DEF FoundedInv, TriageInv, OpenTriage, LoopTyped, ReasoningTypeOK
  <2> QED
    BY <2>1, <2>2 DEF TypeOK
<1> QED
  BY <1>1, <1>2, <1>3, RuntimeInvHolds, FoundedInvHolds, TriageInvHolds, SoundHolds,
     PTL DEF Spec
=============================================================================

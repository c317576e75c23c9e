----------------------------- MODULE ChatStream -----------------------------
(***************************************************************************)
(* The chats of reasoning/chat_stream.py with their two endpoints          *)
(* (api/chat.py and the finding chat of api/router.py), and reinvestigate, *)
(* which answers from the same transcript.                                 *)
(*                                                                         *)
(* A request loads the session's transcript, runs the agent in a task of   *)
(* its own, streams what the task reports, tells the client done or error, *)
(* and stores the longer transcript after that.  A client may go away at   *)
(* any time: the generator ends, the task does not.  Nothing keeps the     *)
(* requests of a session apart: two that overlap work on transcripts of    *)
(* their own, and the later to store writes over the earlier.              *)
(***************************************************************************)
EXTENDS AgentRuntime

CONSTANTS
    Chats,          \* chat requests, and the calls they make
    Corrections,    \* reinvestigate requests, and the calls they make
    MaxExchanges    \* bound: requests of a session

ASSUME ChatAssumption ==
    /\ Chats \cup Corrections \subseteq Calls
    /\ Chats \cap Corrections = {}
    /\ MaxExchanges \in Nat

VARIABLES
    req,        \* what each request is at
    nr,         \* the number of its exchange
    transcript, \* the transcript it works on
    session,    \* the transcript in Valkey
    told,       \* history: the exchanges whose client was told done, and
                \* stayed until the response ended
    since,      \* history: the exchanges stored since each request loaded
    overtaken,  \* history: those of them a request did not have when it stored
    unsaved,    \* history: the exchanges whose write failed
    asked       \* the number of exchanges asked for

chatVars == <<req, nr, transcript, session, told, since, overtaken, unsaved, asked>>
Requests == Chats \cup Corrections
Exchanges == 1..MaxExchanges

ChatTypeOK ==
    /\ req \in [Requests -> {"off", "streaming", "done", "left"}]
    /\ nr \in [Requests -> 0..MaxExchanges]
    /\ transcript \in [Requests -> Seq(Exchanges)]
    /\ session \in Seq(Exchanges)
    /\ told \subseteq Exchanges
    /\ since \in [Requests -> SUBSET Exchanges]
    /\ overtaken \subseteq Exchanges /\ unsaved \subseteq Exchanges
    /\ asked \in 0..MaxExchanges

ChatInit ==
    /\ req = [q \in Requests |-> "off"]
    /\ nr = [q \in Requests |-> 0]
    /\ transcript = [q \in Requests |-> <<>>]
    /\ since = [q \in Requests |-> {}]
    /\ overtaken = {} /\ unsaved = {}
    /\ session = <<>> /\ told = {} /\ asked = 0

-----------------------------------------------------------------------------

\* Mutant: a request starts from an empty transcript.
LoadNothing == <<>>
\* _load_session and _load_finding_chat_messages.
Load == session

\* chat, finding_chat and reinvestigate: load, then call the runtime.
Request(q) ==
    /\ req[q] = "off" /\ asked < MaxExchanges
    /\ req' = [req EXCEPT ![q] = "streaming"]
    /\ asked' = asked + 1
    /\ nr' = [nr EXCEPT ![q] = asked + 1]
    /\ transcript' = [transcript EXCEPT ![q] = Load]
    /\ Call(q, q \in Chats, FALSE)
    /\ UNCHANGED <<session, told, since, overtaken, unsaved>>

Forget(q) ==
    /\ req' = [req EXCEPT ![q] = "off"]
    /\ nr' = [nr EXCEPT ![q] = 0]
    /\ transcript' = [transcript EXCEPT ![q] = <<>>]

\* The transcript t of q is written over the session, with what was stored
\* there since q loaded.
Stores(q, t) ==
    /\ session' = t
    /\ overtaken' = overtaken \cup since[q]
    /\ since' = [p \in Requests |->
                   IF p = q \/ req[p] \notin {"streaming", "done"} THEN {}
                   ELSE since[p] \cup ({nr[q]} \cap ToSet(t))]
NothingStored(q) ==
    /\ since' = [since EXCEPT ![q] = {}]
    /\ UNCHANGED <<session, overtaken>>

Exchanged(q) == Append(transcript[q], nr[q])
Failed(q) == run[q].out \in {"raised", "cancelled"}

\* Mutant: the sentinel is put only when the agent run succeeded.
ToldOnSuccess(q) ==
    /\ q \in Chats
    /\ req[q] = "streaming" /\ at[q] = "ended" /\ ~Failed(q)
    /\ req' = [req EXCEPT ![q] = "done"]
    /\ transcript' = [transcript EXCEPT ![q] = Exchanged(q)]
    /\ told' = told \cup {nr[q]}
    /\ Return(q)
    /\ UNCHANGED <<nr, session, since, overtaken, unsaved, asked>>
\* The sentinel is taken and the task is done: an error frame, or the exchange
\* appended and done.  Either way the endpoint goes on to store.
Told(q) ==
    /\ q \in Chats
    /\ req[q] = "streaming" /\ at[q] = "ended"
    /\ req' = [req EXCEPT ![q] = "done"]
    /\ IF Failed(q) THEN UNCHANGED <<transcript, told>>
       ELSE /\ transcript' = [transcript EXCEPT ![q] = Exchanged(q)]
            /\ told' = told \cup {nr[q]}
    /\ Return(q)
    /\ UNCHANGED <<nr, session, since, overtaken, unsaved, asked>>

\* The endpoint's loop over stream_chat is through: the transcript is stored,
\* the one of a failed turn as it was loaded.
Save(q) ==
    /\ q \in Chats /\ req[q] = "done"
    /\ Stores(q, transcript[q])
    /\ Forget(q)
    /\ UNCHANGED <<told, unsaved, asked>> /\ UNCHANGED rvars

\* Valkey refuses the write, after the client was told done.  (A write whose
\* answer alone is lost is a Save.)
SaveFails(q) ==
    /\ q \in Chats /\ req[q] = "done"
    /\ unsaved' = unsaved \cup {nr[q]}
    /\ NothingStored(q)
    /\ Forget(q)
    /\ UNCHANGED <<told, asked>> /\ UNCHANGED rvars

\* reinvestigate stores the exchange before it answers; a run or a write that
\* fails stores nothing, and is answered with an error.
Corrected(q) ==
    /\ q \in Corrections
    /\ req[q] = "streaming" /\ at[q] = "ended"
    /\ \/ NothingStored(q) /\ UNCHANGED told
       \/ ~Failed(q) /\ Stores(q, Exchanged(q)) /\ told' = told \cup {nr[q]}
    /\ Forget(q)
    /\ Return(q)
    /\ UNCHANGED <<unsaved, asked>>

\* The client goes away: the generator is closed where it stands, so nothing
\* is stored; the task, if it still runs, keeps its session and its permit.
Leaves(q) ==
    /\ q \in Chats /\ req[q] \in {"streaming", "done"}
    /\ told' = told \ {nr[q]}
    /\ NothingStored(q)
    /\ IF req[q] = "done" THEN Forget(q)
       ELSE req' = [req EXCEPT ![q] = "left"] /\ UNCHANGED <<nr, transcript>>
    /\ UNCHANGED <<unsaved, asked>> /\ UNCHANGED rvars

\* The end of a task nobody listens to.
OrphanEnds(q) ==
    /\ req[q] = "left" /\ at[q] = "ended"
    /\ Forget(q)
    /\ Return(q)
    /\ UNCHANGED <<session, told, since, overtaken, unsaved, asked>>

Serve(q) ==
    \/ Request(q) \/ Told(q) \/ Save(q) \/ SaveFails(q) \/ Corrected(q)
    \/ Leaves(q) \/ OrphanEnds(q)

-----------------------------------------------------------------------------
(* Properties.                                                             *)

InSession(e) == \E i \in DOMAIN session : session[i] = e
\* Told done, and about to be stored.
Pending(e) == \E q \in Chats : req[q] = "done" /\ nr[q] = e

\* However the requests of a session overlap, fail or are left: what a client
\* was told is done and waited for is in the session as soon as the response
\* ended, and stays there, unless its own write failed or a request that had
\* loaded before that write stored after it.  The session holds nothing else:
\* each exchange once, in the order they were asked, and of a turn that failed
\* no trace (stream_chat, chat, finding_chat, reinvestigate_finding).
SessionRemembers ==
    /\ \A e \in told \ (overtaken \cup unsaved) : InSession(e) \/ Pending(e)
    /\ \A i \in DOMAIN session : session[i] \in told
    /\ \A i, j \in DOMAIN session : i < j => session[i] < session[j]

\* A client that stays is told how its turn ended.
ClientIsTold ==
    \A q \in Requests : req[q] = "streaming" ~> req[q] # "streaming"
=============================================================================

------------------------------ MODULE Reasoning -----------------------------
(***************************************************************************)
(* What a scan asks of the agent runtime: one tool-free call that triages  *)
(* its findings (reasoning/triage.py), then, finding by finding, a run     *)
(* with tools and a tool-free call that extracts the structured            *)
(* investigation from its write-up (reasoning/engine.py).  The extraction  *)
(* waits for the semaphore again, after the run has given its permit back. *)
(***************************************************************************)
EXTENDS AgentRuntime

CONSTANTS
    Scans,          \* the scans, and the calls they make
    N,              \* findings of a scan
    MaxItems        \* bound: items of a triage answer

ASSUME ReasoningAssumption ==
    Scans \subseteq Calls /\ N \in Nat \ {0} /\ MaxItems \in Nat

VARIABLES
    job,        \* what each scan is at
    triage,     \* what its triage decided
    loop,       \* the ToolLoopResult of its investigation
    ended,      \* history: how the run behind it ended
    inv         \* the Investigation it ended with

reasoningVars == <<job, triage, loop, ended, inv>>

Findings == 1..N

\* An item of the model's answer: "malformed" stands for one that is no object
\* or has a null action, group 0 for one that is missing its mark.
Items == [action : {"INVESTIGATE", "DISMISS", "malformed"}, group : {0}]
    \cup [action : {"CORRELATE"}, group : 0..N]
Answers == UNION {[1..n -> Items] : n \in 0..MaxItems}

Untriaged == [to_investigate |-> {}, dismissed |-> {}, groups |-> {},
              answer |-> <<>>, how |-> "none"]
NoLoop == [written |-> FALSE, tools |-> FALSE]    \* the empty ToolLoopResult
NoInvestigation == [confidence |-> "none", parsed |-> FALSE]

Jobs == {"off", "triage", "triaged", "loop", "extract", "done"}
Investigations == [confidence : {"none", "low", "medium", "high"}, parsed : BOOLEAN]

ReasoningTypeOK ==
    /\ job \in [Scans -> Jobs]
    /\ \A s \in Scans :
         /\ triage[s].to_investigate \cup triage[s].dismissed \subseteq Findings
         /\ triage[s].how \in {"none", "failed", "unparsed", "answered"}
    /\ loop \in [Scans -> [written : BOOLEAN, tools : BOOLEAN]]
    /\ ended \in [Scans -> {"none", "raised", "finished"}]
    /\ inv \in [Scans -> Investigations]

ReasoningInit ==
    /\ job = [s \in Scans |-> "off"]
    /\ triage = [s \in Scans |-> Untriaged]
    /\ loop = [s \in Scans |-> NoLoop]
    /\ ended = [s \in Scans |-> "none"]
    /\ inv = [s \in Scans |-> NoInvestigation]

-----------------------------------------------------------------------------
(* triage_findings.                                                        *)

AllIn(how) == [Untriaged EXCEPT !.to_investigate = Findings, !.how = how]

\* Mutant: the primaries of the groups are left to their own item.
ClassifyNoPrimary(answer) ==
    LET I == {i \in Findings : i <= Len(answer)}
        Is(i, action) == answer[i].action = action
        Grouped == {i \in I : Is(i, "CORRELATE") /\ answer[i].group \in Findings}
        Dismissed == {i \in I : Is(i, "DISMISS")}
        Primaries == {answer[i].group : i \in Grouped}
    IN  [to_investigate |-> I \ (Grouped \cup Dismissed),
         dismissed |-> Dismissed,
         groups |-> {[primary |-> g,
                      related |-> {i \in Grouped : answer[i].group = g} \ {g}] :
                     g \in Primaries},
         answer |-> answer, how |-> "answered"]
\* The loop over the answer: items past the findings are not looked at, and
\* the primary of a group is investigated unless it was dismissed.
Classify(answer) ==
    LET I == {i \in Findings : i <= Len(answer)}
        Is(i, action) == answer[i].action = action
        Grouped == {i \in I : Is(i, "CORRELATE") /\ answer[i].group \in Findings}
        Dismissed == {i \in I : Is(i, "DISMISS")}
        Primaries == {answer[i].group : i \in Grouped}
    IN  [to_investigate |-> (I \ (Grouped \cup Dismissed)) \cup (Primaries \ Dismissed),
         dismissed |-> Dismissed,
         groups |-> {[primary |-> g,
                      related |-> {i \in Grouped : answer[i].group = g} \ {g}] :
                     g \in Primaries},
         answer |-> answer, how |-> "answered"]

\* The call is over, and the task was not cancelled in it.
Answered(s) == at[s] = "ended" /\ run[s].out # "cancelled"

StartTriage(s) ==
    /\ job[s] = "off"
    /\ Call(s, FALSE, FALSE)
    /\ job' = [job EXCEPT ![s] = "triage"]
    /\ UNCHANGED <<triage, loop, ended, inv>>

\* A malformed item raises outside the try, so the whole scan fails.
TriageEnds(s) ==
    /\ job[s] = "triage" /\ Answered(s)
    /\ \/ /\ run[s].out = "raised"
          /\ triage' = [triage EXCEPT ![s] = AllIn("failed")]
          /\ job' = [job EXCEPT ![s] = "triaged"]
       \/ /\ run[s].out # "raised"
          /\ triage' = [triage EXCEPT ![s] = AllIn("unparsed")]
          /\ job' = [job EXCEPT ![s] = "triaged"]
       \/ \E answer \in Answers :
            /\ run[s].out \notin {"raised", "nothing"}
            /\ IF \E i \in DOMAIN answer : answer[i].action = "malformed"
               THEN job' = [job EXCEPT ![s] = "off"] /\ UNCHANGED triage
               ELSE /\ triage' = [triage EXCEPT ![s] = Classify(answer)]
                    /\ job' = [job EXCEPT ![s] = "triaged"]
    /\ Return(s)
    /\ UNCHANGED <<loop, ended, inv>>

-----------------------------------------------------------------------------
(* investigate_finding.                                                    *)

\* A deep scan skips the triage; what was dismissed is not investigated.
Investigate(s) ==
    /\ job[s] \in {"off", "triaged", "done"}
    /\ triage[s].dismissed # Findings
    /\ Call(s, TRUE, TRUE)
    /\ job' = [job EXCEPT ![s] = "loop"]
    /\ triage' = [triage EXCEPT ![s] = Untriaged]
    /\ loop' = [loop EXCEPT ![s] = NoLoop]
    /\ ended' = [ended EXCEPT ![s] = "none"]
    /\ inv' = [inv EXCEPT ![s] = NoInvestigation]

\* Mutant: a failed run hands back the tools its recorder saw.
LoopResultPartial(s) ==
    [written |-> run[s].out \notin {"raised", "nothing"}, tools |-> run[s].used]
\* run_tool_loop: an exception is logged and comes back as an empty result.
LoopResult(s) ==
    IF run[s].out = "raised" THEN NoLoop
    ELSE [written |-> run[s].out # "nothing", tools |-> run[s].used]

\* Nothing written and no tool used is no investigation; anything else is
\* sent to the extraction, another call of the runtime.
LoopEnds(s) ==
    /\ job[s] = "loop" /\ Answered(s)
    /\ loop' = [loop EXCEPT ![s] = LoopResult(s)]
    /\ ended' = [ended EXCEPT ![s] =
                   IF run[s].out = "raised" THEN "raised" ELSE "finished"]
    /\ IF LoopResult(s) = NoLoop
       THEN job' = [job EXCEPT ![s] = "done"] /\ Return(s)
       ELSE job' = [job EXCEPT ![s] = "extract"] /\ Call(s, FALSE, FALSE)
    /\ UNCHANGED <<triage, inv>>

\* The fallback of a failed extraction and of an answer that cannot be parsed.
Unextracted == [confidence |-> "low", parsed |-> FALSE]
Extracted(confidence) == [confidence |-> confidence, parsed |-> TRUE]

ExtractionEnds(s) ==
    /\ job[s] = "extract" /\ Answered(s)
    /\ \/ inv' = [inv EXCEPT ![s] = Unextracted]
       \/ /\ run[s].out \notin {"raised", "nothing"}
          /\ \E confidence \in {"low", "medium", "high"} :
               inv' = [inv EXCEPT ![s] = Extracted(confidence)]
    /\ job' = [job EXCEPT ![s] = "done"]
    /\ loop' = [loop EXCEPT ![s] = NoLoop]
    /\ Return(s)
    /\ UNCHANGED <<triage, ended>>

\* The scan stores what it has and ends.
Store(s) ==
    /\ job[s] \in {"triaged", "done"}
    /\ job' = [job EXCEPT ![s] = "off"]
    /\ triage' = [triage EXCEPT ![s] = Untriaged]
    /\ loop' = [loop EXCEPT ![s] = NoLoop]
    /\ ended' = [ended EXCEPT ![s] = "none"]
    /\ inv' = [inv EXCEPT ![s] = NoInvestigation]
    /\ UNCHANGED rvars

\* stop_scan cancels the task that waits, more than once if it is asked again.
StopScan(s) ==
    /\ job[s] \in {"triage", "loop", "extract"} /\ at[s] # "ended"
    /\ Cancel(s)
    /\ UNCHANGED reasoningVars

\* CancelledError passes every `except Exception` on its way out; what the
\* closing down of the session raised in its place would not.
Stopped(s) ==
    /\ job[s] \in {"triage", "loop", "extract"}
    /\ at[s] = "ended" /\ run[s].out = "cancelled"
    /\ Return(s)
    /\ job' = [job EXCEPT ![s] = "off"]
    /\ triage' = [triage EXCEPT ![s] = Untriaged]
    /\ loop' = [loop EXCEPT ![s] = NoLoop]
    /\ ended' = [ended EXCEPT ![s] = "none"]
    /\ UNCHANGED inv

Reason(s) ==
    \/ StartTriage(s) \/ TriageEnds(s)
    \/ Investigate(s) \/ LoopEnds(s) \/ ExtractionEnds(s)
    \/ Store(s) \/ StopScan(s) \/ Stopped(s)

-----------------------------------------------------------------------------
(* Properties.                                                             *)

\* A triage that failed or cannot be read sends every finding on; one that
\* was read drops only what its item dismisses, and whatever else it spoke of
\* is investigated, itself or through the primary of a group it is in, unless
\* that primary was dismissed (triage_findings, "Fail open").
TriageFailsOpen ==
    \A s \in Scans :
        LET t == triage[s]
            Spoken == {i \in Findings : i <= Len(t.answer)}
            Kept == t.to_investigate \cup t.dismissed
        IN  /\ t.how \in {"failed", "unparsed"} =>
                 t.to_investigate = Findings /\ t.dismissed = {}
            /\ t.how = "answered" =>
                 /\ t.dismissed = {i \in Spoken : t.answer[i].action = "DISMISS"}
                 /\ t.to_investigate \cap t.dismissed = {}
                 /\ \A i \in Spoken :
                      \/ i \in Kept
                      \/ \E g \in t.groups : i \in g.related /\ g.primary \in Kept

\* An investigation comes from a run that finished, and is better than low
\* only when its structure was parsed from the extraction's answer
\* (run_tool_loop, investigate_finding, _extract_structured_output).
InvestigationIsFounded ==
    \A s \in Scans :
        inv[s] # NoInvestigation =>
            /\ ended[s] = "finished"
            /\ inv[s].confidence \in {"medium", "high"} => inv[s].parsed
=============================================================================

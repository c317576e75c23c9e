---------------------------- MODULE ScanPipeline ----------------------------
(***************************************************************************)
(* From detection to the stored investigations: how a scan decides what to *)
(* investigate and what it leaves behind for the next one.  The UI scan    *)
(* (api/router.py), the scheduled scan (scheduler.py) and the command line *)
(* (cli.py, which takes no lock) each have a copy of the sequence; they    *)
(* share reasoning/gate.py, compute_diff and the two values in Valkey,     *)
(* watchdog:findings:latest and watchdog:investigations:latest.            *)
(*                                                                         *)
(* A finding is its fingerprint.  What a scan has found is what is left of *)
(* it after dedupe, correlation and triage, each with its severity of the  *)
(* day.  Dismissals and links are FindingsStore's subject.                 *)
(***************************************************************************)
EXTENDS Naturals, FiniteSets

CONSTANTS
    F,              \* fingerprints
    Kind,           \* [F -> Kinds]: category and pattern, as far as plans ask
    CategoryWeight, \* [F -> Nat]
    Runners,        \* whoever scans: the server, and command lines beside it
    Modes,          \* the modes they scan in
    Cap,            \* max_investigations_per_scan of a regular scan
    DeepCap,        \* ... of a deep scan
    SchedDeepCap    \* max_scheduled of a scheduled deep scan

\* "pattern": a consecutive failure or a regression; "shared": a failure
\* signature shared by jobs; "build": a failed build, a queue or any other
\* pattern; "offline": an offline agent that is not one of k3s.
Kinds == {"pattern", "shared", "build", "offline", "other"}
Severities == {"critical", "warning", "low"}
Confidences == {"none", "low", "high"}      \* "low" also stands for "medium"

\* What the pipeline-pattern check gives them.
SeveritiesOf(f) ==
    CASE Kind[f] = "shared"  -> {"critical"}
      [] Kind[f] = "pattern" -> {"critical", "warning"}
      [] OTHER -> Severities

AllModes == {"ui", "uiDeep", "uiAll", "sched", "schedDeep", "cli", "cliDeep"}

ASSUME ScanPipelineAssumption ==
    /\ Kind \in [F -> Kinds] /\ CategoryWeight \in [F -> Nat] /\ IsFiniteSet(F)
    /\ Modes \subseteq AllModes
    /\ Cap \in Nat /\ DeepCap \in Nat /\ SchedDeepCap \in Nat

VARIABLES
    stored,        \* the fingerprints of watchdog:findings:latest
    investigated,  \* the confidence of each stored investigation
    scan,          \* the scan each runner has in progress
    redo,          \* the reinvestigate request in progress
    owed,          \* history: stored as new and serious, and stored ever since
    excused        \* history: the owed whose investigation was cut by the budget,
                   \* failed, was called off, died unsaved or was written over

vars == <<stored, investigated, scan, redo, owed, excused>>

None == [f \in F |-> "none"]
NoScan == [pc |-> "idle", mode |-> "ui", found |-> {}, sev |-> [f \in F |-> "low"],
           new |-> {}, todo |-> {}, missed |-> {}, settled |-> {}, got |-> None, copy |-> None]
NoRedo == [pc |-> "idle", fps |-> {}, copy |-> None]

ScanType ==
    [pc : {"idle", "compare", "plan", "run", "invRead", "invWrite"}, mode : AllModes,
     found : SUBSET F, sev : [F -> Severities], new : SUBSET F, todo : SUBSET F,
     missed : SUBSET F, settled : SUBSET F, got : [F -> Confidences], copy : [F -> Confidences]]

TypeOK ==
    /\ stored \subseteq F
    /\ investigated \in [F -> Confidences]
    /\ scan \in [Runners -> ScanType]
    /\ redo \in [pc : {"idle", "read", "write"}, fps : SUBSET F, copy : [F -> Confidences]]
    /\ owed \subseteq stored
    /\ excused \subseteq F

Init ==
    /\ stored = {} /\ investigated = None
    /\ scan = [r \in Runners |-> NoScan] /\ redo = NoRedo
    /\ owed = {} /\ excused = {}
-----------------------------------------------------------------------------
(* The plan.                                                               *)

Deep(mode) == mode \in {"uiDeep", "schedDeep", "cliDeep"}
CommandLine(mode) == mode \in {"cli", "cliDeep"}
Serious(s) == s \in {"critical", "warning"}
Pattern(f) == Kind[f] \in {"pattern", "shared"}
HighValue(f) == Kind[f] \in {"pattern", "shared", "build"}

\* What the scan proposes: all of it, the serious, or the serious news and the
\* critical rest; UI and command line add the pipeline patterns.
Candidates(mode, found, sev, new) ==
    {f \in found :
        \/ mode = "uiAll"
        \/ Deep(mode) /\ Serious(sev[f])
        \/ ~Deep(mode) /\ f \in new /\ Serious(sev[f])
        \/ ~Deep(mode) /\ f \notin new /\ sev[f] = "critical"
        \/ mode \in {"ui", "cli"} /\ Pattern(f)}

\* Mutant: the confidence of the stored investigation is not looked at.
ShouldInvestigateAgain(f, s, isNew, high, deep) ==
    /\ Kind[f] # "offline"
    /\ IF deep THEN Serious(s)
       ELSE \/ HighValue(f) /\ isNew
            \/ isNew /\ Serious(s)
            \/ ~isNew /\ s = "critical"

\* should_investigate.
ShouldInvestigate(f, s, isNew, high, deep) ==
    /\ Kind[f] # "offline"
    /\ isNew \/ deep \/ ~high
    /\ IF deep THEN Serious(s)
       ELSE \/ HighValue(f) /\ (isNew \/ s = "critical")
            \/ Kind[f] = "shared" /\ (isNew \/ s = "critical")
            \/ isNew /\ Serious(s)
            \/ ~isNew /\ s = "critical"

\* Mutant: the scheduler lets everything through.
GatedSched(mode, found, sev, new, known) ==
    {f \in Candidates(mode, found, sev, new) :
        \/ mode \in {"uiAll", "sched"}
        \/ ShouldInvestigate(f, sev[f], f \in new, known[f] = "high", Deep(mode))}

Gated(mode, found, sev, new, known) ==
    {f \in Candidates(mode, found, sev, new) :
        \/ mode = "uiAll"
        \/ ShouldInvestigate(f, sev[f], f \in new, known[f] = "high", Deep(mode))}

SeverityWeight(s) == CASE s = "critical" -> 50 [] s = "warning" -> 20 [] s = "low" -> 5
Score(f, s) == CategoryWeight[f] + SeverityWeight(s)

Budget(mode) ==
    CASE mode = "schedDeep" -> IF SchedDeepCap < DeepCap THEN SchedDeepCap ELSE DeepCap
      [] mode \in {"uiDeep", "cliDeep"} -> DeepCap
      [] OTHER -> Cap

\* Sorted by score and cut to the budget: equals keep the order of detection,
\* which the checks decide.
Cuts(gated, sev, n) ==
    {p \in SUBSET gated :
        /\ IF Cardinality(gated) <= n THEN p = gated ELSE Cardinality(p) = n
        /\ \A f \in p, g \in gated \ p : Score(f, sev[f]) >= Score(g, sev[g])}
-----------------------------------------------------------------------------
(* The scan.                                                               *)

Put(r, s) == scan' = [scan EXCEPT ![r] = s]

\* What a scan gets to read: the command line takes a Valkey that does not
\* answer for an empty one, the other scans fail.
Readings(mode, value, empty) == {value} \cup {e \in {empty} : CommandLine(mode)}

Detect(r) ==
    /\ scan[r].pc = "idle"
    /\ \E mode \in Modes, found \in SUBSET F : \E sev \in [found -> Severities] :
          /\ \A f \in found : sev[f] \in SeveritiesOf(f)
          /\ Put(r, [NoScan EXCEPT !.pc = "compare", !.mode = mode, !.found = found,
                        !.sev = [f \in F |-> IF f \in found THEN sev[f] ELSE "low"]])
    /\ UNCHANGED <<stored, investigated, redo, owed, excused>>

\* get_previous_findings and compute_diff.
Compare(r) ==
    /\ scan[r].pc = "compare"
    /\ \E previous \in Readings(scan[r].mode, stored, {}) :
          Put(r, [scan[r] EXCEPT !.pc = "plan", !.new = scan[r].found \ previous])
    /\ UNCHANGED <<stored, investigated, redo, owed, excused>>

\* What a scan may ask about again although the answer is sure: a regular scan of
\* the server its new findings, any other scan whatever it has found.
MayReopen(s) == IF s.mode \in {"ui", "sched"} THEN s.new ELSE s.found

\* History: the other sure answers on record when the scan made its plan.
Settled(s) == {f \in F : investigated[f] = "high"} \ MayReopen(s)

\* get_stored_investigations, gate, sort, cut.
Plan(r) ==
    /\ scan[r].pc = "plan"
    /\ \E known \in Readings(scan[r].mode, investigated, None) :
          LET s == scan[r]
              gated == Gated(s.mode, s.found, s.sev, s.new, known)
          IN \E p \in Cuts(gated, s.sev, Budget(s.mode)) :
                Put(r, [s EXCEPT !.pc = "run", !.todo = p, !.missed = gated \ p,
                           !.settled = Settled(s)])
    /\ UNCHANGED <<stored, investigated, redo, owed, excused>>

\* One investigation, the highest score first: a result, or none.
Investigate(r) ==
    /\ scan[r].pc = "run"
    /\ \E f \in scan[r].todo, c \in Confidences :
          /\ \A g \in scan[r].todo :
                Score(f, scan[r].sev[f]) >= Score(g, scan[r].sev[g])
          /\ Put(r, [scan[r] EXCEPT !.todo = @ \ {f}, !.got[f] = c,
                        !.missed = IF c = "none" THEN @ \cup {f} ELSE @])
    /\ UNCHANGED <<stored, investigated, redo, owed, excused>>

\* A cancelled scheduled scan leaves the loop and stores what it has.
StopEarly(r) ==
    /\ scan[r].pc = "run" /\ scan[r].mode \in {"sched", "schedDeep"}
    /\ scan[r].todo # {}
    /\ Put(r, [scan[r] EXCEPT !.todo = {}, !.missed = @ \cup scan[r].todo])
    /\ UNCHANGED <<stored, investigated, redo, owed, excused>>

\* Mutant: only what was investigated is stored.
StoreInvestigated(r) ==
    /\ scan[r].pc = "run" /\ scan[r].todo = {}
    /\ stored' = {f \in scan[r].found : scan[r].got[f] # "none"}
    /\ owed' = (owed \cap stored') \cup
          {f \in scan[r].new : Serious(scan[r].sev[f]) /\ Kind[f] # "offline"}
    /\ excused' = (excused \cap stored') \cup scan[r].missed
    /\ IF scan[r].got = None THEN Put(r, NoScan)
                             ELSE Put(r, [NoScan EXCEPT !.pc = "invRead", !.got = scan[r].got,
                                                         !.settled = scan[r].settled])
    /\ UNCHANGED <<investigated, redo>>

\* store_run_result.
StoreFindings(r) ==
    /\ scan[r].pc = "run" /\ scan[r].todo = {}
    /\ stored' = scan[r].found
    /\ owed' = (owed \cap stored') \cup
          {f \in scan[r].new : Serious(scan[r].sev[f]) /\ Kind[f] # "offline"}
    /\ excused' = (excused \cap stored') \cup scan[r].missed
    /\ IF scan[r].got = None THEN Put(r, NoScan)
                             ELSE Put(r, [NoScan EXCEPT !.pc = "invRead", !.got = scan[r].got,
                                                         !.settled = scan[r].settled])
    /\ UNCHANGED <<investigated, redo>>

\* store_investigations reads the stored ones...
InvRead(r) ==
    /\ scan[r].pc = "invRead"
    /\ Put(r, [scan[r] EXCEPT !.pc = "invWrite", !.copy = investigated])
    /\ UNCHANGED <<stored, investigated, redo, owed, excused>>

\* Mutant: the results replace what was stored.
MergeFresh(copy, got) == got

\* {**existing, **results}
Merge(copy, got) == [f \in F |-> IF got[f] = "none" THEN copy[f] ELSE got[f]]

\* Investigations written back from a copy: one stored meanwhile is lost.
WriteBack(copy, value) ==
    /\ investigated' = value
    /\ excused' = IF copy = investigated THEN excused
                  ELSE excused \cup {f \in F : investigated[f] # "none" /\ value[f] = "none"}

\* ... and writes the merged value back.
InvWrite(r) ==
    /\ scan[r].pc = "invWrite"
    /\ WriteBack(scan[r].copy, Merge(scan[r].copy, scan[r].got))
    /\ Put(r, NoScan)
    /\ UNCHANGED <<stored, redo, owed>>

\* Cancelled by the UI, failed, or the process died.
Abort(r) ==
    /\ scan[r].pc # "idle"
    /\ excused' = IF scan[r].pc \in {"invRead", "invWrite"}
                    THEN excused \cup {f \in F : scan[r].got[f] # "none"} ELSE excused
    /\ Put(r, NoScan)
    /\ UNCHANGED <<stored, investigated, redo, owed>>
-----------------------------------------------------------------------------
(* The requests.                                                           *)

\* reinvestigate_finding: the finding is stored when the request comes in, the
\* investigations are read after the model has answered.
RedoStart ==
    /\ redo.pc = "idle"
    /\ \E f \in stored : redo' = [redo EXCEPT !.pc = "read", !.fps = {f}]
    /\ UNCHANGED <<stored, investigated, scan, owed, excused>>

RedoRead ==
    /\ redo.pc = "read"
    /\ \/ redo' = [redo EXCEPT !.pc = "write", !.copy = investigated]
       \/ redo' = NoRedo
    /\ UNCHANGED <<stored, investigated, scan, owed, excused>>

RedoWrite ==
    /\ redo.pc = "write"
    /\ \E c \in Confidences \ {"none"} :
          WriteBack(redo.copy, [f \in F |-> IF f \in redo.fps THEN c ELSE redo.copy[f]])
    /\ redo' = NoRedo
    /\ UNCHANGED <<stored, scan, owed>>

\* reset_state: findings and investigations in one DELETE.
Reset ==
    /\ stored' = {} /\ investigated' = None
    /\ owed' = {} /\ excused' = {}
    /\ UNCHANGED <<scan, redo>>

Next ==
    \/ \E r \in Runners :
          \/ Detect(r) \/ Compare(r) \/ Plan(r) \/ Investigate(r) \/ StopEarly(r)
          \/ StoreFindings(r) \/ InvRead(r) \/ InvWrite(r) \/ Abort(r)
    \/ RedoStart \/ RedoRead \/ RedoWrite \/ Reset

Spec == Init /\ [][Next]_vars
-----------------------------------------------------------------------------
(* Properties.                                                             *)

Pending(f) ==
    \E r \in Runners : scan[r].pc \in {"invRead", "invWrite"} /\ scan[r].got[f] # "none"

\* A regular scan never comes back to a warning it has seen before, so a new
\* critical or warning finding must not be stored without its investigation:
\* it has one, one is being saved, or there is a reason on record.
NothingForgotten ==
    \A f \in owed : investigated[f] # "none" \/ Pending(f) \/ f \in excused

\* The three copies of the plan agree: what a regular scan investigates does
\* not depend on who runs it, although only two of them propose every pattern.
PlansAgree ==
    \A r \in Runners : scan[r].pc = "plan" =>
        LET s == scan[r]
            Of(mode) == Gated(mode, s.found, s.sev, s.new, investigated)
        IN Of("ui") = Of("sched") /\ Of("cli") = Of("sched")

\* A scan stores its answers long after it planned them, over whatever the
\* others stored in between.  A sure answer that was on record when it planned,
\* and that it had no business with, is still there when it is done; only a
\* reset, a re-investigation or a stale copy written back takes one away (gate
\* and store_investigations).
SureAnswersStand ==
    [][\A f \in F : investigated[f] = "high" /\ investigated'[f] # "high" =>
          \/ Reset \/ RedoWrite
          \/ \E r \in Runners :
                InvWrite(r) /\ (scan[r].copy # investigated \/ f \notin scan[r].settled)]_vars

\* router.py: "Always investigate pipeline patterns and shared failure
\* signatures", if the budget has room and none has a sure answer yet.
PatternsAlways ==
    [][\A r \in Runners :
          Plan(r) /\ scan[r].mode = "ui" /\ Cardinality(scan'[r].todo) < Cap
            => \A f \in scan[r].found :
                  Pattern(f) /\ investigated[f] # "high" => f \in scan'[r].todo]_vars
=============================================================================

---------------------------- MODULE Observations ----------------------------
(***************************************************************************)
(* What the checks (checks/*.py) read from Jenkins and Kubernetes, and the *)
(* findings they answer with.  An observation is a field of a subject (a   *)
(* pod, a Jenkins node, a job, ...); its scale lists the values it may be  *)
(* read at, the healthy one first, a value on each side of every threshold *)
(* of the checks.  Lists come in the order of the API's answer.            *)
(***************************************************************************)
EXTENDS Integers, Sequences, FiniteSets, SequencesExt

CONSTANTS
    Pods,      \* agent pods, one container each, in settings.jenkins_namespace
    Agents,    \* Jenkins nodes other than the built-in one
    K3s,       \* the agents with k3s in their name
    PoolOf,    \* [pods and agents -> pool]: what extract_agent_prefix leaves
    Jobs,      \* jobs: each a folder's pipeline with branches of its own
    Builds,    \* running builds
    RunsOn,    \* [Builds -> Agents and pods]
    Nodes,     \* Kubernetes nodes
    EventOn    \* <<the pod an event is about, the node that reported it>>

ASSUME ObservationsAssumption ==
    /\ \A list \in {Pods, Agents, Jobs, Builds, Nodes} :
           list \in Seq(ToSet(list)) /\ IsInjective(list)   \* nothing is listed twice
    /\ K3s \subseteq ToSet(Agents)
    /\ DOMAIN PoolOf = ToSet(Pods) \cup ToSet(Agents)
    /\ RunsOn \in [ToSet(Builds) -> DOMAIN PoolOf]
    /\ EventOn \in ToSet(Pods) \X ToSet(Nodes)

Namespace == "jenkins"
History   == 12     \* bound: builds a job keeps, at least 10 and at most 15

\* Usage in percent of the limit; thresholds 80, 85, 90 and 95.
Percent == <<50, 83, 88, 93, 97>>
Brief   == <<50, 97>>

PodScale == [
    state    |-> <<"running", "pending", "exit1", "exit137", "CrashLoopBackOff",
                   "ImagePullBackOff">>,
    oomed    |-> <<FALSE, TRUE>>,           \* last_state: OOMKilled
    restarts |-> <<0, 6>>,
    deleting |-> <<FALSE, TRUE>>,
    limits   |-> <<TRUE, FALSE>>,
    mem |-> Percent, cpu |-> Brief,
    errors   |-> <<0, 2>>]                  \* log lines with an error pattern

AgentScale == [
    state     |-> <<"online", "temporarily", "offline">>,
    reason    |-> <<"none given", "lost">>,
    executors |-> <<10, 0>>,
    busy      |-> <<0, 9, 10>>,
    mem       |-> Percent \o <<100>>,
    disk      |-> <<20000, 3000, 500, 0>>]  \* MB free

\* A job's builds, newest first: one in its own state (head), a streak of
\* failures, and the builds before it; one build every so many hours.
JobScale == [
    head     |-> <<"none", "running", "UNSTABLE">>,
    failures |-> <<0, 1, 2, 3>>,
    before   |-> <<"success", "mixed", "none">>,
    hours    |-> <<1, 5, 30>>,
    console  |-> <<"infra", "odd", "absent">>,
    params   |-> <<"fine", "empty">>,
    disabled |-> <<FALSE, TRUE>>,
    polling  |-> <<"fine", "errors">>,
    stale    |-> <<0, 5, 6>>]               \* branches not built in 30 days

BuildScale == [
    minutes |-> <<20, 180, 600, 1500>>,
    tenths  |-> <<10, 35, 42, 60>>,         \* elapsed / estimated, in tenths
    log     |-> <<10, 60, 120>>]            \* MB

NodeScale == [ready |-> <<TRUE, FALSE>>,
    pressure |-> <<"none", "MemoryPressure", "DiskPressure">>,
    mem |-> Percent, cpu |-> Brief]

OtherScale == [
    metrics    |-> [up |-> <<TRUE, FALSE>>],    \* metrics-server answers
    queue      |-> [size |-> <<0, 2, 25>>, stuck |-> <<0, 1, 4>>],
    controller |-> [api |-> <<"up", "down">>, quieting |-> <<FALSE, TRUE>>,
                    disk |-> <<50, 5, 0>>, temp |-> <<10, 1>>, mem |-> Percent,
                    response |-> <<100, 6000>>, updates |-> <<0, 25>>],
    plugin     |-> [loaded |-> <<TRUE, FALSE>>],
    credential |-> [says |-> <<"nothing", "renew", "expired">>],
    deployment |-> [gone |-> <<0, 1, 2>>, stuck |-> <<FALSE, TRUE>>],
    stateful   |-> [gone |-> <<0, 1, 2>>],
    event      |-> [reason |-> <<"none", "BackOff", "OOMKilling">>, old |-> <<FALSE, TRUE>>],
    cert       |-> [ready |-> <<TRUE, FALSE>>, days |-> <<90, 10, 2, -1>>],
    pvc        |-> [phase |-> <<"Bound", "Pending", "Lost">>, volume |-> <<"Bound", "Failed">>]]

Others   == DOMAIN OtherScale
Subjects == ToSet(Pods \o Agents \o Jobs \o Builds \o Nodes) \cup Others

\* Each kind of subject has names of its own.
ASSUME SubjectsAssumption ==
    LET Kinds == <<ToSet(Pods), ToSet(Agents), ToSet(Jobs), ToSet(Builds), ToSet(Nodes), Others>>
    IN  \A i, k \in DOMAIN Kinds : i # k => Kinds[i] \cap Kinds[k] = {}

Scale == [s \in Subjects |->
    CASE s \in ToSet(Pods)   -> PodScale
      [] s \in ToSet(Agents) -> AgentScale
      [] s \in ToSet(Jobs)   -> JobScale
      [] s \in ToSet(Builds) -> BuildScale
      [] s \in ToSet(Nodes)  -> NodeScale
      [] OTHER               -> OtherScale[s]]

Healthy == [s \in Subjects |-> [f \in DOMAIN Scale[s] |-> Scale[s][f][1]]]
-----------------------------------------------------------------------------
(* Findings.                                                               *)

SeverityWeight(sev) == CASE sev = "critical" -> 50 [] sev = "warning" -> 20 [] OTHER -> 5

\* A finding.  sym is the symptom as Finding.fingerprint keeps it, without its
\* numbers and what follows a bracket or a comma; its first part is what
\* symptom_class makes of it.  kw is the keyword dedupe finds in its full text.
\* sig, host and on come from the context; about is every resource it names.
Finding(sev, cat, res, sym) ==
    [sev |-> sev, cat |-> cat, res |-> res, sym |-> sym,
     kw |-> IF sym[1] \in {"OOMKilled", "CrashLoopBackOff"} THEN sym[1] ELSE "",
     sig |-> "", host |-> "", on |-> "", about |-> {res}, grouped |-> FALSE]

Fingerprint(f) == <<f.cat, f.res, f.sym>>

When(condition, x) == IF condition THEN <<x>> ELSE <<>>

Each(list, Answer(_)) == FlattenSeq([i \in DOMAIN list |-> Answer(list[i])])

\* Mutant: the two severities swapped.
SeverityForSwapped(percent, critical) == IF percent > critical THEN "warning" ELSE "critical"

\* _severity_for_pct, of a value already above warn.
SeverityFor(percent, critical) == IF percent > critical THEN "critical" ELSE "warning"

\* The Jenkins API, the metrics API answer.
Reachable(w) == w["controller"].api = "up"
Metered(w) == w["metrics"].up
=============================================================================

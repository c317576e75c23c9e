----------------------------- MODULE Detection -----------------------------
(***************************************************************************)
(* What a scan reports: run_all_checks (checks/registry.py), the grouping  *)
(* of agent findings (checks/agent_utils.py), the filter of the dismissed, *)
(* dedupe and correlation (api/router.py).                                 *)
(*                                                                         *)
(* All of it is a function of what the checks read, so the report is an    *)
(* operator, of the state as the next scan will find it; the actions change*)
(* that state: an observation, a check that fails or times out, the kind   *)
(* of the scan, a dismissal.                                               *)
(***************************************************************************)
EXTENDS AgentChecks, JenkinsChecks, ClusterChecks

CONSTANTS
    Families,      \* sets of subjects: what departs from healthy is within one
    MaxDepartures, \* bound: observations that depart from healthy
    MaxFaults,     \* bound: checks down and dismissals together
    Unreliable     \* the checks that may fail or time out

VARIABLES
    world,       \* what the checks read
    deep,        \* the next scan is a deep one
    down,        \* the checks that fail or time out
    dismissed    \* the dismissed fingerprints

vars == <<world, deep, down, dismissed>>
-----------------------------------------------------------------------------
(* The registry.                                                           *)

\* The registered checks, in order, with what each answers.
Answers(w, o) == <<
    <<"jenkins_agent_pods", AgentPodCheck(w)>>,
    <<"jenkins_agent_resources", AgentResourceCheck(w)>>,
    <<"jenkins_agent_errors", AgentErrorCheck(w)>>,
    <<"jenkins_agent_connectivity", AgentConnectivityCheck(w)>>,
    <<"agent_offline", AgentOfflineCheck(w)>>,
    <<"jenkins_jobs", JenkinsJobCheck(w)>>,
    <<"jenkins_failed_builds", JenkinsFailedBuildCheck(w, o)>>,
    <<"jenkins_pipeline_patterns", PipelinePatternCheck(w, o)>>,
    <<"executor_utilization", ExecutorUtilizationCheck(w)>>,
    <<"build_duration_anomaly", BuildDurationCheck(w)>>,
    <<"build_log_size", BuildLogSizeCheck(w)>>,
    <<"zombie_builds", ZombieBuildCheck(w)>>,
    <<"disabled_jobs", DisabledJobCheck(w)>>,
    <<"flaky_tests", FlakyTestCheck(w)>>,
    <<"scm_polling", SCMPollingCheck(w)>>,
    <<"stale_branches", StaleBranchCheck(w)>>,
    <<"controller_health", ControllerHealthCheck(w)>>,
    <<"plugin_health", PluginHealthCheck(w)>>,
    <<"credential_health", CredentialHealthCheck(w)>>,
    <<"k8s_nodes", NodeCheck(w)>>,
    <<"k8s_workloads", WorkloadCheck(w)>>,
    <<"k8s_events", EventsCheck(w)>>,
    <<"certs", CertCheck(w)>>,
    <<"pod_resources", PodResourceCheck(w)>>,
    <<"pvc_health", PVCCheck(w)>> >>

\* Mutant: a check without an answer ends the list.
RawFindingsCut(w, o, lost) ==
    LET answers == Answers(w, o)
        bad == {i \in DOMAIN answers : answers[i][1] \in lost} IN
    Each(SelectSeq(answers, LAMBDA a : \A i \in bad :
                       SelectInSeq(answers, LAMBDA b : b = a) < i),
         LAMBDA a : a[2])

\* A check that raises or times out leaves nothing, and the others what they found.
RawFindings(w, o, lost) ==
    Each(Answers(w, o), LAMBDA a : IF a[1] \in lost THEN <<>> ELSE a[2])
-----------------------------------------------------------------------------
(* Grouping, dedupe, correlation.                                          *)

\* A key is a set of one or no element.
Having(fs, keys, key) == FlattenSeq([i \in DOMAIN fs |-> When(keys[i] = key, fs[i])])
SharedKeys(fs, keys) ==
    FlattenSeq([i \in DOMAIN fs |->
        When(keys[i] # {} /\ \A k \in 1..(i - 1) : keys[k] # keys[i], keys[i])])

\* The findings without a key, each by itself, then the groups that share one,
\* in the order of their first members.
Groups(fs, keys) ==
    LET alone == Having(fs, keys, {})
        shared == SharedKeys(fs, keys) IN
    [i \in DOMAIN alone |-> <<alone[i]>>] \o [i \in DOMAIN shared |-> Having(fs, keys, shared[i])]

About(group) == UNION {group[i].about : i \in DOMAIN group}

\* extract_prefix_from_resource: the pool of a pod or an agent, or the pool itself.
Pool(res) == IF res[2] \in DOMAIN PoolOf THEN PoolOf[res[2]] ELSE res[2]

\* _merge_group: all are of one severity, so the first is the primary.
MergeGroup(group) ==
    LET primary == group[1]
        res == <<primary.res[1], Pool(primary.res)>> IN
    [primary EXCEPT !.res = res, !.sym = <<"N agents">> \o @, !.grouped = TRUE,
                    !.kw = IF primary.sym[1] = @ THEN @ ELSE "",
                    !.about = About(group) \cup {res}]

AgentKey(f) ==
    IF f.cat = "jenkins_agent" /\ ~f.grouped THEN {<<Pool(f.res), f.sym[1], f.sev>>} ELSE {}

GroupAgentFindings(fs) ==
    Each(Groups(fs, [i \in DOMAIN fs |-> AgentKey(fs[i])]),
         LAMBDA group : IF Len(group) = 1 THEN group ELSE <<MergeGroup(group)>>)

\* _extract_workload_key; no job or other resource of the model has a suffix
\* that a stateful set or a deployment gives.
WorkloadKey(res) == IF Len(res) < 2 THEN res ELSE <<res[1], Pool(res)>>

\* Mutant: one finding per resource and category.
DeduplicateByCategory(fs) ==
    FoldLeft(LAMBDA kept, f : IF \E i \in DOMAIN kept : kept[i].res = f.res /\ kept[i].cat = f.cat
                              THEN kept ELSE Append(kept, f), <<>>, fs)

\* One finding per resource, the first of the highest severity, in the place of
\* the first.
PerResource(fs) ==
    LET On(i) == {k \in DOMAIN fs : fs[k].res = fs[i].res}
        Worst(I) == {i \in I : \A k \in I : SeverityWeight(fs[k].sev) <= SeverityWeight(fs[i].sev)} IN
    FlattenSeq([i \in DOMAIN fs |-> When(i = Min(On(i)), fs[Min(Worst(On(i)))])])

\* And no CrashLoopBackOff beside an OOMKilled of the same workload.
Deduplicate(fs) ==
    LET kept == PerResource(fs) IN
    Each(kept, LAMBDA f :
        When(~ /\ f.kw = "CrashLoopBackOff"
               /\ \E i \in DOMAIN kept : /\ kept[i].kw = "OOMKilled"
                                         /\ WorkloadKey(kept[i].res) = WorkloadKey(f.res), f))

CategoryWeight(cat) ==
    CASE cat = "jenkins_controller" -> 100 [] cat = "jenkins_agent" -> 80
      [] cat = "jenkins_queue" -> 70 [] cat = "jenkins_pipeline_pattern" -> 65
      [] cat = "jenkins_failed_build" -> 60 [] cat = "jenkins_build" -> 55
      [] cat = "k8s_workload" -> 50 [] cat = "k8s_event" -> 45
      [] cat = "k8s_node" -> 40 [] OTHER -> 30

PriorityScore(f) == CategoryWeight(f.cat) + SeverityWeight(f.sev)

\* Mutant: the category alone decides.
LeadByCategory(group) ==
    LET best == {i \in DOMAIN group : \A k \in DOMAIN group :
                     CategoryWeight(group[k].cat) <= CategoryWeight(group[i].cat)} IN
    [group[Min(best)] EXCEPT !.about = About(group)]

\* The member of the highest score, the first of them, speaks for its group.
Lead(group) ==
    LET best == {i \in DOMAIN group :
                     \A k \in DOMAIN group : PriorityScore(group[k]) <= PriorityScore(group[i])} IN
    [group[Min(best)] EXCEPT !.about = About(group)]

JenkinsRelated(f) ==
    f.cat \in {"jenkins_agent", "jenkins_controller", "jenkins_queue", "jenkins_build",
               "jenkins_failed_build", "jenkins_pipeline_pattern", "jenkins_executor",
               "jenkins_job", "jenkins_flaky_test", "jenkins_scm_polling",
               "jenkins_stale_branch", "jenkins_plugin", "jenkins_credential"}

\* Each cluster finding goes to the first build on its node or pod.
LinkBuilds(fs) ==
    LET Match(b, k) == /\ fs[b].on # "" /\ fs[k].cat \in {"k8s_workload", "k8s_event", "k8s_node"}
                       /\ fs[b].on \in {fs[k].host, Last(fs[k].res)}
        First(b, k) == Match(b, k) /\ \A c \in 1..(b - 1) : ~Match(c, k) IN
    [b \in DOMAIN fs |-> [fs[b] EXCEPT
        !.about = @ \cup {fs[k].res : k \in {k \in DOMAIN fs : First(b, k)}}]]

NodeNamed(f) == IF f.host # "" THEN f.host ELSE IF f.cat = "k8s_node" THEN Last(f.res) ELSE ""

SignatureKey(f) ==
    IF f.sig # "" /\ f.cat \in {"jenkins_failed_build", "jenkins_pipeline_pattern"}
    THEN {f.sig} ELSE {}

\* Builds that failed alike.
BySignature(fs) ==
    Each(Groups(fs, [i \in DOMAIN fs |-> SignatureKey(fs[i])]),
         LAMBDA group : IF Len(group) = 1 THEN group ELSE <<Lead(group)>>)

\* Whatever shares a node, if Jenkins has a part in it.
ByNode(fs) ==
    Each(Groups(fs, [i \in DOMAIN fs |-> {NodeNamed(fs[i])} \ {""}]),
         LAMBDA group : IF Len(group) > 1 /\ \E i \in DOMAIN group : JenkinsRelated(group[i])
                        THEN <<Lead(group)>> ELSE group)

Correlate(fs) == ByNode(LinkBuilds(BySignature(GroupAgentFindings(fs))))

\* What run_all_checks returns.
Detected(w, o, lost) == GroupAgentFindings(RawFindings(w, o, lost))

Undismissed(fs, dis) == Each(fs, LAMBDA f : When(Fingerprint(f) \notin dis, f))

\* Mutant: the dismissed leave before the agents' findings are grouped.
ReportFilteredEarly(w, o, lost, dis) ==
    Correlate(Deduplicate(GroupAgentFindings(Undismissed(RawFindings(w, o, lost), dis))))

\* What the scan goes on with.
Report(w, o, lost, dis) == Correlate(Deduplicate(Undismissed(Detected(w, o, lost), dis)))

Options == IF deep THEN Deep ELSE Regular
Reported == Report(world, Options, down, dismissed)
-----------------------------------------------------------------------------
Departures(w) == {d \in UNION {{s} \X DOMAIN Scale[s] : s \in Subjects} :
                     w[d[1]][d[2]] # Healthy[d[1]][d[2]]}

\* The bounds; a deep scan differs in what it makes of jobs only.
Bounded ==
    LET departed == Departures(world') IN
    /\ Cardinality(departed) <= MaxDepartures
    /\ Cardinality(down') + Cardinality(dismissed') <= MaxFaults
    /\ \E family \in Families :
           /\ \A d \in departed : d[1] \in family
           /\ deep' => ToSet(Jobs) \subseteq family

Init == world = Healthy /\ deep = FALSE /\ down = {} /\ dismissed = {}

\* Something is read at another value than before (bound: while nothing is
\* dismissed).
Observe(s, f, v) ==
    /\ dismissed = {}
    /\ v # world[s][f]
    /\ world' = [world EXCEPT ![s][f] = v]
    /\ UNCHANGED <<deep, down, dismissed>>
    /\ Bounded

\* A check raises or times out, or answers again.
Fail(c) ==
    /\ c \notin down
    /\ down' = down \cup {c}
    /\ UNCHANGED <<world, deep, dismissed>>
    /\ Bounded

Answer(c) ==
    /\ c \in down
    /\ down' = down \ {c}
    /\ UNCHANGED <<world, deep, dismissed>>

\* A scan of the other kind comes next.
Switch ==
    /\ deep' = ~deep
    /\ UNCHANGED <<world, down, dismissed>>
    /\ Bounded

\* A user dismisses what was reported, or takes that back.
Dismiss ==
    \E f \in ToSet(Reported) :
        /\ dismissed' = dismissed \cup {Fingerprint(f)}
        /\ UNCHANGED <<world, deep, down>>
        /\ Bounded

Undismiss ==
    \E fp \in dismissed :
        /\ dismissed' = dismissed \ {fp}
        /\ UNCHANGED <<world, deep, down>>

Next ==
    \/ \E s \in Subjects : \E f \in DOMAIN Scale[s] : \E v \in ToSet(Scale[s][f]) : Observe(s, f, v)
    \/ \E c \in Unreliable : Fail(c) \/ Answer(c)
    \/ Switch
    \/ Dismiss
    \/ Undismiss

Spec == Init /\ [][Next]_vars
-----------------------------------------------------------------------------
(* Properties.                                                             *)

\* What a reader takes a resource for: of a pod or an agent, its pool.
Subject(res) == <<res[1]>> \o IF Len(res) = 2 THEN <<Pool(res)>> ELSE Tail(res)

\* f is said by a report: a finding at least as severe names its subject.
Said(f, report) ==
    \E i \in DOMAIN report :
        /\ SeverityWeight(report[i].sev) >= SeverityWeight(f.sev)
        /\ Subject(f.res) \in {Subject(res) : res \in report[i].about}

\* Whatever a check found and nobody dismissed, a finding at least as severe of
\* the report names its pool, job, build, ...: grouping, dedupe, suppression and
\* correlation, and the checks that failed, lose the finding but not the subject
\* (registry.py:108-119, agent_utils.py:103-129, router.py:108-223).
NothingUnsaid ==
    LET report == Reported
        found == Detected(world, Options, down) IN
    \A i \in DOMAIN found : Fingerprint(found[i]) \in dismissed \/ Said(found[i], report)

\* The answer of a check does not depend on whether the others answer: what is
\* found with some of them down is said of the raw findings of the rest.
LossesAreLocal ==
    LET report == Report(world, Options, down, {})
        all == Answers(world, Options) IN
    \A i \in DOMAIN all : all[i][1] \notin down =>
        \A k \in DOMAIN all[i][2] : Said(all[i][2][k], report)

\* The next scan compares by fingerprint and stores by it, and Dismiss and the
\* Jira links address by it: no two findings of a report share one, nor a
\* resource (router.py:108-112, 144-223).
OneFindingPerResource ==
    LET report == Reported IN
    \A i, k \in DOMAIN report : i # k => report[i].res # report[k].res

\* A dismissed fingerprint is not reported again while it is dismissed, though
\* the filter stands between two groupings (router.py:341-353).
DismissedStaysAway ==
    LET report == Reported IN
    \A i \in DOMAIN report : Fingerprint(report[i]) \notin dismissed

\* A deep scan says all that a regular scan of the same state says: its wider
\* window, depth and history and its lower threshold never lose a subject
\* (scan_options.py:32-43).
DeepIsNotQuieter ==
    LET regular == Report(world, Regular, down, dismissed)
        thorough == Report(world, Deep, down, dismissed) IN
    dismissed = {} => \A i \in DOMAIN regular : Said(regular[i], thorough)

\* Measures that are worse the further they are on their scale.
Measures == {"mem", "cpu", "errors", "restarts", "disk", "temp", "response", "minutes",
             "tenths", "log", "size", "stuck", "gone", "days", "failures", "stale"}

\* w with one measure of s a notch better.
Better(w, s, f) ==
    LET here == SelectInSeq(Scale[s][f], LAMBDA v : v = w[s][f]) IN
    [w EXCEPT ![s][f] = Scale[s][f][here - 1]]

\* An agent's monitor that reads zero is taken for one that does not read.
NoReading(s, f) == s \in ToSet(Agents) /\ <<f, world[s][f]>> \in {<<"mem", 100>>, <<"disk", 0>>}

\* When a measure gets worse, no subject is dropped or reported as less severe,
\* though the finding may change its group, its name or its place.
WorseIsNotQuieter ==
    dismissed = {} =>
    \A d \in Departures(world) :
        (d[2] \in Measures /\ ~NoReading(d[1], d[2])) =>
            LET report == Reported
                better == Report(Better(world, d[1], d[2]), Options, down, {}) IN
            \A i \in DOMAIN better : Said(better[i], report)
=============================================================================

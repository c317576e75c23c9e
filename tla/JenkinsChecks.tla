--------------------------- MODULE JenkinsChecks ---------------------------
(* The checks on jobs and builds, on the controller, its plugins and its    *)
(* credentials.  o holds the ScanOptions the checks read.                   *)
EXTENDS Observations

\* ScanOptions.from_settings, with its defaults, and deep_scan.
Regular == [window |-> 4, depth |-> 10, streak |-> 3, history |-> 15]
\* Mutant: a deep scan looks back one hour.
DeepNarrow == [window |-> 1, depth |-> 50, streak |-> 2, history |-> 50]

Deep    == [window |-> 24, depth |-> 50, streak |-> 2, history |-> 50]

JobRes(j) == <<"jenkins-job", j>>
OnJob(sev, cat, j, symptom) == Finding(sev, cat, JobRes(j), <<symptom>>)
OnBuild(sev, b, symptom) == Finding(sev, "jenkins_build", <<"jenkins-build", b>>, symptom)
AtMost(n, s) == SubSeq(s, 1, IF n < Len(s) THEN n ELSE Len(s))
Count(result, s) == Cardinality({i \in DOMAIN s : s[i] = result})
-----------------------------------------------------------------------------
(* What Jenkins knows of a job.                                            *)

\* The results of the job's builds, newest first.
Results(job) ==
    LET newest == (IF job.head = "none" THEN <<>> ELSE <<job.head>>)
                  \o [i \in 1..job.failures |-> "FAILURE"]
        before == [i \in 1..(History - Len(newest)) |->
                      IF job.before = "mixed" /\ i % 2 = 0 THEN "FAILURE" ELSE "SUCCESS"] IN
    IF job.before = "none" THEN newest ELSE newest \o before

\* The job's color in the list of all jobs is one of FAILED_JOB_COLORS; that of
\* a job being built is not.
FailedColor(job) ==
    /\ ~job.disabled
    /\ Results(job) # <<>> /\ Results(job)[1] \in {"FAILURE", "UNSTABLE"}

RecentFailures(job, o) ==
    LET seen == AtMost(o.depth, Results(job)) IN
    {i \in DOMAIN seen : seen[i] = "FAILURE" /\ i * job.hours <= o.window}

\* The jobs get_recent_failed_builds has builds of.
FailingJobs(w, o) ==
    IF ~Reachable(w) THEN <<>>
    ELSE Each(Jobs, LAMBDA j : When(FailedColor(w[j]) /\ RecentFailures(w[j], o) # {}, j))

\* The lines a log gives classify it and hash to a signature.
FailureClass(console) == IF console = "infra" THEN "infrastructure" ELSE "unknown"
Signature(console)    == IF console = "absent" THEN "" ELSE console
-----------------------------------------------------------------------------
(* Jobs and builds.                                                        *)

JenkinsJobCheck(w) == IF ~Reachable(w) THEN <<>> ELSE
    LET q == w["queue"]
        stuck == IF q.stuck < q.size THEN q.stuck ELSE q.size
        OnQueue(sev, symptom) == Finding(sev, "jenkins_queue", <<"jenkins-queue">>, <<symptom>>) IN
    When(stuck > 0, OnQueue(IF stuck > 3 THEN "critical" ELSE "warning", "N build"))
    \o When(q.size > 20, OnQueue("warning", "congestion"))
    \o Each(Builds, LAMBDA b :
           When(w[b].minutes > 120, OnBuild("warning", b, <<"running for N">>)))

JenkinsFailedBuildCheck(w, o) == Each(FailingJobs(w, o), LAMBDA j :
    LET class == FailureClass(w[j].console)
        one == Cardinality(RecentFailures(w[j], o)) = 1 IN
    <<[Finding("critical", "jenkins_failed_build", JobRes(j),
               IF one THEN <<"Build FAILURE", class>> ELSE <<"N failed builds">>)
       EXCEPT !.sig = Signature(w[j].console)]>>)

\* _analyze_streak, as far as findings depend on it.
Streak(results) == SelectInSeq(Append(results, "end"), LAMBDA r : r # "FAILURE") - 1

PatternsOf(j, job, o) ==
    LET results == AtMost(o.history, Results(job))
        streak == Streak(results)
        Pattern(sev, symptom) ==
            [OnJob(sev, "jenkins_pipeline_pattern", j, symptom) EXCEPT !.sig = Signature(job.console)]
        found ==
            When(streak >= o.streak, Pattern("critical", "N consecutive failures"))
            \o When(Contains(results, "SUCCESS") /\ streak >= 2 /\ streak < o.streak,
                    Pattern(IF streak = 2 THEN "warning" ELSE "critical", "Regression"))
            \o When(job.params = "empty", Pattern("warning", "Suspicious build parameters")) IN
    found \o When(found = <<>> /\ FailureClass(job.console) # "unknown",
                  Pattern("warning", FailureClass(job.console)))

\* One finding for each signature of two jobs or more, in the order of the
\* first job's, all on the same resource.
SharedFailures(w, jobs) ==
    LET Sig(i) == Signature(w[jobs[i]].console)
        With(sig) == {i \in DOMAIN jobs : Sig(i) = sig}
        shared == Finding("critical", "jenkins_pipeline_pattern",
                          <<"jenkins-pipelines", "shared-failure">>,
                          <<"Same failure pattern across N jobs">>) IN
    FlattenSeq([i \in DOMAIN jobs |->
        When(Sig(i) # "" /\ i = Min(With(Sig(i))) /\ With(Sig(i)) # {i},
             [shared EXCEPT !.sig = Sig(i),
                            !.about = @ \cup {JobRes(jobs[k]) : k \in With(Sig(i))}])])

PipelinePatternCheck(w, o) ==
    LET jobs == FailingJobs(w, o) IN
    Each(jobs, LAMBDA j : PatternsOf(j, w[j], o)) \o SharedFailures(w, jobs)

\* What _get_computers answers of the agents, their monitors left out.
Computers(w) == [i \in DOMAIN Agents |->
    LET agent == w[Agents[i]] IN
    [offline |-> agent.state # "online", executors |-> agent.executors, busy |-> agent.busy]]

ExecutorUtilizationCheck(w) == IF ~Reachable(w) THEN <<>> ELSE
    LET online == SelectSeq(Computers(w), LAMBDA c : ~c.offline)
        total == FoldLeft(LAMBDA n, c : n + c.executors, 0, online)
        busy  == FoldLeft(LAMBDA n, c : n + c.busy, 0, online)
        Says(sev, symptom) ==
            Finding(sev, "jenkins_executor", <<"jenkins-executors">>, <<symptom>>) IN
    IF total = 0 THEN <<Says("critical", "No executors available")>> ELSE
        When(busy = total /\ w["queue"].size > 0, Says("critical", "All executors busy"))
        \o When(busy * 100 > total * 90, Says("warning", "pool utilization"))

\* The fingerprint keeps the digit behind the point of the ratio: the x that
\* follows it is no unit the pattern knows.
BuildDurationCheck(w) == IF ~Reachable(w) THEN <<>> ELSE Each(Builds, LAMBDA b :
    LET build == w[b]
        symptom == <<"running N.nx", build.tenths % 10>> IN
    IF build.tenths > 50 THEN <<OnBuild("critical", b, symptom)>>
    ELSE When(build.tenths > 30 /\ build.minutes > 30, OnBuild("warning", b, symptom)))

BuildLogSizeCheck(w) == IF ~Reachable(w) THEN <<>> ELSE Each(Builds, LAMBDA b :
    IF w[b].log > 100 THEN <<OnBuild("critical", b, <<"log spam">>)>>
    ELSE When(w[b].log > 50, OnBuild("warning", b, <<"log exceeding N">>)))

ZombieBuildCheck(w) == IF ~Reachable(w) THEN <<>> ELSE Each(Builds, LAMBDA b :
    LET build == w[b]
        Says(sev, symptom) == [OnBuild(sev, b, <<symptom>>) EXCEPT !.on = RunsOn[b]] IN
    IF build.minutes > 1440 THEN <<Says("critical", "Likely zombie")>>
    ELSE IF build.tenths > 40 THEN <<Says("warning", "Zombie build")>>
    ELSE When(build.minutes > 480, Says("warning", "running for N")))

DisabledJobCheck(w) == Each(Jobs, LAMBDA j :
    When(Reachable(w) /\ w[j].disabled /\ Results(w[j]) # <<>>,
         OnJob("warning", "jenkins_job", j, "disabled but built recently")))

FlakyTestCheck(w) == Each(Jobs, LAMBDA j :
    LET results == AtMost(10, Results(w[j])) IN
    When(/\ Reachable(w) /\ FailedColor(w[j])
         /\ Count("SUCCESS", results) >= 2 /\ Count("FAILURE", results) >= 2,
         OnJob("warning", "jenkins_flaky_test", j, "Flaky job")))

SCMPollingCheck(w) == Each(Jobs, LAMBDA j :
    When(Reachable(w) /\ w[j].polling = "errors",
         OnJob("warning", "jenkins_scm_polling", j, "SCM polling errors")))

StaleBranchCheck(w) == Each(Jobs, LAMBDA j :
    IF ~Reachable(w) \/ w[j].stale <= 5 THEN <<>> ELSE
        [i \in 1..w[j].stale |->
            Finding("low", "jenkins_stale_branch", <<"jenkins-job", j, i>>, <<"Stale branch">>)])
-----------------------------------------------------------------------------
(* The controller.                                                         *)

ControllerHealthCheck(w) == IF ~Reachable(w) THEN <<>> ELSE
    LET c == w["controller"]
        Says(sev, symptom) ==
            <<Finding(sev, "jenkins_controller", <<"jenkins-controller">>, <<symptom>>)>> IN
    (IF c.quieting THEN Says("warning", "quiet-down") ELSE <<>>)
    \o (CASE c.disk < 2 -> Says("critical", "disk critically low")
          [] c.disk \in 2..9 -> Says("warning", "disk space low")
          [] OTHER -> <<>>)
    \o (IF c.temp < 2 THEN Says("warning", "temp space low") ELSE <<>>)
    \o (CASE c.mem > 95 -> Says("critical", "memory critically high")
          [] c.mem \in 91..95 -> Says("warning", "memory high")
          [] OTHER -> <<>>)
    \o (IF c.response > 5000 THEN Says("warning", "slow") ELSE <<>>)

PluginHealthCheck(w) == IF ~Reachable(w) THEN <<>> ELSE
    When(~w["plugin"].loaded,
         Finding("warning", "jenkins_plugin", <<"jenkins-plugin", "plugin">>, <<"not active">>))
    \o When(w["controller"].updates > 20,
            Finding("low", "jenkins_plugin", <<"jenkins-plugins">>, <<"pending updates">>))

CredentialHealthCheck(w) ==
    LET says == w["credential"].says IN
    When(Reachable(w) /\ says # "nothing",
         Finding(IF says = "expired" THEN "warning" ELSE "low", "jenkins_credential",
                 <<"jenkins-credential", "credential">>, <<says>>))
=============================================================================

---------------------------- MODULE AgentChecks ----------------------------
(* The five checks on Jenkins agents.  Each answers with its findings, in   *)
(* order, for what it reads in w.                                           *)
EXTENDS Observations

OnAgent(sev, res, symptom) == Finding(sev, "jenkins_agent", res, <<symptom>>)
PodResource(p) == <<Namespace, p>>
Node(a) == <<"jenkins-agent", a>>

AgentPodCheck(w) == Each(Pods, LAMBDA p :
    LET pod == w[p]
        Says(sev, symptom) == OnAgent(sev, PodResource(p), symptom) IN
    IF pod.state = "pending" THEN <<Says("warning", "stuck in Pending")>> ELSE
        When(pod.oomed, Says("critical", "OOMKilled"))
        \o When(pod.state = "CrashLoopBackOff", Says("critical", pod.state))
        \o When(pod.state = "ImagePullBackOff", Says("warning", pod.state))
        \o When(pod.restarts >= 5 /\ ~pod.oomed, Says("warning", "high_restarts"))
        \o When(pod.deleting, Says("warning", "stuck terminating")))

\* Metrics are those of running containers.
AgentResourceCheck(w) == IF ~Metered(w) THEN <<>> ELSE Each(Pods, LAMBDA p :
    LET pod == w[p]
        Usage(value, symptom) ==
            When(pod.state = "running" /\ value > 80,
                 OnAgent(SeverityFor(value, 90), PodResource(p), symptom)) IN
    IF ~pod.limits THEN <<OnAgent("warning", PodResource(p), "no limits")>>
    ELSE Usage(pod.mem, "memory of limit") \o Usage(pod.cpu, "cpu of limit"))

\* The exit code 137 comes with the reason OOMKilled in brackets.
AgentErrorCheck(w) == Each(Pods, LAMBDA p :
    LET pod == w[p]
        Says(sev, symptom) == OnAgent(sev, PodResource(p), symptom) IN
    When(pod.state = "exit1", Says("warning", "container_exit"))
    \o When(pod.state = "exit137",
            [Says("critical", "container_exit") EXCEPT !.kw = "OOMKilled"])
    \o When(pod.state = "running" /\ pod.errors > 0, Says("warning", "N error")))

\* A monitor that reads zero (no memory available, no disk free) is taken for
\* one without a reading.
AgentConnectivityCheck(w) ==
    IF ~Reachable(w) THEN
        <<Finding("critical", "jenkins_controller", <<"jenkins-controller">>, <<"unreachable">>)>>
    ELSE Each(Agents, LAMBDA a :
        LET agent == w[a] IN
        IF agent.state # "online" THEN <<>> ELSE
            When(agent.busy > 0 /\ agent.executors = 0,
                 OnAgent("warning", Node(a), "no executors configured"))
            \o When(agent.mem > 90 /\ agent.mem # 100,
                    OnAgent(SeverityFor(agent.mem, 95), Node(a), "agent memory"))
            \o When(agent.disk < 5000 /\ agent.disk # 0,
                    OnAgent(IF agent.disk < 1000 THEN "critical" ELSE "warning", Node(a),
                            "agent disk")))

AgentOfflineCheck(w) == Each(Agents, LAMBDA a :
    When(Reachable(w) /\ w[a].state # "online" /\ a \in K3s,
         Finding(IF w[a].state = "temporarily" THEN "warning" ELSE "critical",
                 "jenkins_agent", Node(a), <<"agent_offline", w[a].reason>>)))
=============================================================================

--------------------------- MODULE ClusterChecks ---------------------------
(* The checks on the Kubernetes cluster.                                    *)
EXTENDS Observations

NodeCheck(w) ==
    LET Says(n, sev, symptom) == Finding(sev, "k8s_node", <<"node", n>>, <<symptom>>)
        Usage(n, value, symptom) ==
            When(Metered(w) /\ value > 85, Says(n, SeverityFor(value, 95), symptom)) IN
    Each(Nodes, LAMBDA n :
        When(~w[n].ready, Says(n, "critical", "Node NotReady"))
        \o When(w[n].pressure # "none",
                Says(n, IF w[n].pressure = "MemoryPressure" THEN "critical" ELSE "warning",
                     w[n].pressure)))
    \o Each(Nodes, LAMBDA n :
           Usage(n, w[n].cpu, "CPU of allocatable") \o Usage(n, w[n].mem, "Memory of allocatable"))

\* A deployment and a stateful set, of two replicas each.
WorkloadCheck(w) ==
    LET d == w["deployment"]  s == w["stateful"]
        Says(sev, name, symptom) ==
            Finding(sev, "k8s_workload", <<Namespace, name>>, <<symptom>>)
        Severity(gone) == IF gone = 2 THEN "critical" ELSE "warning" IN
    When(d.gone > 0, Says(Severity(d.gone), "deployment", "unavailable replicas"))
    \o When(d.stuck, Says("warning", "deployment", "rollout stuck"))
    \o When(s.gone > 0, Says(Severity(s.gone), "stateful", "ready replicas"))

\* The events of one object and one reason are one finding.
EventsCheck(w) ==
    LET e == w["event"]
        Says(sev) == Finding(sev, "k8s_event", <<Namespace, "Pod", EventOn[1]>>, <<e.reason>>) IN
    When(e.reason # "none" /\ ~e.old,
         [Says(IF e.reason = "OOMKilling" THEN "critical" ELSE "warning")
          EXCEPT !.host = EventOn[2]])

CertCheck(w) ==
    LET c == w["cert"]
        Says(sev, symptom) == Finding(sev, "cert", <<Namespace, "cert", "cert">>, <<symptom>>) IN
    When(~c.ready, Says("warning", "not ready"))
    \o (IF c.days < 0 THEN <<Says("critical", "EXPIRED")>>
        ELSE When(c.days < 14,
                  Says(IF c.days < 3 THEN "critical" ELSE "warning", "expires")))

\* Every pod of the cluster that runs, the agents' among them.
PodResourceCheck(w) == IF ~Metered(w) THEN <<>> ELSE Each(Pods, LAMBDA p :
    LET pod == w[p]
        Usage(value, symptom) ==
            When(pod.state = "running" /\ pod.limits /\ value > 85,
                 Finding(SeverityFor(value, 95), "pod_resource", <<Namespace, p>>, <<symptom>>)) IN
    Usage(pod.mem, "Memory of limit") \o Usage(pod.cpu, "CPU of limit"))

PVCCheck(w) ==
    LET c == w["pvc"]
        Says(sev, symptom) == <<Finding(sev, "pvc", <<Namespace, "pvc">>, <<symptom>>)>> IN
    CASE c.phase = "Pending" -> Says("warning", "PVC Pending")
      [] c.phase = "Lost"    -> Says("critical", "PVC Lost")
      [] c.volume # "Bound"  -> Says("warning", "unhealthy PV")
      [] OTHER               -> <<>>
=============================================================================

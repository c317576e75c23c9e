---------------------------- MODULE MCDetection ----------------------------
EXTENDS Detection, TLC

MCPods   == <<"pod1", "pod2">>
MCAgents == <<"agent1", "agent2">>
MCPoolOf == [s \in {"pod1", "pod2"} |-> "pool"] @@ [s \in {"agent1", "agent2"} |-> "k3s"]
MCRunsOn == "build" :> "pod1"
MCJobs   == <<"job1", "job2">>
MCBuilds == <<"build">>
MCNodes  == <<"node">>
MCEventOn == <<"pod1", "node">>
MCFamilies == {ToSet(MCPods) \cup {"metrics"}, ToSet(MCAgents) \cup {"queue"}, ToSet(MCJobs),
               {"build", "event", "node"},
               {"controller", "plugin", "credential", "agent1"},
               {"deployment", "stateful", "cert", "pvc"}}
=============================================================================

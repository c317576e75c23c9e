CONSTANTS
    Pods <- MCPods
    Agents <- MCAgents
    K3s = {"agent1", "agent2"}
    PoolOf <- MCPoolOf
    Jobs <- MCJobs
    Builds <- MCBuilds
    RunsOn <- MCRunsOn
    Nodes <- MCNodes
    EventOn <- MCEventOn
    Families <- MCFamilies
    MaxDepartures = 2
    MaxFaults = 1
    Unreliable = {"jenkins_failed_builds", "jenkins_agent_pods", "jenkins_agent_connectivity"}
SPECIFICATION Spec
INVARIANT NothingUnsaid
INVARIANT LossesAreLocal
INVARIANT OneFindingPerResource
INVARIANT DismissedStaysAway
INVARIANT DeepIsNotQuieter
INVARIANT WorseIsNotQuieter
CHECK_DEADLOCK FALSE

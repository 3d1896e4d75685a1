\* One process at a time, started twice, cut off anywhere.
SPECIFICATION Spec
CONSTANTS
    p1 = p1  p2 = p2  n1 = n1  n2 = n2  w1 = w1  w2 = w2
    Procs = {p1}
    MaxStarts = 2
    RetryMaxSteps = 2
    Namespaces = {n1, n2}
    Workloads = {w1, w2}
    HomeNS <- MCHomeNS
    LegacyNS <- MCLegacyNS
    LocalQueueNS <- MCLocalQueueNS
    OLMAPIs = {"v0", "v1"}
    Clusters <- ManyClusters
    FlagSets <- MixedFlags
    AdminTargets = {}
    UserEdits = FALSE
INVARIANTS VerifiedMeansMigrated
PROPERTIES OneOLMGeneration DryRunWritesNothing StateMachine
CHECK_DEADLOCK FALSE

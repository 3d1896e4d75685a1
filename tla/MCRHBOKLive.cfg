\* Everyone meddles; runs without prompts end all the same.
SPECIFICATION FairSpec
CONSTANTS
    p1 = p1  p2 = p2  n1 = n1  n2 = n2  w1 = w1  w2 = w2
    Procs = {p1}
    MaxStarts = 1
    RetryMaxSteps = 2
    Namespaces = {n1, n2}
    Workloads = {w1, w2}
    HomeNS <- MCHomeNS
    LegacyNS <- MCLegacyNS
    LocalQueueNS <- MCLocalQueueNS
    OLMAPIs = {"v0", "v1"}
    Clusters <- ManyClusters
    FlagSets <- AllFlags
    AdminTargets = {"Managed", "Removed"}
    UserEdits = TRUE
PROPERTIES RunTerminates
CHECK_DEADLOCK FALSE

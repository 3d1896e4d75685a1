\* One read of the ConfigMap fails; a run is cut off during the wait, then resumed.
\* TLC stops at the first of the two; with one of them alone it shows that one.
SPECIFICATION Spec
CONSTANTS
    p1 = p1  p2 = p2  n1 = n1  n2 = n2  w1 = w1  w2 = w2
    Procs = {p1}
    MaxStarts = 2
    RetryMaxSteps = 2
    Namespaces = {n1, n2}
    Workloads = {w1, w2}
    HomeNS <- MCHomeNS
    LegacyNS <- MCLegacyNS
    LocalQueueNS <- MCLocalQueueNS
    OLMAPIs = {"v0", "v1"}
    Clusters <- OneManaged
    FlagSets <- UnattendedOnly
    AdminTargets = {}
    UserEdits = FALSE
PROPERTIES ConfigPreserved RequestedAfterRemoval
CHECK_DEADLOCK FALSE

\* A user declines the installation and accepts the activation; another creates
\* an instance between the list and the deletion of its CRD.
\* TLC stops at the first of the two; with one of them alone it shows that one.
SPECIFICATION Spec
CONSTANTS
    p1 = p1  p2 = p2  n1 = n1  n2 = n2  w1 = w1  w2 = w2
    Procs = {p1}
    MaxStarts = 1
    RetryMaxSteps = 2
    Namespaces = {n1, n2}
    Workloads = {w1, w2}
    HomeNS <- MCHomeNS
    LegacyNS <- MCLegacyNS
    LocalQueueNS <- MCLocalQueueNS
    OLMAPIs = {"v0", "v1"}
    Clusters <- ManyClusters
    FlagSets <- InteractiveOnly
    AdminTargets = {}
    UserEdits = TRUE
PROPERTIES ActivatedOnlyWithOperator InstancesDeletedOnlyByForce
CHECK_DEADLOCK FALSE

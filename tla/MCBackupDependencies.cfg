SPECIFICATION Spec
CONSTANTS
    nb = nb  isvc = isvc
    w1 = w1  w2 = w2  w3 = w3  w4 = w4
    cm = cm  secret = secret
    Types = {nb, isvc}
    Deps = {cm, secret}
    ConfigMaps = {cm}  PVCs = {}  Secrets = {secret}
    Workloads = {w1, w2, w3, w4}
    Includes <- TwoIncludes
    Instances <- MixedInstances
    Refs <- MixedRefs
    MaxWorkers = 1
    Resolvable = {nb}
    Verbose = TRUE
    Nobody = Nobody
    DryRun = FALSE
INVARIANT DependenciesAccounted
CHECK_DEADLOCK FALSE

SPECIFICATION FairSpec
CONSTANTS
    a = a  b = b  c = c  d = d
    n1 = n1  n2 = n2
    Procs = {"p"}
    Modes = {"v0", "v1"}
    Deps = {a, c, d}
    Bulk = TRUE
    TargetDeps = {}
    IncludeOptional = TRUE
    Accounts = {n1}
    CanListExtensions = TRUE
    ForeignNames = {"own", "other"}
    MaxRestarts = 1
    MaxForeign = 1
    Namespaces = {n1, n2}
    Order <- ByName
    Enabled <- OneOptional
    Namespace <- SharedNamespace
    Targets <- OwnTargets
    Groups0 <- NoGroups
    Found <- OptionalFound
INVARIANT ExitOkMeansRequested
INVARIANT GroupServesSubscription
INVARIANT NoDualRequest
PROPERTY RunsEnd
CHECK_DEADLOCK FALSE

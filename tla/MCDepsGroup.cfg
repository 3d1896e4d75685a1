SPECIFICATION Spec
CONSTANTS
    a = a  b = b  c = c  d = d
    n1 = n1  n2 = n2
    Procs = {"p"}
    Modes = {"v0"}
    Deps = {a, b}
    Bulk = TRUE
    TargetDeps = {}
    IncludeOptional = FALSE
    Accounts = {n1}
    CanListExtensions = TRUE
    ForeignNames = {"own"}
    MaxRestarts = 1
    MaxForeign = 1
    Namespaces = {n1, n2}
    Order <- ByName
    Enabled <- OneOptional
    Namespace <- SharedNamespace
    Targets <- OwnTargets
    Groups0 <- NoGroups
    Found <- NothingFound
INVARIANT ExistingGroupsMatch
CHECK_DEADLOCK FALSE

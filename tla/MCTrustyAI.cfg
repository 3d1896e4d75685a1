CONSTANTS
    Services = {1, 2, 3}
    Ns <- MCNs
    Format <- MCFormat
    Unmounted = {}
    Saved <- MCSaved
    Requests = {"r1", "r2"}
    KeyOf <- MCKeyOf
    Fairness = {"r1"}
    Unknown = {}
    Orchestrators = {1, 2, 3}
    Isvcs = {1}
    Worlds <- MCWorlds
    Commands <- MCCommands
    MaxRuns = 2
    MaxEvents = 2
SPECIFICATION FairSpec
INVARIANTS
    MetadataMeansWhole
PROPERTIES
    OkMeansDone
    RunsEnd

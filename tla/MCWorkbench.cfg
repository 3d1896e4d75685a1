CONSTANTS
    Notebooks = {1, 2}
    KueueNotebooks = {1}
    Commands <- AllCommands
    Again <- JustUnattended
    Clusters <- TwoClusters
    MaxRuns = 2
    MaxEvents = 1
SPECIFICATION FairSpec
INVARIANTS
    StoppedIsReported
    OkMeansMigrated
PROPERTIES
    EditsKept
    CleanupOnlyMigrated
    RunsEnd

CONSTANTS
    RayClusters = {1, 2}
    Forbidden = {}
    FileOf <- OwnFile
    Objects <- Mixed
    Commands <- AllCommands
    retryMaxSteps = 2
    MaxRuns = 2
    MaxEvents = 0
SPECIFICATION Spec
INVARIANTS
    PrepareSaves

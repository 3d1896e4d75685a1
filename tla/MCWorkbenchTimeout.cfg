CONSTANTS
    Notebooks = {1, 2}
    KueueNotebooks = {1}
    Commands <- JustUnattended
    Again <- JustUnattended
    Clusters <- TwoClusters
    MaxRuns = 2
    MaxEvents = 0
SPECIFICATION Spec
INVARIANT
    StoppedIsRemembered

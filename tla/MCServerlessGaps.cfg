\* What a failed backup step, an edit before a rollback and a rerun lead to.
\* TLC stops at the first of the three; with one of them alone it shows that one.
SPECIFICATION Spec
CONSTANTS
    s1 = s1  s2 = s2
    Procs = {"p"}
    Services = {s1, s2}
    Auth = {s1}
    Commands = {"run", "prepare"}
    DryRuns = {FALSE}
    Yes = {TRUE, FALSE}
    Nobody = Nobody
    MaxVersion = 2
    MaxRestarts = 1
INVARIANTS AuthAfterSuccess PreparedMeansSaved
PROPERTY RollbackRestoresOriginal
CHECK_DEADLOCK FALSE

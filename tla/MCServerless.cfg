SPECIFICATION FairSpec
CONSTANTS
    s1 = s1  s2 = s2
    Procs = {"p"}
    Services = {s1, s2}
    Auth = {s1}
    Commands = {"prepare", "run"}
    DryRuns = {TRUE, FALSE}
    Yes = {TRUE, FALSE}
    Nobody = Nobody
    MaxVersion = 2
    MaxRestarts = 1
INVARIANT LossIsReported
PROPERTY OkMeansConverted
PROPERTY RunsEnd
CHECK_DEADLOCK FALSE

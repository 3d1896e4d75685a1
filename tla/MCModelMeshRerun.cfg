SPECIFICATION Spec
CONSTANTS
    s1 = s1  s2 = s2  s3 = s3  n1 = n1  r1 = r1  r2 = r2
    Procs = {"p", "q"}
    Services = {s1, s2, s3}
    Namespaces = {n1}
    Runtimes = {r1, r2}
    Ns <- OneNamespace
    Layouts <- OnlyMixed
    Auth = {s1}
    NoRuntime = NoRuntime
    Nobody = Nobody
INVARIANT RuntimeAfterSuccess
PROPERTY NoLabelLost
CHECK_DEADLOCK FALSE

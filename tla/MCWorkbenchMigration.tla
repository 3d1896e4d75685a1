------------------------- MODULE MCWorkbenchMigration -------------------------
(* Instances of WorkbenchMigration for TLC.                                 *)
EXTENDS WorkbenchMigration

Of2x == Legacy \cup {"dashboard", "misnamed"}
HalfWay == {"inject-auth", "kube-rbac-proxy", "tornado_settings"}
NoContainers == {"oauth finalizer", "dashboard", "unreadable"}

Pair(first, stop1, second, stop2) ==
    [n \in Notebooks |-> IF n = 1 THEN [has |-> first, stop |-> stop1]
                                   ELSE [has |-> second, stop |-> stop2]]
TwoClusters == {Pair(Of2x, Running, Of2x, User), Pair(HalfWay, Running, NoContainers, Running)}
OneCluster == {Pair(Of2x, Running, Of2x, User)}

Line(plan, mode, phase, flags) ==
    [plan |-> plan, scope |-> Notebooks, mode |-> mode, phase |-> phase, flags |-> flags]

Unattended ==
    Line(<<"patch", "cleanup", "verify">>, "auto", "all", {"yes", "with-cleanup"})

AllCommands ==
    {Unattended,
     Line(<<"patch">>, "auto", "all", {"with-cleanup"}),
     Line(<<"patch">>, "skip-stop", "all", {"yes"}),
     Line(<<"patch">>, "only-stopped", "all", {"yes"}),
     Line(<<"cleanup", "verify">>, "auto", "cleanup", {}),
     Line(<<"upgrade", "kueue">>, "auto", "all", {}),
     Line(<<"upgrade">>, "auto", "all", {"yes", "force-non-stopped"}),
     Line(<<"patch", "cleanup", "upgrade", "kueue", "verify">>, "auto", "migration", {"dry-run"}),
     Line(<<"patch">>, "both", "all", {"yes"}),
     Line(<<"prepare">>, "auto", "all", {}),
     Line(<<"prepare">>, "auto", "all", {"dry-run"}),
     [Line(<<"cleanup", "kueue", "verify">>, "auto", "all", {"yes", "by name"})
        EXCEPT !.scope = {1}]}
JustUnattended == {Unattended}
=============================================================================

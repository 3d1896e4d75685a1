------------------------ MODULE MCRayClusterMigration ------------------------
(* Instances of RayClusterMigration for TLC.                                *)
EXTENDS RayClusterMigration

Of2x == {"ingress", "oauth-proxy", "tls", "create-cert", "service account", "kueue"}
Held == {"oauth-proxy", "tls", "finalizers"}
Mixed == {[c \in RayClusters |-> IF c = 1 THEN Of2x ELSE Held]}

OwnFile == [c \in RayClusters |-> c]
OneFile == [c \in RayClusters |-> 1]

Line(do, scope, from, flags) == [do |-> do, scope |-> scope, from |-> from, flags |-> flags]
BackupAll == Line("backup", RayClusters, "live", {"everywhere"})
Restore3x == Line("migrate", RayClusters, "3.x", {"yes"})
MigrateAll == Line("migrate", RayClusters, "live", {"everywhere", "yes"})
AllCommands ==
    {BackupAll, Restore3x, MigrateAll,
     Line("prepare", RayClusters, "live", {"everywhere"}),
     Line("backup", RayClusters, "live", {"everywhere", "dry-run"}),
     Line("backup", {1}, "live", {"name without namespace"}),
     Line("backup", {1}, "live", {"by name"}),
     Line("migrate", {1}, "live", {"by name", "yes"}),
     Line("migrate", RayClusters, "live", {}),
     Line("migrate", RayClusters, "live", {"everywhere", "dry-run"}),
     Line("migrate", {2}, "2.x", {}),
     Line("migrate", RayClusters, "missing", {"yes"})}
Three == {BackupAll, Restore3x, MigrateAll}
=============================================================================

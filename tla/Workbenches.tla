----------------------------- MODULE Workbenches -----------------------------
(***************************************************************************)
(* What the workbench migrations read off a Notebook                       *)
(* (pkg/migrate/actions/workbenches): a Notebook is the set of the         *)
(* features its annotations, finalizers and pod template show.             *)
(***************************************************************************)

Legacy == {"oauth annotation", "oauth-proxy", "oauth finalizer", "oauth volumes",
           "tornado_settings"}
Features == Legacy \cup
            {"inject-auth", "kube-rbac-proxy",
             "dashboard",      \* an accelerator or size annotation of the dashboard
             "misnamed",       \* the workload container is not named after the Notebook
             "queue-name",     \* the Kueue label
             "edited",         \* something else a user has put there
             "no volumes",     \* a pod template without a list of volumes
             "unreadable"}     \* ... without a list of containers

(* What a reader of the containers gets to see. *)
Visible(has) ==
    IF "unreadable" \in has
    THEN has \ {"oauth-proxy", "tornado_settings", "kube-rbac-proxy"}
    ELSE has

needsAuthModelPatch(has) ==
    "inject-auth" \notin has \/ Visible(has) \cap Legacy # {}

(* applyAllPatches: a list that is not there is an error, also the volumes. *)
PatchFails(has) == has \cap {"unreadable", "no volumes"} # {}
applyAllPatches(has) == (has \ Legacy) \cup {"inject-auth"}

(* The annotation left over is a failure only beside another one. *)
CheckMigrationState(has) ==
    /\ "unreadable" \notin has
    /\ {"inject-auth", "kube-rbac-proxy"} \subseteq has
    /\ has \cap {"oauth-proxy", "tornado_settings"} = {}

ClassifyNotebook(has) ==
    IF "unreadable" \in has THEN "UNKNOWN"
    ELSE IF {"kube-rbac-proxy", "oauth-proxy"} \subseteq has THEN "INVALID"
    ELSE IF "kube-rbac-proxy" \in has THEN "MIGRATED"
    ELSE IF {"oauth-proxy", "inject-auth"} \subseteq has THEN "UNRECONCILED"
    ELSE IF "oauth-proxy" \in has THEN "LEGACY"
    ELSE "UNKNOWN"

(***************************************************************************)
(* upgrade-2x-to-3x. Only the oauth-proxy counts as infrastructure, so a   *)
(* Notebook with the new sidecar has two workload containers and is never  *)
(* found to be misnamed.                                                   *)
(***************************************************************************)
NameCheckFails(has) == {"dashboard", "unreadable"} \subseteq has
hasContainerNameMismatch(has) ==
    /\ {"dashboard", "misnamed"} \subseteq has
    /\ has \cap {"unreadable", "kube-rbac-proxy"} = {}
fixContainerName(has) == has \ {"misnamed"}

hasQueueNameLabel(has) == "queue-name" \in has

(* What deleteOAuthResources deletes and CheckCleanupState looks for. *)
OAuthResources == {"Route", "Service -tls", "Secret -oauth-client", "Secret -oauth-config",
                   "Secret -tls", "OAuthClient"}
=============================================================================

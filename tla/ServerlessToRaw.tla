--------------------------- MODULE ServerlessToRaw ---------------------------
(***************************************************************************)
(* The migration modelserving.serverless-to-raw                            *)
(* (pkg/migrate/actions/modelserving/serverless_to_raw.go and support.go), *)
(* with the `migrate prepare` and `migrate run` commands that drive it.    *)
(*                                                                         *)
(* KServe does not let the deployment mode of an InferenceService change,  *)
(* so each is deleted and created again from the copy the run listed at    *)
(* its start. Any request may fail, a run may be cut off anywhere and      *)
(* started again, several may overlap, deletion may take a while, and      *)
(* users go on editing their InferenceServices.                            *)
(***************************************************************************)
EXTENDS Naturals

CONSTANTS
    Procs,        \* CLI processes
    Services,     \* InferenceServices
    Auth,         \* those with the enable-auth annotation
    Commands,     \* "prepare", "run"
    DryRuns,      \* the values --dry-run may have
    Yes,          \* the values --yes may have
    Nobody,       \* no InferenceService
    MaxVersion,   \* bound: how often a user edits
    MaxRestarts   \* bound: how often a process is started again

ASSUME ServerlessAssumption ==
    /\ Auth \subseteq Services /\ Nobody \notin Services
    /\ Commands \subseteq {"prepare", "run"}
    /\ DryRuns \subseteq BOOLEAN /\ Yes \subseteq BOOLEAN
    /\ MaxVersion \in Nat \ {0} /\ MaxRestarts \in Nat

VARIABLES
    \* the cluster
    mode,         \* deployment mode, or "gone"
    version,      \* of its specification; of the last one, once it is gone
    terminating,  \* deleted, but held by a finalizer
    route,        \* services with an Istio VirtualService
    auth,         \* the auth resources of each service
    \* the backup directory
    saved,        \* version of each service written there, 0 for none
    \* the processes
    cmd, dry, yes, pc, copy, todo, cur, need, failed, exit, restarts,
    \* what the user has been told
    reported      \* services with a failed step, or in the works at a cut-off

cluster == <<mode, version, terminating, route, auth>>
options == <<cmd, dry, yes, restarts>>
vars == <<cluster, options, saved, pc, copy, todo, cur, need, failed, exit, reported>>

(* The auth resources in the order in which they are seen to, by how many  *)
(* of them are left.                                                       *)
AuthOrder == [left \in 1 .. 3 |-> IF left = 3 THEN "ServiceAccount"
                                  ELSE IF left = 2 THEN "Role" ELSE "RoleBinding"]
AuthKinds == {"ServiceAccount", "Role", "RoleBinding"}
PCs == {"list", "confirm", "write", "loop", "wait", "recreate", "rollback", "route",
        "auth", "done", "crashed"}
InTheWorks == {"wait", "recreate", "rollback"}

TypeOK ==
    /\ mode \in [Services -> {"Serverless", "RawDeployment", "gone"}]
    /\ version \in [Services -> 1 .. MaxVersion]
    /\ terminating \subseteq Services /\ route \subseteq Services
    /\ auth \in [Services -> SUBSET AuthKinds]
    /\ saved \in [Services -> 0 .. MaxVersion]
    /\ cmd \in [Procs -> Commands] /\ dry \in [Procs -> DryRuns] /\ yes \in [Procs -> Yes]
    /\ pc \in [Procs -> PCs]
    /\ copy \in [Procs -> [Services -> 0 .. MaxVersion]]
    /\ todo \in [Procs -> SUBSET Services]
    /\ cur \in [Procs -> Services \cup {Nobody}]
    /\ need \in [Procs -> 0 .. 3]
    /\ failed \in [Procs -> BOOLEAN]
    /\ exit \in [Procs -> {"none", "ok", "failures", "declined"}]
    /\ restarts \in [Procs -> 0 .. MaxRestarts]
    /\ reported \subseteq Services

Init ==
    /\ mode = [s \in Services |-> "Serverless"]
    /\ version = [s \in Services |-> 1]
    /\ terminating = {} /\ route = Services
    /\ auth = [s \in Services |-> {}]
    /\ saved = [s \in Services |-> 0]
    /\ cmd \in [Procs -> Commands] /\ dry \in [Procs -> DryRuns] /\ yes \in [Procs -> Yes]
    /\ pc = [p \in Procs |-> "list"]
    /\ copy = [p \in Procs |-> [s \in Services |-> 0]]
    /\ todo = [p \in Procs |-> {}]
    /\ cur = [p \in Procs |-> Nobody]
    /\ need = [p \in Procs |-> 0]
    /\ failed = [p \in Procs |-> FALSE]
    /\ exit = [p \in Procs |-> "none"]
    /\ restarts = [p \in Procs |-> 0]
    /\ reported = {}

-----------------------------------------------------------------------------
Goto(p, label) == pc' = [pc EXCEPT ![p] = label]

End(p, outcome) ==
    /\ Goto(p, "done")
    /\ exit' = [exit EXCEPT ![p] = outcome]

(* listISVCsByDeploymentMode: what is kept is the copy the list returned.  *)
Listed == {s \in Services : mode[s] = "Serverless"}

(* The exit status of the command: `run` counts a failed step, `prepare`   *)
(* does not.                                                               *)
Status(p, fails) == IF fails /\ cmd[p] = "run" THEN "failures" ELSE "ok"

(* A mutant: the run keeps the names of the services and not the copies.   *)
ListISVCsNames(p) ==
    /\ pc[p] = "list"
    /\ Goto(p, IF cmd[p] = "prepare" THEN "write" ELSE "loop")
    /\ todo' = [todo EXCEPT ![p] = Listed]
    /\ UNCHANGED <<cluster, options, saved, copy, cur, need, failed, exit, reported>>

ListISVCs(p) ==
    /\ pc[p] = "list"
    /\ IF Listed = {} \/ (cmd[p] = "prepare" /\ dry[p])
       THEN End(p, "ok")
       ELSE /\ Goto(p, IF cmd[p] = "prepare" THEN "write"
                       ELSE IF yes[p] \/ dry[p] THEN "loop" ELSE "confirm")
            /\ UNCHANGED exit
    /\ todo' = [todo EXCEPT ![p] = Listed]
    /\ copy' = [copy EXCEPT ![p] =
                  [s \in Services |-> IF s \in Listed THEN version[s] ELSE 0]]
    /\ UNCHANGED <<cluster, options, saved, cur, need, failed, reported>>

(* A list the user may not read is an empty one. *)
ListFails(p) ==
    /\ pc[p] = "list"
    /\ \/ End(p, Status(p, TRUE)) /\ failed' = [failed EXCEPT ![p] = TRUE]
       \/ End(p, "ok") /\ UNCHANGED failed
    /\ UNCHANGED <<cluster, options, saved, copy, todo, cur, need, reported>>

Confirm(p) ==
    /\ pc[p] = "confirm"
    /\ \/ Goto(p, "loop") /\ UNCHANGED exit
       \/ End(p, "declined")
    /\ UNCHANGED <<cluster, options, saved, copy, todo, cur, need, failed, reported>>

(* The prepare task writes the services, namespace by namespace, up to the *)
(* first failure.                                                          *)
WriteBackup(p) ==
    /\ pc[p] = "write"
    /\ \E written \in SUBSET todo[p] :
         /\ saved' = [s \in Services |-> IF s \in written THEN copy[p][s] ELSE saved[s]]
         /\ failed' = [failed EXCEPT ![p] = written # todo[p]]
         /\ End(p, Status(p, written # todo[p]))
    /\ UNCHANGED <<cluster, options, copy, todo, cur, need, reported>>

-----------------------------------------------------------------------------
(* convertISVCs: one service after the other, in the order of the list.    *)

(* A step failed: the service is left and the loop goes on.                *)
Fail(p, s, label) ==
    /\ Goto(p, label)
    /\ failed' = [failed EXCEPT ![p] = TRUE]
    /\ reported' = reported \cup {s}

(* What a Delete does: the service is gone, or a finalizer holds it.       *)
Deleted(s) ==
    \/ mode' = [mode EXCEPT ![s] = "gone"] /\ terminating' = terminating \ {s}
    \/ mode[s] # "gone" /\ terminating' = terminating \cup {s} /\ UNCHANGED mode

(* deleteAndRecreateISVC, the Delete. One that is gone already is fine. A  *)
(* request that fails may have been carried out all the same.              *)
DeleteISVC(p, s) ==
    /\ pc[p] = "loop"
    /\ s \in todo[p]
    /\ todo' = [todo EXCEPT ![p] = @ \ {s}]
    /\ \/ /\ dry[p]
          /\ Goto(p, "route")
          /\ UNCHANGED <<mode, terminating, failed, reported>>
       \/ /\ ~dry[p]
          /\ Goto(p, "wait")
          /\ Deleted(s)
          /\ UNCHANGED <<failed, reported>>
       \/ /\ ~dry[p]
          /\ Fail(p, s, "loop")
          /\ Deleted(s) \/ UNCHANGED <<mode, terminating>>
    /\ cur' = [cur EXCEPT ![p] = s]
    /\ UNCHANGED <<version, route, auth, options, saved, copy, need, exit>>

(* A mutant: a wait that times out is not an error.                        *)
WaitForISVCDeletionSilent(p) ==
    /\ pc[p] = "wait"
    /\ \/ mode[cur[p]] = "gone" /\ Goto(p, "recreate") /\ UNCHANGED <<failed, reported>>
       \/ Goto(p, "loop") /\ UNCHANGED <<failed, reported>>
    /\ UNCHANGED <<cluster, options, saved, copy, todo, cur, need, exit>>

(* A mutant: a wait without a limit.                                       *)
WaitForISVCDeletionForever(p) ==
    /\ pc[p] = "wait"
    /\ mode[cur[p]] = "gone" /\ Goto(p, "recreate")
    /\ UNCHANGED <<cluster, options, saved, copy, todo, cur, need, exit, failed, reported>>

(* waitForISVCDeletion: 60 polls; one that fails ends it as the last does. *)
WaitForISVCDeletion(p) ==
    /\ pc[p] = "wait"
    /\ \/ mode[cur[p]] = "gone" /\ Goto(p, "recreate") /\ UNCHANGED <<failed, reported>>
       \/ Fail(p, cur[p], "loop")
    /\ UNCHANGED <<cluster, options, saved, copy, todo, cur, need, exit>>

(* A Create: the copy of the service, if there is none of that name.       *)
CreateISVC(p, m) ==
    /\ mode[cur[p]] = "gone"
    /\ mode' = [mode EXCEPT ![cur[p]] = m]
    /\ version' = [version EXCEPT ![cur[p]] = copy[p][cur[p]]]
    /\ UNCHANGED terminating

Recreate(p) ==
    /\ pc[p] = "recreate"
    /\ \/ CreateISVC(p, "RawDeployment") /\ Goto(p, "route") /\ UNCHANGED <<failed, reported>>
       \/ /\ Fail(p, cur[p], "rollback")
          /\ CreateISVC(p, "RawDeployment") \/ UNCHANGED <<mode, version, terminating>>
    /\ UNCHANGED <<route, auth, options, saved, copy, todo, cur, need, exit>>

(* The original is created again; the conversion has failed either way.    *)
Rollback(p) ==
    /\ pc[p] = "rollback"
    /\ Goto(p, "loop")
    /\ CreateISVC(p, "Serverless") \/ UNCHANGED <<mode, version, terminating>>
    /\ UNCHANGED <<route, auth, options, saved, copy, todo, cur, need, failed, exit, reported>>

(* A mutant: a dry run deletes the route as well.                          *)
DeleteIstioRouteAlways(p) ==
    /\ pc[p] = "route"
    /\ route' = route \ {cur[p]}
    /\ Goto(p, "auth")
    /\ need' = [need EXCEPT ![p] = IF cur[p] \in Auth THEN 3 ELSE 0]
    /\ UNCHANGED <<mode, version, terminating, auth, options, saved, copy, todo, cur,
                   exit, failed, reported>>

(* deleteIstioRoute: best effort.                                          *)
DeleteIstioRoute(p) ==
    /\ pc[p] = "route"
    /\ \/ /\ route' = IF dry[p] THEN route ELSE route \ {cur[p]}
          /\ Goto(p, "auth")
          /\ UNCHANGED <<failed, reported>>
       \/ /\ ~dry[p]
          /\ Fail(p, cur[p], "auth")
          /\ UNCHANGED route
    /\ need' = [need EXCEPT ![p] = IF cur[p] \in Auth THEN 3 ELSE 0]
    /\ UNCHANGED <<mode, version, terminating, auth, options, saved, copy, todo, cur,
                   exit>>

(* A mutant: the failure of one of the resources is not recorded.          *)
EnsureAuthResourcesSilent(p) ==
    /\ pc[p] = "auth"
    /\ IF need[p] = 0
       THEN Goto(p, "loop") /\ UNCHANGED <<auth, need, failed, reported>>
       ELSE /\ need' = [need EXCEPT ![p] = @ - 1]
            /\ auth' \in {auth, IF dry[p] THEN auth
                                ELSE [auth EXCEPT ![cur[p]] = @ \cup {AuthOrder[need[p]]}]}
            /\ UNCHANGED <<pc, failed, reported>>
    /\ UNCHANGED <<mode, version, terminating, route, options, saved, copy, todo, cur,
                   exit>>

(* ensureAuthResources: each is created unless it is there; the ones after *)
(* a failure are tried all the same, and the service counts as converted.  *)
EnsureAuthResources(p) ==
    /\ pc[p] = "auth"
    /\ IF need[p] = 0
       THEN Goto(p, "loop") /\ UNCHANGED <<auth, need, failed, reported>>
       ELSE /\ need' = [need EXCEPT ![p] = @ - 1]
            /\ \/ /\ auth' = IF dry[p] THEN auth
                             ELSE [auth EXCEPT ![cur[p]] = @ \cup {AuthOrder[need[p]]}]
                  /\ UNCHANGED <<pc, failed, reported>>
               \/ /\ Fail(p, cur[p], "auth")
                  /\ UNCHANGED auth
    /\ UNCHANGED <<mode, version, terminating, route, options, saved, copy, todo, cur,
                   exit>>

Finish(p) ==
    /\ pc[p] = "loop"
    /\ todo[p] = {}
    /\ End(p, Status(p, failed[p]))
    /\ UNCHANGED <<cluster, options, saved, copy, todo, cur, need, failed, reported>>

Step(p) ==
    \/ ListISVCs(p) \/ ListFails(p) \/ Confirm(p) \/ WriteBackup(p)
    \/ \E s \in Services : DeleteISVC(p, s)
    \/ WaitForISVCDeletion(p) \/ Recreate(p) \/ Rollback(p)
    \/ DeleteIstioRoute(p) \/ EnsureAuthResources(p) \/ Finish(p)

-----------------------------------------------------------------------------
(* Around it: cut-offs, reruns, the finalizers and the users.              *)

Crash(p) ==
    /\ pc[p] \notin {"done", "crashed"}
    /\ Goto(p, "crashed")
    /\ reported' = IF pc[p] \in InTheWorks THEN reported \cup {cur[p]} ELSE reported
    /\ UNCHANGED <<cluster, options, saved, copy, todo, cur, need, failed, exit>>

Restart(p) ==
    /\ pc[p] \in {"done", "crashed"}
    /\ restarts[p] < MaxRestarts
    /\ restarts' = [restarts EXCEPT ![p] = @ + 1]
    /\ \E c \in Commands, d \in DryRuns, y \in Yes :
         /\ cmd' = [cmd EXCEPT ![p] = c]
         /\ dry' = [dry EXCEPT ![p] = d]
         /\ yes' = [yes EXCEPT ![p] = y]
    /\ Goto(p, "list")
    /\ todo' = [todo EXCEPT ![p] = {}]
    /\ cur' = [cur EXCEPT ![p] = Nobody]
    /\ need' = [need EXCEPT ![p] = 0]
    /\ failed' = [failed EXCEPT ![p] = FALSE]
    /\ exit' = [exit EXCEPT ![p] = "none"]
    /\ copy' = [copy EXCEPT ![p] = [s \in Services |-> 0]]
    /\ UNCHANGED <<cluster, saved, reported>>

Finalized(s) ==
    /\ s \in terminating
    /\ terminating' = terminating \ {s}
    /\ mode' = [mode EXCEPT ![s] = "gone"]
    /\ UNCHANGED <<version, route, auth, options, saved, pc, copy, todo, cur, need, failed,
                   exit, reported>>

Edit(s) ==
    /\ mode[s] # "gone" /\ s \notin terminating
    /\ version[s] < MaxVersion
    /\ version' = [version EXCEPT ![s] = @ + 1]
    /\ UNCHANGED <<mode, terminating, route, auth, options, saved, pc, copy, todo, cur,
                   need, failed, exit, reported>>

Next ==
    \/ \E p \in Procs : Step(p) \/ Crash(p) \/ Restart(p)
    \/ \E s \in Services : Finalized(s) \/ Edit(s)

Spec == Init /\ [][Next]_vars

(* Requests are answered or fail, waits end after their polls, and a user  *)
(* who is asked answers.                                                   *)
FairSpec == Spec /\ \A p \in Procs : WF_vars(Step(p))

-----------------------------------------------------------------------------
(* Properties.                                                             *)

(* An InferenceService that is gone, and that no run is about to create    *)
(* again, is one the user was told about: its deletion timed out, or both  *)
(* its creation and the rollback failed, or the run was cut off in between.*)
LossIsReported ==
    \A s \in Services : mode[s] = "gone" =>
        \/ s \in reported
        \/ \E p \in Procs : cur[p] = s /\ pc[p] \in InTheWorks

(* A run that ends without a failure has converted everything it listed:   *)
(* in RawDeployment mode, without its Istio route, with its auth resources.*)
OkMeansConverted ==
    [][\A p \in Procs :
        (pc[p] = "loop" /\ exit'[p] = "ok" /\ exit[p] = "none" /\ ~dry[p]) =>
            \A s \in Services : copy[p][s] # 0 =>
                /\ mode[s] = "RawDeployment"
                /\ s \notin route
                /\ s \in Auth => auth[s] = AuthKinds]_vars

(* No step of a dry run changes the cluster or the backup directory.       *)
DryRunWritesNothing ==
    [][\A p \in Procs : dry[p] /\ (pc'[p] # pc[p] \/ need'[p] # need[p]) =>
            UNCHANGED <<cluster, saved>>]_vars

(* A run that is not cut off ends.                                         *)
RunsEnd == \A p \in Procs : (pc[p] = "list") ~> (pc[p] \in {"done", "crashed"})

(* support.go: "Restored original InferenceService %s/%s after failed      *)
(* recreation". What a rollback creates is what was deleted.               *)
RollbackRestoresOriginal ==
    [][\A s \in Services : mode[s] = "gone" /\ mode'[s] = "Serverless" =>
        version'[s] = version[s]]_vars

(* serverless_to_raw.go: the action "Converts InferenceServices using      *)
(* Serverless deployment mode to RawDeployment and creates associated auth *)
(* resources". After a run that reports success none are missing.          *)
AuthAfterSuccess ==
    \A p \in Procs : exit[p] = "ok" /\ cmd[p] = "run" /\ ~dry[p] =>
        \A s \in Auth : mode[s] = "RawDeployment" => auth[s] = AuthKinds

(* command_prepare.go: "All preparations completed successfully!". A       *)
(* prepare that says so has written every service it listed.               *)
PreparedMeansSaved ==
    \A p \in Procs : exit[p] = "ok" /\ cmd[p] = "prepare" /\ ~dry[p] =>
        \A s \in Services : copy[p][s] # 0 => saved[s] # 0
=============================================================================

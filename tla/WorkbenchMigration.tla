-------------------------- MODULE WorkbenchMigration --------------------------
(***************************************************************************)
(* "odh migrate run" (and "migrate prepare") with the workbench migrations *)
(* (pkg/migrate/actions/workbenches): patch-auth-model, which stops the    *)
(* running workbenches, rewrites their Notebooks, deletes their            *)
(* StatefulSets, may clean up and starts them again; cleanup-oauth;        *)
(* upgrade-2x-to-3x; attach-kueue-label; and verify-migration.             *)
(*                                                                         *)
(* Meanwhile users stop, start and edit workbenches and the controller     *)
(* follows. A request may fail, before or after it took effect; the        *)
(* timeout of the command may pass; the command may be killed; and it may  *)
(* be run again.                                                           *)
(***************************************************************************)
EXTENDS Workbenches, Naturals, Sequences, FiniteSets

CONSTANTS
    Notebooks,       \* numbered in the order in which the API server lists them
    KueueNotebooks,  \* those in Kueue-managed namespaces
    Commands,        \* the command lines
    Again,           \* of these, the ones to follow another
    Clusters,        \* the Notebooks there may be at first
    MaxRuns,         \* bound: how often a command is run
    MaxEvents        \* bound: failing requests, timeouts, kills and what users do

Migrations == {"prepare", "patch", "cleanup", "upgrade", "kueue", "verify"}
Command == [plan : Seq(Migrations), scope : SUBSET Notebooks,
            mode : {"auto", "skip-stop", "only-stopped", "both"},
            phase : {"migration", "cleanup", "all", "unknown"},
            flags : SUBSET {"dry-run", "yes", "with-cleanup", "force-non-stopped",
                            "by name", "name without namespace", "bad queue-name"}]

ASSUME WorkbenchAssumption ==
    /\ Notebooks \subseteq Nat /\ KueueNotebooks \subseteq Notebooks
    /\ Commands \subseteq Command /\ Again \subseteq Commands
    /\ Clusters \subseteq [Notebooks -> [has : SUBSET Features, stop : {0, MaxRuns + 1}]]
    /\ MaxRuns \in Nat \ {0} /\ MaxEvents \in Nat

(* The stop annotation: whose it is. *)
Running == 0
User == MaxRuns + 1

VARIABLES
    nb,       \* the Notebooks: what they have, and who stopped them (a run or a user)
    sts,      \* their StatefulSets
    res,      \* the OAuth resources of each workbench
    saved,    \* Notebooks with a backup file
    denied,   \* the migrations of the command that were denied their list
    fresh,    \* Notebooks nobody has changed since the command read them
    cmd, run, \* the command line, and how many there have been
    cli,      \* the process
    exit,     \* how it ended
    events,   \* what has gone wrong or come in between, so far
    expired   \* the timeout of the command has passed

cluster == <<nb, sts, res>>
limits == <<events, expired>>
vars == <<cluster, saved, denied, fresh, cmd, run, cli, exit, limits>>

Notebook == [has : SUBSET Features, stop : 0 .. MaxRuns + 1]
StatefulSet == {"none", "up", "down"}
PCs == {"next", "list", "stop", "wait", "refetch", "gate", "patch", "delete", "confirm",
        "clean", "restart", "pods", "fix", "auth", "label", "verify", "write", "idle"}
Process == [pc : PCs,
            plan : Seq(Migrations),    \* the migrations left, the current one first
            todo : SUBSET Notebooks,   \* what the current loop has left
            work : SUBSET Notebooks,   \* what is to be changed
            mine : SUBSET Notebooks,   \* stoppedByAction
            patched : SUBSET Notebooks,
            cur : SUBSET Notebooks,    \* the one being stopped or patched
            copy : [Notebooks -> Notebook],
            override : SUBSET Notebooks,  \* cleaned up against the pre-check's advice
            failed : BOOLEAN]          \* some step failed

TypeOK ==
    /\ nb \in [Notebooks -> Notebook] /\ sts \in [Notebooks -> StatefulSet]
    /\ res \in [Notebooks -> SUBSET OAuthResources]
    /\ saved \subseteq Notebooks /\ fresh \subseteq Notebooks /\ denied \subseteq Migrations
    /\ cmd \in Commands /\ run \in 1 .. MaxRuns /\ cli \in Process
    /\ exit \in {"none", "ok", "failures", "error", "killed"}
    /\ events \in 0 .. MaxEvents /\ expired \in BOOLEAN

OldStyle(n) == nb[n].has \cap Legacy # {}
Started(c) ==
    [pc |-> "next", plan |-> c.plan, todo |-> {}, work |-> {}, mine |-> {}, patched |-> {},
     cur |-> {}, copy |-> nb, override |-> {}, failed |-> FALSE]

Init ==
    /\ nb \in Clusters
    /\ sts = [n \in Notebooks |-> IF nb[n].stop = Running THEN "up" ELSE "down"]
    /\ res = [n \in Notebooks |-> IF OldStyle(n) THEN OAuthResources ELSE {}]
    /\ saved = {} /\ denied = {} /\ fresh = {} /\ cmd \in Commands /\ run = 1 /\ cli = Started(cmd)
    /\ exit = "none" /\ events = 0 /\ expired = FALSE

-----------------------------------------------------------------------------
Flag(f) == f \in cmd.flags
Now == Head(cli.plan)
Stopped(n) == cli.copy[n].stop # Running   \* isStopped, of what was read
Has(n) == cli.copy[n].has

(* The loops go over a list. *)
Is1st(n) == n \in cli.todo /\ \A m \in cli.todo : n <= m

(* A request that succeeds, one that fails, and one whose answer is lost. *)
Works == ~expired /\ UNCHANGED limits
Event == events < MaxEvents /\ events' = events + 1
Hit == ~expired /\ Event /\ UNCHANGED expired
Fails == Hit \/ (expired /\ UNCHANGED limits)

Write(n, has, stop) ==
    /\ nb' = [nb EXCEPT ![n] = [has |-> has, stop |-> stop]]
    /\ fresh' = fresh \ {n}
    /\ UNCHANGED <<sts, res>>
Keeps == UNCHANGED <<cluster, fresh>>
Same == UNCHANGED <<saved, denied, cmd, run, exit>>

Goto(l) == cli' = [cli EXCEPT !.pc = l]
Leave(failed) ==
    cli' = [cli EXCEPT !.pc = "next", !.plan = Tail(@), !.failed = @ \/ failed]
Done(n, failed) == cli' = [cli EXCEPT !.todo = @ \ {n}, !.failed = @ \/ failed]
Loop(l, over) == cli' = [cli EXCEPT !.pc = l, !.todo = over]
Ends(how) ==
    /\ cli' = [Started(cmd) EXCEPT !.pc = "idle"]
    /\ exit' = how
    /\ Keeps /\ UNCHANGED <<saved, denied, cmd, run>>

-----------------------------------------------------------------------------
(* runMigrationMode: one migration after the other.                         *)

(* Scope.Validate, validateFlags, validatePhase and the queue's name: what  *)
(* makes a task return an error, which ends the command.                    *)
ValidFlags(m) ==
    /\ Flag("name without namespace") => m = "upgrade"
    /\ m = "patch" => cmd.mode # "both"
    /\ m = "verify" => cmd.phase # "unknown"
    /\ m = "kueue" => ~Flag("bad queue-name")

NextMigration ==
    /\ cli.pc = "next" /\ cli.plan # <<>>
    /\ IF ValidFlags(Now)
       THEN /\ cli' = [cli EXCEPT !.pc = "list", !.todo = {}, !.work = {}, !.mine = {},
                                  !.patched = {}, !.override = {}]
            /\ Keeps /\ Same /\ UNCHANGED limits
       ELSE Ends("error") /\ UNCHANGED limits

Finish ==
    /\ cli.pc = "next" /\ cli.plan = <<>>
    /\ Ends(IF cli.failed THEN "failures" ELSE "ok") /\ UNCHANGED limits

(* A failed step, which "migrate prepare" does not look at.                 *)
ListFails ==
    /\ cli.pc = "list" /\ Fails
    /\ Leave(Now # "prepare")
    /\ Keeps /\ Same

(* A list that is denied is an empty one: there is nothing to do. A single  *)
(* Notebook is read without the client, except that upgrade-2x-to-3x looks  *)
(* at all of them and attach-kueue-label at the namespaces first.           *)
ListDenied ==
    /\ cli.pc = "list" /\ Hit
    /\ Flag("by name") => Now \in {"upgrade", "kueue"}
    /\ Leave(FALSE)
    /\ denied' = denied \cup {Now}
    /\ Keeps /\ UNCHANGED <<saved, cmd, run, exit>>

(* ListNotebooks; what a migration makes of it is the definition after it.  *)
Lists(m) ==
    /\ cli.pc = "list" /\ Now = m /\ Works
    /\ fresh' = Notebooks
    /\ UNCHANGED cluster /\ Same

Read(l, todo, work) ==
    cli' = [cli EXCEPT !.pc = l, !.copy = nb, !.todo = todo, !.work = work]

-----------------------------------------------------------------------------
(* patch-auth-model                                                         *)

PatchLists ==
    /\ Lists("patch")
    /\ LET toPatch == {n \in cmd.scope : needsAuthModelPatch(nb[n].has)} IN
       IF toPatch = {} THEN Leave(FALSE)
       ELSE CASE cmd.mode = "only-stopped" ->
                     Read("gate", {}, {n \in toPatch : nb[n].stop # Running})
              [] cmd.mode = "skip-stop" -> Read("gate", {}, toPatch)
              [] OTHER                  -> Read("stop", toPatch, {})

(* One that was stopped when it was read, or any in a dry run, needs no     *)
(* stopping.                                                                *)
KeepStopped(n) ==
    /\ cli.pc = "stop" /\ Is1st(n)
    /\ Stopped(n) \/ Flag("dry-run")
    /\ cli' = [cli EXCEPT !.todo = @ \ {n}, !.work = @ \cup {n}]
    /\ Keeps /\ Same /\ UNCHANGED limits

(* A merge patch: nothing tells whether somebody stopped it in between.     *)
stopWorkbench(n) ==
    /\ cli.pc = "stop" /\ Is1st(n) /\ ~Stopped(n) /\ ~Flag("dry-run")
    /\ \/ /\ Works /\ Write(n, nb[n].has, run)
          /\ cli' = [cli EXCEPT !.pc = "wait", !.todo = @ \ {n}, !.cur = {n}]
       \/ Hit /\ Write(n, nb[n].has, run) /\ Done(n, TRUE)
       \/ Fails /\ Keeps /\ Done(n, TRUE)
    /\ Same

(* Mutant: a wait without a timeout. *)
WaitEndsNever ==
    /\ cli.pc = "wait"
    /\ \/ /\ Works /\ \A n \in cli.cur : sts[n] # "up"
          /\ Goto("refetch")
       \/ Fails /\ cli' = [cli EXCEPT !.pc = "stop", !.cur = {}, !.failed = TRUE]
       \/ (\E n \in cli.cur : sts[n] = "up") /\ UNCHANGED <<cli, limits>>
    /\ Keeps /\ Same

(* waitForStatefulSetScaleDown: until no replica is asked for, two minutes  *)
(* at most. One that takes longer is dropped, and is not in stoppedByAction.*)
WaitEnds ==
    /\ cli.pc = "wait"
    /\ \/ /\ Works /\ \A n \in cli.cur : sts[n] # "up"
          /\ Goto("refetch")
       \/ /\ \/ Fails
             \/ (\E n \in cli.cur : sts[n] = "up") /\ UNCHANGED limits
          /\ cli' = [cli EXCEPT !.pc = "stop", !.cur = {}, !.failed = TRUE]
    /\ Keeps /\ Same

Refetch ==
    /\ cli.pc = "refetch"
    /\ \E n \in cli.cur :
         \/ /\ Works
            /\ fresh' = fresh \cup {n}
            /\ cli' = [cli EXCEPT !.pc = "stop", !.cur = {}, !.mine = @ \cup {n},
                                  !.work = @ \cup {n}, !.copy[n] = nb[n]]
         \/ /\ Fails
            /\ cli' = [cli EXCEPT !.pc = "stop", !.cur = {}, !.mine = @ \cup {n},
                                  !.failed = TRUE]
            /\ UNCHANGED fresh
    /\ UNCHANGED cluster /\ Same

AllStopped ==
    /\ cli.pc = "stop" /\ cli.todo = {}
    /\ Goto("gate")
    /\ Keeps /\ Same /\ UNCHANGED limits

(* Mutant: a user who declines is left with stopped workbenches. *)
PatchGateNoRestart ==
    /\ cli.pc = "gate"
    /\ IF cli.work = {} THEN Loop("restart", cli.mine)
       ELSE IF Flag("dry-run") THEN Leave(FALSE)
       ELSE Loop("patch", cli.work) \/ (~Flag("yes") /\ Leave(FALSE))
    /\ Keeps /\ Same /\ UNCHANGED limits

(* Execute, between handleLifecycle and patchNotebooks. *)
PatchGate ==
    /\ cli.pc = "gate"
    /\ IF cli.work = {} THEN Loop("restart", cli.mine)
       ELSE IF Flag("dry-run") THEN Leave(FALSE)
       ELSE \/ Loop("patch", cli.work)
            \/ ~Flag("yes") /\ Loop("restart", cli.mine)  \* declined
    /\ Keeps /\ Same /\ UNCHANGED limits

(* Mutant: an update without the resource version. *)
UpdateForced(n, has, then) ==
    \/ Works /\ Write(n, has, cli.copy[n].stop) /\ then
    \/ Fails /\ Keeps /\ Done(n, TRUE)

(* The update of a copy: the API server refuses one that is out of date.    *)
Update(n, has, then) ==
    \/ Works /\ n \in fresh /\ Write(n, has, cli.copy[n].stop) /\ then
    \/ Works /\ n \notin fresh /\ Keeps /\ Done(n, TRUE)
    \/ Hit /\ n \in fresh /\ Write(n, has, cli.copy[n].stop) /\ Done(n, TRUE)
    \/ Fails /\ Keeps /\ Done(n, TRUE)

PatchNotebook(n) ==
    /\ cli.pc = "patch" /\ Is1st(n)
    /\ IF PatchFails(Has(n))
       THEN Done(n, TRUE) /\ Keeps /\ UNCHANGED limits
       ELSE Update(n, applyAllPatches(Has(n)),
                   cli' = [cli EXCEPT !.pc = "delete", !.todo = @ \ {n}, !.cur = {n}])
    /\ Same

deleteStatefulSet ==
    /\ cli.pc = "delete"
    /\ \E n \in cli.cur :
         \/ /\ Works
            /\ sts' = [sts EXCEPT ![n] = "none"]
            /\ cli' = [cli EXCEPT !.pc = "patch", !.cur = {}, !.patched = @ \cup {n}]
         \/ /\ Fails
            /\ cli' = [cli EXCEPT !.pc = "patch", !.cur = {}, !.failed = TRUE]
            /\ UNCHANGED sts
    /\ UNCHANGED <<nb, res, fresh>> /\ Same

AllPatched ==
    /\ cli.pc = "patch" /\ cli.todo = {}
    /\ IF Flag("with-cleanup") /\ cli.patched # {}
       THEN cli' = [cli EXCEPT !.pc = "confirm", !.work = cli.patched]
       ELSE Loop("restart", cli.mine)
    /\ Keeps /\ Same /\ UNCHANGED limits

restartWorkbench(n) ==
    /\ cli.pc = "restart" /\ Is1st(n)
    /\ \/ Works /\ Write(n, nb[n].has, Running) /\ Done(n, FALSE)
       \/ Hit /\ Write(n, nb[n].has, Running) /\ Done(n, TRUE)
       \/ Fails /\ Keeps /\ Done(n, TRUE)
    /\ Same

AllRestarted ==
    /\ cli.pc = "restart" /\ cli.todo = {}
    /\ IF cmd.mode = "skip-stop" /\ cli.patched # {} THEN Goto("pods") ELSE Leave(FALSE)
    /\ Keeps /\ Same /\ UNCHANGED limits

(* Pods of patched workbenches that a Kueue finalizer holds back; one that  *)
(* cannot be read counts as fine.                                           *)
checkKueueTerminatingPods ==
    /\ cli.pc = "pods"
    /\ \/ Works /\ \E stuck \in {FALSE, cli.patched \cap KueueNotebooks # {}} : Leave(stuck)
       \/ Fails /\ Leave(TRUE)
    /\ Keeps /\ Same

-----------------------------------------------------------------------------
(* cleanup-oauth, also after the patch                                      *)

CleanupLists ==
    /\ Lists("cleanup")
    /\ IF cmd.scope = {} THEN Leave(FALSE) ELSE Read("confirm", {}, cmd.scope)

ConfirmCleanup ==
    /\ cli.pc = "confirm" /\ Now \in {"patch", "cleanup"}
    /\ \/ Loop("clean", cli.work)
       \/ /\ cmd.flags \cap {"dry-run", "yes"} = {}     \* declined
          /\ IF Now = "patch" THEN Loop("restart", cli.mine) ELSE Leave(FALSE)
    /\ Keeps /\ Same /\ UNCHANGED limits

(* deleteOAuthResources: six deletions, each of which may fail by itself.   *)
deleteOAuthResources(n, override) ==
    /\ \E bad \in SUBSET OAuthResources :
         /\ \/ Flag("dry-run") /\ bad = {} /\ UNCHANGED <<res, limits>>
            \/ /\ ~Flag("dry-run") /\ expired /\ bad = OAuthResources
               /\ UNCHANGED <<res, limits>>
            \/ /\ ~Flag("dry-run") /\ ~expired /\ events + Cardinality(bad) <= MaxEvents
               /\ events' = events + Cardinality(bad)
               /\ res' = [res EXCEPT ![n] = @ \cap bad]
               /\ UNCHANGED expired
         /\ cli' = [cli EXCEPT !.todo = @ \ {n},
                               !.failed = @ \/ bad # {} \/ override,
                               !.override = IF override THEN @ \cup {n} ELSE @]
    /\ UNCHANGED <<nb, sts, fresh>>

CleanupNotebookAfterPatch(n) ==
    /\ cli.pc = "clean" /\ Now = "patch" /\ Is1st(n)
    /\ \/ deleteOAuthResources(n, FALSE)
       \/ Fails /\ Keeps /\ Done(n, TRUE)               \* it is read again first
    /\ Same

(* Mutant: --yes answers the question about the failed pre-check as well. *)
CleanupNotebookYes(n) ==
    /\ cli.pc = "clean" /\ Now = "cleanup" /\ Is1st(n)
    /\ IF CheckMigrationState(Has(n)) \/ Flag("yes")
       THEN deleteOAuthResources(n, FALSE)
       ELSE \/ Done(n, TRUE) /\ Keeps /\ UNCHANGED limits
            \/ deleteOAuthResources(n, TRUE)
    /\ Same

(* The pre-check looks at what was listed. When it fails, --yes leaves the  *)
(* workbench alone; otherwise the user decides, in a dry run too.           *)
CleanupNotebook(n) ==
    /\ cli.pc = "clean" /\ Now = "cleanup" /\ Is1st(n)
    /\ IF CheckMigrationState(Has(n))
       THEN deleteOAuthResources(n, FALSE)
       ELSE \/ Done(n, TRUE) /\ Keeps /\ UNCHANGED limits
            \/ ~Flag("yes") /\ deleteOAuthResources(n, TRUE)
    /\ Same

AllCleaned ==
    /\ cli.pc = "clean" /\ cli.todo = {}
    /\ IF Now = "patch" THEN Loop("restart", cli.mine) ELSE Leave(FALSE)
    /\ Keeps /\ Same /\ UNCHANGED limits

-----------------------------------------------------------------------------
(* upgrade-2x-to-3x, of every Notebook of the cluster                       *)

UpgradeLists ==
    /\ Lists("upgrade")
    /\ LET eligible == {n \in Notebooks : nb[n].stop # Running \/ Flag("force-non-stopped")}
           toFix == {n \in eligible : hasContainerNameMismatch(nb[n].has)}
       IN IF eligible = {}
          THEN Leave(FALSE)
          ELSE cli' = [cli EXCEPT !.copy = nb, !.work = eligible, !.todo = toFix,
                                  !.pc = IF toFix = {} \/ Flag("dry-run") THEN "auth"
                                                                          ELSE "confirm",
                                  !.failed = @ \/ \E n \in eligible : NameCheckFails(nb[n].has)]

ConfirmChange ==
    /\ cli.pc = "confirm" /\ Now \in {"upgrade", "kueue"}
    /\ \/ Goto(IF Now = "upgrade" THEN "fix" ELSE "label")
       \/ /\ ~Flag("yes")                               \* declined
          /\ IF Now = "upgrade" THEN Goto("auth") ELSE Leave(FALSE)
    /\ Keeps /\ Same /\ UNCHANGED limits

FixName(n) ==
    /\ cli.pc = "fix" /\ Is1st(n)
    /\ Update(n, fixContainerName(Has(n)), Done(n, FALSE))
    /\ Same

AllFixed ==
    /\ cli.pc = "fix" /\ cli.todo = {}
    /\ Goto("auth")
    /\ Keeps /\ Same /\ UNCHANGED limits

(* verifyAuthModel, of the copies read before the names were fixed. *)
verifyAuthModel ==
    /\ cli.pc = "auth"
    /\ Leave(\E n \in cli.work : ~CheckMigrationState(Has(n)))
    /\ Keeps /\ Same /\ UNCHANGED limits

-----------------------------------------------------------------------------
(* attach-kueue-label *)

KueueLists ==
    /\ Lists("kueue")
    /\ LET eligible == {n \in cmd.scope \cap KueueNotebooks : ~hasQueueNameLabel(nb[n].has)} IN
       IF eligible = {} \/ Flag("dry-run") THEN Leave(FALSE) ELSE Read("confirm", eligible, {})

patchLabel(n) ==
    /\ cli.pc = "label" /\ Is1st(n)
    /\ \/ Works /\ Write(n, nb[n].has \cup {"queue-name"}, nb[n].stop) /\ Done(n, FALSE)
       \/ Fails /\ Keeps /\ Done(n, TRUE)
    /\ Same

-----------------------------------------------------------------------------
(* verify-migration *)

VerifyLists == Lists("verify") /\ Read("verify", cmd.scope, {})

(* Mutant: what cannot be looked up counts as gone. *)
CheckCleanupStateForgiving(n) == (Works /\ res[n] = {}) \/ Fails

(* CheckCleanupState: one that cannot be looked up is a failure as well. *)
CheckCleanupState(n) == Works /\ res[n] = {}

VerifyNotebook(n) ==
    /\ cli.pc = "verify" /\ Is1st(n)
    /\ LET bad ==
             \/ ClassifyNotebook(Has(n)) \notin {"MIGRATED", "LEGACY"}
             \/ cmd.phase \in {"migration", "all"} /\ ~CheckMigrationState(Has(n))
       IN IF cmd.phase \in {"cleanup", "all"}
          THEN \/ CheckCleanupState(n) /\ Done(n, bad)
               \/ Works /\ res[n] # {} /\ Done(n, TRUE)
               \/ Fails /\ Done(n, TRUE)
          ELSE Done(n, bad) /\ UNCHANGED limits
    /\ Keeps /\ Same

AllSeen ==
    /\ cli.pc \in {"label", "verify"} /\ cli.todo = {}
    /\ Leave(FALSE)
    /\ Keeps /\ Same /\ UNCHANGED limits

-----------------------------------------------------------------------------
(* migrate prepare: the backup of the Notebooks, namespace by namespace     *)

PrepareLists ==
    /\ Lists("prepare")
    /\ IF cmd.scope = {} \/ Flag("dry-run") THEN Leave(FALSE) ELSE Read("write", cmd.scope, {})

backupNotebooks ==
    /\ cli.pc = "write"
    /\ \/ /\ saved' = saved \cup cli.todo
          /\ Leave(FALSE)
          /\ UNCHANGED exit
       \/ /\ saved' \in {saved \cup part : part \in SUBSET cli.todo \ {cli.todo}}
          /\ cli' = [Started(cmd) EXCEPT !.pc = "idle"]
          /\ exit' = "error"
    /\ Keeps /\ UNCHANGED <<denied, cmd, run, limits>>

CLI ==
    \/ NextMigration \/ Finish \/ ListFails \/ ListDenied
    \/ PatchLists \/ WaitEnds \/ Refetch \/ AllStopped \/ PatchGate
    \/ deleteStatefulSet \/ AllPatched \/ AllRestarted \/ checkKueueTerminatingPods
    \/ CleanupLists \/ ConfirmCleanup \/ AllCleaned
    \/ UpgradeLists \/ ConfirmChange \/ AllFixed \/ verifyAuthModel
    \/ KueueLists \/ VerifyLists \/ AllSeen \/ PrepareLists \/ backupNotebooks
    \/ \E n \in Notebooks :
         \/ KeepStopped(n) \/ stopWorkbench(n) \/ PatchNotebook(n) \/ restartWorkbench(n)
         \/ CleanupNotebookAfterPatch(n) \/ CleanupNotebook(n)
         \/ FixName(n) \/ patchLabel(n) \/ VerifyNotebook(n)

-----------------------------------------------------------------------------
(* The rest of the world *)

(* The timeout of the command (context.WithTimeout): every request fails.   *)
Expire ==
    /\ cli.pc # "idle" /\ ~expired
    /\ Event /\ expired' = TRUE
    /\ UNCHANGED <<cluster, saved, denied, fresh, cmd, run, cli, exit>>

Killed == cli.pc # "idle" /\ Event /\ Ends("killed") /\ UNCHANGED expired

RunAgain ==
    /\ cli.pc = "idle" /\ run < MaxRuns
    /\ run' = run + 1 /\ expired' = FALSE /\ exit' = "none" /\ fresh' = {} /\ denied' = {}
    /\ \E c \in Again : cmd' = c /\ cli' = Started(c)
    /\ UNCHANGED <<cluster, saved, events>>

(* A user stops, starts or edits a workbench (external). *)
Touch(n) ==
    /\ Event
    /\ \/ Write(n, nb[n].has, IF nb[n].stop = Running THEN User ELSE Running)
       \/ "edited" \notin nb[n].has /\ Write(n, nb[n].has \cup {"edited"}, nb[n].stop)
    /\ UNCHANGED <<saved, denied, cmd, run, cli, exit, expired>>

(* The controller scales the StatefulSet, or makes one that is missing      *)
(* (external).                                                              *)
Reconcile(n) ==
    /\ sts' = [sts EXCEPT ![n] = IF nb[n].stop = Running THEN "up" ELSE "down"]
    /\ sts' # sts
    /\ UNCHANGED <<nb, res, saved, denied, fresh, cmd, run, cli, exit, limits>>

(* It adds the sidecar a Notebook asks for (external). *)
Inject(n) ==
    /\ "inject-auth" \in nb[n].has
    /\ nb[n].has \cap {"kube-rbac-proxy", "unreadable"} = {}
    /\ Write(n, nb[n].has \cup {"kube-rbac-proxy"}, nb[n].stop)
    /\ UNCHANGED <<saved, denied, cmd, run, cli, exit, limits>>

Over == cli.pc = "idle" /\ run = MaxRuns /\ UNCHANGED vars

Next ==
    \/ CLI \/ Expire \/ Killed \/ RunAgain \/ Over
    \/ \E n \in Notebooks : Touch(n) \/ Reconcile(n) \/ Inject(n)

Spec == Init /\ [][Next]_vars

(* The process goes on as long as it can; users answer prompts. *)
FairSpec == Spec /\ WF_vars(CLI)

-----------------------------------------------------------------------------
(* A run that reports no failure leaves no workbench stopped that it        *)
(* stopped itself, whichever way it went: declined, cut short, patched or   *)
(* not (Execute, stoppedByAction).                                          *)
StoppedIsReported ==
    cli.pc = "idle" /\ exit = "ok" => \A n \in Notebooks : nb[n].stop # run

(* What a user has edited stays, also when the command writes back a copy   *)
(* it read before the edit.                                                 *)
EditsKept ==
    [][\A n \in Notebooks : "edited" \in nb[n].has => "edited" \in nb'[n].has]_vars

(* The OAuth resources of a workbench that still has its oauth-proxy go     *)
(* only when the user has overridden the pre-check.                         *)
CleanupOnlyMigrated ==
    [][\A n \in Notebooks :
         res'[n] # res[n] /\ "oauth-proxy" \in nb[n].has => n \in cli'.override]_vars

(* A command that ends with verify-migration and reports no failure leaves  *)
(* its workbenches migrated, and clean, as far as it was asked to look,     *)
(* unless the verification was denied its list: then it finds no workbench  *)
(* at all and reports no failure either (helpers.go:142).                   *)
OkMeansMigrated ==
    (/\ cli.pc = "idle" /\ exit = "ok" /\ "verify" \notin denied
     /\ cmd.plan # <<>> /\ cmd.plan[Len(cmd.plan)] = "verify") =>
      \A n \in cmd.scope :
        /\ cmd.phase \in {"migration", "all"} => CheckMigrationState(nb[n].has)
        /\ cmd.phase \in {"cleanup", "all"} => res[n] = {}

(* Every command ends: the wait for a StatefulSet is bounded. *)
RunsEnd == []<>(cli.pc = "idle")

(* The comment of handleLifecycle: it returns "a list of notebooks that     *)
(* were stopped by this action (for later restart)".                        *)
StoppedIsRemembered ==
    cli.pc = "gate" => \A n \in Notebooks : nb[n].stop = run => n \in cli.mine
=============================================================================

# A verification of odh-cli

`kubectl odh` (this repository) is a command line tool for the administrators of OpenShift
AI clusters. What can do harm is the part that changes a cluster while other people use it:
it deletes and creates InferenceServices and RayClusters, stops workbenches and rewrites
them, takes one Kueue away and installs another, asks OLM for operators, and writes the
backups people rely on before they do any of that; and what people rely on before an
upgrade is the verdict of `lint`. None of these is a transaction. Every one is a
sequence of requests against an API server that other actors write to as well, each of
which may fail (also after it took effect), and the process may be stopped with Ctrl-C, or
by its own timeout, between any two. This directory holds TLA+ models of those parts, the
TLC runs that check them on small instances, and TLAPS proofs, for all instances, of every
safety property that a run shows to hold and of the one refinement.

- [1. The system](#1-the-system)
- [2. Modules and how they correspond to the code](#2-modules-and-how-they-correspond-to-the-code)
- [3. Runs](#3-runs)
- [4. Where code and documentation disagree](#4-where-code-and-documentation-disagree)
- [5. Proofs](#5-proofs)
- [6. What is not modelled](#6-what-is-not-modelled)
- [7. What is left](#7-what-is-left)

`PROJECT.json` maps every definition to the lines it models and lists the runs, the
mutants, the hazards and the theorems.

## 1. The system

| Part | State it keeps | Operations | What is hard about it |
|---|---|---|---|
| `pkg/migrate` commands | results of the steps (recorder), exit status | `list`, `prepare`, `run` over one or several migrations | a failed step must reach the exit status; phases |
| `actions/kueue/rhbok` | `managementState` of the Kueue component, OLM requests, legacy CRDs, labels | a chain of eleven steps with prompts, waits and a verification | crash and rerun in mid-chain, two runs at once, controllers and administrators in between |
| `actions/modelserving` | InferenceServices, ServingRuntimes, auth resources, namespace labels | serverless-to-raw, modelmesh-to-raw, owner references, ConfigMap edits | delete-then-create, two-object updates, shared runtimes, reruns that look for work by a state changed too early |
| `actions/workbenches` | Notebooks, their StatefulSets and OAuth resources, backup files | stop / patch / restart, cleanup, upgrade, Kueue label, verify | users stop, start and edit the same workbenches; a run that dies half way |
| `pkg/migrate/raycluster`, `actions/raycluster` | RayClusters, ServiceAccounts, CodeFlare in the DataScienceCluster, two directories of files | backup, live migration, restore (delete and create) | deletion before creation, half-written files, finalizers |
| `actions/trustyai` | data directories, metrics files, exporters, probes, pods | backup and restore, rewrite, unblock | two goroutines for every copy, pods that go away, one of several requests failing |
| `actions/llamastack`, `aipipelines`, `training`, `datasciencecluster` | custom resources, storage versions | backup, create, wait | leftovers of an earlier run |
| `pkg/backup` | files, the channels between goroutines | discover, resolve, write | a pool of workers, closes, cancellation, full channels |
| `pkg/deps` | Subscriptions, ClusterExtensions, OperatorGroups, CSVs | check, install, graph | check-then-create races, two generations of OLM, waits with timeouts |
| `pkg/lint` | findings, errors | run every check that applies, verdict | checks read at different moments; one failing must not look like one that passed |
| `pkg/status`, `events`, `logs`, `components`, `get`, `diagnose` | sections, streams | collect in parallel and print | partial failure, cancellation |
| `pkg/cmd/watch.go`, `wait.go` | error and retry counters | poll, back off, stop | timeouts against late answers |
| `pkg/mcp`, `pkg/api`, `pkg/aipipelines` | sessions of external libraries | pass requests on | little of their own |
| `pkg/util`, `resources`, `printer`, `output`, `cmd/*` | none | tables, formatting, flags | little |

How the parts interact: `migrate run` and `migrate prepare` look up an action in the
registry, give it a `Target` (client, flags, recorder) and turn the recorder's steps into
an exit status. The actions share nothing but the cluster. `deps install` and the Kueue
migration both ask OLM for operators; `backup` and the prepare tasks share the resource
writer. Concurrency inside one process exists in the backup pipeline, in the checks and
the waits of `deps install`, in every copy from or to a pod and in the collectors of
`status`; concurrency through the cluster exists everywhere.

What makes each modelled part correct:

- *Kueue migration*: the two Kueues are never both in charge; a dry run writes nothing; a
  verification that passes is true; a run ends.
- *Backup*: what was listed is written or warned about, exactly once, whatever order the
  goroutines take; no send on a closed channel; no hang; one type's failure is its own.
- *deps install*: success means requested; no operator is asked
  for twice; an OperatorGroup serves the Subscription next to it; the run ends.
- *Model serving*: no InferenceService disappears without the user being told; success
  means converted, with everything that belongs to it; a namespace keeps the label its
  services need.
- *Workbenches*: a workbench the tool stopped runs again or its user is told; nobody's edit
  is overwritten; no login is removed under a workbench that needs it; verified means
  migrated.
- *RayClusters*: what is deleted can be had back; counts and backups are what they say.
- *TrustyAI*: a backup that is marked complete is complete; success means done; a copy
  never hangs.
- *lint*: a clean exit is earned check by check: each selected one had nothing to say about
  a state the cluster really was in, and none was passed over. A read that fails is no such
  state; where the code takes one for an answer, section 3 says so.

The hazards behind these are listed in `PROJECT.json`, each at its line.

## 2. Modules and how they correspond to the code

Conventions in all of them: a process is a CLI invocation, `pc` says before which request
it stands, and one action is one request with everything the code does up to the next one.
A request that may fail has a disjunct for its error path; where it matters that the error
hides a success, a disjunct for that as well. A poll loop is an action that fires when its
condition holds beside one for its timeout. Definitions whose comment begins with
*A mutant* (or *Mutant*) are wrong on purpose: each shows that a property notices a bug of that
kind, and none is part of a specification.

**`RHBOKMigration`** (`pkg/migrate/actions/kueue/rhbok/`, with the discovery helpers of
`pkg/lint/checks/kueue` and `pkg/util/kube/olm` it calls). `mgmt`, `embedded`, `ready`,
`cm`, `crd`, `rhbok`, `pods`, `openshift`, `wls`, `queued` are the cluster;
`steps` is the recorder; `plan`, `seen`, `mode` are the fields the action keeps between steps. `Validate`, `CheckComplete`,
`Begin` are the start of the run task; then one or several actions for each of the eleven
steps of `executeMigration`, in `Chain`; `Finish` is the completion of a step together with
`haltIfStepFailed`. `PatchManagementState` is the retried update of the
DataScienceCluster. Beside the processes act the user at the prompt (`...Ask`), Ctrl-C and
rerun (`Crash`, `Start`), the DSC controller, OLM and the operator's pods
(`Controllers`), users and an administrator (`Others`). `selectOLMMode` follows the flag: `v0`
or `v1` where it is given, else a ClusterExtension that is there, else what is served.

**`BackupInputs`, `BackupCommand`, `BackupPipeline`** (`pkg/backup`,
`pkg/util/kube/dependencies.go`, `ListResources` of `pkg/util/client`). `BackupPipeline` has the
two channels with their capacity, the discovery goroutine, the worker pool and the writer, the
command's context (`root`), the errgroup's (`ctx`) and the pool's (`poolCtx`), for one
workload type after the other. A `select` on a channel and a context is a choice of two
actions. `BackupCommand` is what the command promises, without any of this: instances that
were listed are settled one by one, and a type ends without a warning only when none is
left. `ImplementsSequential` is the refinement, with `open` mapped to what is in flight.

**`DepsInstall`** (`pkg/deps/install.go`, `olm_state.go`). The checks of
`filterDepsToInstall` run in parallel (`Check`), the creations one after the other
(`CreateNamespace` ... `CreateClusterExtension`), the waits in parallel
(`WaitForDependency`); `OLM` and `ForeignGroup` are the other actors. A group has a name, the
one the CLI gives its own or another, and targets: `EnsureOperatorGroup` looks at the targets of
what the List shows, `AddGroup` is the Create, which takes AlreadyExists for success whatever
the group is like. `overtaken` is a history of the namespaces in which a group came up between
the two. Dependencies are model values; which of them are enabled, optional or in a shared namespace are constants,
and `Found` says in which of five `Situations` a run may come upon each.

**`ServerlessToRaw`** (`serverless_to_raw.go`, `support.go`, and of `command_run.go` and
`command_prepare.go` the exit status). `copy` is the version of each service that the list
returned and everything later is made from; `version` is the current one. `Deleted` and
`Finalized` are the API server; `DeleteISVC`, `WaitForISVCDeletion`, `Recreate` and `Rollback` are
`deleteAndRecreateISVC`. `reported` records what the user was told: a failed step names
the service, and a run stopped by hand is known to its user to have been stopped. A list that
is denied is empty here and in `ModelMeshToRaw` (`ListFails`): the run finds nothing to do and
ends well.

**`ModelMeshToRaw`** (`modelmesh_to_raw.go`, `support.go`). `Classify` and `Validate` are the
reads before the prompt; `Take` sees to the auth resources; `UpdateServingRuntime` and
`UpdateServingRuntimeForPVC` keep the snapshot `snap` that `RestoreServingRuntime` puts
back; `RemoveModelMeshLabel` is the end. A runtime is abstracted to what it serves:
several models, a single one, or one particular service. `layout`, chosen in the first state
from the constant `Layouts`, says which runtime each service refers to and what is stored for it,
which services are there at first and which may be deployed later (`Deploy`), and how often, and
with which flags, each process may be started (`Start`). `late` has, for each run, the services
deployed after its list. The Update of a service on a PVC
uses the listed copy and fails with a conflict once somebody has changed it (`fresh`);
the merge patch of a standard service does not.

**`Workbenches`, `WorkbenchMigration`** (`actions/workbenches`, with the sequence, prompts
and exit status of `command_run.go`). A Notebook is the set of the features the code looks
for (`Workbenches` has the predicates and rewrites, which are functions of that set) and a
stop annotation that remembers who set it: a user or which run. `cmd.plan` is the list of
migrations of a command line; `NextMigration` starts each, with its flags' validation. A list
fails (`ListFails`) or is denied (`ListDenied`, recorded in `denied`): a denied one is empty, so
that the step completes. "migrate prepare" does not look at its steps and exits with 0. For
patch-auth-model: `PatchLists`, `stopWorkbench`, `WaitEnds`, `Refetch`, `PatchGate` (the
prompt), `PatchNotebook`, `deleteStatefulSet`, `restartWorkbench`; the others are lists and
loops alike. `fresh` stands for the resourceVersion: an `Update` of a copy somebody has
overtaken fails. `Touch`, `Reconcile` and `Inject` are users, the controller and its
webhook.

**`RayClusterMigration`** (`pkg/migrate/raycluster`, `actions/raycluster`). Features again;
`files` are the two directories, whose files may be torn. `CheckCluster` to `UpdateDSC` are the
checks with the retried change of CodeFlare; `Save` writes a file and, where the code
does, removes its sibling when it fails; `GetLive`, `cleanupOldServiceAccounts`,
`UpdateLive`, `WaitReady` are the live migration; `CheckExisting`, `Delete`,
`waitForDeletion`, `Create` the restore. A single RayCluster whose Get is denied is a nil that
the command goes on with (`NilCluster`), to a panic unless a dry backup only counts it. "migrate
prepare" exits with 0 whatever its checks say.

**`PodCopy`, `OtelExporter`, `TrustyAI`** (`pkg/util/exec/tar.go`, `actions/trustyai`). In
`PodCopy` the pipe without a buffer, the archive's end, the drain and the error channel are
state, and the two goroutines of `CopyFromPod` and `CopyToPod` are two sets of actions; too
much data behind the archive's end is an error of the drain (`UnpackFails`), and links and other
special entries, which are skipped, are no part of what is copied;
`TrustyAI` composes it with the commands that wait for a copy. `OtelExporter` is the
rewriting of the exporter's fields, a function on sets of settings. `dirs` and `mfiles` are
what has been saved; `Upgrade`, between two commands, is the reason for restoring it. A Get that
is denied yields a nil that is dereferenced: the process is gone, which is `Killed`.

**`LintBase`, `LintComponents`, `LintDependencies`, `LintWorkloads`, `NotebookImages`,
`Lint`** (`pkg/lint`). A cluster is a record of facts and of what a read of each kind meets
(`fault`: served, denied, no such type, out of order); `disc` says whether the discovery of the
API answers and `v1` whether that version is served and which components it does not show.
`Singleton` is the choice between v2 and v1, which drops the error of the discovery. Each registered check is an operator
of that record with two results, of `CanApply` and of `Validate`, errors and panics
included; `NotebookImages` has the four strategies that trace an image to a tag. Early
returns are chains of IF in the order of the code. `Lint` is
the command over the 59 registered checks: `Detect`, then `CanApply` and `Execute` as two
steps for each check of `todo`, so that the cluster may change between them, `Break` at the
deadline, and the verdict with its priorities in `Report`. The groups come in their fixed
order and the checks of a group as a Go map yields them, by the ranks `order`
(`ListedBefore`). `was` is a history of the states the cluster had; `Unreachable` is what a
read sees of one after an outage or the deadline.

The `MC...` modules give names to the instances; every configuration is a `.cfg` of its
own.

## 3. Runs

In `lint`, `workbench`, `ray` and `trustyai` a finished process has a step in which it stays,
and deadlock is checked; elsewhere the check is off, since a CLI process ends and then
nothing has to happen. Bounds on restarts, edits and starts (`MaxRestarts`, `MaxRuns`,
`MaxEvents`, `MaxVersion`, `MaxStarts`, `MaxForeign`, `RetryMaxSteps`) are constants named
in the guards. An event is something that goes wrong or comes in between: a failed request,
a timeout, a kill, an edit.

| Run | Checks | Instance, and why it is enough |
|---|---|---|
| `rhbok_single` | `OneOLMGeneration`, `VerifiedMeansMigrated`, `DryRunWritesNothing`, `StateMachine` | one process started twice, four clusters (untouched, with old CRDs, removed by hand, half migrated), five sets of flags, an explicit `v0` among them; two namespaces and workloads so that a labelling can fail half way |
| `rhbok_concurrent` | `InstallAfterRemoval`, `NotWedged`, `ActivatedOnlyWithOperator` | two unattended processes; the labels are in place, so that the state goes into the protocol. The processes are interchangeable (symmetry) and no liveness is checked |
| `rhbok_live` | `RunTerminates` | everyone meddles: users, an administrator, all flags |
| `lint` | `CleanExitIsEarned`, `OldImageFlagged` | all registered checks over a healthy cluster of each of three upgrades with one deviation at a time (an object, a state, a kind that cannot be read, a discovery that fails where v1 is not served, lacks components or shows all), the pairs of objects that only matter together, all combinations of digest, reference, path and tag for an image, two orders of the checks; one event on a few of them |
| `workbench` | `StoppedIsReported`, `OkMeansMigrated`, `EditsKept`, `CleanupOnlyMigrated`, `RunsEnd` | two workbenches (running and stopped, or half migrated and unreadable), twelve command lines, for all workbenches or one by name, then an unattended rerun; one event, a denied list among them, which already separates every read from its write |
| `ray` | `Recoverable`, `SavedMeansSaved`, `CountedIsTrue`, `EditsKept`, `RunsEnd` | two RayClusters, one held by a finalizer; twelve command lines, for all of them or one by name, two after one another; two events, so that a torn file and a cut-off restore come together |
| `trustyai` | `MetadataMeansWhole`, `OkMeansDone`, `RunsEnd` | a service with files, one with a database and one of a format the tool does not know; two metrics of one key; eight command lines before the upgrade and seven after it; two events |
| `backup` | `NoSendOnClosed`, `NoSilentLoss`, `FailureIsolated`, `ImplementsSequential`, `RunEnds` | two types, one with three instances and resolvable dependencies, two workers: a pool that ends one by one, full channels, a second type after a failed first |
| `deps_single` | `ExitOkMeansRequested`, `GroupServesSubscription`, `NoDualRequest`, `RunsEnd` | three dependencies, two of them in one namespace with different targets, one that may be there already in each of five ways (`Situations`); service accounts in one namespace of two; either generation of OLM; one rerun; somebody else creates a group at any moment where there is none, under the CLI's own name or another, with any of the targets |
| `serverless` | `LossIsReported`, `OkMeansConverted`, `RunsEnd` | two services, one with auth; every option; an edit, a finalizer that may never let go, a rerun |
| `modelmesh` | `LabelKeptWhileNeeded`, `BrokenIsReported`, `PVCModelsRewritten`, `OkMeansConverted`, `RunsEnd` | three services of one namespace in four layouts: two standard ones on one runtime, one of which may be deployed late, and one on a PVC; one on a PVC that shares its runtime, beside one whose storage cannot be decoded; two on PVCs with a runtime each, one with a volume name that makes no URI; each with a rerun; and two processes that overlap over a standard service and one on a PVC that may come late |

Two processes at a time are model-checked where an order of their steps is the question
(`rhbok_concurrent`, `modelmesh`). For `deps install` and the Serverless migration the theorems of
section 5 hold for any number of processes, so their runs have one.

`BrokenIsReported` and `OkMeansConverted` of ModelMesh speak of a process that has no other
beside it (`Alone`) and do not hold for two: one may restore a shared runtime after the other
has converted a sibling on it and reported success. No document speaks of overlapping runs, so this is not a finding. `NoDualRequest`, likewise,
is about runs in one mode at a time.

Fairness. In `rhbok_live`, `deps_single`, `serverless`, `modelmesh`, `workbench`, `ray` and
`trustyai` each process is weakly fair (`CLI` in the last three): the Go runtime goes on
with a goroutine whose request was answered, and client-go returns an answer or an error, at
the latest when the command's context (`--timeout`) expires. The person at a prompt is part
of the process and answers sooner or later; in `rhbok_live` nothing is assumed of them and
the property speaks only of runs without prompts. `Copying` in `trustyai` is the second
goroutine of a copy, scheduled by the same runtime; a goroutine that waits for the other
side of the pipe is not helped by it. No fairness is assumed of controllers, OLM,
finalizers, users or other processes: the waits end by their own limits. In `backup` every
goroutine, and the propagation of a cancellation to the groups' contexts, is weakly fair,
the deadline is not: the pipeline must end without its help.

What the properties leave out, because the code leaves it open:

- `CleanExitIsEarned` is about one check at a time. When somebody edits the
  DataScienceCluster during a run there need be no state that passes all checks, since each
  reads for itself: with Kueue set from Unmanaged to Managed in between, the one that
  objects to Managed may have run before and the one that objects to inconsistent labels
  may find itself not applicable after. Nor does it cover a run cut off by its deadline
  (section 4), a severity filter (applied before the verdict, `pkg/lint/command.go:495`; a
  check that failed reaches the exit code all the same, `FailedChecksReachTheExit`), a kind the user may not list
  (an empty list, `pkg/util/client/helpers.go:142`) or the list of autoscalers, whose error
  counts as "none" (`resource_capacity.go:105`). A denied ClusterVersion ends in a panic
  (`pkg/util/version/openshift.go:26`), which the model has as an exit of its own.
  The error of the discovery is dropped (`hasGroupVersion`, `pkg/util/client/helpers.go:428`), and
  v1 is read in its place: where v1 is not served there is then no DataScienceCluster and checks
  pass or do not apply, and where it lacks components these count as Removed. The property asks
  for a discovery that answers or a v1 that shows what v2 does; without that it is violated, by
  `MCLintTimeout` (section 4).
- `OneOLMGeneration` names the one way to two requests: a run told `--kueue-olm-mode=v0` does not
  look for a ClusterExtension (`rhbok_preflight.go:454`) and adds a Subscription beside it.
- `GroupServesSubscription` asks for the namespace's only group with the right targets, since
  OLM serves nobody where there are two. Left out are namespaces that have two groups to begin
  with (the first one listed decides, `install.go:991`), a second group that somebody adds beside
  the first, and those `overtaken`: a group that comes
  up between the List and the Create is a second one, or has the CLI's name and is accepted
  unseen (`install.go:1029`; section 4).
- `OkMeansMigrated` of the workbenches needs a verification that was not denied its list. A
  denied one is empty, verify-migration says that no Notebooks were found and exits with 0
  (`pkg/util/client/helpers.go:142`, `verify/run_task.go:52`).
- `LabelKeptWhileNeeded` leaves out the services deployed after the list of the run that takes
  the label: it does not list again (`modelmesh_to_raw.go:101`, `:161`; section 4).
- `OldImageFlagged` needs Notebooks that can be listed and a DataScienceCluster that is
  found: without one the notebook check has no result at all, which counts as nothing found.
- `StoppedIsReported` is about runs that end. A killed run leaves its workbenches stopped,
  and a rerun takes them for stopped by their users; a run killed between the update of a
  Notebook and the deletion of its StatefulSet is taken for done by the next. A stop by a
  user after the list is undone by the restart (`lifecycle.go:52`).
- `CleanupOnlyMigrated` allows what the user has overridden. The cleanup that follows a
  patch has no check of its own (`cleanup.go:198`).
- `Recoverable` assumes a file name for each RayCluster. Names and namespaces are joined by
  a hyphen, so two may share one (`backup.go:158`).
- `MetadataMeansWhole` is about files: a database dump that breaks off after its first lines
  is kept as a backup (`data/prepare_task.go:261`). `OkMeansDone` leaves out the load of a
  dump, which counts as completed unless a line of its output says ERROR
  (`data/run_task.go:278`), and metrics that could not be compared with what is there, which
  are posted again (`metrics/run_task.go:159`).

## 4. Where code and documentation disagree

Each property here is taken from a sentence in the repository, and TLC shows it violated
under its configuration. The first is a run of the project; `PROJECT.json` quotes the
sentence and the line. The others are kept as configurations to be run by hand, for
instance `tlc -config MCRHBOKUsers.cfg MCRHBOKMigration`; where a configuration names more
than one property, TLC stops at the first, and shows another when that one is left out.

| Configuration | Property | What happens, and what is said about it |
|---|---|---|
| `MCRayFailures` (run `ray_failures`) | `FailuresAreReported` | a RayCluster that failed, or is gone, does not reach the exit status (`actions/raycluster/migrate_action.go:85`); `docs/design.md:75` says 0 is a process completed without issues |
| `MCRayPrepare` | `PrepareSaves` | `migrate prepare` of the RayClusters only checks and saves nothing (`actions/raycluster/backup.go:66`); `docs/migrate/upgrade-helpers-comparison.md` says "Use the prepare command for backups" |
| `MCWorkbenchTimeout` | `StoppedIsRemembered` | a workbench whose stop timed out is not among those to be started again (`authmodel/run_task.go:255`); the comment at `:187` says the list has all that were stopped |
| `MCLintTimeout` | `CutRunIsReported` | the deadline ends the loop of checks silently (`check/executor.go:66`) and the command may exit 0; `docs/design.md:80` has exit code 5 for timeouts |
| `MCLintTimeout` | `ErrorsEndTheNegotiation` | a discovery that fails is taken for one without v2 (`pkg/util/client/helpers.go:428`), and the command may exit 0 without having seen what it is to judge; the comment at `:399` has v1 read where v2 is absent or has no instance, and a real error returned |
| `MCRHBOKCutOff` | `RequestedAfterRemoval` | a rerun after a cut-off does not wait for the embedded Kueue to be gone (`run_task.go:98`); `docs/migrate/rhbok-migration.md:120` has the wait in every run |
| `MCRHBOKStaleState` | `StateMachine` | of two runs, one that checked the state early (`rhbok_dsc.go:37`) sets an activated component back to Removed; `docs/migrate/rhbok-migration.md:134` gives Managed, Removed, Unmanaged as the order of states |
| `MCRHBOKCutOff` | `ConfigPreserved` | any failed read of the ConfigMap counts as its absence (`rhbok.go:311`); the document has it annotated before the removal (`:118`) |
| `MCRHBOKUsers` | `ActivatedOnlyWithOperator` | no to the installation, yes to the activation: Unmanaged without an operator (`rhbok.go:439`), which `pkg/lint/checks/components/kueue/kueue_operator_installed.go:32` calls blocking |
| `MCRHBOKUsers` | `InstancesDeletedOnlyByForce` | an instance created between the list (`rhbok_crds.go:68`) and the deletion of its CRD goes with it, without the flag `docs/migrate/rhbok-migration.md:52` asks for |
| `MCBackupDependencies` | `DependenciesAccounted` | a ConfigMap or PVC that cannot be read is left out without a warning (`dependencies/helpers.go:33`); `docs/design.md:221` says all dependencies are backed up |
| `MCDepsGroup` | `ExistingGroupsMatch` | a group created between List and Create is accepted without a look at its targets (`install.go:1030`); the comment at `:989` has the targets checked |
| `MCServerlessGaps` | `PreparedMeansSaved` | a failed backup step does not reach the outcome of `migrate prepare` (`command_prepare.go:273`), which says all preparations completed successfully (`:290`) |
| `MCServerlessGaps` | `RollbackRestoresOriginal` | the rollback creates the copy listed at the start, without the edits made since (`support.go:617`), and reports the original restored (`:98`) |
| `MCServerlessGaps` | `AuthAfterSuccess` | a rerun does not see a converted service whose auth resources are missing (`serverless_to_raw.go:73`); the description (`:18`) has them created |
| `MCModelMeshRerun` | `RuntimeAfterSuccess` | a patch whose answer was lost: the runtime is restored below a converted service (`modelmesh_to_raw.go:212`), and the rerun finds nothing to do and succeeds |
| `MCModelMeshRerun` | `NoLabelLost` | a service deployed with ModelMesh during the run loses the label of its namespace (`modelmesh_to_raw.go:161`); the comment at `:160` has it removed from namespaces that were processed |

## 5. Proofs

All theorems are about the same `Spec` (`LintSpec` in `Lint`) the runs check, for any sets
of processes,
services, dependencies and so on, under the assumptions named in each module's `ASSUME`:
the types of the constants, that sets the code walks in order are finite sets of numbers,
that a listing has each object once (`InputAssumption`), that half a file is no object
(`RayClusterAssumption`), and that a cluster has the fields the checks read
(`LintAssumption`). Where a theorem needs more, it says so as a hypothesis of its own;
each is true of an instance that a run checks. Every component has `TypeCorrect` (in `Lint`
its place is taken by `ClusterInv`, about the clusters met), and every theorem follows from an inductive invariant: a conjunction of parts that are kept by one
lemma for each action or group of actions.

| Module | Theorem (property) | Hypothesis |
|---|---|---|
| `RHBOKMigrationProofs` | `DryRunSafe` (`DryRunWritesNothing`) | none |
| | `RemovalHolds`, `NeverWedged` (`InstallAfterRemoval`, `NotWedged`) | `Undisturbed`: nobody skips the removal or sets Managed by hand |
| | `OneGeneration` (`OneOLMGeneration`) | `OneRequester`: one process, told whatever mode, or a server with one generation and any number of them |
| | `OneWay` (`StateMachine`) | `Alone` (one process, no administrator, no users meanwhile) and `Undisturbed` |
| | `VerdictIsTrue` (`VerifiedMeansMigrated`) | `Alone` |
| | `ActivatedWhenInstalled` (`ActivatedOnlyWithOperator`) | `Unattended`: no prompts, nobody sets Unmanaged by hand |
| `LintAndBackupProofs` | `CheckStands`, `CleanExits` (`CleanExitIsEarned`), `OldImagesAreFlagged` (`OldImageFlagged`), `FailedChecksReachTheExit` | none |
| | `NeverSendsOnClosed`, `LosesNothing`, `FailuresAreOwn` (`NoSendOnClosed`, `NoSilentLoss`, `FailureIsolated`) | none |
| | `PipelineImplementsCommand` (`ImplementsSequential`) | none |
| `DepsInstallProofs` | `OkMeansRequested` (`ExitOkMeansRequested`), `InstalledIsReady` | none |
| | `OneInstallerEach` (`NoDualRequest`) | `OneAPI`: one process, or all of one API; ClusterExtensions can be listed |
| | `SubscriptionsServed` (`GroupServesSubscription`) | none |
| `ServerlessToRawProofs` | `LossesReported` (`LossIsReported`) | none |
| | `SuccessIsConversion` (`OkMeansConverted`) | `OneProcess` |
| `ModelMeshToRawProofs` | `LabelsKept`, `PVCStorageRewritten` (`LabelKeptWhileNeeded`, `PVCModelsRewritten`) | none |
| | `BrokenReported`, `SuccessIsConversion` (`BrokenIsReported`, `OkMeansConverted`) | one process, and no service deployed late |
| `RayClusterMigrationProofs` | `CountsAreTrue`, `EditsAreKept` (`CountedIsTrue`, `EditsKept`) | none |
| | `GoneIsRecoverable`, `SuccessIsSaved` (`Recoverable`, `SavedMeansSaved`) | `Injective`: file names tell the RayClusters apart |
| `WorkbenchMigrationProofs` | `NothingLeftStopped`, `VerifiedIsMigrated`, `EditsAreKept`, `CleanupIsAllowed` (`StoppedIsReported`, `OkMeansMigrated`, `EditsKept`, `CleanupOnlyMigrated`) | none |
| `TrustyAIProofs` | `OkIsDone` (`OkMeansDone`) | none |
| | `MetadataIsWhole` (`MetadataMeansWhole`) | `Apart`: no other pod of the namespace can be taken for that of a service with files |

The hypotheses are not for the prover's sake. Without them the properties can fail, by
orders of events of which section 4 shows some and which the code does not rule out: two runs
that resolve different generations of OLM, a runtime restored under a sibling that another run has converted, two RayClusters
with one file name, a service whose files are copied from its neighbour's pod. The exception is
the service deployed late, which `modelmesh` checks with one process and the two theorems leave
out.

The arguments:

**`RHBOKMigrationProofs`**. `DryRunWritesNothing` is not inductive by itself, because a
process in mid-step no longer looks at its flag: `NoDryWriter` says that a dry run never
stands at one of the `WritePoints`. `RemovalInv` adds that everyone past the removal has
seen the component leave Managed and that nobody brings it back (`NotManagedAfterRemoval`),
and that the condition Removed is never older than the removal it reports
(`RemovedMeansGone`): without the first, another run's request could come while the
component is Managed; without the second, the wait could end on a stale condition.
`OneGeneration` rests on `NoneBeside`: past its preflight a process sees no request of the
other generation, unless it was told v0, and nobody but itself adds one. `OneWay` needs that what was read before
a write still holds at the write (`ReadHolds`). In `VerifyInv`, `Found` accumulates with
`count` what the checks of the verification have seen, and `QuietKeeps` says that the
controllers undo none of it before the last one. `OperatorFirst` says that an unattended run
stands before the activation only where the operator is installed.

**`LintAndBackupProofs`**, `Lint`. The theorem under it all is about the checks, without a run:
`Blurs(d, h)` says that `d` is the cluster `h` with some of its reads breaking down, and
`CheckStands` that each of the 59 checks which answers in spite of that (applies or not,
finds nothing) gives the same answer on `h`. A check fails this when it takes a failed
read for an empty one; the lemmas `...Stand` go through the checks by the reads they share.
The list of autoscalers does that by itself, which is why `Blurs` lets it break down only
together with the DataScienceCluster, and so does the discovery, which `Blurs` lets fail only
where v1 shows what v2 does (`V1TellsAll`). The run is a ledger: `LedgerInv` says that every
selected check is still to come, was cut off, is the current one, raised an alarm that is
never taken back, or `Passed` on what could be seen of a state in `was`. It needs
`CurrentInv`, since between `CanApply` and `Execute` the cluster may change, and
`ReportInv`, that an exit with 0 comes after the last check and without an alarm. `CleanExits`
puts the two together. `OldImagesAreFlagged` adds that a `TagOnly` image is found by its
reference or, failing that, by its digest, and that the first strategy that knows the image
decides. `ErrorsInv`, for `FailedChecksReachTheExit`, carries the priorities of the exit codes: an
error of a check outranks what the findings left by the severity filter would say, or ties.

**`LintAndBackupProofs`**, `BackupPipeline`. `Invariance` proves `IndInv`. `Closing` ties each channel to the
goroutines that may close it, and the end of the pool to the ends of its workers; `Drained`
says what a stage that returned nil has left behind (nothing, in its hands or in its
channel); `Conserved` that every listed instance is in flight, in a file or in a warning;
`InOrder` and `Isolated` that a turn's context is only ever cancelled by its own error or
the deadline. `NoSilentLoss` needs the first three together: the last goroutine to return
sees an empty channel only because everyone before it has returned. The refinement adds
`RefInv`: an instance is in one place only (`Once`, in a channel, in somebody's hands or
settled), so that a step that settles it settles it once in `BackupCommand` too, and a step
that only passes it on is a stutter there.

**`DepsInstallProofs`**. An answer "already requested" stays true (`AnswersStayTrue`, from
the lemma `RequestsStay` that no action of anyone withdraws a request), what is pending has
been requested, and a selected dependency is always in one of the places in which the run
can still account for it (`NoneDropsOut`, `LoopDone`). A step of the loop and a step of
somebody else keep it for reasons of their own, the lemmas `LoopKeeps` and `OthersKeep`.
`DualInv` is the opposite for requests that were not found: they stay absent up to the
creation (`AbsentStays`). `GroupInv` follows the namespace's groups: unless it was overtaken it
never has two (`AtMostOne`), between the List and the Create it has none or the very one to be
created, by another run (`ListHolds`), and before the request the one that serves it
(`GroupReady`), which nobody takes away (`AddedServed`).

**`ServerlessToRawProofs`**. `LossIsReported` speaks of services that are gone; the
invariant has to speak of those that are going as well (`LossAccounted`), since a finalizer
may let go long after the run has moved on. With several processes one may create what
another deletes a moment later, so the proof is about who has a service in hand, not about
who deleted it (`StillInHand`, `NothingLost`). `HeldIsThere` and `CopiesKept` rule out that
a creation leaves a pending deletion behind and that a process creates from nothing.
`Progress` is about one process: as long as no step has failed, the services behind it are
converted, and the one in hand as far as its place in the sequence says.

**`ModelMeshToRawProofs`**. For the label: every run knows of every service still in
ModelMesh mode that did not come late, because it has it before it, in hand, or its namespace
blocked (`Covered`); this holds for any number of runs, since none turns a service back
(`OnlyToRaw`). For one process and services that are all there (`Whole`) `AloneOK` adds that what is ahead may be converted (`Ahead`), that what is left behind
was reported (`Behind`), and that a runtime is ready before its service is changed and is
put back only under what was reported (`RuntimeReady`). It needs `MixedLeftAlone`: a service
on a runtime shared with a model on a PVC is never converted, by the conflict check.

**`RayClusterMigrationProofs`**. `Phase` says which command is where, `Copies` that a copy
nobody has overtaken (`fresh`) is what the object has, `Cleanness` that neither the 3.x files
nor what is restored from them have a TLS or OAuth part. `FilesKept`, for the two theorems
about files, says that what is gone, or going, is in a whole file, that a half-written one
was warned of, and that a restore only deletes what its file is there for. `Accounted`, for
`SuccessIsSaved`, has every RayCluster a backup listed among the saved or still before it, as
long as nothing has failed.

**`WorkbenchMigrationProofs`**. `Copies` says that a Notebook may have got further than the
copy in hand but never back, so that a decision by the copy holds for the Notebook;
`Patched` that only what has lost its oauth-proxy is cleaned up after a patch; `Stops` that
a workbench stopped by this run is remembered until it is started again or a failure is
recorded; `Verified` that what verify-migration has looked at stays as it was found.

**`TrustyAIProofs`**. `CopySound` is the protocol of the two goroutines of a copy: who has
closed the pipe, and that a writer that stops early leaves an error on one side. With it
`Whole` (what is left and what has landed make up the files, or there is an error) is kept by
every interleaving, and a copy that reports no error has landed everything (`CopyEnds`).
`Position` says where each command can be and what it holds there. `Metadata` carries
`Whole` from the copy to the file written after it; `Done` says, place by place, which of the
namespaces, metrics, exporters, Deployments and pods agreed to are behind the command, and
that these have been dealt with unless a failure is recorded. What others do meanwhile
(`DoneOthers`) undoes none of it: a service only adds data, and an edit of an exporter
touches only a field that the patch takes away.

Only model-checked: liveness (`RunTerminates`, `RunEnds`, `RunsEnd`), which the prover does
not handle under fairness. `FailuresAreReported` is violated (section 4), and so are the
properties of the configurations listed there.

## 6. What is not modelled

`PROJECT.json` lists every part with its reason. In short: the migrations of `aipipelines`,
`training`, `llamastack` and `datasciencecluster` and the single-object actions of
`modelserving`; the prepare tasks of the Kueue and the ModelMesh migration, which only write
backups; `status`, `events`, `logs`, `components`, `get`, `diagnose`, the watch and wait
loops and the graph of `deps`, which read and print; `mcp` and `api`, which pass requests
on to external libraries; formatting, flag parsing, type tables, JSON queries and HTTP, in
which nothing interleaves or persists.

In the modelled parts the text of messages, the contents of the objects beyond what a
property tells apart, and the time a wait takes are abstracted away. Strings that are
matched by prefix (a CSV to its Subscription) are model values, so false matches are not
covered. The runtime a service refers to does not change during a ModelMesh run. The
dry run of `backup` is in the model (`DryRun`) and in the proofs, but in none of the runs.
The checks of `lint` see one fact per object kind rather than many objects, except for
nodes, workloads under Kueue and notebook images, where the number and the order decide.
In the TrustyAI instance every service has a namespace of its own; with two in one the tool
may copy the pod of the other (`data/discovery.go:153`).

## 7. What is left

1. *Proofs*: the theorems for one process (`SuccessIsConversion`, `VerdictIsTrue`) for
   several that work on disjoint namespaces.
2. *More of the system*: the storage version migration (`actions/datasciencecluster`: a
   request left by an earlier run), the watch loop, the order and the cycles of `deps graph`
   against a reference definition, the collectors of `status`.

---------------------------- MODULE RHBOKMigration ----------------------------
(***************************************************************************)
(* `migrate run -m kueue.rhbok.migrate`: the move from the Kueue embedded  *)
(* in OpenShift AI to the Red Hat build of Kueue (RHBOK) operator          *)
(* (pkg/migrate/actions/kueue/rhbok).  Several CLI processes may run       *)
(* against one cluster; each may crash between any two of its API calls    *)
(* and be started again.  The DataScienceCluster controller, OLM, the      *)
(* cluster's users and its administrator act in between.                   *)
(*                                                                         *)
(* A call to the API server may fail whenever it is made: every action     *)
(* that models a call has a disjunct for the error path.  A poll loop is   *)
(* one action that fires when the polled condition holds, beside one that  *)
(* models its timeout (or an error returned by the condition function).    *)
(***************************************************************************)
EXTENDS Naturals, Sequences, FiniteSets

CONSTANTS
    Procs,          \* CLI processes that may be running at the same time
    MaxStarts,      \* bound: how often one of them is started
    RetryMaxSteps,  \* attempts of one DataScienceCluster update (5 in the code)
    Namespaces,     \* namespaces of the cluster
    Workloads,      \* Notebooks, InferenceServices, RayClusters, ...
    HomeNS,         \* the namespace of each workload
    LegacyNS,       \* namespaces with the legacy kueue-managed=true label
    LocalQueueNS,   \* namespaces that hold a LocalQueue
    OLMAPIs,        \* the OLM generations the API server serves
    Clusters,       \* the states a cluster may be in at first
    FlagSets,       \* the flags a process may be started with
    AdminTargets,   \* managementStates an administrator may write meanwhile
    UserEdits       \* TRUE: users create workloads and legacy objects meanwhile

States == {"Managed", "Removed", "Unmanaged"}
Modes == {"v0", "v1"}
LegacyCRDs == <<"cohorts", "topologies">>
CRDNames == {"cohorts", "topologies"}
CRDStates == {"absent", "empty", "instances"}
ReadyStates == {"True", "False", "Removed"}
Requests == {"none", "requested", "installed"}
\* "partial": the pods labelled as Kueue's are ready, another pod is not.
PodStates == {"none", "starting", "partial", "ready"}

ClusterType ==
    [mgmt : States, embedded : BOOLEAN, ready : ReadyStates,
     cm : {"absent", "plain", "preserved"}, crd : [CRDNames -> CRDStates],
     rhbok : [Modes -> Requests], pods : PodStates,
     openshift : SUBSET Namespaces, wls : SUBSET Workloads,
     queued : SUBSET Workloads]

FlagType == [dry : BOOLEAN, yes : BOOLEAN, skip : BOOLEAN, force : BOOLEAN,
             olm : {"auto", "v0", "v1"}]

ASSUME Parameters ==
    /\ MaxStarts \in Nat
    /\ RetryMaxSteps \in Nat \ {0}
    /\ HomeNS \in [Workloads -> Namespaces]
    /\ LegacyNS \subseteq Namespaces
    /\ LocalQueueNS \subseteq Namespaces
    /\ OLMAPIs \subseteq Modes
    /\ Clusters \subseteq ClusterType
    /\ FlagSets \subseteq FlagType
    /\ AdminTargets \subseteq States
    /\ UserEdits \in BOOLEAN

VARIABLES
    mgmt,       \* DSC .spec.components.kueue.managementState
    embedded,   \* the deployment kueue-controller-manager exists
    ready,      \* KueueReady condition; "Removed" is False with that reason
    cm,         \* ConfigMap kueue-manager-config and its annotation
    crd,        \* the legacy v1alpha1 CRDs
    rhbok,      \* RHBOK as requested from OLM v0 / OLM v1
    pods,       \* the pods of the RHBOK operator namespace
    openshift,  \* namespaces labelled kueue.openshift.io/managed=true
    wls,        \* existing workloads
    queued,     \* workloads labelled kueue.x-k8s.io/queue-name
    pc,         \* where each process stands
    opt,        \* its flags
    mode,       \* RHBOKMigrationAction.selectedOLMMode
    seen,       \* managementState read when executeMigration began
    steps,      \* the recorder: outcome of each named step
    plan,       \* RHBOKMigrationAction.executeLabelingPlan
    todo,       \* what the current labelling loop has left
    count,      \* attempts made, or position in the current fixed list
    bad,        \* a child of the current step failed
    starts      \* how often each process was started

cluster == <<mgmt, embedded, ready, cm, crd, rhbok, pods, openshift, wls, queued>>
memory == <<opt, mode, seen, plan, todo, count, bad, starts>>
vars == <<cluster, pc, steps, memory>>

\* The named steps of executeMigration, in the order it runs them.
Chain == <<"preserve-kueue-config", "remove-embedded-kueue",
           "wait-embedded-removal", "delete-legacy-crds",
           "install-rhbok-operator", "activate-rhbok", "wait-kueue-ready",
           "label-kueue-namespaces", "label-kueue-workloads",
           "verify-migration-complete", "verify-resources-preserved">>
StepNames ==
    {"migration-complete", "get-kueue-state", "preserve-kueue-config",
     "remove-embedded-kueue", "wait-embedded-removal", "delete-legacy-crds",
     "install-rhbok-operator", "activate-rhbok", "wait-kueue-ready",
     "label-kueue-namespaces", "label-kueue-workloads",
     "verify-migration-complete", "verify-resources-preserved"}
Statuses == {"none", "completed", "skipped", "failed"}

\* "halted": haltIfStepFailed stopped the chain; "refused": preflight failed.
Ended == {"idle", "done", "halted", "refused"}
Labels == Ended \cup
    {"validate", "check-complete", "begin", "preserve", "remove", "remove-ask",
     "remove-patch", "wait-removed", "crds", "crd-check", "crd-delete",
     "install", "install-ask", "install-create", "install-wait", "activate",
     "activate-ask", "activate-patch", "wait-ready", "label-ns", "label-ns-ask",
     "label-ns-loop", "label-wl", "label-wl-ask", "label-wl-loop", "verify",
     "verify-check", "preserved"}

NoPlan == [known |-> FALSE, ns |-> {}, wl |-> {}]
PlanType == [known : BOOLEAN, ns : SUBSET Namespaces, wl : SUBSET Workloads]

ClusterTypeOK ==
    /\ mgmt \in States
    /\ embedded \in BOOLEAN
    /\ ready \in ReadyStates
    /\ cm \in {"absent", "plain", "preserved"}
    /\ crd \in [CRDNames -> CRDStates]
    /\ rhbok \in [Modes -> Requests]
    /\ pods \in PodStates
    /\ openshift \subseteq Namespaces
    /\ wls \subseteq Workloads
    /\ queued \subseteq Workloads

MemoryTypeOK ==
    /\ opt \in [Procs -> FlagType]
    /\ mode \in [Procs -> Modes]
    /\ seen \in [Procs -> States]
    /\ plan \in [Procs -> PlanType]
    /\ todo \in [Procs -> SUBSET (Namespaces \cup Workloads)]
    /\ count \in [Procs -> Nat]
    /\ bad \in [Procs -> BOOLEAN]
    /\ starts \in [Procs -> Nat]

ProcTypeOK ==
    /\ pc \in [Procs -> Labels]
    /\ steps \in [Procs -> [StepNames -> Statuses]]

TypeOK == ClusterTypeOK /\ ProcTypeOK /\ MemoryTypeOK

-----------------------------------------------------------------------------
\* What the code reads off the cluster.

\* rhbokOperatorInstalled / rhbokInstalledViaClusterExtension: without a
\* Subscription the v0 check falls back to an operator installed otherwise.
OperatorInstalled(m) ==
    \/ rhbok[m] = "installed"
    \/ m = "v0" /\ rhbok["v0"] = "none" /\ rhbok["v1"] = "installed"

\* selectOLMMode: "auto" follows an existing ClusterExtension and otherwise,
\* like an explicit mode, what ResolveInstallMode finds served.
SelectedModes(olm) ==
    CASE olm = "auto" /\ rhbok["v1"] # "none" -> {"v1"}
      [] olm = "auto" /\ rhbok["v1"] = "none" ->
            IF "v0" \in OLMAPIs THEN {"v0"} ELSE OLMAPIs
      [] OTHER -> {olm} \cap OLMAPIs

\* Mutant: the v1 preflight forgets to look for an OLM v0 Subscription.
ConflictV1_NoCrossCheck == mgmt = "Managed" /\ rhbok["v1"] # "none"

\* checkNoRHBOKConflicts: RHBOK is already requested beside an embedded Kueue
\* or, looking from OLM v1, through OLM v0; v0 does not look for an extension.
ConflictV0 == mgmt = "Managed" /\ rhbok["v0"] # "none"
ConflictV1 == rhbok["v0"] # "none" \/ (mgmt = "Managed" /\ rhbok["v1"] # "none")
Conflict(m) == IF m = "v1" THEN ConflictV1 ELSE ConflictV0

\* isMigrationComplete and the verification look at labelled pods only.
KueuePodsReady == pods \in {"partial", "ready"}

\* isMigrationComplete
MigrationComplete(m) ==
    mgmt = "Unmanaged" /\ OperatorInstalled(m) /\ KueuePodsReady

KueueEnabledNamespaces == LegacyNS \cup openshift
WorkloadLabeledNamespaces == {HomeNS[w] : w \in queued}
Candidates == KueueEnabledNamespaces \cup WorkloadLabeledNamespaces \cup LocalQueueNS

\* discoverLabelingPlan: every candidate without the OpenShift label, and the
\* unlabelled workloads of the namespaces that are or will be managed.
LabelingPlan ==
    LET ns == Candidates \ openshift
        managed == KueueEnabledNamespaces \cup WorkloadLabeledNamespaces \cup ns
    IN  [known |-> TRUE, ns |-> ns,
         wl |-> {w \in wls \ queued : HomeNS[w] \in managed}]

\* Mutant: the wait is satisfied by the managementState alone.
EmbeddedRemoved_SpecOnly == mgmt = "Removed"

\* waitForEmbeddedRemoval's and waitForKueueReady's condition functions
EmbeddedRemoved == mgmt = "Removed" /\ (ready = "Removed" \/ ~embedded)
KueueReady == ready = "True" /\ pods = "ready"

\* verifyMigrationComplete's checks, in their order; verifyQueuesPreserved only
\* counts, so it fails on an API error alone.
VerifyChecks == <<"embedded", "state", "ready", "operator", "pods", "queues",
                  "namespaces", "workloads">>
CheckPasses(m, check) ==
    CASE check = "embedded"   -> ~embedded
      [] check = "state"      -> mgmt = "Unmanaged"
      [] check = "ready"      -> ready = "True"
      [] check = "operator"   -> OperatorInstalled(m)
      [] check = "pods"       -> KueuePodsReady
      [] check = "queues"     -> TRUE
      [] check = "namespaces" -> LabelingPlan.ns = {}
      [] check = "workloads"  ->
            \A w \in wls \ queued : HomeNS[w] \notin KueueEnabledNamespaces

-----------------------------------------------------------------------------
\* Moves of a process

Goto(p, label) == pc' = [pc EXCEPT ![p] = label]

Record(p, step, status) == steps' = [steps EXCEPT ![p][step] = status]

\* Mutant: a failed step does not stop the chain.
Finish_NoHalt(p, step, status, next) == Record(p, step, status) /\ Goto(p, next)

\* A named step ends; haltIfStepFailed stops the chain if it, or a child of it,
\* failed.
Finish(p, step, status, next) ==
    /\ Record(p, step, status)
    /\ Goto(p, IF status = "failed" THEN "halted" ELSE next)

\* The prompts of confirmation.Prompt: anything but yes is a no, and a no
\* records the step as skipped and lets the chain go on.
Ask(p, step, yes, no) ==
    /\ \/ Goto(p, yes) /\ UNCHANGED steps
       \/ Finish(p, step, "skipped", no)
    /\ UNCHANGED <<cluster, memory>>

\* A process is started with some flags; nothing survives from an earlier one.
Start(p) ==
    /\ pc[p] \in Ended
    /\ starts[p] < MaxStarts
    /\ \E f \in FlagSets : opt' = [opt EXCEPT ![p] = f]
    /\ starts' = [starts EXCEPT ![p] = @ + 1]
    /\ Goto(p, "validate")
    /\ steps' = [steps EXCEPT ![p] = [s \in StepNames |-> "none"]]
    /\ plan' = [plan EXCEPT ![p] = NoPlan]
    /\ todo' = [todo EXCEPT ![p] = {}]
    /\ count' = [count EXCEPT ![p] = 0]
    /\ bad' = [bad EXCEPT ![p] = FALSE]
    /\ UNCHANGED <<cluster, mode, seen>>

\* The process is killed or cut off by its deadline.
Crash(p) ==
    /\ pc[p] \notin Ended
    /\ Goto(p, "idle")
    /\ UNCHANGED <<cluster, steps, memory>>

\* Validate: preflight reads only.  RBAC, cert-manager, the channel, the
\* inventories and every API error may make it fail whatever the cluster's state.
Validate(p) ==
    /\ pc[p] = "validate"
    /\ \/ \E m \in SelectedModes(opt[p].olm) :
             /\ ~Conflict(m)
             /\ mode' = [mode EXCEPT ![p] = m]
             /\ Goto(p, "check-complete")
       \/ Goto(p, "refused") /\ UNCHANGED mode
    /\ UNCHANGED <<cluster, steps, opt, seen, plan, todo, count, bad, starts>>

\* isMigrationComplete answers false on any error.
CheckComplete(p) ==
    /\ pc[p] = "check-complete"
    /\ \/ /\ MigrationComplete(mode[p])
          /\ Finish(p, "migration-complete", "skipped", "done")
       \/ Goto(p, "begin") /\ UNCHANGED steps
    /\ UNCHANGED <<cluster, memory>>

\* Mutant: a state that cannot be read is taken for Removed.
Begin_ErrorIsRemoved(p) ==
    /\ pc[p] = "begin"
    /\ seen' = [seen EXCEPT ![p] = "Removed"]
    /\ Goto(p, "crds")
    /\ plan' = [plan EXCEPT ![p] = NoPlan]
    /\ UNCHANGED <<cluster, steps, opt, mode, todo, count, bad, starts>>

\* executeMigration reads the managementState once for all later decisions.
Begin(p) ==
    /\ pc[p] = "begin"
    /\ plan' = [plan EXCEPT ![p] = NoPlan]
    /\ \/ /\ seen' = [seen EXCEPT ![p] = mgmt]
          /\ Goto(p, IF mgmt = "Managed" THEN "preserve" ELSE "crds")
          /\ UNCHANGED steps
       \/ /\ Record(p, "get-kueue-state", "failed")
          /\ Goto(p, "done")
          /\ UNCHANGED seen
    /\ UNCHANGED <<cluster, opt, mode, todo, count, bad, starts>>

\* preserveKueueConfig: any error of the Get is taken for "not found".
Preserve(p) ==
    LET next == IF opt[p].skip THEN "crds" ELSE "remove"
    IN  /\ pc[p] = "preserve"
        /\ \/ /\ Finish(p, "preserve-kueue-config", "skipped", next)
              /\ UNCHANGED cm
           \/ /\ cm # "absent" /\ ~opt[p].dry
              /\ \/ /\ cm' = "preserved"
                    /\ Finish(p, "preserve-kueue-config", "completed", next)
                 \/ /\ Finish(p, "preserve-kueue-config", "failed", next)
                    /\ UNCHANGED cm
        /\ UNCHANGED <<mgmt, embedded, ready, crd, rhbok, pods, openshift, wls, queued, memory>>

\* removeEmbeddedKueue up to its prompt
Remove(p) ==
    /\ pc[p] = "remove"
    /\ \/ /\ mgmt = "Managed" /\ ~opt[p].dry
          /\ Goto(p, IF opt[p].yes THEN "remove-patch" ELSE "remove-ask")
          /\ UNCHANGED steps
       \/ /\ mgmt # "Managed" \/ opt[p].dry
          /\ Finish(p, "remove-embedded-kueue", "skipped", "wait-removed")
       \/ Finish(p, "remove-embedded-kueue", "failed", "wait-removed")
    /\ count' = [count EXCEPT ![p] = 0]
    /\ UNCHANGED <<cluster, opt, mode, seen, plan, todo, bad, starts>>

RemoveAsk(p) ==
    /\ pc[p] = "remove-ask"
    /\ Ask(p, "remove-embedded-kueue", "remove-patch", "wait-removed")

\* Mutant: the attempts start over when they are used up.
PatchManagementState_NoLimit(p, target, step, next) ==
    /\ \/ mgmt' = target /\ Finish(p, step, "completed", next) /\ UNCHANGED count
       \/ /\ count' = [count EXCEPT ![p] = (@ + 1) % RetryMaxSteps]
          /\ UNCHANGED <<mgmt, pc, steps>>
    /\ UNCHANGED <<embedded, ready, cm, crd, rhbok, pods, openshift, wls, queued>>
    /\ UNCHANGED <<opt, mode, seen, plan, todo, bad, starts>>

\* patchKueueManagementState: read the DataScienceCluster, set the state whatever
\* it is now, update; a conflict is retried until the attempts are used up.
PatchManagementState(p, target, step, next) ==
    /\ \/ /\ mgmt' = target
          /\ Finish(p, step, "completed", next)
          /\ UNCHANGED count
       \/ /\ count[p] + 1 < RetryMaxSteps
          /\ count' = [count EXCEPT ![p] = @ + 1]
          /\ UNCHANGED <<mgmt, pc, steps>>
       \/ /\ Finish(p, step, "failed", next)
          /\ UNCHANGED <<mgmt, count>>
    /\ UNCHANGED <<embedded, ready, cm, crd, rhbok, pods, openshift, wls, queued>>
    /\ UNCHANGED <<opt, mode, seen, plan, todo, bad, starts>>

RemovePatch(p) ==
    /\ pc[p] = "remove-patch"
    /\ PatchManagementState(p, "Removed", "remove-embedded-kueue", "wait-removed")

\* Mutant: a timeout of the wait is taken for its end.
WaitRemoved_TimeoutIsDone(p) ==
    /\ pc[p] = "wait-removed"
    /\ Finish(p, "wait-embedded-removal", "completed", "crds")
    /\ UNCHANGED <<cluster, memory>>

\* waitForEmbeddedRemoval
WaitRemoved(p) ==
    /\ pc[p] = "wait-removed"
    /\ \/ opt[p].dry /\ Finish(p, "wait-embedded-removal", "skipped", "crds")
       \/ /\ ~opt[p].dry /\ EmbeddedRemoved
          /\ Finish(p, "wait-embedded-removal", "completed", "crds")
       \/ ~opt[p].dry /\ Finish(p, "wait-embedded-removal", "failed", "crds")
    /\ UNCHANGED <<cluster, memory>>

\* Mutant: the loop is entered in a dry run too.
DeleteCRDs_Always(p) ==
    /\ pc[p] = "crds"
    /\ Goto(p, "crd-check")
    /\ count' = [count EXCEPT ![p] = 1]
    /\ bad' = [bad EXCEPT ![p] = FALSE]
    /\ UNCHANGED <<cluster, steps, opt, mode, seen, plan, todo, starts>>

\* deleteLegacyCRDs: enter, or (count = position) finish, the loop over LegacyCRDs
DeleteCRDs(p) ==
    /\ pc[p] = "crds"
    /\ \/ /\ opt[p].dry
          /\ Finish(p, "delete-legacy-crds", "skipped", "install")
          /\ UNCHANGED <<count, bad>>
       \/ /\ ~opt[p].dry
          /\ Goto(p, "crd-check")
          /\ count' = [count EXCEPT ![p] = 1]
          /\ bad' = [bad EXCEPT ![p] = FALSE]
          /\ UNCHANGED steps
    /\ UNCHANGED <<cluster, opt, mode, seen, plan, todo, starts>>

\* One CRD: get it and, unless forced, list its instances.
CheckCRD(p) ==
    /\ pc[p] = "crd-check"
    /\ count[p] <= Len(LegacyCRDs)
    /\ LET c == LegacyCRDs[count[p]]
       IN  \/ /\ crd[c] # "absent"
              /\ opt[p].force \/ crd[c] # "instances"
              /\ Goto(p, "crd-delete")
              /\ UNCHANGED <<count, bad>>
           \/ /\ crd[c] = "absent"
              /\ count' = [count EXCEPT ![p] = @ + 1]
              /\ UNCHANGED <<pc, bad>>
           \/ /\ count' = [count EXCEPT ![p] = @ + 1]
              /\ bad' = [bad EXCEPT ![p] = TRUE]
              /\ UNCHANGED pc
    /\ UNCHANGED <<cluster, steps, opt, mode, seen, plan, todo, starts>>

DeleteCRD(p) ==
    /\ pc[p] = "crd-delete"
    /\ \/ /\ crd' = [crd EXCEPT ![LegacyCRDs[count[p]]] = "absent"]
          /\ UNCHANGED bad
       \/ /\ bad' = [bad EXCEPT ![p] = TRUE]
          /\ UNCHANGED crd
    /\ count' = [count EXCEPT ![p] = @ + 1]
    /\ Goto(p, "crd-check")
    /\ UNCHANGED <<mgmt, embedded, ready, cm, rhbok, pods, openshift, wls, queued>>
    /\ UNCHANGED <<steps, opt, mode, seen, plan, todo, starts>>

FinishCRDs(p) ==
    /\ pc[p] = "crd-check"
    /\ count[p] > Len(LegacyCRDs)
    /\ Finish(p, "delete-legacy-crds", IF bad[p] THEN "failed" ELSE "completed", "install")
    /\ UNCHANGED <<cluster, memory>>

\* After the install step only a run that did not begin Unmanaged activates.
AfterInstall(p) == IF seen[p] = "Unmanaged" THEN "wait-ready" ELSE "activate"

\* installRHBOKOperator up to its prompt, OLM v0.  A Subscription whose Get fails
\* counts as absent.  The dry run waits for the CSV of a Subscription that exists,
\* so it may fail.
InstallV0(p) ==
    /\ pc[p] = "install" /\ mode[p] = "v0"
    /\ \/ /\ opt[p].dry
          /\ Finish(p, "install-rhbok-operator", "skipped", AfterInstall(p))
       \/ /\ ~opt[p].dry /\ (opt[p].yes \/ rhbok["v0"] # "none")
          /\ Goto(p, "install-create")
          /\ UNCHANGED steps
       \/ /\ ~opt[p].dry /\ ~opt[p].yes
          /\ Goto(p, "install-ask")
          /\ UNCHANGED steps
       \/ Finish(p, "install-rhbok-operator", "failed", AfterInstall(p))
    /\ UNCHANGED <<cluster, memory>>

\* installRHBOKClusterExtension up to its prompt
InstallV1(p) ==
    /\ pc[p] = "install" /\ mode[p] = "v1"
    /\ \/ /\ opt[p].dry
          /\ Finish(p, "install-rhbok-operator", "skipped", AfterInstall(p))
       \/ /\ ~opt[p].dry
          /\ Goto(p, IF rhbok["v1"] # "none" THEN "install-wait"
                     ELSE IF opt[p].yes THEN "install-create" ELSE "install-ask")
          /\ UNCHANGED steps
       \/ Finish(p, "install-rhbok-operator", "failed", AfterInstall(p))
    /\ UNCHANGED <<cluster, memory>>

InstallAsk(p) ==
    /\ pc[p] = "install-ask"
    /\ Ask(p, "install-rhbok-operator", "install-create", AfterInstall(p))

\* The request is created; one that exists is kept.
Request(p) ==
    /\ \/ /\ rhbok' = [rhbok EXCEPT ![mode[p]] = IF @ = "none" THEN "requested" ELSE @]
          /\ Goto(p, "install-wait")
          /\ UNCHANGED steps
       \/ /\ Finish(p, "install-rhbok-operator", "failed", AfterInstall(p))
          /\ UNCHANGED rhbok
    /\ UNCHANGED <<mgmt, embedded, ready, cm, crd, pods, openshift, wls, queued, memory>>

\* EnsureOperatorInstalled: namespace, OperatorGroup, then the Subscription
RequestSubscription(p) ==
    pc[p] = "install-create" /\ mode[p] = "v0" /\ Request(p)

\* createRHBOKClusterExtension
RequestExtension(p) ==
    pc[p] = "install-create" /\ mode[p] = "v1" /\ Request(p)

\* Mutant: an accepted request is taken for an installed operator.
WaitInstalled_NoWait(p, m) ==
    /\ pc[p] = "install-wait" /\ mode[p] = m
    /\ Finish(p, "install-rhbok-operator", "completed", AfterInstall(p))
    /\ UNCHANGED <<cluster, memory>>

WaitInstalled(p, m) ==
    /\ pc[p] = "install-wait" /\ mode[p] = m
    /\ \/ /\ rhbok[m] = "installed"
          /\ Finish(p, "install-rhbok-operator", "completed", AfterInstall(p))
       \/ Finish(p, "install-rhbok-operator", "failed", AfterInstall(p))
    /\ UNCHANGED <<cluster, memory>>

\* WaitForCSV
WaitForCSV(p) == WaitInstalled(p, "v0")

\* The poll of the ClusterExtension's Installed condition
WaitForExtension(p) == WaitInstalled(p, "v1")

\* activateRHBOK up to its prompt
Activate(p) ==
    /\ pc[p] = "activate"
    /\ \/ /\ mgmt # "Unmanaged" /\ ~opt[p].dry
          /\ Goto(p, IF opt[p].yes THEN "activate-patch" ELSE "activate-ask")
          /\ UNCHANGED steps
       \/ /\ mgmt = "Unmanaged" \/ opt[p].dry
          /\ Finish(p, "activate-rhbok", "skipped", "wait-ready")
       \/ Finish(p, "activate-rhbok", "failed", "wait-ready")
    /\ count' = [count EXCEPT ![p] = 0]
    /\ UNCHANGED <<cluster, opt, mode, seen, plan, todo, bad, starts>>

ActivateAsk(p) ==
    /\ pc[p] = "activate-ask"
    /\ Ask(p, "activate-rhbok", "activate-patch", "wait-ready")

\* Mutant: the state is written as a value the component does not know.
ActivatePatch_Unknown(p) ==
    /\ pc[p] = "activate-patch"
    /\ PatchManagementState(p, "Unmanage", "activate-rhbok", "wait-ready")

ActivatePatch(p) ==
    /\ pc[p] = "activate-patch"
    /\ PatchManagementState(p, "Unmanaged", "activate-rhbok", "wait-ready")

\* waitForKueueReady
WaitReady(p) ==
    /\ pc[p] = "wait-ready"
    /\ \/ opt[p].dry /\ Finish(p, "wait-kueue-ready", "skipped", "label-ns")
       \/ /\ ~opt[p].dry /\ KueueReady
          /\ Finish(p, "wait-kueue-ready", "completed", "label-ns")
       \/ ~opt[p].dry /\ Finish(p, "wait-kueue-ready", "failed", "label-ns")
    /\ UNCHANGED <<cluster, memory>>

\* discoverExecuteLabelingPlan: discovered once per execution, then cached
ExecutePlan(p) == IF plan[p].known THEN plan[p] ELSE LabelingPlan

\* labelKueueNamespaces and labelKueueWorkloads up to their loop; items is what
\* the plan gives them to label.
LabelStep(p, step, items, ask, loop, next) ==
    /\ \/ /\ plan' = [plan EXCEPT ![p] = ExecutePlan(p)]
          /\ \/ /\ items = {}
                /\ Finish(p, step, "completed", next)
             \/ /\ items # {} /\ opt[p].dry
                /\ Finish(p, step, "skipped", next)
             \/ /\ items # {} /\ ~opt[p].dry
                /\ Goto(p, IF opt[p].yes THEN loop ELSE ask)
                /\ UNCHANGED steps
       \/ /\ ~plan[p].known
          /\ Finish(p, step, "failed", next)
          /\ UNCHANGED plan
    /\ todo' = [todo EXCEPT ![p] = items]
    /\ bad' = [bad EXCEPT ![p] = FALSE]
    /\ UNCHANGED <<cluster, opt, mode, seen, count, starts>>

LabelNS(p) ==
    /\ pc[p] = "label-ns"
    /\ LabelStep(p, "label-kueue-namespaces", ExecutePlan(p).ns,
                 "label-ns-ask", "label-ns-loop", "label-wl")

LabelNSAsk(p) ==
    /\ pc[p] = "label-ns-ask"
    /\ Ask(p, "label-kueue-namespaces", "label-ns-loop", "label-wl")

\* patchNamespaceLabel on one of the namespaces left, in the order of a Go map; a
\* failed one is recorded as a failed child and the loop goes on.
PatchNamespace(p, n) ==
    /\ pc[p] = "label-ns-loop"
    /\ n \in todo[p] \cap Namespaces
    /\ \/ openshift' = openshift \cup {n} /\ UNCHANGED bad
       \/ bad' = [bad EXCEPT ![p] = TRUE] /\ UNCHANGED openshift
    /\ todo' = [todo EXCEPT ![p] = @ \ {n}]
    /\ UNCHANGED <<mgmt, embedded, ready, cm, crd, rhbok, pods, wls, queued>>
    /\ UNCHANGED <<pc, steps, opt, mode, seen, plan, count, starts>>

LabelWL(p) ==
    /\ pc[p] = "label-wl"
    /\ LabelStep(p, "label-kueue-workloads", ExecutePlan(p).wl,
                 "label-wl-ask", "label-wl-loop", "verify")

LabelWLAsk(p) ==
    /\ pc[p] = "label-wl-ask"
    /\ Ask(p, "label-kueue-workloads", "label-wl-loop", "verify")

\* patchWorkloadQueueLabel on one of the workloads left
PatchWorkload(p, w) ==
    /\ pc[p] = "label-wl-loop"
    /\ w \in todo[p] \cap Workloads
    /\ \/ queued' = queued \cup {w} /\ UNCHANGED bad
       \/ bad' = [bad EXCEPT ![p] = TRUE] /\ UNCHANGED queued
    /\ todo' = [todo EXCEPT ![p] = @ \ {w}]
    /\ UNCHANGED <<mgmt, embedded, ready, cm, crd, rhbok, pods, openshift, wls>>
    /\ UNCHANGED <<pc, steps, opt, mode, seen, plan, count, starts>>

\* The loop ends: the step itself is recorded as completed, but a failed child
\* makes haltIfStepFailed treat it as failed.
FinishLabels(p) ==
    /\ todo[p] = {}
    /\ LET status == IF bad[p] THEN "failed" ELSE "completed"
       IN  \/ /\ pc[p] = "label-ns-loop"
              /\ Finish(p, "label-kueue-namespaces", status, "label-wl")
           \/ /\ pc[p] = "label-wl-loop"
              /\ Finish(p, "label-kueue-workloads", status, "verify")
    /\ UNCHANGED <<cluster, memory>>

\* verifyMigrationComplete
Verify(p) ==
    /\ pc[p] = "verify"
    /\ \/ /\ opt[p].dry
          /\ Record(p, "verify-migration-complete", "skipped")
          /\ Goto(p, "preserved")
       \/ /\ ~opt[p].dry
          /\ Goto(p, "verify-check")
          /\ UNCHANGED steps
    /\ count' = [count EXCEPT ![p] = 1]
    /\ bad' = [bad EXCEPT ![p] = FALSE]
    /\ UNCHANGED <<cluster, opt, mode, seen, plan, todo, starts>>

\* Mutant: the last check alone decides.
VerifyCheck_LastWins(p) ==
    /\ pc[p] = "verify-check"
    /\ count[p] <= Len(VerifyChecks)
    /\ bad' = [bad EXCEPT ![p] = ~CheckPasses(mode[p], VerifyChecks[count[p]])]
    /\ count' = [count EXCEPT ![p] = @ + 1]
    /\ UNCHANGED <<cluster, pc, steps, opt, mode, seen, plan, todo, starts>>

\* One check; a failed one does not stop the others.
VerifyCheck(p) ==
    /\ pc[p] = "verify-check"
    /\ count[p] <= Len(VerifyChecks)
    /\ \/ CheckPasses(mode[p], VerifyChecks[count[p]]) /\ UNCHANGED bad
       \/ bad' = [bad EXCEPT ![p] = TRUE]
    /\ count' = [count EXCEPT ![p] = @ + 1]
    /\ UNCHANGED <<cluster, pc, steps, opt, mode, seen, plan, todo, starts>>

\* No haltIfStepFailed follows the verification.
FinishVerify(p) ==
    /\ pc[p] = "verify-check"
    /\ count[p] > Len(VerifyChecks)
    /\ Record(p, "verify-migration-complete", IF bad[p] THEN "failed" ELSE "completed")
    /\ Goto(p, "preserved")
    /\ UNCHANGED <<cluster, memory>>

\* verifyResourcesPreserved lists the queues; nor does a halt follow it.
Preserved(p) ==
    /\ pc[p] = "preserved"
    /\ \E status \in IF opt[p].dry THEN {"skipped"} ELSE {"completed", "failed"} :
          Record(p, "verify-resources-preserved", status)
    /\ Goto(p, "done")
    /\ UNCHANGED <<cluster, memory>>

-----------------------------------------------------------------------------
\* The cluster around the CLI: none of this is code of the repository; it is
\* what the waits, the preflight and the verification rely on.

\* The DataScienceCluster controller runs the embedded Kueue while it is Managed.
DeployEmbedded ==
    /\ mgmt = "Managed" /\ ~embedded
    /\ embedded' = TRUE
    /\ UNCHANGED <<mgmt, ready, cm, crd, rhbok, pods, openshift, wls, queued>>
    /\ UNCHANGED <<pc, steps, memory>>

RemoveEmbedded ==
    /\ mgmt # "Managed" /\ embedded
    /\ embedded' = FALSE
    /\ UNCHANGED <<mgmt, ready, cm, crd, rhbok, pods, openshift, wls, queued>>
    /\ UNCHANGED <<pc, steps, memory>>

\* It reports KueueReady some time after what it reports came true.
ReportedReady ==
    CASE mgmt = "Managed"   -> IF embedded THEN "True" ELSE "False"
      [] mgmt = "Removed"   -> IF embedded THEN "False" ELSE "Removed"
      [] mgmt = "Unmanaged" ->
            IF \E m \in Modes : rhbok[m] = "installed" THEN "True" ELSE "False"

UpdateReady ==
    /\ ready # ReportedReady
    /\ ready' = ReportedReady
    /\ UNCHANGED <<mgmt, embedded, cm, crd, rhbok, pods, openshift, wls, queued>>
    /\ UNCHANGED <<pc, steps, memory>>

\* OLM carries out a request.
OLMInstall(m) ==
    /\ rhbok[m] = "requested"
    /\ rhbok' = [rhbok EXCEPT ![m] = "installed"]
    /\ UNCHANGED <<mgmt, embedded, ready, cm, crd, pods, openshift, wls, queued>>
    /\ UNCHANGED <<pc, steps, memory>>

\* The pods of an installed operator start, become ready, and are replaced.
PodsChange ==
    /\ \E m \in Modes : rhbok[m] = "installed"
    /\ pods' \in PodStates \ {"none", pods}
    /\ UNCHANGED <<mgmt, embedded, ready, cm, crd, rhbok, openshift, wls, queued>>
    /\ UNCHANGED <<pc, steps, memory>>

CreateWorkload(w) ==
    /\ UserEdits /\ w \notin wls
    /\ wls' = wls \cup {w}
    /\ queued' \in {queued, queued \cup {w}}
    /\ UNCHANGED <<mgmt, embedded, ready, cm, crd, rhbok, pods, openshift>>
    /\ UNCHANGED <<pc, steps, memory>>

CreateInstance(c) ==
    /\ UserEdits /\ crd[c] = "empty"
    /\ crd' = [crd EXCEPT ![c] = "instances"]
    /\ UNCHANGED <<mgmt, embedded, ready, cm, rhbok, pods, openshift, wls, queued>>
    /\ UNCHANGED <<pc, steps, memory>>

\* An administrator edits the DataScienceCluster by hand.
AdminEdit(target) ==
    /\ mgmt # target
    /\ mgmt' = target
    /\ UNCHANGED <<embedded, ready, cm, crd, rhbok, pods, openshift, wls, queued>>
    /\ UNCHANGED <<pc, steps, memory>>

-----------------------------------------------------------------------------
Init ==
    /\ \E c \in Clusters :
          /\ mgmt = c.mgmt /\ embedded = c.embedded /\ ready = c.ready
          /\ cm = c.cm /\ crd = c.crd /\ rhbok = c.rhbok /\ pods = c.pods
          /\ openshift = c.openshift /\ wls = c.wls /\ queued = c.queued
    /\ pc = [p \in Procs |-> "idle"]
    /\ \E f \in FlagSets : opt = [p \in Procs |-> f]
    /\ mode = [p \in Procs |-> "v0"]
    /\ seen = [p \in Procs |-> "Managed"]
    /\ steps = [p \in Procs |-> [s \in StepNames |-> "none"]]
    /\ plan = [p \in Procs |-> NoPlan]
    /\ todo = [p \in Procs |-> {}]
    /\ count = [p \in Procs |-> 0]
    /\ bad = [p \in Procs |-> FALSE]
    /\ starts = [p \in Procs |-> 0]

\* What a process does by itself, prompts apart.
Run(p) ==
    \/ Validate(p) \/ CheckComplete(p) \/ Begin(p) \/ Preserve(p)
    \/ Remove(p) \/ RemovePatch(p) \/ WaitRemoved(p)
    \/ DeleteCRDs(p) \/ CheckCRD(p) \/ DeleteCRD(p) \/ FinishCRDs(p)
    \/ InstallV0(p) \/ RequestSubscription(p) \/ WaitForCSV(p)
    \/ InstallV1(p) \/ RequestExtension(p) \/ WaitForExtension(p)
    \/ Activate(p) \/ ActivatePatch(p) \/ WaitReady(p)
    \/ LabelNS(p) \/ (\E n \in Namespaces : PatchNamespace(p, n))
    \/ LabelWL(p) \/ (\E w \in Workloads : PatchWorkload(p, w))
    \/ FinishLabels(p)
    \/ Verify(p) \/ VerifyCheck(p) \/ FinishVerify(p) \/ Preserved(p)

\* What the person at the terminal decides.
User(p) ==
    \/ Start(p) \/ Crash(p)
    \/ RemoveAsk(p) \/ InstallAsk(p) \/ ActivateAsk(p)
    \/ LabelNSAsk(p) \/ LabelWLAsk(p)

Controllers ==
    \/ DeployEmbedded \/ RemoveEmbedded \/ UpdateReady \/ PodsChange
    \/ \E m \in Modes : OLMInstall(m)

Others ==
    \/ \E w \in Workloads : CreateWorkload(w)
    \/ \E c \in CRDNames : CreateInstance(c)
    \/ \E target \in AdminTargets : AdminEdit(target)

Next == (\E p \in Procs : Run(p) \/ User(p)) \/ Controllers \/ Others

Spec == Init /\ [][Next]_vars

\* A process keeps running between its prompts; nothing is assumed of anyone else.
FairSpec == Spec /\ \A p \in Procs : WF_vars(Run(p))

-----------------------------------------------------------------------------
\* Properties

\* Some step of process p, labelling one object or one verification included.
Moves(p) == <<pc[p], steps[p], todo[p], count[p]>>' # <<pc[p], steps[p], todo[p], count[p]>>

\* A run with --dry-run writes nothing, whichever of its eleven steps it reaches
\* and whatever other processes leave behind for it (every mutating step of
\* rhbok*.go returns before its first write if target.DryRun).
DryRunWritesNothing ==
    [][\A p \in Procs : opt[p].dry /\ opt'[p] = opt[p] /\ Moves(p) => UNCHANGED cluster]_vars

\* haltIfStepFailed stops the chain: once a named step failed, no later one is
\* even attempted.  Only verify-resources-preserved runs after a failed
\* verify-migration-complete, on purpose.
HaltStopsChain ==
    \A p \in Procs : \A i, j \in 1..11 :
        i < j /\ i # 10 /\ steps[p][Chain[i]] = "failed" => steps[p][Chain[j]] = "none"

\* The CLI drives the Kueue component through Managed -> Removed -> Unmanaged and
\* never back, across crashes and reruns.
StateMachine ==
    [][mgmt' # mgmt =>
          \/ mgmt = "Managed" /\ mgmt' = "Removed"
          \/ mgmt = "Removed" /\ mgmt' = "Unmanaged"]_vars

\* Where a process stands only after it looked at target.DryRun and went on.
WritePoints == {"remove-ask", "remove-patch", "crd-check", "crd-delete",
                "install-ask", "install-create", "install-wait", "activate-ask",
                "activate-patch", "label-ns-ask", "label-ns-loop", "label-wl-ask",
                "label-wl-loop", "verify-check"}

\* A run that waited for the embedded Kueue to go does not reach the installation
\* of RHBOK, or anything after it, while the embedded one runs or may come back.
AfterRemoval == {"crds", "crd-check", "crd-delete", "install", "install-ask",
                 "install-create", "install-wait", "activate", "activate-ask",
                 "activate-patch", "wait-ready", "label-ns", "label-ns-ask",
                 "label-ns-loop", "label-wl", "label-wl-ask", "label-wl-loop",
                 "verify", "verify-check", "preserved"}
InstallAfterRemoval ==
    \A p \in Procs :
        pc[p] \in AfterRemoval /\ seen[p] = "Managed" /\ ~opt[p].dry /\ ~opt[p].skip
            => mgmt # "Managed" /\ ~embedded

\* The CLI never produces the state its own preflight refuses (Managed beside a
\* requested RHBOK, checkNoRHBOKConflicts), wherever a run is cut off and however
\* runs overlap: a rerun can always go on.
NotWedged == ~(mgmt = "Managed" /\ \E m \in Modes : rhbok[m] # "none")

\* The condition "Removed" is never older than the removal it reports.
RemovedMeansGone == ready = "Removed" => mgmt # "Managed" /\ ~embedded

\* What the two preceding properties need: nobody skips the removal or sets the
\* component back to Managed, and the cluster was in order before.
Undisturbed ==
    /\ \A f \in FlagSets : ~f.skip
    /\ "Managed" \notin AdminTargets
    /\ \A c \in Clusters :
          /\ c.mgmt = "Managed" => \A m \in Modes : c.rhbok[m] = "none"
          /\ c.ready = "Removed" => c.mgmt # "Managed" /\ ~c.embedded

\* The inductive invariant of the removal protocol.
NoSkip == \A p \in Procs : ~opt[p].skip
NoDryWriter == \A p \in Procs : pc[p] \in WritePoints => ~opt[p].dry
NotManagedAfterRemoval ==
    \A p \in Procs : pc[p] \in AfterRemoval /\ ~opt[p].dry => mgmt # "Managed"
RemovalInv ==
    /\ TypeOK /\ NoSkip /\ NoDryWriter /\ NotManagedAfterRemoval
    /\ RemovedMeansGone /\ InstallAfterRemoval /\ NotWedged

\* RHBOK comes to be requested from both generations of OLM in one way only: by a
\* run told --kueue-olm-mode=v0 that finds a ClusterExtension, for which the
\* preflight of v0 does not look (checkNoRHBOKConflictsV0).  Every other run follows
\* the extension (selectOLMMode) or refuses the Subscription (the preflight of v1),
\* whatever was left behind by runs cut off before it.
BothRequested == \A m \in Modes : rhbok[m] # "none"
OneOLMGeneration ==
    [][~BothRequested /\ BothRequested' =>
          \E p \in Procs :
              pc[p] = "install-create" /\ opt[p].olm = "v0" /\ rhbok["v1"] # "none"]_vars

\* A legacy CRD that still has instances is deleted, and they with it, only by a
\* run with --force-delete-legacy-crds.
InstancesDeletedOnlyByForce ==
    [][\A c \in CRDNames : crd[c] = "instances" /\ crd'[c] = "absent" =>
          \E p \in Procs : pc[p] = "crd-delete" /\ opt[p].force]_vars

\* When the verification passed, the cluster is migrated: the checks, made one
\* after the other, add up.  In particular every namespace that has anything to do
\* with Kueue is labelled, and every workload in them, although the workload check
\* looks only at the namespaces labelled by then.
VerifiedMeansMigrated ==
    \A p \in Procs : steps[p]["verify-migration-complete"] = "completed" =>
        /\ mgmt = "Unmanaged" /\ ~embedded
        /\ \E m \in Modes : rhbok[m] = "installed"
        /\ Candidates \subseteq openshift
        /\ \A w \in wls : HomeNS[w] \in Candidates => w \in queued

\* The ConfigMap of a Kueue that the CLI removes was preserved before
\* (preserve-kueue-config is the first step of the Managed path).
ConfigPreserved ==
    [][mgmt = "Managed" /\ mgmt' = "Removed" /\ cm # "absent" => cm = "preserved"]_vars

\* RHBOK is not requested while the embedded Kueue still runs.
RequestedAfterRemoval ==
    [][\A m \in Modes : rhbok[m] = "none" /\ rhbok'[m] # "none" => ~embedded]_vars

\* Unmanaged means that the RHBOK operator, not OpenShift AI, provides Kueue: the
\* CLI switches to it only when the operator is installed.
ActivatedOnlyWithOperator ==
    [][mgmt # "Unmanaged" /\ mgmt' = "Unmanaged" =>
          \E m \in Modes : rhbok[m] = "installed"]_vars

\* A run that never has to ask always ends, failures and timeouts included: the
\* retries of an update and every wait are bounded.
RunTerminates ==
    \A p \in Procs :
        (pc[p] = "validate" /\ (opt[p].yes \/ opt[p].dry)) ~> (pc[p] \in Ended)

=============================================================================

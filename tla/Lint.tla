-------------------------------- MODULE Lint --------------------------------
(***************************************************************************)
(* "odh lint --target-version": the command (pkg/lint/command.go), the     *)
(* executor (pkg/lint/check/executor.go) and the registered checks, one    *)
(* read of the cluster after the other, while the API server may fail, the *)
(* deadline may pass and somebody may edit the DataScienceCluster.         *)
(***************************************************************************)
EXTENDS LintComponents, LintDependencies, LintWorkloads, NotebookImages

CONSTANTS
    Scenarios,  \* what a command may meet: [cluster, severity, patterns, flags, events]
    Orders,     \* orders in which a map of Go may yield the checks, as ranks
    Edits       \* edits of the DataScienceCluster, <<component, state>>

\* The DataScienceCluster reads the same at v1: nothing depends on whether the
\* discovery answers
V1TellsAll(c) == c.v1.served /\ c.v1.lacks = {}

\* The clusters have the fields the checks read; 2.x serves v1 and nothing
\* else; the workloads Kueue may queue are of the monitored types, and who has
\* notebooks has some listed.
IsCluster(c) ==
    /\ c = [from |-> c.from, to |-> c.to, st |-> c.st, has |-> c.has, fault |-> c.fault,
            olm |-> c.olm, disc |-> c.disc, v1 |-> c.v1, conds |-> c.conds, mon |-> c.mon, dash |-> c.dash, wls |-> c.wls,
            owned |-> c.owned, orch |-> c.orch, streams |-> c.streams, ootb |-> c.ootb,
            ists |-> c.ists, books |-> c.books]
    /\ c.from \in Nat \X Nat /\ c.to \in Nat \X Nat
    /\ c.fault \in [Kinds -> Faults]
    /\ c.disc \in BOOLEAN /\ c.v1.served \in BOOLEAN
    /\ c.from[1] = 2 => V1TellsAll(c)
    /\ \A w \in c.wls : w.kind \in MonitoredWorkloadTypes
    /\ Len(c.streams) \in Nat /\ DOMAIN c.streams = 1..Len(c.streams)
    /\ c.books # {} => c.has["Notebook"] # {}

ASSUME LintAssumption == \A s \in Scenarios : IsCluster(s.cluster)

VARIABLES
    cluster,    \* the cluster the command reads
    was,        \* every state the cluster had while the command ran
    in,         \* the scenario's severity, patterns and flags
    events,     \* events that may still happen
    api,        \* "up", "down" or "expired" (the deadline of --timeout)
    order,      \* the order in which the registry's map yielded the checks
    todo,       \* the checks of the groups still to run
    current,    \* the check whose CanApply said yes, or ""
    found,      \* the impacts of all conditions reported so far
    errors,     \* the classes of the errors checks failed with
    skipped,    \* checks the expired context cut off
    pc, exit

lintVars == <<cluster, was, in, events, api, order, todo, current, found, errors, skipped, pc, exit>>

(***************************************************************************)
(* The registry (NewCommand): the checks of each group.                    *)
(***************************************************************************)
Dependency == {"certmanager", "openshift", "orphanedcrds", "ossm34", "servicemesh",
               "sharedossm", "sharedserverless"}
Platform == {"dsci", "dsc", "storageversion"}
ComponentIds ==
    {"maas", "codeflare", "acceleratorprofiles", "hardwareprofiles", "dashboardauth", "route",
     "capacity", "rollout", "dashboardconfig", "pipelines", "feast", "serverless", "wva",
     "kuadrant", "authorino", "smoperator", "smremoval", "kueuestate", "kueueoperator",
     "llamastack", "modelmesh", "modelregistry", "trainingdeprecation", "trainingremoval"}
WorkloadIds ==
    {"appwrapper", "customrbac", "instructlab", "storedversion", "guardrails", "otel",
     "isvcconfig", "isvcaccelerator", "isvcprofile", "kserveimpacted", "kueuedata",
     "llamaconfig", "llamamigration", "ogx", "nbaccelerator", "containername", "nbprofile",
     "connections", "profiles", "nbimages", "nonstopped", "ray", "numproc", "overrides",
     "training"}
CheckIds == Dependency \cup Platform \cup ComponentIds \cup WorkloadIds

CanonicalGroupOrder == <<"dependencies", "services", "platform", "components", "workloads">>
GroupOf(id) ==
    CASE id \in Dependency -> "dependencies"
      [] id \in Platform   -> "platform"
      [] id \in ComponentIds -> "components"
      [] id \in WorkloadIds  -> "workloads"

DependencyCheck(id, c) ==
    CASE id = "certmanager"      -> CertManager(c)
      [] id = "openshift"        -> OpenShift(c)
      [] id = "orphanedcrds"     -> OrphanedCRDs(c)
      [] id = "ossm34"           -> OSSM34(c)
      [] id = "servicemesh"      -> ServiceMesh(c)
      [] id = "sharedossm"       -> SharedOSSM(c)
      [] id = "sharedserverless" -> SharedServerless(c)

PlatformCheck(id, c) ==
    CASE id = "dsci"           -> DSCIReadiness(c)
      [] id = "dsc"            -> DSCReadiness(c)
      [] id = "storageversion" -> StorageVersion(c)

ComponentCheck(id, c) ==
    CASE id = "maas"                -> MaaSFieldMigration(c)
      [] id = "codeflare"           -> CodeFlareRemoval(c)
      [] id = "acceleratorprofiles" -> AcceleratorProfiles(c)
      [] id = "hardwareprofiles"    -> HardwareProfiles(c)
      [] id = "dashboardauth"       -> DashboardAuthModel(c)
      [] id = "route"               -> DashboardRoute(c)
      [] id = "capacity"            -> ResourceCapacity(c)
      [] id = "rollout"             -> RolloutStrategy(c)
      [] id = "dashboardconfig"     -> DashboardConfig(c)
      [] id = "pipelines"           -> PipelinesRenaming(c)
      [] id = "feast"               -> FeastRenaming(c)
      [] id = "serverless"          -> ServerlessRemoval(c)
      [] id = "wva"                 -> WVARemoval(c)
      [] id = "kuadrant"            -> KuadrantReadiness(c)
      [] id = "authorino"           -> AuthorinoTLSReadiness(c)
      [] id = "smoperator"          -> ServiceMeshOperator(c)
      [] id = "smremoval"           -> ServiceMeshRemoval(c)
      [] id = "kueuestate"          -> KueueManagementState(c)
      [] id = "kueueoperator"       -> KueueOperatorInstalled(c)
      [] id = "llamastack"          -> LlamaStackRemoval(c)
      [] id = "modelmesh"           -> ModelMeshRemoval(c)
      [] id = "modelregistry"       -> ModelRegistryRenaming(c)
      [] id = "trainingdeprecation" -> TrainingOperatorDeprecation(c)
      [] id = "trainingremoval"     -> TrainingOperatorRemoval(c)

WorkloadCheck(id, c) ==
    CASE id = "appwrapper"      -> AppWrapperCleanup(c)
      [] id = "customrbac"      -> CustomRBAC(c)
      [] id = "instructlab"     -> InstructLab(c)
      [] id = "storedversion"   -> StoredVersionRemoval(c)
      [] id = "guardrails"      -> GuardrailsImpacted(c)
      [] id = "otel"            -> GuardrailsOtel(c)
      [] id = "isvcconfig"      -> InferenceServiceConfig(c)
      [] id = "isvcaccelerator" -> KServeAccelerator(c)
      [] id = "isvcprofile"     -> KServeHardwareProfile(c)
      [] id = "kserveimpacted"  -> KServeImpacted(c)
      [] id = "kueuedata"       -> KueueDataIntegrity(c)
      [] id = "llamaconfig"     -> LlamaStackConfig(c)
      [] id = "llamamigration"  -> LlamaStackMigration(c)
      [] id = "ogx"             -> ExternalAccessTLS(c)
      [] id = "nbaccelerator"   -> NotebookAccelerator(c)
      [] id = "containername"   -> ContainerName(c)
      [] id = "nbprofile"       -> NotebookHardwareProfile(c)
      [] id = "connections"     -> ConnectionIntegrity(c)
      [] id = "profiles"        -> HardwareProfileIntegrity(c)
      [] id = "nbimages"        -> NotebookImpacted(c)
      [] id = "nonstopped"      -> NonStopped(c)
      [] id = "ray"             -> RayImpacted(c)
      [] id = "numproc"         -> NumProcPerNode(c)
      [] id = "overrides"       -> PodTemplateOverrides(c)
      [] id = "training"        -> TrainingImpacted(c)

CheckOf(id, c) ==
    CASE id \in Dependency   -> DependencyCheck(id, c)
      [] id \in Platform     -> PlatformCheck(id, c)
      [] id \in ComponentIds -> ComponentCheck(id, c)
      [] id \in WorkloadIds  -> WorkloadCheck(id, c)

\* matchesPattern; a glob stands for the checks it matches
matchesPattern(id, p) == p \in {"*", GroupOf(id), id}

Selected(patterns) == {id \in CheckIds : \E p \in patterns : matchesPattern(id, p)}

\* ListByPatterns, group after group: one check comes before another
GroupIndex ==
    [id \in CheckIds |->
        CHOOSE i \in DOMAIN CanonicalGroupOrder : CanonicalGroupOrder[i] = GroupOf(id)]
ListedBefore(id, other) ==
    \/ GroupIndex[id] < GroupIndex[other]
    \/ GroupIndex[id] = GroupIndex[other] /\ order[id] < order[other]

(***************************************************************************)
(* Exit codes (pkg/util/errors).                                           *)
(***************************************************************************)
ExitSuccess == 0
ExitError == 1
ExitWarning == 2
ExitValidation == 3
ExitAuth == 4
ExitConnection == 5
Panicked == 99

ExitCodeFromError(e) ==
    CASE e = "auth"  -> ExitAuth
      [] e = "conn"  -> ExitConnection
      [] e = "panic" -> Panicked
      [] OTHER       -> ExitError

priority(code) ==
    CASE code = ExitSuccess -> 0
      [] code = ExitWarning -> 1
      [] code = ExitError   -> 2
      [] OTHER              -> code

IsHigherPriority(a, b) == priority(a) > priority(b)

\* highestPriorityExecError
HighestPriority(es) ==
    LET codes == {ExitSuccess} \cup {ExitCodeFromError(e) : e \in es}
    IN  CHOOSE x \in codes : \A y \in codes : ~IsHigherPriority(y, x)

\* FilterBySeverity with meetsMinSeverity
FilterBySeverity(impacts, level) ==
    impacts \cap (CASE level = "prohibited" -> {"prohibited"}
                    [] level = "critical"   -> {"prohibited", "blocking"}
                    [] level = "warning"    -> {"prohibited", "blocking", "advisory"}
                    [] level = "info"       -> Impacts)

evaluateVerdict(impacts) ==
    IF {"prohibited", "blocking"} \cap impacts # {} THEN ExitError
    ELSE IF "advisory" \in impacts THEN ExitWarning
    ELSE ExitSuccess

resolveExitError(execCode, findings) ==
    IF execCode # ExitSuccess /\ (IsHigherPriority(execCode, findings) \/ execCode = findings)
    THEN execCode ELSE findings

(***************************************************************************)
(* The state machine.                                                      *)
(***************************************************************************)
\* What a read sees: nothing gets through after an outage or the deadline
Unreachable(c) == [c EXCEPT !.fault = [k \in DOMAIN c.fault |-> "down"]]
Seen == IF api = "up" THEN cluster ELSE Unreachable(cluster)

LintInit ==
    \E s \in Scenarios :
        /\ cluster = s.cluster /\ was = {s.cluster}
        /\ in = [severity |-> s.severity, patterns |-> s.patterns, flags |-> s.flags]
        /\ events = s.events
        /\ api = "up" /\ order = <<>> /\ todo = {} /\ current = ""
        /\ found = {} /\ errors = {} /\ skipped = {}
        /\ pc = "validate" /\ exit = ExitSuccess

End(code) == pc' = "done" /\ exit' = code

\* Complete and Validate; --output-schema needs no cluster
Validate ==
    /\ pc = "validate"
    /\ IF in.flags = "schema" THEN End(ExitSuccess)
       ELSE IF in.flags = "stdin" THEN End(ExitValidation)
       ELSE IF in.flags = "bad" \/ in.patterns = {} THEN End(ExitError)
       ELSE pc' = "detect" /\ UNCHANGED exit
    /\ UNCHANGED <<cluster, was, in, events, api, order, todo, current, found, errors, skipped>>

\* version.Detect: the DSC, the DSCI and OLM in turn; "norelease" is a
\* status without a version, which is an error and not the next source
DetectVersion(c) ==
    LET Source(k) == IF Singleton(c, k) = "" /\ "norelease" \in c.has[k] THEN "error"
                     ELSE Singleton(c, k)
    IN  IF Source("DSC") # "notfound" THEN Source("DSC")
        ELSE IF Source("DSCI") # "notfound" THEN Source("DSCI")
        ELSE IF FindOperator(c).err \notin {"", "notfound"} THEN FindOperator(c).err
        ELSE IF "rhods" \in FindOperator(c).items THEN "" ELSE "error"

\* Run up to runUpgradeMode
Detect ==
    LET v == DetectVersion(Seen)
    IN  /\ pc = "detect"
        /\ IF v # "" THEN End(ExitCodeFromError(v))
           ELSE IF DetectOpenShiftVersion(Seen) = "panic" THEN End(Panicked)
           ELSE IF SameMajorMinor(cluster.from, cluster.to) THEN End(ExitSuccess)
           ELSE IF OlderThan(cluster.to, cluster.from) THEN End(ExitValidation)
           ELSE IF Selected(in.patterns) = {} THEN End(ExitError)
           ELSE pc' = "execute" /\ UNCHANGED exit
        /\ todo' = Selected(in.patterns)
        /\ order' \in Orders
        /\ UNCHANGED <<cluster, was, in, events, api, current, found, errors, skipped>>

\* Mutant: a check that cannot tell is passed over
FailedQuietly(e) ==
    IF e = "panic" THEN /\ End(Panicked)
                        /\ UNCHANGED <<found, errors>>
    ELSE UNCHANGED <<found, errors, pc, exit>>

\* A check that fails adds an Unknown condition, which is an advisory
Failed(e) ==
    IF e = "panic" THEN /\ End(Panicked)
                        /\ UNCHANGED <<found, errors>>
    ELSE /\ errors' = errors \cup {e}
         /\ found' = found \cup {"advisory"}
         /\ UNCHANGED <<pc, exit>>

\* executeChecks: the next check, its CanApply
CanApply ==
    /\ pc = "execute" /\ current = "" /\ api # "expired"
    /\ \E id \in todo :
          /\ \A other \in todo \ {id} : ListedBefore(id, other)
          /\ todo' = todo \ {id}
          /\ LET can == CheckOf(id, Seen).can
             IN  CASE can = "yes" -> current' = id /\ UNCHANGED <<found, errors, pc, exit>>
                   [] can = "no"  -> UNCHANGED <<current, found, errors, pc, exit>>
                   [] OTHER       -> Failed(can) /\ UNCHANGED current
    /\ UNCHANGED <<cluster, was, in, events, api, order, skipped>>

\* executeCheck: its Validate; a nil result is dropped
Execute ==
    /\ pc = "execute" /\ current # ""
    /\ current' = ""
    /\ LET r == CheckOf(current, Seen).run
       IN  IF r.err # "" THEN Failed(r.err)
           ELSE found' = found \cup r.impacts /\ UNCHANGED <<errors, pc, exit>>
    /\ UNCHANGED <<cluster, was, in, events, api, order, todo, skipped>>

\* The context error ends the loop of this group and of every later one
Break ==
    /\ pc = "execute" /\ current = "" /\ todo # {} /\ api = "expired"
    /\ skipped' = todo /\ todo' = {}
    /\ UNCHANGED <<cluster, was, in, events, api, order, current, found, errors, pc, exit>>

\* The end of runUpgradeMode
Report ==
    /\ pc = "execute" /\ current = "" /\ todo = {}
    /\ End(resolveExitError(HighestPriority(errors),
                            evaluateVerdict(FilterBySeverity(found, in.severity))))
    /\ UNCHANGED <<cluster, was, in, events, api, order, todo, current, found, errors, skipped>>

Step == Validate \/ Detect \/ CanApply \/ Execute \/ Break \/ Report

\* The API server is lost for good, or the deadline passes
LoseAPI ==
    /\ pc \in {"detect", "execute"} /\ api = "up" /\ events > 0
    /\ events' = events - 1
    /\ api' \in {"down", "expired"}
    /\ UNCHANGED <<cluster, was, in, order, todo, current, found, errors, skipped, pc, exit>>

\* Somebody edits the DataScienceCluster while the checks run
Edit ==
    /\ pc = "execute" /\ events > 0
    /\ events' = events - 1
    /\ \E e \in Edits : /\ cluster.st[e[1]] # e[2]
                        /\ cluster' = [cluster EXCEPT !.st[e[1]] = e[2]]
    /\ was' = was \cup {cluster'}
    /\ UNCHANGED <<in, api, order, todo, current, found, errors, skipped, pc, exit>>

Done == pc = "done" /\ UNCHANGED lintVars

LintNext == Step \/ LoseAPI \/ Edit \/ Done

LintSpec == LintInit /\ [][LintNext]_lintVars

(***************************************************************************)
(* Properties.                                                             *)
(***************************************************************************)
Upgrade == pc = "done" /\ in.flags = "ok" /\ OlderThan(cluster.from, cluster.to)

\* What a check says of the cluster when no read of it breaks down
Healthy(c) == [c EXCEPT !.disc = TRUE,
                        !.fault = [k \in DOMAIN c.fault |->
                                      IF c.fault[k] = "down" THEN "ok" ELSE c.fault[k]]]
Applies(id, c) == CheckOf(id, Healthy(c)).can
Clean(id, c) == LET r == CheckOf(id, Healthy(c)).run
                IN  r.err = "" /\ r.impacts \subseteq {"none"}

\* A check has met a state of the cluster that it has nothing to say about, or
\* one to which it applies and one that it finds clean; a single state when
\* nobody edited
Earned(id) ==
    \/ \E c \in was : Applies(id, c) = "no"
    \/ (\E c \in was : Applies(id, c) = "yes") /\ \E c \in was : Clean(id, c)

\* An assessment with the exit code 0 that its deadline did not cut off, whose
\* lists were not denied and where the list of autoscalers did not fail
CleanExit ==
    /\ Upgrade /\ exit = ExitSuccess /\ skipped = {} /\ in.severity = "info"
    /\ \A k \in DOMAIN cluster.fault : cluster.fault[k] # "forbidden"
    /\ cluster.fault["ClusterAutoscaler"] = "ok"

\* The clean exit of an upgrade assessment is earned by every selected check,
\* whichever other reads failed and whoever edited the DataScienceCluster
\* between two checks (runUpgradeMode, executeChecks, every check).  The error
\* of the discovery is dropped (hasGroupVersion, helpers.go:428), so this needs
\* a discovery that answers or a v1 that tells all.  One state that passes all
\* checks need not have existed: each check reads the cluster for itself.
CleanExitIsEarned ==
    CleanExit /\ (cluster.disc \/ V1TellsAll(cluster))
        => \A id \in Selected(in.patterns) : Earned(id)

\* The comment of tryGetV2Singleton: v1 is read if the v2 API is absent or has
\* no instance, and a real error is returned.  Then a clean exit is earned also
\* where the discovery fails.
ErrorsEndTheNegotiation ==
    CleanExit => \A id \in Selected(in.patterns) : Earned(id)

\* A notebook on an out-of-the-box image that is judged by its tag, and
\* whose digest and reference are only known under tags older than the fix,
\* never gets a clean exit out of a 2.x to 3.x assessment with that check, on
\* a cluster whose DataScienceCluster and notebooks can be listed
\* (analyzeImage and what it calls).
TagOnly(c, im) ==
    LET mine == {i \in DOMAIN c.streams : \/ im.sha \in c.streams[i].shas
                                          \/ im.ref \in c.streams[i].refs}
    IN  /\ im.sha # "" /\ mine # {}
        /\ \A i \in mine :
              /\ \E o \in c.ootb : o.is = c.streams[i].is
              /\ \A o \in c.ootb : o.is = c.streams[i].is => o.type \notin {"jupyter", "rstudio"}
              /\ isValidVersionTag(c.streams[i].tag)
              /\ ~isGTE(c.streams[i].tag, NginxFixMinTag)

OldImageFlagged ==
    (/\ Upgrade /\ exit = ExitSuccess /\ skipped = {}
     /\ in.severity = "info" /\ "nbimages" \in Selected(in.patterns)
     /\ IsUpgradeFrom2xTo3x(cluster)
     /\ \A c \in was : c.st["workbenches"] # "Removed"
     /\ Singleton(cluster, "DSC") # "notfound" /\ cluster.fault["Notebook"] = "ok")
        => \A b \in cluster.books : \A i \in DOMAIN b : ~TagOnly(cluster, b[i])

\* docs/design.md: a timeout is reported by the exit code 5.
CutRunIsReported == (Upgrade /\ skipped # {}) => exit = ExitConnection
=============================================================================

--------------------------- MODULE LintWorkloads ----------------------------
(***************************************************************************)
(* The checks of pkg/lint/checks/workloads, but for the notebook images.   *)
(* Besides the fields of LintBase and LintComponents these read            *)
(*   owned    the objects owned by workloads, [id, owner, q]               *)
(*   orch     the GuardrailsOrchestrators, each the set of what is in order*)
(***************************************************************************)
EXTENDS LintComponents

\* Any or some object of a kind, as a finding of the given impact
Tagged(c, k, tags, impact) ==
    LET F(s) == Found(s \cap tags # {}, impact) IN WorkloadsRun(c, k, F)
TaggedOf(c, x, k, tag, impact) ==
    LET F(s) == Found(tag \in s, impact) IN WorkloadsOf(c, x, k, F)
AnyOf(c, k, impact) ==
    LET F(s) == Found(s # {}, impact) IN WorkloadsRun(c, k, F)

For2xTo3x(c, x) == When(IsUpgradeFrom2xTo3x(c), c, {x}, Managed)
For36(c, x) == When(CrossesTo36(c), c, {x}, Managed)

AppWrapperCleanup(c) ==
    [can |-> For2xTo3x(c, "codeflare"), run |-> AnyOf(c, "AppWrapper", "advisory")]

RayImpacted(c) ==
    [can |-> For2xTo3x(c, "ray"), run |-> Tagged(c, "RayCluster", {"codeflare"}, "advisory")]

(***************************************************************************)
(* Data science pipelines.                                                 *)
(***************************************************************************)
\* aipipelines.ShouldApplyChecks: the component, else any DSPA
PipelinesInUse(c) ==
    IF ~IsUpgradeFrom2xTo3x(c) THEN "no"
    ELSE IF Singleton(c, "DSC") # "" THEN Singleton(c, "DSC")
    ELSE IF HasState(c, "datasciencepipelines", Managed) THEN "yes"
    ELSE IF ListOrNone(c, "DSPA").err # "" THEN ListOrNone(c, "DSPA").err
    ELSE Yes(ListOrNone(c, "DSPA").items # {})

\* FindRolesNeedingFix over the classified roles
CustomRBAC(c) ==
    LET F(s) == Found("routes" \in s, "blocking")
    IN  [can |-> PipelinesInUse(c), run |-> With(ListResources(c, "Role"), F)]

InstructLab(c) ==
    [can |-> PipelinesInUse(c), run |-> Tagged(c, "DSPA", {"instructlab"}, "advisory")]

StoredVersionRemoval(c) ==
    LET g == Get(c, "CRD", "dspa")
    IN  On2xTo3x(c, CASE g = "notfound" -> Finds({"none"})
                      [] g = "conn"     -> Errs(g)
                      [] g = "nil"      -> Finds({"advisory"})
                      [] OTHER -> Found("v1alpha1" \in c.has["CRD"], "blocking"))

(***************************************************************************)
(* Llama Stack, OGX and training.                                          *)
(***************************************************************************)
LlamaStackConfig(c) ==
    [can |-> For2xTo3x(c, "llamastackoperator"),
     run |-> AnyOf(c, "LlamaStackDistribution", "blocking")]

LlamaStackMigration(c) ==
    [can |-> When(IsUpgradeFrom34To35(c), c, {"llamastackoperator"}, Managed),
     run |-> AnyOf(c, "LlamaStackDistribution", "blocking")]

ExternalAccessTLS(c) ==
    [can |-> For36(c, "ogx"), run |-> TaggedOf(c, "ogx", "OGXServer", "notls", "advisory")]

NumProcPerNode(c) ==
    [can |-> For36(c, "trainer"),
     run |-> TaggedOf(c, "trainer", "TrainJob", "numproc", "blocking")]

PodTemplateOverrides(c) ==
    [can |-> For36(c, "trainer"),
     run |-> TaggedOf(c, "trainer", "TrainJob", "overrides", "advisory")]

TrainingImpacted(c) ==
    [can |-> When(IsVersionAtLeast(c.to, 3, 3), c, {"trainingoperator"}, Managed),
     run |-> Tagged(c, "PyTorchJob", {"active"},
                    IF IsVersionAtLeast(c.to, 3, 6) THEN "blocking" ELSE "advisory")]

(***************************************************************************)
(* Guardrails.  A configuration map that cannot be read is a missing one.  *)
(***************************************************************************)
SpecFields == {"orchestratorConfig", "gateway", "detectors", "gatewayConfig"}

\* validateCR with both ConfigMaps
OrchestratorInOrder(c, o) ==
    /\ SpecFields \subseteq o
    /\ Get(c, "ConfigMap", "orchestrator") = "found" /\ "goodconfig" \in o
    /\ Get(c, "ConfigMap", "gateway") = "found"

GuardrailsImpacted(c) ==
    LET F(s) == Found(\E o \in c.orch : s # {} /\ ~OrchestratorInOrder(c, o), "advisory")
    IN  [can |-> For2xTo3x(c, "trustyai"), run |-> WorkloadsRun(c, "GuardrailsOrchestrator", F)]

GuardrailsOtel(c) ==
    [can |-> For2xTo3x(c, "trustyai"),
     run |-> Tagged(c, "GuardrailsOrchestrator", {"otel"}, "advisory")]

(***************************************************************************)
(* KServe.                                                                 *)
(***************************************************************************)
ForServing(c) == When(IsUpgradeFrom2xTo3x(c), c, {"kserve", "modelmeshserving"}, Managed)

\* One condition per question, about the services
Cond(b, impact) == IF b THEN impact ELSE "none"
ISVCConditions(isvc) ==
    {Cond("serverless" \in isvc, "blocking"), Cond("modelmesh" \in isvc, "blocking"),
     Cond("removedruntime" \in isvc, "blocking")}

\* and about the runtimes; one with an accelerator annotation is "accel",
\* one with a hardware profile as well "accelhwp".
RuntimeConditions(isvc, sr) ==
    {Cond("multimodel" \in sr, "blocking"), Cond("accel" \in sr, "advisory"),
     Cond("accelhwp" \in sr, "advisory"),
     Cond("onaccel" \in isvc /\ {"accel", "accelhwp"} \cap sr # {}, "advisory")}

KServeImpacted(c) ==
    LET isvc == ListOrNone(c, "InferenceService")
        sr == ListOrNone(c, "ServingRuntime")
        bad == {isvc.err, sr.err} \ {""}
    IN  [can |-> ForServing(c),
         run |-> IF bad # {} THEN Errs(CHOOSE e \in bad : TRUE)
                 ELSE Finds(ISVCConditions(isvc.items)
                            \cup RuntimeConditions(isvc.items, sr.items))]

\* FilterWorkloadsWithAcceleratorRefs reads the applications namespace and
\* the profiles even when no workload needs them.
AcceleratorRefs(c, s) ==
    LET profiles == ListOrNone(c, "AcceleratorProfile")
    IN  IF AppNamespace(c) # "" THEN Errs(AppNamespace(c))
        ELSE IF profiles.err # "" THEN Errs(profiles.err)
        ELSE Found("accelerator" \in s, "advisory")

KServeAccelerator(c) ==
    LET F(s) == AcceleratorRefs(c, s)
    IN  [can |-> ForServing(c),
         run |-> IF c.fault["InferenceService"] = "untyped" THEN Finds({"none"})
                 ELSE WorkloadsRun(c, "InferenceService", F)]

KServeHardwareProfile(c) ==
    [can |-> For2xTo3x(c, "kserve"),
     run |-> Tagged(c, "InferenceService", {"legacyprofile"}, "advisory")]

\* kube.IsManaged dereferences the nil object of a forbidden read
InferenceServiceConfig(c) ==
    LET g == Get(c, "ConfigMap", "isvcconfig")
        has == c.has["ConfigMap"]
    IN  [can |-> For2xTo3x(c, "kserve"),
         run |-> ComponentNS(c,
            IF g = "notfound" THEN Finds({"none"})
            ELSE IF g = "conn" THEN Errs(g)
            ELSE IF g = "nil" THEN Errs("panic")
            ELSE IF "unmanaged" \notin has THEN Finds({"advisory"})
            ELSE IF "badjson" \in has THEN Errs("error")
            ELSE Found("disallowed" \notin has, "advisory"))]

(***************************************************************************)
(* Kueue labels: namespaces, workloads and what they own must agree.       *)
(***************************************************************************)
IntermediateTypes ==
    {"Deployment", "StatefulSet", "ReplicaSet", "DaemonSet", "Job", "CronJob", "Pod"}

\* walkSubtree over the ownership graph
Descendants(c, root) ==
    LET Below(s) == {o \in c.owned : o.owner \in s}
        Grown[n \in 0..Cardinality(c.owned)] ==
            IF n = 0 THEN {root} ELSE Grown[n - 1] \cup {o.id : o \in Below(Grown[n - 1])}
    IN  Below(Grown[Cardinality(c.owned)])

\* The three invariants, in the order in which the first violated is kept
Inconsistent(c, w) ==
    \/ w.ns \in c.has["Namespace"] /\ w.q = ""
    \/ w.ns \notin c.has["Namespace"] /\ w.q # ""
    \/ \E o \in Descendants(c, w.id) : o.q # w.q

KueueDataIntegrity(c) ==
    LET ns == ListResources(c, "Namespace")
        kinds == MonitoredWorkloadTypes
        relevant == {w \in Listed(c) : w.ns \in ns.items \cup LabeledNamespaces(c)}
    IN  [can |-> When(TRUE, c, {"kueue"}, {"Unmanaged"}),
         run |-> IF ns.err # "" THEN Errs(ns.err)
                 ELSE IF FirstFailure(c, kinds) # "" THEN Errs(FirstFailure(c, kinds))
                 ELSE IF relevant = {} THEN Finds({"none"})
                 ELSE IF FirstFailure(c, IntermediateTypes) # "" THEN
                          Errs(FirstFailure(c, IntermediateTypes))
                 ELSE Found(\E w \in relevant : Inconsistent(c, w), "advisory")]

(***************************************************************************)
(* Notebooks.                                                              *)
(***************************************************************************)
NonStopped(c) == On2xTo3x(c, TaggedOf(c, "workbenches", "Notebook", "running", "advisory"))

\* A Secret that cannot be listed counts as missing
ConnectionIntegrity(c) ==
    LET secrets == ListOrNone(c, "Secret")
        F(s) == IF "connected" \notin s THEN Finds({"none"})
                ELSE IF secrets.err # "" THEN Errs(secrets.err)
                ELSE Found("connection" \notin secrets.items, "blocking")
    IN  [can |-> "yes", run |-> WorkloadsOf(c, "workbenches", "Notebook", F)]

\* resolveResourceType, then populateProfileCache
HardwareProfileIntegrity(c) ==
    LET crd == Get(c, "CRD", "hwp")
        profiles == ListOrNone(c, "InfraHardwareProfile")
        F(s) == IF "profiled" \notin s THEN Finds({"none"})
                ELSE IF crd = "conn" THEN Errs(crd)
                ELSE IF crd = "nil" THEN Errs("error")
                ELSE IF crd = "notfound" THEN Finds({"blocking"})
                ELSE IF profiles.err # "" THEN Errs(profiles.err)
                ELSE Found("profile" \notin profiles.items, "blocking")
    IN  [can |-> "yes", run |-> WorkloadsOf(c, "workbenches", "Notebook", F)]

NotebookAccelerator(c) ==
    LET F(s) == AcceleratorRefs(c, s)
    IN  On2xTo3x(c, WorkloadsOf(c, "workbenches", "Notebook", F))

NotebookHardwareProfile(c) ==
    On2xTo3x(c, TaggedOf(c, "workbenches", "Notebook", "legacyprofile", "advisory"))

ContainerName(c) ==
    [can |-> "yes", run |-> TaggedOf(c, "workbenches", "Notebook", "misnamed", "advisory")]
=============================================================================

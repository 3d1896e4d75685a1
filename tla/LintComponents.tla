--------------------------- MODULE LintComponents ---------------------------
(***************************************************************************)
(* The checks of pkg/lint/checks/components.  A check is the pair of its   *)
(* CanApply and its Validate on a cluster; the two are evaluated at two    *)
(* moments, and the cluster may have changed between them.  Besides the    *)
(* fields of LintBase these read                                           *)
(*   dash  the dashboard's Deployment: replicas, fenceposts, containers    *)
(*   wls   the workloads Kueue may queue, [id, kind, ns, q]                *)
(* and has["Namespace"] is the set of the namespaces enabled for Kueue.    *)
(***************************************************************************)
EXTENDS LintBase, SequencesExt

\* A component that the target version no longer has, or renames
Departure(c, guard, x, impact) ==
    [can |-> When(guard, c, {x}, Managed),
     run |-> Component(c, x, Managed, Finds({impact}))]

CodeFlareRemoval(c) ==
    Departure(c, IsUpgradeFrom2xTo3x(c), "codeflare", "blocking")

PipelinesRenaming(c) ==
    Departure(c, IsUpgradeFrom2xTo3x(c), "datasciencepipelines", "advisory")

FeastRenaming(c) ==
    Departure(c, c.to[1] = 3 /\ IsVersionAtLeast(c.to, 3, 6), "feastoperator", "none")

ModelRegistryRenaming(c) ==
    Departure(c, c.to[1] = 3 /\ IsVersionAtLeast(c.to, 3, 6), "modelregistry", "none")

LlamaStackRemoval(c) ==
    Departure(c, c.to[1] = 3 /\ IsVersionAtLeast(c.to, 3, 5), "llamastackoperator", "blocking")

ModelMeshRemoval(c) ==
    Departure(c, IsUpgradeFrom2xTo3x(c), "modelmeshserving", "blocking")

TrainingOperatorRemoval(c) ==
    Departure(c, IsVersionAtLeast(c.to, 3, 6), "trainingoperator", "blocking")

TrainingOperatorDeprecation(c) ==
    Departure(c, IsVersionAtLeast(c.to, 3, 3) /\ ~IsVersionAtLeast(c.to, 3, 6),
              "trainingoperator", "advisory")

\* kserve.modelsAsService moves under aigateway
MaaSFieldMigration(c) ==
    [can |-> IF ~(/\ OlderThan(c.from, c.to)
                  /\ c.to[1] = 3 /\ IsVersionAtLeast(c.to, 3, 5)) THEN "no"
             ELSE IF Singleton(c, "DSC") # "" THEN Singleton(c, "DSC")
             ELSE Yes("maas" \in Fields(c)),
     run |-> OnSingleton(c, "DSC", Found("maas" \in Fields(c), "advisory"))]

(***************************************************************************)
(* Kueue.                                                                  *)
(***************************************************************************)
MonitoredWorkloadTypes ==
    {"Notebook", "InferenceService", "LLMInferenceService", "RayCluster", "RayJob", "PyTorchJob"}

\* A kind whose list fails, other than by a missing type
FirstFailure(c, ks) ==
    LET bad == {ListOrNone(c, k).err : k \in ks} \ {""}
    IN  IF bad = {} THEN "" ELSE CHOOSE e \in bad : TRUE

\* The monitored workloads that the lists return
Listed(c) == {w \in c.wls : c.fault[w.kind] = "ok"}

\* WorkloadLabeledNamespaces
LabeledNamespaces(c) == {w.ns : w \in {v \in Listed(c) : v.q # ""}}

\* isKueueInUse over KueueEnabledNamespaces and WorkloadLabeledNamespaces
KueueInUse(c) ==
    LET ns == ListResources(c, "Namespace")
    IN  IF ns.err # "" THEN Fails(ns.err)
        ELSE IF ns.items # {} THEN Items({TRUE})
        ELSE IF FirstFailure(c, MonitoredWorkloadTypes) # "" THEN
                 Fails(FirstFailure(c, MonitoredWorkloadTypes))
        ELSE Items({LabeledNamespaces(c) # {}})

\* detectDefaultLocalQueue and addDefaultLocalQueueWarning
WithDefaultQueueWarning(c, impact) ==
    LET F(s) == Finds({impact} \cup (IF "defaultqueue" \in Fields(c) \/ "default" \in s
                                     THEN {"advisory"} ELSE {}))
    IN  With(ListOrNone(c, "LocalQueue"), F)

KueueManagementState(c) ==
    [can |-> When(IsUpgradeFrom2xTo3x(c), c, {"kueue"}, NotRemoved),
     run |-> OnSingleton(c, "DSC",
        CASE StateOf(c, "kueue") = "Managed" ->
               LET F(used) == IF TRUE \in used THEN WithDefaultQueueWarning(c, "prohibited")
                              ELSE Finds({"blocking"})
               IN  With(KueueInUse(c), F)
          [] StateOf(c, "kueue") = "Unmanaged" -> WithDefaultQueueWarning(c, "none")
          [] OTHER -> Errs("error"))]

KueueOperatorInstalled(c) ==
    LET F(subs) == Found("kueue" \notin subs, "blocking")
    IN  [can |-> When(TRUE, c, {"kueue"}, NotRemoved),
         run |-> OnSingleton(c, "DSC",
                    IF StateOf(c, "kueue") = "Managed" THEN Finds({"prohibited"})
                    ELSE With(FindOperator(c), F))]

(***************************************************************************)
(* Dashboard.                                                              *)
(***************************************************************************)
AcceleratorProfiles(c) ==
    LET F(s) == Found(s # {}, "advisory")
    IN  On2xTo3x(c, WorkloadsRun(c, "AcceleratorProfile", F))

HardwareProfiles(c) ==
    LET F(s) == Found(s # {}, "advisory")
    IN  On2xTo3x(c, WorkloadsRun(c, "HardwareProfile", F))

DashboardAuthModel(c) ==
    LET F(s) == Found("oauth" \in s, "advisory")
    IN  On2xTo3x(c, ComponentNS(c, With(ListResources(c, "Pod"), F)))

DashboardConfig(c) ==
    LET g == Get(c, "OdhDashboardConfig", "it")
    IN  On2xTo3x(c, ComponentNS(c, IF g = "conn" THEN Errs(g)
                                   ELSE Found(g # "found", "advisory")))

DashboardRoute(c) ==
    LET F(s) == Found("legacy" \in s, "advisory")
    IN  On2xTo3x(c, ComponentNS(c, With(ListResources(c, "Route"), F)))

\* resolveFencepost: a number, a percentage of the replicas, or the default
Fencepost(v, replicas, up) ==
    CASE v.kind = "number"  -> v.n
      [] v.kind = "invalid" -> 1
      [] v.kind = "percent" -> (v.n * replicas + (IF up THEN 99 ELSE 0)) \div 100

SurgeOnly(d) ==
    /\ d.replicas >= 2
    /\ Fencepost(d.unavailable, d.replicas, FALSE) = 0
    /\ Fencepost(d.surge, d.replicas, TRUE) > 0

RolloutStrategy(c) ==
    LET g == Get(c, "Deployment", "dashboard")
    IN  On2xTo3x(c, ComponentNS(c,
            IF g = "conn" THEN Errs(g)
            ELSE IF g # "found" \/ "recreate" \in c.has["Deployment"] THEN Finds({"none"})
            ELSE Found(SurgeOnly(c.dash), "advisory")))

\* effectivePodRequests: the sum of the containers and of the sidecars, or
\* the largest init container when that is more
PodRequest(containers, f) ==
    LET Add(x, acc) == acc + (IF x.role = "init" THEN 0 ELSE x[f])
        Most(x, acc) == IF x.role = "init" /\ x[f] > acc THEN x[f] ELSE acc
    IN  Max({FoldSeq(Add, 0, containers), FoldSeq(Most, 0, containers)})

AnyNodeFits(d, nodes) ==
    \E n \in nodes : \A f \in {"cpu", "mem"} : n[f] >= PodRequest(d.containers, f)

\* getRequiredResources falls back from the deployment to the pods
ResourceCapacity(c) ==
    LET g == Get(c, "Deployment", "dashboard")
        pods == ListResources(c, "Pod")
        seen == g = "found" \/ "dashboard" \in pods.items
        nodes == ListResources(c, "Node")
        scaler == ListResources(c, "ClusterAutoscaler")
    IN  On2xTo3x(c, ComponentNS(c,
            IF g = "conn" THEN Errs(g)
            ELSE IF g # "found" /\ pods.err # "" THEN Errs(pods.err)
            ELSE IF ~seen THEN Finds({"none"})
            ELSE IF nodes.err # "" THEN Errs(nodes.err)
            ELSE IF ~AnyNodeFits(c.dash, nodes.items) THEN Finds({"blocking"})
            ELSE Found(scaler.err = "" /\ scaler.items = {}, "advisory")))

(***************************************************************************)
(* KServe.                                                                 *)
(***************************************************************************)
\* hasLLMInferenceServices guards the two readiness checks
WithLLMInferenceServices(c) ==
    LET llms == ListOrNone(c, "LLMInferenceService")
    IN  IF ~IsUpgradeFrom2xTo3x(c) THEN "no"
        ELSE IF llms.err # "" THEN llms.err
        ELSE Yes(llms.items # {})

ReadyObject(c, k, more) ==
    IF Get(c, k, "it") = "conn" THEN Errs("conn")
    ELSE IF Get(c, k, "it") # "found" THEN Finds({"blocking"})
    ELSE Found(~({"ready"} \cup more \subseteq c.has[k]), "blocking")

AuthorinoTLSReadiness(c) ==
    [can |-> WithLLMInferenceServices(c), run |-> ReadyObject(c, "Authorino", {"tls", "cert"})]

KuadrantReadiness(c) ==
    [can |-> WithLLMInferenceServices(c), run |-> ReadyObject(c, "Kuadrant", {})]

ServerlessRemoval(c) ==
    [can |-> When(IsUpgradeFrom2xTo3x(c), c, {"kserve"}, Managed),
     run |-> Component(c, "kserve", Managed, Found("serving" \in Fields(c), "blocking"))]

ServiceMeshOperator(c) == On2xTo3x(c, Operator(c, "sm2", "advisory", "none"))

ServiceMeshRemoval(c) ==
    On2xTo3x(c, OnSingleton(c, "DSCI",
        Finds({IF "mesh" \in c.has["DSCI"] THEN "blocking"
               ELSE IF "nomesh" \in c.has["DSCI"] THEN "advisory"
               ELSE "none"})))

WVARemoval(c) ==
    LET deploy == Get(c, "Deployment", "wva")
        crd == Get(c, "CRD", "va")
        vas == ListOrNone(c, "VariantAutoscaling")
        cm == Get(c, "ConfigMap", "isvcconfig")
        blockers == \/ "wva" \in Fields(c)
                    \/ deploy = "found"
                    \/ crd = "found" /\ vas.items # {}
        advisories == crd = "found" \/ (cm = "found" /\ "wvakey" \in c.has["ConfigMap"])
    IN  [can |-> Yes(CrossesTo36(c)),
         run |-> ComponentNS(c,
            IF "conn" \in {deploy, crd, cm} THEN Errs("conn")
            ELSE IF crd = "found" /\ vas.err # "" THEN Errs(vas.err)
            ELSE Finds({IF blockers THEN "blocking"
                        ELSE IF advisories THEN "advisory"
                        ELSE "none"}))]
=============================================================================

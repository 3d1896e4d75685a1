------------------------------ MODULE LintBase ------------------------------
(***************************************************************************)
(* What every lint check is made of: the cluster it reads, the reads       *)
(* themselves with the errors they swallow, and the builders of            *)
(* pkg/lint/check/validate.  The messages of a result are left out, a      *)
(* result is the set of the impacts of its conditions.                     *)
(*                                                                         *)
(* A cluster is a record                                                   *)
(*   from, to  the current and the target version, <<major, minor>>        *)
(*   st        component -> managementState of the DataScienceCluster      *)
(*   has       kind -> the facts that hold of the objects of that kind     *)
(*   fault     kind -> what a read of that kind meets                      *)
(*   olm       an OLM client is configured                                 *)
(*   disc      the discovery of the served API versions answers            *)
(*   v1        the DataScienceCluster and the DSCInitialization at v1:     *)
(*             served or not, and what they lack of st and of the DSC      *)
(* and the fields that the modules of the checks describe.                 *)
(***************************************************************************)
EXTENDS Naturals, FiniteSets, Sequences

\* The resource types that are read (pkg/resources/types.go)
Kinds ==
    {"DSC", "DSCI", "Subscription", "ClusterVersion", "CRD", "Deployment", "Pod", "Route", "Node",
     "ClusterAutoscaler", "OdhDashboardConfig", "AcceleratorProfile", "HardwareProfile",
     "InfraHardwareProfile", "Namespace", "LocalQueue", "ConfigMap", "Secret", "Role",
     "Notebook", "InferenceService", "LLMInferenceService", "ServingRuntime", "RayCluster",
     "RayJob", "PyTorchJob", "TrainJob", "AppWrapper", "DSPA", "LlamaStackDistribution",
     "OGXServer", "GuardrailsOrchestrator", "VariantAutoscaling", "Authorino", "Kuadrant",
     "PackageManifest", "ServiceMeshControlPlane", "ServiceMeshMemberRoll", "ServiceMeshMember",
     "KnativeService", "KnativeServing", "KnativeEventing", "ImageStream", "ImageStreamTag",
     "StatefulSet", "ReplicaSet", "DaemonSet", "Job", "CronJob"}
Faults == {"ok", "forbidden", "untyped", "down"}
Impacts == {"none", "advisory", "blocking", "prohibited"}

(***************************************************************************)
(* Versions (pkg/util/version/helpers.go).                                 *)
(***************************************************************************)
IsVersionAtLeast(v, major, minor) ==
    v[1] > major \/ (v[1] = major /\ v[2] >= minor)

SameMajorMinor(v, w) == v[1] = w[1] /\ v[2] = w[2]

OlderThan(v, w) == ~IsVersionAtLeast(v, w[1], w[2])

IsUpgradeFrom2xTo3x(c) == c.from[1] = 2 /\ c.to[1] = 3

IsUpgradeFrom34To35(c) == c.from = <<3, 4>> /\ c.to = <<3, 5>>

CrossesTo36(c) == IsVersionAtLeast(c.to, 3, 6) /\ ~IsVersionAtLeast(c.from, 3, 6)

(***************************************************************************)
(* Reads.  A read is [err, items]; a forbidden list is an empty one and a  *)
(* forbidden get a nil object, neither is an error.                        *)
(***************************************************************************)
Items(s) == [err |-> "", items |-> s]
Fails(e) == [err |-> e, items |-> {}]

\* Reader.List, ListResources and ListMetadata
ListResources(c, k) ==
    CASE c.fault[k] = "ok"        -> Items(c.has[k])
      [] c.fault[k] = "forbidden" -> Items({})
      [] c.fault[k] = "untyped"   -> Fails("notfound")
      [] c.fault[k] = "down"      -> Fails("conn")

\* client.List: a type that is not installed has no instances
ListOrNone(c, k) ==
    IF ListResources(c, k).err = "notfound" THEN Items({}) ELSE ListResources(c, k)

\* Reader.Get and GetResource: "found", "nil", "notfound" or "conn"
Get(c, k, x) ==
    CASE c.fault[k] = "forbidden" -> "nil"
      [] c.fault[k] = "down"      -> "conn"
      [] OTHER -> IF c.fault[k] = "ok" /\ x \in c.has[k] THEN "found" ELSE "notfound"

\* GetSingleton behind GetDataScienceCluster and GetDSCInitialization: one
\* object, "two" says that a second one exists.  v2 is read if the discovery
\* shows it, else v1 (getSingletonWithDiscovery).  hasGroupVersion drops the
\* error of a discovery that fails: an object that is served at v2 only is
\* then not found.  No instance at v2 is none at v1.
Singleton(c, k) ==
    LET l == IF c.disc \/ c.v1.served \/ c.fault[k] = "down" THEN ListOrNone(c, k) ELSE Items({})
    IN  IF l.err # "" THEN l.err
        ELSE IF "it" \notin l.items THEN "notfound"
        ELSE IF "two" \in l.items THEN "error"
        ELSE ""

\* GetApplicationsNamespace
AppNamespace(c) ==
    IF Singleton(c, "DSCI") = "" /\ "appns" \notin c.has["DSCI"]
    THEN "notfound" ELSE Singleton(c, "DSCI")

\* olm.FindOperator: this list is not swallowed when it is forbidden
FindOperator(c) ==
    CASE c.fault["Subscription"] = "forbidden" -> Fails("auth")
      [] OTHER -> ListResources(c, "Subscription")

\* DetectOpenShiftVersion: "" or the error; a nil ClusterVersion panics
DetectOpenShiftVersion(c) ==
    CASE Get(c, "ClusterVersion", "it") = "nil"   -> "panic"
      [] Get(c, "ClusterVersion", "it") = "found" -> ""
      [] OTHER -> Get(c, "ClusterVersion", "it")

(***************************************************************************)
(* Results of CanApply ("yes", "no" or an error) and of Validate.          *)
(***************************************************************************)
Yes(b) == IF b THEN "yes" ELSE "no"
Finds(s) == [err |-> "", impacts |-> s]
Found(b, impact) == Finds({IF b THEN impact ELSE "none"})
Errs(e) == [err |-> e, impacts |-> {}]
NilResult == Finds({})

\* The validation goes on with the items of a read that did not fail.
With(read, F(_)) == IF read.err # "" THEN Errs(read.err) ELSE F(read.items)

\* What the DataScienceCluster does not show at the version that is read
Hidden(c) == IF c.disc THEN {} ELSE c.v1.lacks

\* components.GetManagementState and HasManagementState on one that was read:
\* a component it does not show counts as Removed
StateOf(c, x) == IF x \in Hidden(c) THEN "Removed" ELSE c.st[x]
HasState(c, x, states) == StateOf(c, x) \in states

\* Its other fields
Fields(c) == c.has["DSC"] \ Hidden(c)

\* The usual CanApply: a version guard, then the component's state
When(guard, c, xs, states) ==
    IF ~guard THEN "no"
    ELSE IF Singleton(c, "DSC") # "" THEN Singleton(c, "DSC")
    ELSE Yes(\E x \in xs : HasState(c, x, states))

\* A check of every upgrade from 2.x to 3.x
On2xTo3x(c, r) == [can |-> Yes(IsUpgradeFrom2xTo3x(c)), run |-> r]

Managed == {"Managed"}
NotRemoved == {"Managed", "Unmanaged"}

(***************************************************************************)
(* Builders of pkg/lint/check/validate.                                    *)
(***************************************************************************)
\* DSC(...).Run and DSCI(...).Run
OnSingleton(c, k, r) ==
    IF Singleton(c, k) = "notfound" THEN Finds({"advisory"})
    ELSE IF Singleton(c, k) # "" THEN Errs(Singleton(c, k))
    ELSE r

\* Component(...).InState(...).Run: another state needs no validation
Component(c, x, states, r) ==
    OnSingleton(c, "DSC", IF HasState(c, x, states) THEN r ELSE Finds({"none"}))

\* Component(...).WithApplicationsNamespace().Run
ComponentNS(c, r) ==
    OnSingleton(c, "DSC",
        IF AppNamespace(c) = "notfound" THEN Finds({"advisory"})
        ELSE IF AppNamespace(c) # "" THEN Errs(AppNamespace(c))
        ELSE r)

\* Workloads(...).Run
WorkloadsRun(c, k, F(_)) == With(ListOrNone(c, k), F)

\* Workloads(...).ForComponent(x).Run with checkComponentState
WorkloadsOf(c, x, k, F(_)) ==
    IF Singleton(c, "DSC") = "notfound" THEN NilResult
    ELSE IF Singleton(c, "DSC") # "" THEN Errs(Singleton(c, "DSC"))
    ELSE IF HasState(c, x, {"Removed"}) THEN NilResult
    ELSE WorkloadsRun(c, k, F)

\* Operator(...).Run: without OLM the operator counts as missing
Operator(c, tag, foundImpact, missingImpact) ==
    IF ~c.olm THEN Finds({missingImpact})
    ELSE LET F(s) == Finds({IF tag \in s THEN foundImpact ELSE missingImpact})
         IN  With(FindOperator(c), F)
=============================================================================

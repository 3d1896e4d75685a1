-------------------------- MODULE LintDependencies --------------------------
(***************************************************************************)
(* The checks of pkg/lint/checks/dependencies and pkg/lint/checks/platform *)
(* on a cluster.  Besides the fields of LintBase these read                *)
(*   conds  the conditions of the DSCInitialization, [type, status, reason]*)
(*   mon    what of the monitoring stack is configured                     *)
(***************************************************************************)
EXTENDS LintBase

Always(r) == [can |-> "yes", run |-> r]

(***************************************************************************)
(* Platform.                                                               *)
(***************************************************************************)
NeedsMetrics ==
    {"MonitoringStackAvailable", "ThanosQuerierAvailable", "NodeMetricsEndpointAvailable",
     "PersesPrometheusDataSourceAvailable"}
NeedsTraces == {"TempoAvailable", "PersesTempoDataSourceAvailable"}
NeedsEither == {"OpenTelemetryCollectorAvailable", "PersesAvailable"}

\* A condition of a part of the monitoring stack that nobody asked for
ExpectedMonitoringFalse(c, d) ==
    /\ d.status = "False"
    /\ \/ d.type \in NeedsMetrics /\ {"managed", "metrics"} \ c.mon # {}
       \/ d.type \in NeedsTraces /\ {"managed", "traces"} \ c.mon # {}
       \/ d.type \in NeedsEither /\ ("managed" \notin c.mon \/ {"metrics", "traces"} \cap c.mon = {})
       \/ d.type = "AlertingAvailable" /\ {"managed", "alerting"} \ c.mon # {}
       \/ d.type = "MonitoringReady" /\ d.reason = "Removed" /\ "managed" \notin c.mon

ExpectedMeshFalse(d) ==
    /\ d.status = "False"
    /\ \/ d.type = "CapabilityServiceMesh" /\ d.reason \in {"Removed", "Unmanaged"}
       \/ d.type = "CapabilityServiceMeshAuthorization" /\ d.reason # "NotReady"

\* collectUnhappyDSCIConditionMessages, for conditions with a message
Unhappy(c, d) ==
    /\ d.status # (IF d.type \in {"Progressing", "Degraded"} THEN "False" ELSE "True")
    /\ ~ExpectedMeshFalse(d)
    /\ ~ExpectedMonitoringFalse(c, d)

DSCIReadiness(c) ==
    Always(OnSingleton(c, "DSCI",
        Found("ready" \notin c.has["DSCI"] \/ \E d \in c.conds : Unhappy(c, d), "blocking")))

DSCReadiness(c) ==
    Always(OnSingleton(c, "DSC", Found("ready" \notin Fields(c), "blocking")))

\* "stored" says that the CRD lists stored versions, "v1" that v1 is one
StorageVersion(c) ==
    [can |-> Yes(IsVersionAtLeast(c.to, 3, 6)),
     run |-> LET g == Get(c, "CRD", "dsc")
             IN  IF g \in {"conn", "notfound"} THEN Errs(g)
                 ELSE IF g = "nil" \/ "stored" \notin c.has["CRD"] THEN Errs("error")
                 ELSE Found("v1" \in c.has["CRD"], "blocking")]

(***************************************************************************)
(* Dependencies.                                                           *)
(***************************************************************************)
CertManager(c) == Always(Operator(c, "certmanager", "none", "blocking"))

\* "min" in the ClusterVersion: at least 4.19.9; "fixed": at least 4.21.22
OpenShift(c) ==
    LET v == DetectOpenShiftVersion(c)
    IN  [can |-> Yes(3 \in {c.from[1], c.to[1]}),
         run |-> IF v = "panic" THEN Errs(v)
                 ELSE Found(v # "" \/ "min" \notin c.has["ClusterVersion"], "blocking")]

\* isSM2OperatorInstalled
SM2Installed(c) ==
    IF ~c.olm THEN Items({FALSE})
    ELSE LET s == FindOperator(c)
         IN  IF s.err # "" THEN s ELSE Items({"sm2" \in s.items})

\* CRDs left by Service Mesh 2, with instances or without or unreadable
OrphanedCRDs(c) ==
    LET Orphans(sm2) == Found(TRUE \notin sm2, "blocking")
        OfCRDs(crds) == IF "maistra" \in crds THEN With(SM2Installed(c), Orphans)
                        ELSE Finds({"none"})
    IN  On2xTo3x(c, With(ListResources(c, "CRD"), OfCRDs))

\* "sm3": the Subscription, "sm3csv": it names its CSV, "sm3odd": the name
\* does not parse, "sm34": 3.4.0 or later
OSSM34(c) ==
    LET v == DetectOpenShiftVersion(c)
        OfSubs(s) ==
            IF ~({"sm3", "sm3csv"} \subseteq s) THEN Finds({"none"})
            ELSE IF "sm3odd" \in s THEN Finds({"advisory"})
            ELSE IF "sm34" \notin s THEN Finds({"none"})
            ELSE IF v = "panic" THEN Errs(v)
            ELSE Found(v # "" \/ "fixed" \notin c.has["ClusterVersion"], "blocking")
    IN  [can |-> Yes(c.to[1] = 3),
         run |-> IF c.olm THEN With(FindOperator(c), OfSubs) ELSE Finds({"none"})]

\* isNoOLMMode: a list that fails counts as a Subscription that exists
NoOLMMode(c) == ~c.olm \/ (FindOperator(c).err = "" /\ "sm3" \notin FindOperator(c).items)

\* "gateway": both variables of the ingress operator are set
ServiceMesh(c) ==
    LET g == Get(c, "Deployment", "ingress")
        OfManifests(s) == Found(~({"sm3", "sm3version"} \subseteq s), "blocking")
    IN  On2xTo3x(c,
            IF g = "notfound" THEN Finds({"advisory"})
            ELSE IF g = "conn" THEN Errs(g)
            ELSE IF g = "nil" THEN Finds({"blocking"})
            ELSE IF NoOLMMode(c) THEN Finds({"none"})
            ELSE IF "gateway" \notin c.has["Deployment"] THEN Finds({"blocking"})
            ELSE With(ListOrNone(c, "PackageManifest"), OfManifests))

\* RHOAIManagedNamespaces drops the namespaces of a DSCInitialization that
\* it cannot read; "foreign" and "inapp" are where the objects live.
OutsideRHOAI(c, items) ==
    "foreign" \in items \/ (AppNamespace(c) # "" /\ "inapp" \in items)

SharedUsage(c, ks) ==
    LET bad == {ListOrNone(c, k).err : k \in ks} \ {""}
    IN  On2xTo3x(c, IF bad # {} THEN Errs(CHOOSE e \in bad : TRUE)
            ELSE Found(\E k \in ks : OutsideRHOAI(c, ListOrNone(c, k).items), "advisory"))

SharedOSSM(c) ==
    SharedUsage(c, {"ServiceMeshControlPlane", "ServiceMeshMemberRoll", "ServiceMeshMember"})

SharedServerless(c) ==
    SharedUsage(c, {"KnativeService", "KnativeServing", "KnativeEventing"})
=============================================================================

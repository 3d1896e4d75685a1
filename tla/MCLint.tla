------------------------------- MODULE MCLint -------------------------------
(***************************************************************************)
(* Three upgrades of a healthy cluster, each with one deviation at a time: *)
(* an object or a state that some check is about, a kind that cannot be    *)
(* read, an image of a notebook; and the events of a run on a few of them. *)
(***************************************************************************)
EXTENDS Lint

MCHas(k) ==
    CASE k = "DSC"            -> {"it", "ready"}
      [] k = "DSCI"           -> {"it", "ready", "appns"}
      [] k = "Subscription"   -> {"certmanager", "kueue"}
      [] k = "ClusterVersion" -> {"it", "min"}
      [] k = "Deployment"     -> {"ingress", "dashboard", "gateway"}
      [] k = "CRD"            -> {"dsc", "stored", "dspa", "hwp"}
      [] k = "OdhDashboardConfig" -> {"it"}
      [] k = "Node"           -> {[cpu |-> 1, mem |-> 8], [cpu |-> 4, mem |-> 4]}
      [] k = "ClusterAutoscaler" -> {"it"}
      [] k = "Notebook"       -> {"it"}
      [] k = "ConfigMap"      -> {"orchestrator", "gateway", "isvcconfig", "unmanaged", "disallowed"}
      [] k \in {"Authorino", "Kuadrant"} -> {"it", "ready", "tls", "cert"}
      [] OTHER -> {}

MCStates == [x \in {"codeflare", "datasciencepipelines", "feastoperator", "modelregistry",
                    "llamastackoperator", "modelmeshserving", "trainingoperator", "kueue",
                    "kserve", "ray", "trustyai", "workbenches", "ogx", "trainer"} |->
                CASE x = "kueue" -> "Unmanaged"
                  [] x \in {"kserve", "ray", "trustyai", "workbenches", "ogx", "trainer"} -> "Managed"
                  [] OTHER -> "Removed"]

MCTag(is, tag, sha) == [is |-> is, tag |-> tag, shas |-> {sha}, refs |-> {sha}, from |-> "src-" \o sha]
MCStreams ==
    <<MCTag("cs", <<2024, 1>>, "old"), MCTag("cs", <<2025, 1>>, "both"),
      MCTag("cs", NotVersion, "odd"), MCTag("rs", NotVersion, "rstudio"),
      MCTag("mine", <<2024, 1>>, "mine"), MCTag("cs", <<2025, 2>>, "new"),
      MCTag("other", <<2026, 1>>, "both"), MCTag("jup", <<2023, 1>>, "jup")>>
MCOotb == {[is |-> "cs", type |-> "codeserver", repo |-> "reg/cs"],
           [is |-> "rs", type |-> "rstudio", repo |-> "reg/rs"],
           [is |-> "jup", type |-> "jupyter", repo |-> "reg/jup"],
           [is |-> "other", type |-> "unknown", repo |-> ""]}

MCImage(sha, ref, path, tag) == [sha |-> sha, ref |-> ref, path |-> path, tag |-> tag]
MCGood == MCImage("new", "new", "", NoTag)

\* Components and fields of the DataScienceCluster that came with v2
MCV2Only == {"ogx", "trainer", "maas", "wva"}

\* A healthy cluster of the given versions
MCBase(from, to) ==
    [from |-> from, to |-> to, st |-> MCStates,
     has |-> [k \in Kinds |-> MCHas(k)], fault |-> [k \in Kinds |-> "ok"], olm |-> TRUE,
     disc |-> TRUE, v1 |-> [served |-> TRUE, lacks |-> IF from[1] = 2 THEN {} ELSE MCV2Only],
     conds |-> {[type |-> "Degraded", status |-> "False", reason |-> "x"],
                [type |-> "TempoAvailable", status |-> "False", reason |-> "x"],
                [type |-> "CapabilityServiceMesh", status |-> "False", reason |-> "Removed"]},
     mon |-> {"managed", "metrics"},
     dash |-> [replicas |-> 2, unavailable |-> [kind |-> "percent", n |-> 50],
               surge |-> [kind |-> "percent", n |-> 25],
               containers |-> <<[cpu |-> 1, mem |-> 1, role |-> "main"],
                                [cpu |-> 1, mem |-> 2, role |-> "sidecar"],
                                [cpu |-> 3, mem |-> 1, role |-> "init"]>>],
     wls |-> {}, owned |-> {}, orch |-> {SpecFields \cup {"goodconfig"}},
     streams |-> MCStreams, ootb |-> MCOotb,
     ists |-> {[is |-> "rs", tag |-> NotVersion, sha |-> "rstudio", build |-> <<2, 25>>]},
     books |-> {<<MCGood>>}]

MC2x == MCBase(<<2, 25>>, <<3, 3>>)
MC35 == MCBase(<<3, 4>>, <<3, 5>>)
MC36 == MCBase(<<3, 5>>, <<3, 6>>)

\* Objects added or taken away, and component states
Toggle(c, k, ts) == [c EXCEPT !.has[k] = (@ \ ts) \cup (ts \ @)]
Tags2x ==
    {<<"DSC", "ready">>, <<"DSC", "serving">>, <<"DSC", "defaultqueue">>, <<"DSC", "two">>,
     <<"DSC", "norelease">>, <<"DSC", "it">>, <<"DSCI", "ready">>, <<"DSCI", "appns">>,
     <<"DSCI", "mesh">>, <<"Subscription", "certmanager">>, <<"Subscription", "kueue">>,
     <<"Subscription", "sm2">>, <<"ClusterVersion", "min">>, <<"ClusterVersion", "it">>,
     <<"CRD", "maistra">>, <<"CRD", "v1alpha1">>, <<"Deployment", "ingress">>,
     <<"Deployment", "dashboard">>, <<"Pod", "oauth">>, <<"Route", "legacy">>,
     <<"ClusterAutoscaler", "it">>, <<"OdhDashboardConfig", "it">>, <<"LocalQueue", "default">>,
     <<"AcceleratorProfile", "a">>, <<"HardwareProfile", "h">>, <<"ConfigMap", "isvcconfig">>,
     <<"ConfigMap", "unmanaged">>, <<"ConfigMap", "badjson">>, <<"ConfigMap", "disallowed">>,
     <<"Notebook", "running">>, <<"Notebook", "connected">>, <<"Notebook", "profiled">>,
     <<"Notebook", "accelerator">>, <<"Notebook", "misnamed">>, <<"Notebook", "legacyprofile">>,
     <<"InferenceService", "serverless">>, <<"InferenceService", "removedruntime">>,
     <<"InferenceService", "accelerator">>, <<"ServingRuntime", "multimodel">>,
     <<"ServingRuntime", "accel">>, <<"LLMInferenceService", "llm">>,
     <<"RayCluster", "codeflare">>, <<"DSPA", "instructlab">>,
     <<"GuardrailsOrchestrator", "otel">>, <<"ServiceMeshMember", "inapp">>,
     <<"KnativeService", "foreign">>}
Tags36 ==
    {<<"CRD", "v1">>, <<"CRD", "stored">>, <<"CRD", "dsc">>, <<"CRD", "va">>, <<"DSC", "wva">>,
     <<"DSC", "maas">>, <<"Deployment", "wva">>, <<"ConfigMap", "wvakey">>, <<"OGXServer", "notls">>,
     <<"TrainJob", "numproc">>, <<"TrainJob", "overrides">>}
MCState(c, x, s) == [c EXCEPT !.st[x] = s]

\* Several objects that only matter together
Pairs ==
    {Toggle(Toggle(MC2x, "Notebook", {"connected"}), "Secret", {"connection"}),
     Toggle(Toggle(MC2x, "Notebook", {"profiled"}), "InfraHardwareProfile", {"profile"}),
     Toggle(Toggle(MC2x, "LLMInferenceService", {"llm"}), "Kuadrant", {"ready"}),
     Toggle(Toggle(MC2x, "Subscription", {"sm3"}), "PackageManifest", {"sm3", "sm3version"}),
     Toggle(MC2x, "Subscription", {"sm3", "sm3csv", "sm34"}),
     Toggle(Toggle(MC2x, "DSCI", {"appns"}), "ServiceMeshMember", {"inapp"}),
     Toggle(MC36, "CRD", {"va"}), [MC2x EXCEPT !.olm = FALSE],
     Toggle(MCState(MC2x, "datasciencepipelines", "Managed"), "Role", {"routes"}),
     Toggle(Toggle(MC2x, "DSPA", {"dspa"}), "Role", {"routes"}),
     Toggle(MCState(MC2x, "trainingoperator", "Managed"), "PyTorchJob", {"active"}),
     Toggle(MCState(MC35, "llamastackoperator", "Managed"), "LlamaStackDistribution", {"l"}),
     Toggle(MCState(MC2x, "llamastackoperator", "Managed"), "LlamaStackDistribution", {"l"}),
     Toggle(MCState(MC2x, "codeflare", "Managed"), "AppWrapper", {"w"}),
     Toggle(MC2x, "GuardrailsOrchestrator", {"g"}),
     Toggle([MC2x EXCEPT !.orch = {SpecFields}], "GuardrailsOrchestrator", {"g"}),
     [MC2x EXCEPT !.mon = @ \cup {"traces"}],
     [MC2x EXCEPT !.dash.unavailable.n = 49, !.dash.replicas = 2],
     [MC2x EXCEPT !.dash.containers[3].cpu = 5]}

\* Workloads in and out of Kueue, with what they own
Work(ns, q) == [id |-> "w", kind |-> "RayJob", ns |-> ns, q |-> q]
Owned(id, owner, q) == [id |-> id, owner |-> owner, q |-> q]
Queues ==
    {[Toggle(MC2x, "Namespace", nss) EXCEPT !.wls = {Work("n", q)}, !.owned = os] :
        nss \in {{}, {"n"}}, q \in {"", "q"},
        os \in {{}, {Owned("a", "w", "q"), Owned("b", "a", "q")},
                {Owned("a", "w", "q"), Owned("b", "a", "p")}}}

Deviations ==
    {Toggle(MC2x, t[1], {t[2]}) : t \in Tags2x} \cup {Toggle(MC36, t[1], {t[2]}) : t \in Tags36}
    \cup {MCState(MC2x, x, s) : x \in DOMAIN MCStates, s \in {"Managed", "Removed"}}
    \cup {MCState(MC36, x, "Managed") : x \in DOMAIN MCStates}
    \cup Pairs \cup Queues

Faulty ==
    {[c EXCEPT !.fault[k] = f] : c \in {MC2x, MC36}, k \in Kinds, f \in {"down", "forbidden"}}
    \cup {[MC2x EXCEPT !.fault[k] = "untyped"] :
             k \in {x \in Kinds : MCHas(x) = {}}}

\* The discovery fails: v1 is read, which is not served, lacks something or not
Undiscovered ==
    {[c EXCEPT !.disc = FALSE, !.v1 = v] :
        c \in {MC36, MC35, Toggle(MC36, "OGXServer", {"notls"}), Toggle(MC36, "DSC", {"wva"}),
              Toggle(Toggle(MC36, "Subscription", {"rhods"}), "OGXServer", {"notls"})},
        v \in {[served |-> b, lacks |-> l] : b \in BOOLEAN, l \in {{}, MCV2Only}}}
    \cup {[c EXCEPT !.disc = FALSE] : c \in {MC2x, MCState(MC2x, "kueue", "Managed")}}

Images ==
    {[MC2x EXCEPT !.books = {<<MCGood, MCImage(sha, ref, path, tag)>>}] :
        sha \in {"", "old", "both", "odd", "new", "mine", "gone", "rstudio", "jup"},
        ref \in {"x", "src-old", "old"}, path \in {"", "reg/cs", "reg/rs"},
        tag \in {NoTag, <<2024, 1>>, <<2025, 2>>}}

MCScenario(c, sev, pats, flags, n) ==
    [cluster |-> c, severity |-> sev, patterns |-> pats, flags |-> flags, events |-> n]

MCScenarios ==
    {MCScenario(c, "info", {"*"}, "ok", 0) : c \in Deviations \cup Faulty \cup Undiscovered}
    \cup {MCScenario(c, "info", {"nbimages"}, "ok", 0) : c \in Images}
    \cup {MCScenario(c, sev, {"platform", "dependencies", "kueueoperator"}, "ok", 0) :
             c \in {MC2x, MCState(MC2x, "kueue", "Managed"),
                    [MC2x EXCEPT !.fault["Subscription"] = "forbidden"],
                    [MCState(MC2x, "kueue", "Managed") EXCEPT !.fault["CRD"] = "down"]},
             sev \in {"prohibited", "critical", "warning", "info"}}
    \cup {MCScenario(MC2x, "info", pats, flags, 0) :
             pats \in {{}, {"none"}, {"*"}}, flags \in {"ok", "bad", "stdin", "schema"}}
    \cup {MCScenario(MCBase(<<3, 3>>, to), "info", {"*"}, "ok", 0) : to \in {<<3, 3>>, <<2, 25>>}}
    \cup {MCScenario(c, "info", {"components", "workloads"}, "ok", 1) :
             c \in {MC2x, MCState(MC2x, "kueue", "Managed"),
                    [MC2x EXCEPT !.wls = {Work("n", "q")}]}}
    \cup {MCScenario(MC36, "info", {"*"}, "ok", 1)}

MCOrder == FoldSet(LAMBDA id, s : Append(s, id), <<>>, CheckIds)
MCRank(s) == [id \in CheckIds |-> CHOOSE i \in DOMAIN s : s[i] = id]
MCOrders == {MCRank(MCOrder), MCRank(Reverse(MCOrder))}
MCEdits == {<<"kueue", "Managed">>, <<"kueue", "Removed">>, <<"kueue", "Unmanaged">>,
            <<"trainer", "Removed">>}
=============================================================================

----------------------------- MODULE MCTrustyAI -----------------------------
(* An instance of TrustyAI for TLC: a service with files and one with a     *)
(* database, a namespace each; two metrics of the same model and name.      *)
EXTENDS TrustyAI

MCNs == [s \in Services |-> s]
MCFormat == [s \in Services |-> CASE s = 1 -> "PVC" [] s = 2 -> "DATABASE" [] OTHER -> "other"]
MCSaved == [s \in Services |-> {s} \X {"a", "b"}]
MCKeyOf == [r \in Requests |-> "m:spd"]
Shared == {<<"otlpEndpoint", "shared">>, <<"tracesEndpoint", "old">>, <<"protocol", "grpc">>,
           <<"otlpExport", "traces">>, <<"otlpExport", "metrics">>}
Bare == {<<"metricsProtocol", "http">>, <<"metricsEndpoint", "#">>, <<"enableTraces", "true">>}
Logs == {<<"otlpExport", "logs">>}
World(o, p, w) ==
    [otel |-> [g \in Orchestrators |-> CASE g = 1 -> Shared [] g = 2 -> o [] OTHER -> Logs],
     probe |-> [g \in Orchestrators |-> CASE g = 1 -> "wrong" [] g = 2 -> p [] OTHER -> "none"],
     pods |-> [i \in Isvcs |-> [old |-> TRUE, new |-> w]]]
MCWorlds == {World(Bare, "ok", "pending"), World(Invalid, "no container", "none")}

Line(do, scope, flags) == [do |-> do, scope |-> scope, flags |-> flags]
Before ==
    {Line("backup data", Services, {}), Line("backup data", {1, 2}, {"dry-run"}),
     Line("backup metrics", {}, {}), Line("backup metrics", {}, {"fairness", "dry-run"}),
     Line("otel", {}, {}), Line("guardrails", {}, {"yes"}), Line("guardrails", {}, {"dry-run"}),
     Line("deadlock", {}, {"yes"})}
After ==
    {Line("restore data", Services, {"yes"}), Line("restore data", {2}, {}),
     Line("restore data", Services, {"dry-run"}),
     Line("restore metrics", {}, {"yes", "skip-existing"}), Line("restore metrics", {}, {}),
     Line("restore metrics", {}, {"dry-run"}), Line("otel", {}, {"yes"})}
MCCommands == [r \in 1 .. MaxRuns |-> IF r = 1 THEN Before ELSE After]
=============================================================================

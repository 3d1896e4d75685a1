---------------------------- MODULE OtelExporter ----------------------------
(***************************************************************************)
(* The otelExporter section of a GuardrailsOrchestrator and its rewriting  *)
(* to the current schema (pkg/migrate/actions/trustyai/otelexporter). A    *)
(* section is a set of settings <<field, value>>; otlpExport, a list in    *)
(* one string, has one setting for each of its words. The value "#" stands *)
(* for one that is no string.                                              *)
(***************************************************************************)

oldSchemaFields == {"protocol", "tracesProtocol", "metricsProtocol", "otlpEndpoint",
                    "tracesEndpoint", "metricsEndpoint", "otlpExport"}
newSchemaFields == {"otlpProtocol", "otlpTracesEndpoint", "otlpMetricsEndpoint",
                    "enableTraces", "enableMetrics"}
Invalid == {<<"not a map", "#">>}

Fields(otel) == {s[1] : s \in otel}
hasAnyOldFields(otel) == Fields(otel) \cap oldSchemaFields # {}

classifyCR(otel) ==
    IF otel = Invalid THEN "INVALID"
    ELSE IF hasAnyOldFields(otel) THEN "NEEDS_MIGRATION"
    ELSE "SKIPPED"

isString(otel, f) == f \in Fields(otel) /\ <<f, "#">> \notin otel
getString(otel, f) ==
    IF isString(otel, f) THEN (CHOOSE s \in otel : s[1] = f)[2] ELSE ""

resolveProtocol(otel) ==
    IF isString(otel, "protocol") THEN getString(otel, "protocol")
    ELSE IF isString(otel, "tracesProtocol") THEN getString(otel, "tracesProtocol")
    ELSE getString(otel, "metricsProtocol")

(* A field of its own wins over the shared one, also when it is empty.      *)
resolveEndpoint(otel, f) ==
    IF isString(otel, f) THEN getString(otel, f) ELSE getString(otel, "otlpEndpoint")

Exports(otel, words) == \E w \in words \cup {"all"} : <<"otlpExport", w>> \in otel

mapOtelFields(otel) ==
    {s \in {<<"otlpProtocol", resolveProtocol(otel)>>,
            <<"otlpTracesEndpoint", resolveEndpoint(otel, "tracesEndpoint")>>,
            <<"otlpMetricsEndpoint", resolveEndpoint(otel, "metricsEndpoint")>>} : s[2] # ""}
    \cup {s \in {<<"enableTraces", "true">>} : Exports(otel, {"trace", "traces"})}
    \cup {s \in {<<"enableMetrics", "true">>} : Exports(otel, {"metric", "metrics"})}

(* The merge patch takes every old field away and sets the new ones.        *)
buildOtelMigrationPatch(otel, newFields) ==
    {s \in otel : s[1] \notin oldSchemaFields \cup Fields(newFields)} \cup newFields
=============================================================================

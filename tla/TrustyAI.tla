------------------------------ MODULE TrustyAI ------------------------------
(***************************************************************************)
(* The TrustyAI actions (pkg/migrate/actions/trustyai): the data of each   *)
(* service and its scheduled metrics are saved before an upgrade and       *)
(* restored after it; GuardrailsOrchestrators get the current otelExporter *)
(* schema and a readiness probe; a rollout that waits for a GPU held by    *)
(* the pod it replaces is unblocked by deleting that pod.                  *)
(*                                                                         *)
(* Files travel as PodCopy says. Meanwhile pods come and go, services are  *)
(* removed and write new data, and users edit. A request may fail before   *)
(* or after it took effect, a local write may fail, the timeout may pass,  *)
(* the command may be killed, and another one follows.                     *)
(***************************************************************************)
EXTENDS PodCopy, OtelExporter, FiniteSets

CONSTANTS
    Services,       \* TrustyAIServices, numbered in the order in which they are listed
    Ns,             \* their namespaces, which are numbers
    Format,         \* what normalizeStorageFormat makes of their storage format
    Unmounted,      \* those whose pods mount no volume that could be the storage
    Saved,          \* the files or rows each has at first
    Requests,       \* scheduled metrics
    KeyOf,          \* "<model>:<metric>"
    Fairness,       \* those that ?type=fairness returns
    Unknown,        \* those metricEndpoints has no path for, or without a request
    Orchestrators,  \* GuardrailsOrchestrators
    Isvcs,          \* InferenceServices
    Worlds,         \* what the orchestrators and the InferenceServices may be like at first
    Commands,       \* the command lines there may be in each run
    MaxRuns,        \* bound: how many commands there are
    MaxEvents       \* bound: failures, timeouts, kills and what others do

Names == {"a", "b", "new"}
Items == Services \X Names
Namespaces == {Ns[s] : s \in Services}
Backups == {"backup data", "backup metrics"}
Probe == {"ok", "wrong", "no container", "none"}
Predictor == [old : BOOLEAN, new : {"none", "pending", "running"}]
(* The settings an otelExporter may come to have. *)
Given == UNION {UNION {w.otel[g] : g \in Orchestrators} : w \in Worlds}
Texts == {s[2] : s \in Given} \cup {"", "true", "new"}
Settings == ({s[1] : s \in Given} \cup newSchemaFields \cup oldSchemaFields) \X Texts
Command == [do : Backups \cup {"restore data", "restore metrics", "otel", "guardrails", "deadlock"},
            scope : SUBSET Services,   \* --data-service-name
            flags : SUBSET {"dry-run", "yes", "skip-existing", "fairness"}]

ASSUME TrustyAIAssumption ==
    /\ Services \subseteq Nat \ {0} /\ IsFiniteSet(Services) /\ Unmounted \subseteq Services
    /\ Ns \in [Services -> Nat \ {0}] /\ Format \in [Services -> {"PVC", "DATABASE", "other"}]
    /\ Saved \in [Services -> SUBSET Items]
    /\ Fairness \subseteq Requests /\ Unknown \subseteq Requests
    /\ Orchestrators \subseteq Nat /\ Isvcs \subseteq Nat
    /\ \A w \in Worlds :
         /\ w.otel \in [Orchestrators -> SUBSET (STRING \X STRING)]
         /\ w.probe \in [Orchestrators -> Probe] /\ w.pods \in [Isvcs -> Predictor]
    /\ MaxRuns \in Nat \ {0} /\ MaxEvents \in Nat
    /\ Commands \in [1 .. MaxRuns -> SUBSET Command]

VARIABLES
    there, up,      \* the services, and those whose pods run
    data,           \* what each has stored
    sched,          \* how often each metric is scheduled, by namespace
    otel, probe,    \* the orchestrators' otelExporter, and their deployments' probe
    pods,           \* the predictor pods: the old one, and the one that replaces it
    dirs, mfiles,   \* what has been saved: data, and metrics
    cmd, run,       \* the command line, and how many there have been
    cli, exit,      \* the process, and how it ended
    events, expired \* what has gone wrong or come in between; the timeout has passed

limits == <<events, expired>>
cluster == <<there, up, data, sched, otel, probe, pods>>
disk == <<dirs, mfiles>>
vars == <<cluster, disk, cmd, run, cli, exit, limits, copy>>

(* One for each run and service that is the first to use it: its name has   *)
(* the namespace and the second, so that a later one may meet it again.     *)
Dir == (1 .. MaxRuns) \X Services
NoDir == <<0, 0>>
Directory == [kind : {"absent", "empty", "data", "stub", "dump"},  \* stub: at most a line
              meta : Services \cup {0}, had : SUBSET Items, files : SUBSET Items]
Counts == [Requests -> Nat]
Nothing == [r \in Requests |-> 0]
Process == [pc : {"start", "list", "service", "mkdir", "copy", "dump", "metadata", "target",
                  "confirm", "go", "namespace", "post", "get", "patch", "end", "idle"},
            todo : SUBSET Nat,       \* services, namespaces, orchestrators or InferenceServices
            cand : SUBSET Nat,       \* what is to be changed
            dir : Dir \cup {NoDir}, pod : Services \cup {0}, target : Services \cup {0},
            had : SUBSET Items,      \* the service's data when the copy began
            entries : Counts, left : Counts, have : SUBSET {KeyOf[r] : r \in Requests},
            ns : Namespaces \cup {0},
            reached : SUBSET Namespaces,
            patch : [Orchestrators -> SUBSET (newSchemaFields \X Texts)],
            failed : BOOLEAN, skipped : BOOLEAN, confirmed : BOOLEAN]

TypeOK ==
    /\ up \subseteq there /\ there \subseteq Services
    /\ data \in [Services -> SUBSET Items] /\ sched \in [Namespaces -> Counts]
    /\ otel \in [Orchestrators -> SUBSET Settings]
    /\ probe \in [Orchestrators -> Probe] /\ pods \in [Isvcs -> Predictor]
    /\ dirs \in [Dir -> Directory]
    /\ mfiles \in [(1 .. MaxRuns) \X Namespaces ->
                     [state : {"none", "torn", "whole"}, requests : Counts]]
    /\ cmd \in Command /\ run \in 1 .. MaxRuns /\ cli \in Process
    /\ exit \in {"none", "ok", "skips", "failures", "killed"}
    /\ events \in 0 .. MaxEvents /\ expired \in BOOLEAN /\ copy \in CopyType(Items)

Started ==
    [pc |-> "start", todo |-> {}, cand |-> {}, dir |-> NoDir, pod |-> 0, target |-> 0,
     had |-> {}, entries |-> Nothing, left |-> Nothing, have |-> {}, ns |-> 0, reached |-> {},
     patch |-> [g \in Orchestrators |-> {}],
     failed |-> FALSE, skipped |-> FALSE, confirmed |-> FALSE]

NoDirectory == [kind |-> "absent", meta |-> 0, had |-> {}, files |-> {}]

Init ==
    /\ there = Services /\ up = Services /\ data = Saved
    /\ sched = [n \in Namespaces |-> [r \in Requests |-> 1]]
    /\ \E w \in Worlds : otel = w.otel /\ probe = w.probe /\ pods = w.pods
    /\ dirs = [d \in Dir |-> NoDirectory]
    /\ mfiles = [f \in (1 .. MaxRuns) \X Namespaces |-> [state |-> "none", requests |-> Nothing]]
    /\ cmd \in Commands[1] /\ run = 1 /\ cli = Started /\ exit = "none"
    /\ events = 0 /\ expired = FALSE /\ copy = NoCopy

-----------------------------------------------------------------------------
Flag(f) == f \in cmd.flags
Cur(c) == c \in cli.todo /\ \A d \in cli.todo : c <= d
First(S) == CHOOSE c \in S : \A d \in S : c <= d

(* A request that succeeds, and one that fails. *)
Works == ~expired /\ UNCHANGED limits
Hit == ~expired /\ events < MaxEvents /\ events' = events + 1 /\ UNCHANGED expired
Fails == Hit \/ (expired /\ UNCHANGED limits)

Same == UNCHANGED <<cmd, run, exit>>
Reads == Same /\ UNCHANGED <<cluster, disk, copy>>

(* A step is completed with a status, and the task goes on at l.            *)
Note(status, l) ==
    cli' = [cli EXCEPT !.pc = l, !.failed = @ \/ status = "failed",
                       !.skipped = @ \/ status = "skipped"]
Next1(status, l) ==     \* with the next of cli.todo
    cli' = [cli EXCEPT !.pc = l, !.todo = @ \ {First(@)}, !.failed = @ \/ status = "failed",
                       !.skipped = @ \/ status = "skipped"]

(* migrate prepare looks at no step; migrate run has its exit code from     *)
(* them.                                                                    *)
Finish ==
    /\ cli.pc = "end"
    /\ cli' = [cli EXCEPT !.pc = "idle"]
    /\ exit' = CASE cmd.do \in Backups -> "ok"
                 [] cmd.do \notin Backups /\ cli.failed -> "failures"
                 [] cmd.do \notin Backups /\ ~cli.failed /\ cli.skipped -> "skips"
                 [] OTHER -> "ok"
    /\ UNCHANGED <<cluster, disk, cmd, run, limits, copy>>

(* The user names what is to be restored, something that is not there or of *)
(* no use, or nothing.                                                      *)
Start ==
    /\ cli.pc = "start"
    /\ \/ cmd.do \notin {"restore data", "restore metrics"} /\ Note("completed", "list")
       \/ cmd.do \in {"restore data", "restore metrics"} /\ Note("skipped", "end")
       \/ cmd.do \in {"restore data", "restore metrics"} /\ Note("failed", "end")
       \/ /\ cmd.do = "restore data"     \* detectBackupType
          /\ \E d \in Dir :
               /\ dirs[d].kind \in {"data", "stub", "dump"}
               /\ cli' = [cli EXCEPT !.pc = "list", !.dir = d]
       \/ /\ cmd.do = "restore metrics"  \* parseBackupEntries
          /\ \E f \in DOMAIN mfiles :
               /\ mfiles[f].state = "whole"
               /\ IF mfiles[f].requests = Nothing
                  THEN Note("skipped", "end")
                  ELSE cli' = [cli EXCEPT !.pc = "list", !.entries = mfiles[f].requests]
    /\ Reads /\ UNCHANGED limits

-----------------------------------------------------------------------------
(* trustyai.data, prepare                                                   *)

discoverTrustyAIServices ==
    /\ cli.pc = "list" /\ cmd.do = "backup data"
    /\ \/ /\ Works
          /\ IF there \cap cmd.scope = {}
             THEN Note("skipped", "end")
             ELSE cli' = [cli EXCEPT !.pc = "service", !.todo = there \cap cmd.scope]
       \/ Fails /\ Note("failed", "end")
    /\ Reads

(* Its own pod or, when that does not run, any TrustyAI pod of the          *)
(* namespace: the last labels tried are the same for all.                   *)
findServicePod(s) == IF s \in up THEN {s} ELSE {t \in up : Ns[t] = Ns[s]}

(* Of these, the ones in which findMountPath finds the storage. *)
findMountPath(s) == findServicePod(s) \ Unmounted

BackupPVC(s) ==
    /\ cli.pc = "service" /\ Cur(s) /\ Format[s] = "PVC"
    /\ \/ /\ Works
          /\ \/ findMountPath(s) = {} /\ Next1("failed", "service")
             \/ \E t \in findMountPath(s) :
                  IF Flag("dry-run")
                  THEN Next1("skipped", "service")
                  ELSE cli' = [cli EXCEPT !.pc = "mkdir", !.pod = t]
       \/ Fails /\ Next1("failed", "service")
    /\ Reads

(* A service that comes in the same second shares the directory.            *)
DirsFor(s) ==
    {<<run, s>>} \cup
      {<<run, t>> : t \in {u \in Services : /\ u < s /\ Format[u] = Format[s] /\ Ns[u] = Ns[s]
                                            /\ dirs[<<run, u>>].kind # "absent"}}

CopyFromPod(s) ==
    /\ cli.pc = "mkdir" /\ Cur(s) /\ Format[s] = "PVC"
    /\ \/ /\ \E d \in DirsFor(s) :
               /\ dirs' = [dirs EXCEPT ![d].kind = "data"]
               /\ cli' = [cli EXCEPT !.pc = "copy", !.dir = d, !.had = data[s]]
          /\ StartCopy("from", data[cli.pod]) /\ UNCHANGED limits
       \/ Hit /\ Next1("failed", "service") /\ UNCHANGED <<dirs, copy>>
    /\ Same /\ UNCHANGED <<cluster, mfiles>>

CopiedFromPod(s) ==
    /\ cli.pc = "copy" /\ cmd.do = "backup data" /\ Cur(s) /\ Copied
    /\ dirs' = [dirs EXCEPT ![cli.dir].files = @ \cup copy.landed]
    /\ copy' = NoCopy
    /\ IF CopyFailed THEN Next1("failed", "service") ELSE Note("completed", "metadata")
    /\ Same /\ UNCHANGED <<cluster, mfiles, limits>>

(* findDBCredentials, findMariaDBPod, detectDumpCommand. A Secret that may  *)
(* not be read ends the process, see Killed.                                *)
BackupDatabase(s) ==
    /\ cli.pc = "service" /\ Cur(s) /\ Format[s] = "DATABASE"
    /\ \/ /\ Works
          /\ CASE s \notin up -> Next1("failed", "service")
               [] s \in up /\ Flag("dry-run") -> Next1("skipped", "service")
               [] s \in up /\ ~Flag("dry-run") -> Note("completed", "mkdir")
       \/ Fails /\ Next1("failed", "service")
    /\ Reads

CreateDump(s) ==
    /\ cli.pc = "mkdir" /\ Cur(s) /\ Format[s] = "DATABASE"
    /\ \E d \in DirsFor(s) :
         \/ /\ dirs' = [dirs EXCEPT ![d].kind = "stub", ![d].files = {}]
            /\ cli' = [cli EXCEPT !.pc = "dump", !.dir = d, !.had = data[s]] /\ UNCHANGED limits
         \/ /\ Hit /\ Next1("failed", "service")
            /\ dirs' = [dirs EXCEPT ![d].kind = IF @ = "absent" THEN "empty" ELSE @]
    /\ Same /\ UNCHANGED <<cluster, mfiles, copy>>

(* A dump that breaks off counts as one, unless it has no two lines.        *)
Dump(s) ==
    /\ cli.pc = "dump" /\ Cur(s)
    /\ \/ /\ Works /\ s \in up /\ Note("completed", "metadata")
          /\ dirs' = [dirs EXCEPT ![cli.dir].kind = "dump", ![cli.dir].files = data[s]]
       \/ /\ Fails \/ (Works /\ s \notin up)
          /\ \/ \E rows \in SUBSET data[s] :
                  /\ dirs' = [dirs EXCEPT ![cli.dir].kind = "dump", ![cli.dir].files = rows]
                  /\ Note("completed", "metadata") \/ Next1("failed", "service")
             \/ dirs' = [dirs EXCEPT ![cli.dir] = NoDirectory] /\ Next1("failed", "service")
    /\ Same /\ UNCHANGED <<cluster, mfiles, copy>>

writeMetadata(s) ==
    /\ cli.pc = "metadata" /\ Cur(s)
    /\ \/ /\ dirs' = [dirs EXCEPT ![cli.dir].meta = s, ![cli.dir].had = cli.had]
          /\ Next1("completed", "service") /\ UNCHANGED limits
       \/ Hit /\ dirs' = [dirs EXCEPT ![cli.dir].meta = 0] /\ Next1("failed", "service")
    /\ Same /\ UNCHANGED <<cluster, mfiles, copy>>

UnsupportedFormat(s) ==
    /\ cli.pc = "service" /\ Cur(s) /\ Format[s] = "other"
    /\ Next1("skipped", "service") /\ Reads /\ UNCHANGED limits

-----------------------------------------------------------------------------
(* trustyai.data, run                                                       *)

(* The service the metadata names, else the first of its namespace, else    *)
(* the first there is.                                                      *)
resolveTargetService ==
    /\ cli.pc = "list" /\ cmd.do = "restore data"
    /\ LET found == there \cap cmd.scope
           meta == dirs[cli.dir].meta
           near == {s \in found : meta # 0 /\ Ns[s] = Ns[meta]}
           to == CASE meta \in found -> meta
                   [] meta \notin found /\ near # {} -> First(near)
                   [] OTHER -> First(found)
       IN \/ Works /\ found = {} /\ Note("failed", "end")
          \/ Works /\ found # {} /\ cli' = [cli EXCEPT !.pc = "target", !.target = to]
          \/ Fails /\ Note("failed", "end")
    /\ Reads

RestorePVC ==
    /\ cli.pc = "target" /\ dirs[cli.dir].kind = "data"
    /\ IF dirs[cli.dir].files = {}
       THEN Note("skipped", "end") /\ UNCHANGED limits
       ELSE LET found == IF dirs[cli.dir].meta = 0 THEN findMountPath(cli.target)
                                                   ELSE findServicePod(cli.target)
            IN \/ Works /\ found = {} /\ Note("failed", "end")
               \/ /\ Works
                  /\ \E p \in found : IF Flag("dry-run")
                                      THEN Note("skipped", "end")
                                      ELSE cli' = [cli EXCEPT !.pc = "confirm", !.pod = p]
               \/ Fails /\ Note("failed", "end")
    /\ Reads

(* Without credentials of its own a service has those of another one of its *)
(* namespace.                                                               *)
DatabasesOf(t) ==
    IF Format[t] = "DATABASE" THEN {t} \cap up
    ELSE {u \in up : Ns[u] = Ns[t] /\ Format[u] = "DATABASE"}

RestoreDatabase ==
    /\ cli.pc = "target" /\ dirs[cli.dir].kind \in {"stub", "dump"}
    /\ IF dirs[cli.dir].kind = "stub"
       THEN Note("failed", "end") /\ UNCHANGED limits
       ELSE \/ Works /\ DatabasesOf(cli.target) = {} /\ Note("failed", "end")
            \/ /\ Works
               /\ \E p \in DatabasesOf(cli.target) :
                    IF Flag("dry-run") THEN Note("skipped", "end")
                                       ELSE cli' = [cli EXCEPT !.pc = "confirm", !.pod = p]
            \/ Fails /\ Note("failed", "end")
    /\ Reads

(* confirmation.Prompt, of this task and of the others *)
Confirm ==
    /\ cli.pc = "confirm"
    /\ \/ cli' = [cli EXCEPT !.pc = "go", !.confirmed = TRUE]
       \/ ~Flag("yes") /\ Note("skipped", "end")
    /\ Reads /\ UNCHANGED limits

CopyToPod ==
    /\ cli.pc = "go" /\ cmd.do = "restore data" /\ dirs[cli.dir].kind = "data"
    /\ StartCopy("to", dirs[cli.dir].files) /\ Note("completed", "copy")
    /\ Same /\ UNCHANGED <<cluster, disk, limits>>

CopiedToPod ==
    /\ cli.pc = "copy" /\ cmd.do = "restore data" /\ Copied
    /\ data' = [data EXCEPT ![cli.pod] = @ \cup copy.landed] /\ copy' = NoCopy
    /\ Note(IF CopyFailed THEN "failed" ELSE "completed", "end")
    /\ Same /\ UNCHANGED <<there, up, sched, otel, probe, pods, disk, limits>>

(* The dump drops the tables it fills. Only a line with ERROR makes a load  *)
(* that broke off a failure.                                                *)
LoadDump ==
    /\ cli.pc = "go" /\ cmd.do = "restore data" /\ dirs[cli.dir].kind = "dump"
    /\ \/ /\ Works /\ cli.pod \in up /\ Note("completed", "end")
          /\ data' = [data EXCEPT ![cli.pod] = dirs[cli.dir].files]
       \/ /\ Fails \/ (Works /\ cli.pod \notin up)
          /\ \E rows \in (SUBSET dirs[cli.dir].files) \cup {data[cli.pod]},
                status \in {"failed", "completed"} :
               data' = [data EXCEPT ![cli.pod] = rows] /\ Note(status, "end")
    /\ Same /\ UNCHANGED <<there, up, sched, otel, probe, pods, disk, copy>>

-----------------------------------------------------------------------------
(* trustyai.metrics                                                         *)

(* discoverTrustyAINamespaces. A namespace whose route cannot be read is    *)
(* left out; only when none is left there is a second round.                *)
DiscoverRoutes ==
    /\ cli.pc = "list" /\ cmd.do \in {"backup metrics", "restore metrics"}
    /\ LET routed == {Ns[s] : s \in there} IN
       \/ \E found \in SUBSET routed :
            LET missed == Cardinality(routed \ found)
                          + (IF found = {} /\ routed # {} THEN 1 ELSE 0) IN
              /\ ~expired /\ events + missed <= MaxEvents
              /\ events' = events + missed /\ UNCHANGED expired
              /\ IF found = {}
                 THEN Note(IF cmd.do = "backup metrics" THEN "skipped" ELSE "failed", "end")
                 ELSE cli' = [cli EXCEPT !.todo = found, !.reached = found,
                                         !.pc = IF cmd.do = "backup metrics" \/ Flag("dry-run")
                                                THEN "namespace" ELSE "confirm"]
       \/ Fails /\ Note("failed", "end")
    /\ Reads

Serving(n) == \E s \in up : Ns[s] = n

backupNamespace(n) ==
    /\ cli.pc = "namespace" /\ cmd.do = "backup metrics" /\ Cur(n)
    /\ LET asked == IF Flag("fairness") THEN Fairness ELSE Requests
           got == [r \in Requests |-> IF r \in asked THEN sched[n][r] ELSE 0]
       IN \/ /\ Works /\ Serving(n)
             /\ IF Flag("dry-run")
                THEN Next1("skipped", "namespace") /\ UNCHANGED mfiles
                ELSE /\ mfiles' = [mfiles EXCEPT ![<<run, n>>] =
                                     [state |-> "whole", requests |-> got]]
                     /\ Next1("completed", "namespace")
          \/ /\ Fails \/ (Works /\ ~Serving(n))
             /\ Next1("failed", "namespace") /\ UNCHANGED mfiles
          \/ /\ Hit /\ Serving(n) /\ ~Flag("dry-run") /\ Next1("failed", "namespace")
             /\ mfiles' = [mfiles EXCEPT ![<<run, n>>] = [state |-> "torn", requests |-> Nothing]]
    /\ Same /\ UNCHANGED <<cluster, dirs, copy>>

(* fetchExistingMetrics; without an answer nothing counts as existing.      *)
restoreToNamespace(n) ==
    /\ cli.pc \in {"go", "namespace"} /\ cmd.do = "restore metrics" /\ Cur(n)
    /\ \E have \in {{}, {KeyOf[r] : r \in {q \in Requests : sched[n][q] > 0}}} :
         /\ \/ ~Flag("skip-existing") /\ have = {} /\ UNCHANGED limits
            \/ /\ Flag("skip-existing") /\ Works /\ Serving(n)
               /\ have = {KeyOf[r] : r \in {q \in Requests : sched[n][q] > 0}}
            \/ Flag("skip-existing") /\ have = {} /\ (Fails \/ (Works /\ ~Serving(n)))
         /\ cli' = [cli EXCEPT !.pc = "post", !.ns = n, !.have = have, !.left = cli.entries]
    /\ Reads

Posted(r) == sched' = [sched EXCEPT ![cli.ns][r] = @ + 1]
Entry(r, status) ==
    cli' = [cli EXCEPT !.left[r] = @ - 1, !.failed = @ \/ status = "failed",
                       !.skipped = @ \/ status = "skipped"]

(* Mutant: an answer other than 200 is taken for success. *)
restoreMetricAnyStatus(r) ==
    /\ cli.pc = "post" /\ cli.left[r] > 0
    /\ IF KeyOf[r] \in cli.have \/ r \in Unknown \/ Flag("dry-run")
       THEN Entry(r, "skipped") /\ UNCHANGED <<sched, limits>>
       ELSE \/ Works /\ Serving(cli.ns) /\ Posted(r) /\ Entry(r, "completed")
            \/ (Fails \/ (Works /\ ~Serving(cli.ns))) /\ UNCHANGED sched /\ Entry(r, "completed")
    /\ Same /\ UNCHANGED <<there, up, data, otel, probe, pods, disk, copy>>

restoreMetric(r) ==
    /\ cli.pc = "post" /\ cli.left[r] > 0
    /\ IF KeyOf[r] \in cli.have \/ r \in Unknown \/ Flag("dry-run")
       THEN /\ Entry(r, IF KeyOf[r] \notin cli.have /\ r \in Unknown THEN "failed" ELSE "skipped")
            /\ UNCHANGED <<sched, limits>>
       ELSE \/ Works /\ Serving(cli.ns) /\ Posted(r) /\ Entry(r, "completed")
            \/ Hit /\ Serving(cli.ns) /\ Posted(r) /\ Entry(r, "failed")
            \/ (Fails \/ (Works /\ ~Serving(cli.ns))) /\ UNCHANGED sched /\ Entry(r, "failed")
    /\ Same /\ UNCHANGED <<there, up, data, otel, probe, pods, disk, copy>>

RestoredToNamespace ==
    /\ cli.pc = "post" /\ cli.left = Nothing
    /\ Next1(IF Flag("dry-run") THEN "skipped" ELSE "completed", "namespace")
    /\ Reads /\ UNCHANGED limits

-----------------------------------------------------------------------------
(* What is found to need a change is changed once the user agrees.          *)
Propose(cand, status) ==
    CASE cand = {} -> Note(status, "end")
      [] cand # {} /\ Flag("dry-run") -> Note("skipped", "end")
      [] OTHER -> cli' = [cli EXCEPT !.pc = "confirm", !.todo = cand, !.cand = cand]

(* trustyai.migrate-gorch-otel-exporter: evaluateCR, with the copy listed   *)
ListExporters ==
    /\ cli.pc = "list" /\ cmd.do = "otel"
    /\ LET class(g) == classifyCR(otel[g])
           new(g) == IF class(g) = "NEEDS_MIGRATION" THEN mapOtelFields(otel[g]) ELSE {}
           cand == {g \in Orchestrators : new(g) # {}}
           failed == \E g \in Orchestrators : class(g) = "INVALID"
           skipped == \E g \in Orchestrators : class(g) # "INVALID" /\ new(g) = {}
           done == cand = {} \/ Flag("dry-run")
       IN \/ /\ Works
             /\ cli' = [cli EXCEPT !.pc = IF done THEN "end" ELSE "confirm",
                                   !.todo = cand, !.cand = cand,
                                   !.patch = [g \in Orchestrators |-> new(g)],
                                   !.failed = failed,
                                   !.skipped = \/ skipped \/ Orchestrators = {}
                                               \/ (cand # {} /\ Flag("dry-run"))]
          \/ Fails /\ Note("failed", "end")
    /\ Reads

PatchExporter(g) ==
    /\ cli.pc \in {"go", "patch"} /\ cmd.do = "otel" /\ Cur(g)
    /\ LET patched == [otel EXCEPT ![g] = buildOtelMigrationPatch(@, cli.patch[g])] IN
         \/ Works /\ otel' = patched /\ Next1("completed", "patch")
         \/ Hit /\ otel' = patched /\ Next1("failed", "patch")
         \/ Fails /\ UNCHANGED otel /\ Next1("failed", "patch")
    /\ Same /\ UNCHANGED <<there, up, data, sched, probe, pods, disk, copy>>

(* trustyai.patch-guardrails *)
discoverGorchs ==
    /\ cli.pc = "list" /\ cmd.do = "guardrails"
    /\ \/ /\ Works
          /\ IF Orchestrators = {} THEN Note("skipped", "end")
                                   ELSE cli' = [cli EXCEPT !.pc = "get", !.todo = Orchestrators]
       \/ Fails /\ Note("failed", "end")
    /\ Reads

(* One Deployment that cannot be read ends the task, and one that may not   *)
(* be read ends the process, see Killed.                                    *)
checkProbe(g) ==
    /\ cli.pc = "get" /\ Cur(g)
    /\ \/ Works /\ probe[g] \in {"none", "ok"} /\ Next1("skipped", "get")
       \/ /\ Works /\ probe[g] \in {"wrong", "no container"}
          /\ cli' = [cli EXCEPT !.todo = @ \ {g}, !.cand = @ \cup {g}]
       \/ Fails /\ Note("failed", "end")
    /\ Reads

ProbesChecked ==
    /\ cli.pc = "get" /\ cli.todo = {}
    /\ Propose(cli.cand, "completed") /\ Reads /\ UNCHANGED limits

(* A container that is not there would be added without an image, which the *)
(* API server refuses.                                                      *)
PatchProbe(g) ==
    /\ cli.pc \in {"go", "patch"} /\ cmd.do = "guardrails" /\ Cur(g)
    /\ \/ /\ Works /\ probe[g] # "no container"
          /\ probe' = [probe EXCEPT ![g] = "ok"] /\ Next1("completed", "patch")
       \/ /\ Hit /\ probe[g] # "no container"
          /\ probe' = [probe EXCEPT ![g] = "ok"] /\ Next1("failed", "patch")
       \/ /\ Fails \/ (Works /\ probe[g] = "no container")
          /\ UNCHANGED probe /\ Next1("failed", "patch")
    /\ Same /\ UNCHANGED <<there, up, data, sched, otel, pods, disk, copy>>

(* trustyai.break-gpu-deadlock *)
detectDeadlocks ==
    /\ cli.pc = "list" /\ cmd.do = "deadlock"
    /\ \/ Works /\ Propose({i \in Isvcs : pods[i].old /\ pods[i].new = "pending"}, "skipped")
       \/ Fails /\ Note("failed", "end")
    /\ Reads

DeletePod(i) ==
    /\ cli.pc \in {"go", "patch"} /\ cmd.do = "deadlock" /\ Cur(i)
    /\ \/ Works /\ pods[i].old /\ pods' = [pods EXCEPT ![i].old = FALSE] /\ Next1("completed", "patch")
       \/ Hit /\ pods[i].old /\ pods' = [pods EXCEPT ![i].old = FALSE] /\ Next1("failed", "patch")
       \/ (Fails \/ (Works /\ ~pods[i].old)) /\ UNCHANGED pods /\ Next1("failed", "patch")
    /\ Same /\ UNCHANGED <<there, up, data, sched, otel, probe, disk, copy>>

AllDone ==
    /\ cli.pc \in {"service", "namespace", "patch"} /\ cli.todo = {}
    /\ Note("completed", "end") /\ Reads /\ UNCHANGED limits

CLI ==
    \/ Start \/ Finish \/ Confirm \/ AllDone
    \/ discoverTrustyAIServices \/ resolveTargetService \/ RestorePVC \/ RestoreDatabase
    \/ CopyToPod \/ CopiedToPod \/ LoadDump
    \/ DiscoverRoutes \/ RestoredToNamespace
    \/ ListExporters \/ discoverGorchs \/ ProbesChecked \/ detectDeadlocks
    \/ \E s \in Services :
         \/ BackupPVC(s) \/ CopyFromPod(s) \/ CopiedFromPod(s) \/ BackupDatabase(s)
         \/ CreateDump(s) \/ Dump(s) \/ writeMetadata(s) \/ UnsupportedFormat(s)
    \/ \E n \in Namespaces : backupNamespace(n) \/ restoreToNamespace(n)
    \/ \E r \in Requests : restoreMetric(r)
    \/ \E g \in Orchestrators : PatchExporter(g) \/ checkProbe(g) \/ PatchProbe(g)
    \/ \E i \in Isvcs : DeletePod(i)

-----------------------------------------------------------------------------
(* The two goroutines of a copy. What the pod does ends with it, and with   *)
(* the timeout.                                                             *)
Copying ==
    /\ cli.pc = "copy"
    /\ \/ CopyStep /\ (copy'.landed # copy.landed => cli.pod \in up /\ ~expired)
       \/ CopyFailure /\ (cli.pod \notin up \/ expired)
    /\ Same /\ UNCHANGED <<cluster, disk, cli, limits>>

CopyBreaks ==
    /\ cli.pc = "copy" /\ CopyFailure /\ Hit
    /\ Same /\ UNCHANGED <<cluster, disk, cli>>

Event == events < MaxEvents /\ events' = events + 1 /\ UNCHANGED expired
Others == Event /\ Same /\ UNCHANGED <<disk, cli, copy>>

Expire ==
    /\ cli.pc # "idle" /\ ~expired /\ events < MaxEvents
    /\ events' = events + 1 /\ expired' = TRUE
    /\ Same /\ UNCHANGED <<cluster, disk, cli, copy>>

(* The process is killed or panics: the Get of an object the user may not   *)
(* read returns none and no error, and what it returns is dereferenced.     *)
(* What has landed stays.                                                   *)
Killed ==
    /\ cli.pc # "idle" /\ Event
    /\ cli' = [cli EXCEPT !.pc = "idle"] /\ exit' = "killed" /\ copy' = NoCopy
    /\ dirs' = IF copy.way = "from"
               THEN [dirs EXCEPT ![cli.dir].files = @ \cup copy.landed] ELSE dirs
    /\ data' = IF copy.way = "to"
               THEN [data EXCEPT ![cli.pod] = @ \cup copy.landed] ELSE data
    /\ UNCHANGED <<there, up, sched, otel, probe, pods, mfiles, cmd, run>>

RunAgain ==
    /\ cli.pc = "idle" /\ run < MaxRuns
    /\ run' = run + 1 /\ cmd' \in Commands[run'] /\ cli' = Started /\ exit' = "none"
    /\ expired' = FALSE
    /\ UNCHANGED <<cluster, disk, copy, events>>

(* Between two commands a service comes to an upgrade without its data      *)
(* (external).                                                              *)
Upgrade(s) ==
    /\ cli.pc = "idle" /\ Others
    /\ data' = [data EXCEPT ![s] = {}]
    /\ sched' = [sched EXCEPT ![Ns[s]] = Nothing]
    /\ UNCHANGED <<there, up, otel, probe, pods>>

Observe(s) ==   \* external: the service stores something
    /\ s \in up /\ <<s, "new">> \notin data[s] /\ Others
    /\ data' = [data EXCEPT ![s] = @ \cup {<<s, "new">>}]
    /\ UNCHANGED <<there, up, sched, otel, probe, pods>>

PodGoes(s) ==   \* external
    /\ s \in up /\ Others /\ up' = up \ {s} /\ there' \in {there, there \ {s}}
    /\ UNCHANGED <<data, sched, otel, probe, pods>>

(* The deployment starts it again, and a rollout goes on (external).        *)
Operator ==
    /\ \/ \E s \in there \ up : up' = up \cup {s} /\ UNCHANGED pods
       \/ /\ UNCHANGED up
          /\ \E i \in Isvcs :
               \/ ~pods[i].old /\ pods[i].new = "pending" /\ pods' = [pods EXCEPT ![i].new = "running"]
               \/ pods[i].old /\ pods[i].new = "running" /\ pods' = [pods EXCEPT ![i].old = FALSE]
    /\ Same /\ UNCHANGED <<there, data, sched, otel, probe, disk, cli, copy, limits>>

GPUComesFree(i) ==  \* external
    /\ pods[i].old /\ pods[i].new = "pending" /\ Others
    /\ pods' = [pods EXCEPT ![i].new = "running"]
    /\ UNCHANGED <<there, up, data, sched, otel, probe>>

(* A user changes where traces go (external).                               *)
EditExporter(g) ==
    /\ <<"tracesEndpoint", "old">> \in otel[g] /\ Others
    /\ otel' = [otel EXCEPT ![g] = (@ \ {<<"tracesEndpoint", "old">>})
                                   \cup {<<"tracesEndpoint", "new">>}]
    /\ UNCHANGED <<there, up, data, sched, probe, pods>>

Over == cli.pc = "idle" /\ run = MaxRuns /\ UNCHANGED vars

Next ==
    \/ CLI \/ Copying \/ CopyBreaks \/ Expire \/ Killed \/ RunAgain \/ Operator \/ Over
    \/ \E s \in Services : Upgrade(s) \/ Observe(s) \/ PodGoes(s)
    \/ \E i \in Isvcs : GPUComesFree(i)
    \/ \E g \in Orchestrators : EditExporter(g)

Spec == Init /\ [][Next]_vars

(* The process and the goroutine go on as long as they can; users answer    *)
(* prompts.                                                                 *)
FairSpec == Spec /\ WF_vars(CLI) /\ WF_vars(Copying)

-----------------------------------------------------------------------------
(* A directory with metadata, the mark of a PVC backup that is complete,    *)
(* has everything the service it names had stored when the copy began,      *)
(* however the two goroutines of CopyFromPod and their failures interleave, *)
(* and whatever earlier runs and kills have left (backupPVC).               *)
MetadataMeansWhole ==
    \A d \in Dir : dirs[d].kind = "data" /\ dirs[d].meta # 0 => dirs[d].had \subseteq dirs[d].files

(* A run that reports no failure has done what the user agreed to: the      *)
(* files are in the volume, each namespace reached has every metric of the  *)
(* file (with --metrics-skip-existing, one of that model and name), no      *)
(* exporter has a field of the old schema, each Deployment has its probe,   *)
(* and each pod that held a GPU is gone. A load of a database is left out:  *)
(* see LoadDump.                                                            *)
OkMeansDone ==
    [][exit = "none" /\ exit' \in {"ok", "skips"} /\ cli.confirmed =>
      CASE cmd.do = "restore data" ->
             dirs[cli.dir].kind = "data" => dirs[cli.dir].files \subseteq data[cli.pod]
        [] cmd.do = "restore metrics" ->
             \A n \in cli.reached : \A r \in Requests : cli.entries[r] > 0 =>
               \E q \in Requests : /\ KeyOf[q] = KeyOf[r] /\ sched[n][q] > 0
                                   /\ ~Flag("skip-existing") => q = r
        [] cmd.do = "otel" -> \A g \in cli.cand : ~hasAnyOldFields(otel[g])
        [] cmd.do = "guardrails" -> \A g \in cli.cand : probe[g] = "ok"
        [] cmd.do = "deadlock" -> \A i \in cli.cand : ~pods[i].old]_vars

(* Every command ends, also when one side of a copy stops before the other  *)
(* (CopyFromPod, CopyToPod).                                                *)
RunsEnd == []<>(cli.pc = "idle")
=============================================================================

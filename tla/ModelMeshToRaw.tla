---------------------------- MODULE ModelMeshToRaw ----------------------------
(***************************************************************************)
(* The run task of modelserving.modelmesh-to-raw                           *)
(* (pkg/migrate/actions/modelserving/modelmesh_to_raw.go and support.go).  *)
(*                                                                         *)
(* InferenceServices that share a multi-model ServingRuntime are converted *)
(* one after the other: auth resources, then the runtime, then the service *)
(* itself, and the runtime is put back if the service cannot be changed.   *)
(* A model kept on a PVC gets a runtime of its own and a new storage URI.  *)
(* At the end the modelmesh-enabled label is taken from the namespaces in  *)
(* which everything worked. Any request may fail, before or after it took  *)
(* effect; a run may be cut off and started again; runs may overlap.       *)
(***************************************************************************)
EXTENDS Naturals

CONSTANTS
    Procs,        \* CLI processes
    Services,     \* InferenceServices
    Namespaces,
    Runtimes,     \* ServingRuntimes
    Ns,           \* the namespace of each service
    Layouts,      \* what there may be, see Layout
    Auth,         \* the services with the enable-auth annotation
    NoRuntime,
    Nobody        \* no InferenceService

Storage == {"no key", "standard", "pvc", "bad pvc", "malformed"}

(* The runtime each service refers to, and what the storage-config secret  *)
(* of its namespace says of its storage key; which services are there from *)
(* the beginning and which may come later; the flags a process may have,   *)
(* --dry-run and --yes; and, a bound, how often each process is started.   *)
Layout == [runtime : [Services -> Runtimes \cup {NoRuntime}], stored : [Services -> Storage],
           first : SUBSET Services, later : SUBSET Services,
           flags : SUBSET SUBSET {"dry-run", "yes"}, starts : [Procs -> Nat]]

ASSUME ModelMeshAssumption ==
    /\ Ns \in [Services -> Namespaces]
    /\ Layouts \subseteq Layout /\ NoRuntime \notin Runtimes
    /\ \A l \in Layouts, s, t \in Services :
         l.runtime[s] = l.runtime[t] /\ l.runtime[s] # NoRuntime => Ns[s] = Ns[t]
    /\ Auth \subseteq Services
    /\ Nobody \notin Services
    /\ {"absent", "multi", "single", "none"} \cap Services = {}

VARIABLES
    \* the cluster
    mode,         \* deployment mode of each service, or "absent"
    uri,          \* services whose storage was rewritten to a PVC URI
    runtime,      \* "absent", "multi", "single", or the service it was rewritten for
    layout,       \* the Layout
    label,        \* namespaces with the modelmesh-enabled label
    auth,         \* services with all of their auth resources
    \* the processes
    dry, yes, starts,
    pc,
    listed,       \* what the list returned
    late,         \* what was deployed after it
    fresh,        \* of those, the ones nobody has changed since
    standard, pvc,         \* what is left to convert, by kind of storage
    cur,
    snap,         \* the runtime as it was before the current conversion, or "none"
    processed,    \* namespaces with a converted service, until their label is seen to
    blocked,      \* namespaces with one that failed
    failed, exit,
    \* what the user has been told
    reported      \* services with a failed step, or not finished at a cut-off

cluster == <<mode, uri, runtime, label, auth>>
options == <<dry, yes, starts, layout, late>>
plan == <<listed, standard, pvc>>
vars == <<cluster, options, plan, pc, fresh, cur, snap, processed, blocked, failed, exit,
          reported>>

RuntimeOf == layout.runtime
Stored == layout.stored

RuntimeStates == {"absent", "multi", "single"} \cup Services
InTheWorks == {"runtime", "pvc runtime", "patch", "update", "restore"}
Over == {"new", "done", "crashed"}
PCs == InTheWorks \cup Over \cup {"list", "classify", "validate", "confirm", "loop"}

TypeOK ==
    /\ mode \in [Services -> {"ModelMesh", "RawDeployment", "absent"}]
    /\ uri \subseteq Services /\ auth \subseteq Services /\ reported \subseteq Services
    /\ runtime \in [Runtimes -> RuntimeStates]
    /\ label \subseteq Namespaces /\ layout \in Layout
    /\ dry \in [Procs -> BOOLEAN] /\ yes \in [Procs -> BOOLEAN]
    /\ starts \in [Procs -> Nat]
    /\ pc \in [Procs -> PCs]
    /\ late \in [Procs -> SUBSET Services]
    /\ listed \in [Procs -> SUBSET Services] /\ fresh \in [Procs -> SUBSET Services]
    /\ standard \in [Procs -> SUBSET Services] /\ pvc \in [Procs -> SUBSET Services]
    /\ cur \in [Procs -> Services \cup {Nobody}]
    /\ snap \in [Procs -> RuntimeStates \cup {"none"}]
    /\ processed \in [Procs -> SUBSET Namespaces]
    /\ blocked \in [Procs -> SUBSET Namespaces]
    /\ failed \in [Procs -> BOOLEAN]
    /\ exit \in [Procs -> {"none", "ok", "failures", "declined"}]

(* The state of a process that starts. *)
Reset(p) ==
    /\ listed' = [listed EXCEPT ![p] = {}]
    /\ late' = [late EXCEPT ![p] = {}]
    /\ fresh' = [fresh EXCEPT ![p] = {}]
    /\ standard' = [standard EXCEPT ![p] = {}]
    /\ pvc' = [pvc EXCEPT ![p] = {}]
    /\ cur' = [cur EXCEPT ![p] = Nobody]
    /\ snap' = [snap EXCEPT ![p] = "none"]
    /\ processed' = [processed EXCEPT ![p] = {}]
    /\ blocked' = [blocked EXCEPT ![p] = {}]
    /\ failed' = [failed EXCEPT ![p] = FALSE]
    /\ exit' = [exit EXCEPT ![p] = "none"]

Init ==
    /\ layout \in Layouts
    /\ mode = [s \in Services |-> IF s \in layout.first THEN "ModelMesh" ELSE "absent"]
    /\ runtime \in [Runtimes -> {"absent", "multi"}]
    /\ label = Namespaces
    /\ uri = {} /\ auth = {} /\ reported = {}
    /\ dry = [p \in Procs |-> FALSE] /\ yes = dry
    /\ starts = [p \in Procs |-> 0]
    /\ pc = [p \in Procs |-> "new"]
    /\ listed = [p \in Procs |-> {}] /\ fresh = listed /\ late = listed
    /\ standard = listed /\ pvc = listed
    /\ cur = [p \in Procs |-> Nobody]
    /\ snap = [p \in Procs |-> "none"]
    /\ processed = [p \in Procs |-> {}] /\ blocked = processed
    /\ failed = [p \in Procs |-> FALSE]
    /\ exit = [p \in Procs |-> "none"]

-----------------------------------------------------------------------------
Goto(p, l) == pc' = [pc EXCEPT ![p] = l]

End(p, outcome) ==
    /\ Goto(p, "done")
    /\ exit' = [exit EXCEPT ![p] = outcome]

Status(p) == IF failed[p] THEN "failures" ELSE "ok"

(* listISVCsByDeploymentMode *)
ListISVCs(p) ==
    /\ pc[p] = "list"
    /\ LET found == {s \in Services : mode[s] = "ModelMesh"} IN
         /\ IF found = {} THEN End(p, "ok") ELSE Goto(p, "classify") /\ UNCHANGED exit
         /\ listed' = [listed EXCEPT ![p] = found]
         /\ fresh' = [fresh EXCEPT ![p] = found]
    /\ UNCHANGED <<cluster, options, standard, pvc, cur, snap, processed, blocked, failed,
                   reported>>

(* A list the user may not read is an empty one. *)
ListFails(p) ==
    /\ pc[p] = "list"
    /\ \/ End(p, "failures") /\ failed' = [failed EXCEPT ![p] = TRUE]
       \/ End(p, "ok") /\ UNCHANGED failed
    /\ UNCHANGED <<cluster, options, plan, fresh, cur, snap, processed, blocked, reported>>

(* findPVCServingRuntimeConflicts *)
Shared(S, T) == \E s \in S, t \in T : s # t /\ RuntimeOf[s] = RuntimeOf[t] /\ RuntimeOf[s] # NoRuntime

Conflicts(std, onPVC, skipped) ==
    Shared(onPVC, onPVC \cup std \cup skipped) \/ Shared(std, skipped)

(* A mutant: a service whose storage could not be found out is standard.   *)
KindOrStandard(s, unread) ==
    IF Stored[s] \in {"pvc", "bad pvc"} /\ Ns[s] \notin unread THEN "pvc" ELSE "standard"

(* classifyISVCsByStorageType: the secret of a namespace is read once, and *)
(* a service whose entry cannot be read or decoded is left out.            *)
Kind(s, unread) ==
    IF Stored[s] # "no key" /\ (Ns[s] \in unread \/ Stored[s] = "malformed")
    THEN "skipped"
    ELSE IF Stored[s] \in {"pvc", "bad pvc"} THEN "pvc" ELSE "standard"

Classify(p) ==
    /\ pc[p] = "classify"
    /\ \E unread \in SUBSET Namespaces :
         LET skipped == {s \in listed[p] : Kind(s, unread) = "skipped"}
             onPVC == {s \in listed[p] : Kind(s, unread) = "pvc"}
             std == {s \in listed[p] : Kind(s, unread) = "standard"}
         IN
         /\ standard' = [standard EXCEPT ![p] = std]
         /\ pvc' = [pvc EXCEPT ![p] = onPVC]
         /\ blocked' = [blocked EXCEPT ![p] = {Ns[s] : s \in skipped}]
         /\ IF Conflicts(std, onPVC, skipped)
            THEN /\ End(p, "failures")
                 /\ failed' = [failed EXCEPT ![p] = TRUE]
                 /\ reported' = reported \cup listed[p]
            ELSE /\ Goto(p, "validate")
                 /\ failed' = [failed EXCEPT ![p] = skipped # {}]
                 /\ reported' = reported \cup skipped
                 /\ UNCHANGED exit
    /\ UNCHANGED <<cluster, options, listed, fresh, cur, snap, processed>>

(* validatePVCServingRuntimeAssignments, its reads of the runtimes.        *)
Validate(p) ==
    /\ pc[p] = "validate"
    /\ \/ /\ \A s \in pvc[p] : RuntimeOf[s] # NoRuntime /\ runtime[RuntimeOf[s]] # "absent"
          /\ Goto(p, IF yes[p] \/ dry[p] THEN "loop" ELSE "confirm")
          /\ UNCHANGED <<failed, exit, reported>>
       \/ /\ pvc[p] # {}
          /\ End(p, "failures")
          /\ failed' = [failed EXCEPT ![p] = TRUE]
          /\ reported' = reported \cup listed[p]
    /\ UNCHANGED <<cluster, options, plan, fresh, cur, snap, processed, blocked>>

Confirm(p) ==
    /\ pc[p] = "confirm"
    /\ \/ Goto(p, "loop") /\ UNCHANGED exit
       \/ End(p, IF failed[p] THEN "failures" ELSE "declined")
    /\ UNCHANGED <<cluster, options, plan, fresh, cur, snap, processed, blocked, failed, reported>>

-----------------------------------------------------------------------------
(* convertStandardISVCs, then convertPVCISVCs.                             *)

(* A mutant: a failure does not block the namespace.                       *)
FailUnblocked(p, s, l) ==
    /\ Goto(p, l)
    /\ failed' = [failed EXCEPT ![p] = TRUE]
    /\ reported' = reported \cup {s}
    /\ UNCHANGED blocked

(* The service is given up: its namespace keeps its label.                 *)
Fail(p, s, l) ==
    /\ Goto(p, l)
    /\ failed' = [failed EXCEPT ![p] = TRUE]
    /\ blocked' = [blocked EXCEPT ![p] = @ \cup {Ns[s]}]
    /\ reported' = reported \cup {s}

Proceed(p, l) == Goto(p, l) /\ UNCHANGED <<failed, blocked, reported>>

(* A mutant: a dry run creates the auth resources.                         *)
TakeAlways(p, s) ==
    /\ pc[p] = "loop"
    /\ s \in standard[p] \/ (standard[p] = {} /\ s \in pvc[p])
    /\ standard' = [standard EXCEPT ![p] = @ \ {s}]
    /\ pvc' = [pvc EXCEPT ![p] = @ \ {s}]
    /\ cur' = [cur EXCEPT ![p] = s]
    /\ snap' = [snap EXCEPT ![p] = "none"]
    /\ auth' = IF s \in Auth THEN auth \cup {s} ELSE auth
    /\ Proceed(p, IF s \in pvc[p] THEN "pvc runtime" ELSE "runtime")
    /\ UNCHANGED <<mode, uri, runtime, label, options, listed, fresh, processed, exit>>

(* The next service, and finalizeISVCConversion: its auth resources come   *)
(* first, each created unless it is there.                                 *)
Take(p, s) ==
    /\ pc[p] = "loop"
    /\ s \in standard[p] \/ (standard[p] = {} /\ s \in pvc[p])
    /\ standard' = [standard EXCEPT ![p] = @ \ {s}]
    /\ pvc' = [pvc EXCEPT ![p] = @ \ {s}]
    /\ cur' = [cur EXCEPT ![p] = s]
    /\ snap' = [snap EXCEPT ![p] = "none"]
    /\ \/ /\ auth' = IF s \in Auth /\ ~dry[p] THEN auth \cup {s} ELSE auth
          /\ Proceed(p, IF s \in pvc[p] THEN "pvc runtime" ELSE "runtime")
       \/ s \in Auth /\ Fail(p, s, "loop") /\ UNCHANGED auth
    /\ UNCHANGED <<mode, uri, runtime, label, options, listed, fresh, processed, exit>>

(* The Update of a runtime that was read just before: a conflict with the  *)
(* change of another is one of the ways in which it fails.                 *)
SetRuntime(p, r, state, l) ==
    \/ /\ runtime' = [runtime EXCEPT ![r] = state]
       /\ snap' = [snap EXCEPT ![p] = runtime[r]]
       /\ Proceed(p, l)
    \/ /\ Fail(p, cur[p], "loop")
       /\ runtime' \in {runtime, [runtime EXCEPT ![r] = state]}
       /\ UNCHANGED snap

(* updateServingRuntime: what is not there, or not multi-model, is left as *)
(* it is, and nothing is kept of it.                                       *)
UpdateServingRuntime(p) ==
    /\ pc[p] = "runtime"
    /\ LET r == RuntimeOf[cur[p]] IN
         \/ r # NoRuntime /\ runtime[r] = "multi" /\ ~dry[p] /\ SetRuntime(p, r, "single", "patch")
         \/ r # NoRuntime /\ (runtime[r] # "multi" \/ dry[p]) /\ Proceed(p, "patch")
              /\ UNCHANGED <<runtime, snap>>
         \/ (r # NoRuntime /\ runtime[r] = "multi" => dry[p]) /\ Fail(p, cur[p], "loop")
              /\ UNCHANGED <<runtime, snap>>
    /\ UNCHANGED <<mode, uri, label, auth, options, plan, fresh, cur, processed, exit>>

(* updateServingRuntimeForPVC, once buildPVCStorageURI has its URI. The    *)
(* arguments of the runtime now name this one service.                     *)
UpdateServingRuntimeForPVC(p) ==
    /\ pc[p] = "pvc runtime"
    /\ LET r == RuntimeOf[cur[p]]
           usable == Stored[cur[p]] = "pvc" /\ runtime[r] # "absent"
       IN
         \/ usable /\ ~dry[p] /\ SetRuntime(p, r, cur[p], "update")
         \/ usable /\ dry[p] /\ Proceed(p, "update") /\ UNCHANGED <<runtime, snap>>
         \/ (~usable \/ dry[p]) /\ Fail(p, cur[p], "loop") /\ UNCHANGED <<runtime, snap>>
    /\ UNCHANGED <<mode, uri, label, auth, options, plan, fresh, cur, processed, exit>>

(* How the write of the service ends. An error may hide that it was done.  *)
Converted(p) ==
    /\ Proceed(p, "loop")
    /\ processed' = [processed EXCEPT ![p] = @ \cup {Ns[cur[p]]}]

NotConverted(p) ==
    /\ Fail(p, cur[p], "restore")
    /\ UNCHANGED processed

ToRaw(p) ==
    /\ mode' = [mode EXCEPT ![cur[p]] = "RawDeployment"]
    /\ fresh' = [q \in Procs |-> fresh[q] \ {cur[p]}]

(* A mutant: the result of the patch is not looked at.                     *)
PatchISVCDeploymentModeUnchecked(p) ==
    /\ pc[p] = "patch"
    /\ \/ ~dry[p] /\ ToRaw(p) /\ Converted(p)
       \/ Converted(p) /\ UNCHANGED <<mode, fresh>>
    /\ UNCHANGED <<uri, runtime, label, auth, options, plan, cur, snap, exit>>

(* patchISVCDeploymentMode *)
PatchISVCDeploymentMode(p) ==
    /\ pc[p] = "patch"
    /\ \/ ~dry[p] /\ ToRaw(p) /\ (Converted(p) \/ NotConverted(p))
       \/ ~dry[p] /\ NotConverted(p) /\ UNCHANGED <<mode, fresh>>
       \/ dry[p] /\ Converted(p) /\ UNCHANGED <<mode, fresh>>
    /\ UNCHANGED <<uri, runtime, label, auth, options, plan, cur, snap, exit>>

(* A mutant: the Update is repeated until it works.                        *)
UpdateISVCUntilDone(p) ==
    /\ pc[p] = "update"
    /\ ~dry[p] /\ cur[p] \in fresh[p]
    /\ ToRaw(p) /\ uri' = uri \cup {cur[p]} /\ Converted(p)
    /\ UNCHANGED <<runtime, label, auth, options, plan, cur, snap, exit>>

(* convertPVCISVC, its Update of the copy that was listed: a conflict if   *)
(* the service has been changed since.                                     *)
UpdateISVC(p) ==
    /\ pc[p] = "update"
    /\ \/ /\ ~dry[p] /\ cur[p] \in fresh[p]
          /\ ToRaw(p) /\ uri' = uri \cup {cur[p]}
          /\ Converted(p) \/ NotConverted(p)
       \/ ~dry[p] /\ NotConverted(p) /\ UNCHANGED <<mode, uri, fresh>>
       \/ dry[p] /\ Converted(p) /\ UNCHANGED <<mode, uri, fresh>>
    /\ UNCHANGED <<runtime, label, auth, options, plan, cur, snap, exit>>

(* A mutant: the runtime is written without a snapshot too.                *)
RestoreServingRuntimeAlways(p) ==
    /\ pc[p] = "restore"
    /\ Goto(p, "loop")
    /\ runtime' = [runtime EXCEPT ![RuntimeOf[cur[p]]] = snap[p]]
    /\ UNCHANGED <<mode, uri, label, auth, options, plan, fresh, cur, snap, processed, blocked,
                   failed, exit, reported>>

(* restoreServingRuntime: the specification of the snapshot, if there is   *)
(* one. Whether it works or not, the conversion has failed.                *)
RestoreServingRuntime(p) ==
    /\ pc[p] = "restore"
    /\ Goto(p, "loop")
    /\ \/ /\ snap[p] # "none" /\ runtime[RuntimeOf[cur[p]]] # "absent"
          /\ runtime' = [runtime EXCEPT ![RuntimeOf[cur[p]]] = snap[p]]
       \/ UNCHANGED runtime
    /\ UNCHANGED <<mode, uri, label, auth, options, plan, fresh, cur, snap, processed, blocked,
                   failed, exit, reported>>

(* A mutant: a label that cannot be removed is not a failure.              *)
RemoveModelMeshLabelSilent(p, ns) ==
    /\ pc[p] = "loop" /\ standard[p] = {} /\ pvc[p] = {}
    /\ ns \in processed[p] \ blocked[p]
    /\ processed' = [processed EXCEPT ![p] = @ \ {ns}]
    /\ label' \in {label, IF dry[p] THEN label ELSE label \ {ns}}
    /\ UNCHANGED <<mode, uri, runtime, auth, options, plan, pc, fresh, cur, snap, blocked, exit,
                   failed, reported>>

(* removeModelMeshLabel, for the namespaces in which nothing failed.       *)
RemoveModelMeshLabel(p, ns) ==
    /\ pc[p] = "loop" /\ standard[p] = {} /\ pvc[p] = {}
    /\ ns \in processed[p] \ blocked[p]
    /\ processed' = [processed EXCEPT ![p] = @ \ {ns}]
    /\ \/ /\ label' = IF dry[p] THEN label ELSE label \ {ns}
          /\ UNCHANGED failed
       \/ /\ ~dry[p]
          /\ label' \in {label, label \ {ns}}
          /\ failed' = [failed EXCEPT ![p] = TRUE]
    /\ UNCHANGED <<mode, uri, runtime, auth, options, plan, pc, fresh, cur, snap, blocked, exit,
                   reported>>

Finish(p) ==
    /\ pc[p] = "loop" /\ standard[p] = {} /\ pvc[p] = {}
    /\ processed[p] \subseteq blocked[p]
    /\ End(p, Status(p))
    /\ UNCHANGED <<cluster, options, plan, fresh, cur, snap, processed, blocked, failed, reported>>

Step(p) ==
    \/ ListISVCs(p) \/ ListFails(p) \/ Classify(p) \/ Validate(p) \/ Confirm(p)
    \/ \E s \in Services : Take(p, s)
    \/ UpdateServingRuntime(p) \/ UpdateServingRuntimeForPVC(p)
    \/ PatchISVCDeploymentMode(p) \/ UpdateISVC(p) \/ RestoreServingRuntime(p)
    \/ \E ns \in Namespaces : RemoveModelMeshLabel(p, ns)
    \/ Finish(p)

-----------------------------------------------------------------------------
(* Around it: cut-offs, reruns and users.                                  *)

Crash(p) ==
    /\ pc[p] \notin Over
    /\ Goto(p, "crashed")
    /\ reported' = reported \cup standard[p] \cup pvc[p]
                     \cup (IF pc[p] \in InTheWorks THEN {cur[p]} ELSE {})
    /\ UNCHANGED <<cluster, options, plan, fresh, cur, snap, processed, blocked, failed, exit>>

Start(p) ==
    /\ pc[p] \in Over
    /\ starts[p] < layout.starts[p]
    /\ starts' = [starts EXCEPT ![p] = @ + 1]
    /\ \E f \in layout.flags :
         /\ dry' = [dry EXCEPT ![p] = "dry-run" \in f]
         /\ yes' = [yes EXCEPT ![p] = "yes" \in f]
    /\ Goto(p, "list")
    /\ Reset(p)
    /\ UNCHANGED <<cluster, layout, reported>>

Edit(s) ==
    /\ fresh' = [p \in Procs |-> fresh[p] \ {s}]
    /\ fresh' # fresh
    /\ UNCHANGED <<cluster, options, plan, pc, cur, snap, processed, blocked, failed, exit, reported>>

(* A user deploys another service with ModelMesh. *)
Deploy(s) ==
    /\ mode[s] = "absent" /\ s \in layout.later
    /\ mode' = [mode EXCEPT ![s] = "ModelMesh"]
    /\ late' = [p \in Procs |-> IF pc[p] \in Over \cup {"list"} THEN late[p] ELSE late[p] \cup {s}]
    /\ UNCHANGED <<uri, runtime, label, auth, dry, yes, starts, layout, plan, pc, fresh, cur,
                   snap, processed, blocked, failed, exit, reported>>

Next ==
    \/ \E p \in Procs : Step(p) \/ Crash(p) \/ Start(p)
    \/ \E s \in Services : Edit(s) \/ Deploy(s)

Spec == Init /\ [][Next]_vars

(* Requests are answered or fail, and a user who is asked answers.         *)
FairSpec == Spec /\ \A p \in Procs : WF_vars(Step(p))

-----------------------------------------------------------------------------
(* Properties.                                                             *)

(* The label that makes ModelMesh serve a namespace is taken away only     *)
(* once every service of the namespace is in RawDeployment mode, whatever  *)
(* failed, was skipped or overlapped on the way: except that a run does    *)
(* not know of the services deployed after its list.                       *)
LabelKeptWhileNeeded ==
    [][\A p \in Procs : processed'[p] # processed[p] =>
         \A s \in Services :
            Ns[s] \in label \ label' /\ mode[s] = "ModelMesh" => s \in late[p]]_vars

(* Such a service loses its label (modelmesh_to_raw.go: "Remove            *)
(* modelmesh-enabled label from processed namespaces").                    *)
NoLabelLost ==
    [][\A s \in Services : Ns[s] \in label \ label' => mode[s] # "ModelMesh"]_vars

(* A model kept on a PVC is never switched to RawDeployment without the    *)
(* storage URI that mode needs.                                            *)
PVCModelsRewritten ==
    \A s \in Services :
        mode[s] = "RawDeployment" /\ Stored[s] \in {"pvc", "bad pvc", "malformed"} => s \in uri

(* A service and its runtime disagree (ModelMesh on a single-model         *)
(* runtime, or RawDeployment on a multi-model one).                        *)
Broken(s) ==
    /\ mode[s] # "absent" /\ RuntimeOf[s] # NoRuntime
    /\ runtime[RuntimeOf[s]] # "absent"
    /\ (mode[s] = "ModelMesh") # (runtime[RuntimeOf[s]] = "multi")

(* No other process has been started. *)
Alone == \A p, q \in Procs : starts[p] > 0 /\ starts[q] > 0 => p = q

(* As long as no other process works beside it, a service that was there   *)
(* from the beginning and disagrees with its runtime is one a run still    *)
(* has before it, or one the user was told about.                          *)
BrokenIsReported ==
    Alone => \A s \in layout.first : Broken(s) =>
        \/ s \in reported
        \/ \E p \in Procs : \/ s \in standard[p] \cup pvc[p] /\ pc[p] \notin Over
                            \/ cur[p] = s /\ pc[p] \in InTheWorks

(* A run that ends without a failure, and had no other beside it, has      *)
(* converted all it listed: the mode, the runtime, the auth resources and  *)
(* the label of the namespace.                                             *)
OkMeansConverted ==
    [][\A p \in Procs : Alone /\ exit[p] = "none" /\ exit'[p] = "ok" /\ ~dry[p] =>
        \A s \in listed[p] :
            /\ mode[s] = "RawDeployment" /\ ~Broken(s)
            /\ s \in Auth => s \in auth
            /\ Ns[s] \notin label]_vars

(* No step of a dry run changes the cluster.                               *)
DryRunWritesNothing ==
    [][\A p \in Procs : dry[p] /\ (pc'[p] # pc[p] \/ processed'[p] # processed[p]) =>
            UNCHANGED cluster]_vars

(* A run that is not cut off ends.                                         *)
RunsEnd == \A p \in Procs : (pc[p] = "list") ~> (pc[p] \in {"done", "crashed"})

(* modelmesh_to_raw.go: the action "Converts InferenceServices using       *)
(* ModelMesh deployment mode to RawDeployment, updates associated          *)
(* ServingRuntimes". After a run that reports success no converted service *)
(* is left on a multi-model runtime.                                       *)
RuntimeAfterSuccess ==
    \A p \in Procs : exit[p] = "ok" /\ ~dry[p] =>
        \A s \in Services : mode[s] = "RawDeployment" => ~Broken(s)
=============================================================================

------------------------ MODULE ModelMeshToRawProofs ------------------------
(***************************************************************************)
(* Theorems about ModelMeshToRaw, for any number of processes, services,   *)
(* namespaces and runtimes, however they refer to each other.              *)
(***************************************************************************)
EXTENDS ModelMeshToRaw, TLAPS

Planned == {"validate", "confirm", "loop"} \cup InTheWorks

(* A run that will not only pretend knows of every service that is still   *)
(* in ModelMesh mode and was there at its list: it has it before it or in  *)
(* hand, or its namespace is one whose label stays.                        *)
Covered(p) ==
    \A s \in Services \ late[p] : ~dry[p] /\ mode[s] = "ModelMesh" =>
        /\ pc[p] = "classify" => s \in listed[p]
        /\ pc[p] \in Planned =>
             \/ s \in standard[p] \cup pvc[p]
             \/ Ns[s] \in blocked[p]
             \/ cur[p] = s /\ pc[p] \in InTheWorks

(* What is in hand is a service; once its conversion has failed its        *)
(* namespace is blocked.                                                   *)
InHandOK(p) ==
    /\ pc[p] \in InTheWorks => cur[p] \in Services
    /\ pc[p] = "restore" => Ns[cur[p]] \in blocked[p]

OnPVC(s) == Stored[s] \in {"pvc", "bad pvc", "malformed"}

(* The standard services of a run are not those kept on a PVC.             *)
StandardOK(p) ==
    /\ \A s \in standard[p] : ~OnPVC(s)
    /\ pc[p] \in {"runtime", "patch"} => ~OnPVC(cur[p])

(* Past the validation the models on a PVC have a runtime to be rewritten. *)
RuntimeKnown(p) ==
    /\ pc[p] \in Planned \ {"validate"} => \A s \in pvc[p] : RuntimeOf[s] # NoRuntime
    /\ pc[p] = "pvc runtime" => RuntimeOf[cur[p]] # NoRuntime

RunOK(p) == Covered(p) /\ InHandOK(p) /\ StandardOK(p) /\ RuntimeKnown(p)

IndInv == TypeOK /\ (\A p \in Procs : RunOK(p)) /\ PVCModelsRewritten

-----------------------------------------------------------------------------
(* What a step of one process leaves alone.                                *)

Unmoved(q) ==
    /\ pc'[q] = pc[q] /\ dry'[q] = dry[q] /\ cur'[q] = cur[q] /\ listed'[q] = listed[q]
    /\ standard'[q] = standard[q] /\ pvc'[q] = pvc[q] /\ blocked'[q] = blocked[q]
    /\ late'[q] = late[q]

OnlyToRaw == \A s \in Services : mode'[s] = "ModelMesh" => mode[s] = "ModelMesh"

LEMMA NsType == \A s \in Services : Ns[s] \in Namespaces
BY ModelMeshAssumption

(* A process that does not move is not disturbed by what becomes raw.      *)
LEMMA StaysOK ==
    ASSUME NEW q, RunOK(q), Unmoved(q), OnlyToRaw, layout' = layout
    PROVE  RunOK(q)'
BY DEF RunOK, Covered, InHandOK, StandardOK, RuntimeKnown, OnPVC, Stored, RuntimeOf, Unmoved,
   OnlyToRaw

(* Nor are the models on a PVC by a step that writes no modes.             *)
LEMMA ServicesKept ==
    ASSUME PVCModelsRewritten, UNCHANGED <<mode, layout, uri>>
    PROVE  PVCModelsRewritten'
BY DEF PVCModelsRewritten, Stored

-----------------------------------------------------------------------------
(* The state at the start.                                                 *)
LEMMA IndInit == Init => IndInv
<1> SUFFICES ASSUME Init PROVE IndInv
  OBVIOUS
<1>1. TypeOK
  BY ModelMeshAssumption DEF Init, TypeOK, PCs, Over, RuntimeStates, Layout
<1>2. \A p \in Procs : RunOK(p)
  BY DEF Init, RunOK, Covered, InHandOK, StandardOK, RuntimeKnown, Planned, InTheWorks
<1>3. PVCModelsRewritten
  BY DEF Init, PVCModelsRewritten
<1> QED
  BY <1>1, <1>2, <1>3 DEF IndInv

(* Every step keeps the invariant.                                         *)
LEMMA IndStep == IndInv /\ [Next]_vars => IndInv'
<1> SUFFICES ASSUME TypeOK, \A q \in Procs : RunOK(q), PVCModelsRewritten, [Next]_vars
             PROVE  IndInv'
  BY DEF IndInv
<1> USE DEF cluster, options, plan
<1>1. ASSUME NEW p \in Procs, ListISVCs(p)
      PROVE  IndInv'
  <2>1. TypeOK'
    <3>1. pc' \in [Procs -> PCs]
      <4>1. pc' = pc \/ \E l \in PCs : pc' = [pc EXCEPT ![p] = l]
        BY <1>1 DEF PCs, Over, InTheWorks, ListISVCs, Goto, End
      <4> QED
        BY <4>1 DEF TypeOK
    <3>2. exit' \in [Procs -> {"none", "ok", "failures", "declined"}]
      BY <1>1 DEF TypeOK, ListISVCs, Goto, End
    <3>3. listed' \in [Procs -> SUBSET Services]
      BY <1>1 DEF TypeOK, ListISVCs, Goto, End
    <3>4. fresh' \in [Procs -> SUBSET Services]
      BY <1>1 DEF TypeOK, ListISVCs, Goto, End
    <3> QED
      BY <1>1, <3>1, <3>2, <3>3, <3>4 DEF TypeOK, ListISVCs
  <2>2. \A q \in Procs : RunOK(q)'
    <3>1. \A q \in Procs : q # p => Unmoved(q)
      BY <1>1 DEF TypeOK, Unmoved, ListISVCs, Goto, End
    <3>2. OnlyToRaw /\ layout' = layout
      BY <1>1 DEF OnlyToRaw, ListISVCs, Goto, End
    <3>3. pc'[p] \in {"classify", "done"} /\ standard'[p] = standard[p]
      BY <1>1 DEF TypeOK, ListISVCs, Goto, End
    <3>4. listed'[p] = {s \in Services : mode[s] = "ModelMesh"}
      BY <1>1 DEF TypeOK, ListISVCs, Goto, End
    <3>5. dry'[p] = dry[p] /\ late'[p] = late[p]
      BY <1>1 DEF ListISVCs
    <3>6. RunOK(p)'
      BY <3>2, <3>3, <3>4, <3>5 DEF RunOK, Covered, InHandOK, StandardOK, RuntimeKnown, OnPVC,
         Stored, RuntimeOf,
         OnlyToRaw, Planned, InTheWorks
    <3> QED
      BY <3>1, <3>2, <3>6, StaysOK
  <2>3. UNCHANGED <<mode, layout, uri>>
    BY <1>1 DEF ListISVCs
  <2> QED
    BY <2>1, <2>2, <2>3, ServicesKept DEF IndInv
<1>2. ASSUME NEW p \in Procs, ListFails(p)
      PROVE  IndInv'
  <2>1. TypeOK'
    <3>1. pc' \in [Procs -> PCs]
      <4>1. pc' = pc \/ \E l \in PCs : pc' = [pc EXCEPT ![p] = l]
        BY <1>2 DEF PCs, Over, InTheWorks, ListFails, Goto, End
      <4> QED
        BY <4>1 DEF TypeOK
    <3>2. exit' \in [Procs -> {"none", "ok", "failures", "declined"}]
      BY <1>2 DEF TypeOK, ListFails, Goto, End
    <3>3. failed' \in [Procs -> BOOLEAN]
      BY <1>2 DEF TypeOK, ListFails, Goto, End
    <3> QED
      BY <1>2, <3>1, <3>2, <3>3 DEF TypeOK, ListFails
  <2>2. \A q \in Procs : RunOK(q)'
    <3>1. \A q \in Procs : q # p => Unmoved(q)
      BY <1>2 DEF TypeOK, Unmoved, ListFails, Goto, End
    <3>2. OnlyToRaw /\ layout' = layout
      BY <1>2 DEF OnlyToRaw, ListFails, Goto, End
    <3>3. pc'[p] = "done" /\ standard'[p] = standard[p]
      BY <1>2 DEF TypeOK, ListFails, Goto, End
    <3>4. dry'[p] = dry[p] /\ late'[p] = late[p]
      BY <1>2 DEF ListFails
    <3>5. RunOK(p)'
      BY <3>2, <3>3, <3>4 DEF RunOK, Covered, InHandOK, StandardOK, RuntimeKnown, OnPVC, Stored,
         RuntimeOf,
         OnlyToRaw, Planned, InTheWorks
    <3> QED
      BY <3>1, <3>2, <3>5, StaysOK
  <2>3. UNCHANGED <<mode, layout, uri>>
    BY <1>2 DEF ListFails
  <2> QED
    BY <2>1, <2>2, <2>3, ServicesKept DEF IndInv
<1>3. ASSUME NEW p \in Procs, Classify(p)
      PROVE  IndInv'
  <2>1. TypeOK'
    <3>1. pc' \in [Procs -> PCs]
      <4>1. pc' = pc \/ \E l \in PCs : pc' = [pc EXCEPT ![p] = l]
        BY <1>3 DEF PCs, Over, InTheWorks, Classify, Goto, End
      <4> QED
        BY <4>1 DEF TypeOK
    <3>2. exit' \in [Procs -> {"none", "ok", "failures", "declined"}]
      BY <1>3 DEF TypeOK, Classify, Goto, End
    <3>3. standard' \in [Procs -> SUBSET Services]
      BY <1>3 DEF TypeOK, Classify, Goto, End
    <3>4. pvc' \in [Procs -> SUBSET Services]
      BY <1>3 DEF TypeOK, Classify, Goto, End
    <3>5. blocked' \in [Procs -> SUBSET Namespaces]
      BY <1>3, NsType DEF TypeOK, Classify, Goto, End
    <3>6. failed' \in [Procs -> BOOLEAN]
      <4>1. \E b \in BOOLEAN : failed' = [failed EXCEPT ![p] = b]
        BY <1>3 DEF Classify, Goto, End
      <4> QED
        BY <4>1 DEF TypeOK
    <3>7. reported' \subseteq Services
      BY <1>3 DEF TypeOK, Classify, Goto, End
    <3> QED
      BY <1>3, <3>1, <3>2, <3>3, <3>4, <3>5, <3>6, <3>7 DEF TypeOK, Classify
  <2>2. \A q \in Procs : RunOK(q)'
    <3>1. \A q \in Procs : q # p => Unmoved(q)
      BY <1>3 DEF TypeOK, Unmoved, Classify, Goto, End
    <3>2. OnlyToRaw /\ layout' = layout
      BY <1>3 DEF OnlyToRaw, Classify, Goto, End
    <3>3. pc[p] = "classify" /\ pc'[p] \in {"validate", "done"}
      BY <1>3 DEF TypeOK, Classify, Goto, End
    <3>9. PICK unread \in SUBSET Namespaces :
            /\ standard' = [standard EXCEPT ![p] = {s \in listed[p] : Kind(s, unread) = "standard"}]
            /\ pvc' = [pvc EXCEPT ![p] = {s \in listed[p] : Kind(s, unread) = "pvc"}]
            /\ blocked' = [blocked EXCEPT ![p] =
                              {Ns[s] : s \in {t \in listed[p] : Kind(t, unread) = "skipped"}}]
      BY <1>3 DEF Classify
    <3>4. \A s \in listed[p] : s \in standard'[p] \cup pvc'[p] \/ Ns[s] \in blocked'[p]
      BY <3>9 DEF TypeOK, Kind
    <3>5. \A s \in standard'[p] : ~OnPVC(s)
      BY <3>9 DEF TypeOK, Kind, OnPVC
    <3>6. dry'[p] = dry[p] /\ late'[p] = late[p]
      BY <1>3 DEF Classify
    <3>7. RunOK(p)'
      BY <3>2, <3>3, <3>4, <3>5, <3>6 DEF RunOK, Covered, InHandOK, StandardOK, RuntimeKnown,
         OnPVC, Stored, RuntimeOf,
         OnlyToRaw, Planned, InTheWorks
    <3> QED
      BY <3>1, <3>2, <3>7, StaysOK
  <2>3. UNCHANGED <<mode, layout, uri>>
    BY <1>3 DEF Classify
  <2> QED
    BY <2>1, <2>2, <2>3, ServicesKept DEF IndInv
<1>4. ASSUME NEW p \in Procs, Validate(p)
      PROVE  IndInv'
  <2>1. TypeOK'
    <3>1. pc' \in [Procs -> PCs]
      <4>1. pc' = pc \/ \E l \in PCs : pc' = [pc EXCEPT ![p] = l]
        BY <1>4 DEF PCs, Over, InTheWorks, Validate, Goto, End
      <4> QED
        BY <4>1 DEF TypeOK
    <3>2. exit' \in [Procs -> {"none", "ok", "failures", "declined"}]
      BY <1>4 DEF TypeOK, Validate, Goto, End
    <3>3. failed' \in [Procs -> BOOLEAN]
      BY <1>4 DEF TypeOK, Validate, Goto, End
    <3>4. reported' \subseteq Services
      BY <1>4 DEF TypeOK, Validate, Goto, End
    <3> QED
      BY <1>4, <3>1, <3>2, <3>3, <3>4 DEF TypeOK, Validate
  <2>2. \A q \in Procs : RunOK(q)'
    <3>1. \A q \in Procs : q # p => Unmoved(q)
      BY <1>4 DEF TypeOK, Unmoved, Validate, Goto, End
    <3>2. OnlyToRaw /\ layout' = layout
      BY <1>4 DEF OnlyToRaw, Validate, Goto, End
    <3>3. pc[p] = "validate" /\ pc'[p] \in {"loop", "confirm", "done"}
      BY <1>4 DEF TypeOK, Validate, Goto, End
    <3>4. pc'[p] # "done" => \A s \in pvc[p] : RuntimeOf[s] # NoRuntime
      BY <1>4 DEF TypeOK, Validate, Goto, End
    <3>5. UNCHANGED <<cur, standard, pvc, blocked>>
      BY <1>4 DEF TypeOK, Validate, Goto, End
    <3>6. dry'[p] = dry[p] /\ late'[p] = late[p]
      BY <1>4 DEF Validate
    <3>7. RunOK(p)'
      BY <3>2, <3>3, <3>4, <3>5, <3>6 DEF RunOK, Covered, InHandOK, StandardOK, RuntimeKnown,
         OnPVC, Stored, RuntimeOf,
         OnlyToRaw, Planned, InTheWorks
    <3> QED
      BY <3>1, <3>2, <3>7, StaysOK
  <2>3. UNCHANGED <<mode, layout, uri>>
    BY <1>4 DEF Validate
  <2> QED
    BY <2>1, <2>2, <2>3, ServicesKept DEF IndInv
<1>5. ASSUME NEW p \in Procs, Confirm(p)
      PROVE  IndInv'
  <2>1. TypeOK'
    <3>1. pc' \in [Procs -> PCs]
      <4>1. pc' = pc \/ \E l \in PCs : pc' = [pc EXCEPT ![p] = l]
        BY <1>5 DEF PCs, Over, InTheWorks, Confirm, Goto, End
      <4> QED
        BY <4>1 DEF TypeOK
    <3>2. exit' \in [Procs -> {"none", "ok", "failures", "declined"}]
      BY <1>5 DEF TypeOK, Confirm, Goto, End
    <3> QED
      BY <1>5, <3>1, <3>2 DEF TypeOK, Confirm
  <2>2. \A q \in Procs : RunOK(q)'
    <3>1. \A q \in Procs : q # p => Unmoved(q)
      BY <1>5 DEF TypeOK, Unmoved, Confirm, Goto, End
    <3>2. OnlyToRaw /\ layout' = layout
      BY <1>5 DEF OnlyToRaw, Confirm, Goto, End
    <3>3. pc[p] = "confirm" /\ pc'[p] \in {"loop", "done"}
      BY <1>5 DEF TypeOK, Confirm, Goto, End
    <3>4. UNCHANGED <<cur, standard, pvc, blocked>>
      BY <1>5 DEF TypeOK, Confirm, Goto, End
    <3>5. dry'[p] = dry[p] /\ late'[p] = late[p]
      BY <1>5 DEF Confirm
    <3>6. RunOK(p)'
      BY <3>2, <3>3, <3>4, <3>5 DEF RunOK, Covered, InHandOK, StandardOK, RuntimeKnown, OnPVC,
         Stored, RuntimeOf,
         OnlyToRaw, Planned, InTheWorks
    <3> QED
      BY <3>1, <3>2, <3>6, StaysOK
  <2>3. UNCHANGED <<mode, layout, uri>>
    BY <1>5 DEF Confirm
  <2> QED
    BY <2>1, <2>2, <2>3, ServicesKept DEF IndInv
<1>6. ASSUME NEW p \in Procs, NEW s \in Services, Take(p, s)
      PROVE  IndInv'
  <2>1. TypeOK'
    <3>1. pc' \in [Procs -> PCs]
      <4>1. pc' = pc \/ \E l \in PCs : pc' = [pc EXCEPT ![p] = l]
        BY <1>6 DEF PCs, Over, InTheWorks, Take, Fail, Proceed, Goto
      <4> QED
        BY <4>1 DEF TypeOK
    <3>2. auth' \subseteq Services
      <4>1. auth' = auth \/ auth' = auth \cup {s}
        BY <1>6 DEF Take, Fail, Proceed, Goto
      <4> QED
        BY <4>1 DEF TypeOK
    <3>3. standard' \in [Procs -> SUBSET Services]
      BY <1>6 DEF TypeOK, Take, Fail, Proceed, Goto
    <3>4. pvc' \in [Procs -> SUBSET Services]
      BY <1>6 DEF TypeOK, Take, Fail, Proceed, Goto
    <3>5. cur' \in [Procs -> Services \cup {Nobody}]
      BY <1>6 DEF TypeOK, Take, Fail, Proceed, Goto
    <3>6. snap' \in [Procs -> RuntimeStates \cup {"none"}]
      BY <1>6 DEF TypeOK, Take, Fail, Proceed, Goto
    <3>7. failed' \in [Procs -> BOOLEAN]
      BY <1>6 DEF TypeOK, Take, Fail, Proceed, Goto
    <3>8. blocked' \in [Procs -> SUBSET Namespaces]
      <4>1. blocked' = blocked \/ blocked' = [blocked EXCEPT ![p] = @ \cup {Ns[s]}]
        BY <1>6 DEF Take, Fail, Proceed, Goto
      <4> QED
        BY <4>1, NsType DEF TypeOK
    <3>9. reported' \subseteq Services
      <4>1. reported' = reported \/ reported' = reported \cup {s}
        BY <1>6 DEF Take, Fail, Proceed, Goto
      <4> QED
        BY <4>1 DEF TypeOK
    <3> QED
      BY <1>6, <3>1, <3>2, <3>3, <3>4, <3>5, <3>6, <3>7, <3>8, <3>9 DEF TypeOK, Take
  <2>2. \A q \in Procs : RunOK(q)'
    <3>1. \A q \in Procs : q # p => Unmoved(q)
      BY <1>6 DEF TypeOK, Unmoved, Take, Fail, Proceed, Goto
    <3>2. OnlyToRaw /\ layout' = layout
      BY <1>6 DEF OnlyToRaw, Take, Fail, Proceed, Goto
    <3>3. pc[p] = "loop" /\ cur'[p] = s /\ standard'[p] = standard[p] \ {s}
      BY <1>6 DEF TypeOK, Take, Fail, Proceed, Goto
    <3>4. pvc'[p] = pvc[p] \ {s}
      BY <1>6 DEF TypeOK, Take, Fail, Proceed, Goto
    <3>5. \/ pc'[p] = "runtime" /\ s \in standard[p] /\ blocked'[p] = blocked[p]
          \/ pc'[p] = "pvc runtime" /\ s \in pvc[p] /\ blocked'[p] = blocked[p]
          \/ pc'[p] = "loop" /\ blocked'[p] = blocked[p] \cup {Ns[s]}
      <4>1. \/ pc' = [pc EXCEPT ![p] = "runtime"] /\ s \in standard[p] /\ blocked' = blocked
            \/ pc' = [pc EXCEPT ![p] = "pvc runtime"] /\ s \in pvc[p] /\ blocked' = blocked
            \/ pc' = [pc EXCEPT ![p] = "loop"] /\ blocked' = [blocked EXCEPT ![p] = @ \cup {Ns[s]}]
        BY <1>6 DEF Take, Fail, Proceed, Goto
      <4> QED
        BY <4>1 DEF TypeOK
    <3>6. dry'[p] = dry[p] /\ late'[p] = late[p]
      BY <1>6 DEF Take
    <3>7. RunOK(p)'
      BY <3>2, <3>3, <3>4, <3>5, <3>6 DEF RunOK, Covered, InHandOK, StandardOK, RuntimeKnown,
         OnPVC, Stored, RuntimeOf,
         OnlyToRaw, Planned, InTheWorks
    <3> QED
      BY <3>1, <3>2, <3>7, StaysOK
  <2>3. UNCHANGED <<mode, layout, uri>>
    BY <1>6 DEF Take
  <2> QED
    BY <2>1, <2>2, <2>3, ServicesKept DEF IndInv
<1>7. ASSUME NEW p \in Procs, UpdateServingRuntime(p)
      PROVE  IndInv'
  <2>1. TypeOK'
    <3> cur[p] \in Services
      BY <1>7 DEF RunOK, InHandOK, InTheWorks, UpdateServingRuntime
    <3>1. pc' \in [Procs -> PCs]
      <4>1. pc' = pc \/ \E l \in PCs : pc' = [pc EXCEPT ![p] = l]
        BY <1>7 DEF PCs, Over, InTheWorks, UpdateServingRuntime, SetRuntime, Fail, Proceed, Goto
      <4> QED
        BY <4>1 DEF TypeOK
    <3>2. runtime' \in [Runtimes -> RuntimeStates]
      BY <1>7 DEF TypeOK, RuntimeStates, UpdateServingRuntime, SetRuntime, Fail, Proceed, Goto
    <3>3. snap' \in [Procs -> RuntimeStates \cup {"none"}]
      <4>1. \/ snap' = snap
            \/ /\ RuntimeOf[cur[p]] # NoRuntime
               /\ snap' = [snap EXCEPT ![p] = runtime[RuntimeOf[cur[p]]]]
        BY <1>7 DEF UpdateServingRuntime, SetRuntime, Fail, Proceed, Goto
      <4>2. RuntimeOf[cur[p]] # NoRuntime => runtime[RuntimeOf[cur[p]]] \in RuntimeStates
        BY DEF TypeOK, RuntimeOf, Layout
      <4> QED
        BY <4>1, <4>2 DEF TypeOK
    <3>4. failed' \in [Procs -> BOOLEAN]
      BY <1>7 DEF TypeOK, UpdateServingRuntime, SetRuntime, Fail, Proceed, Goto
    <3>5. blocked' \in [Procs -> SUBSET Namespaces]
      <4>1. blocked' = blocked \/ blocked' = [blocked EXCEPT ![p] = @ \cup {Ns[cur[p]]}]
        BY <1>7 DEF UpdateServingRuntime, SetRuntime, Fail, Proceed, Goto
      <4> QED
        BY <4>1, NsType DEF TypeOK
    <3>6. reported' \subseteq Services
      <4>1. reported' = reported \/ reported' = reported \cup {cur[p]}
        BY <1>7 DEF UpdateServingRuntime, SetRuntime, Fail, Proceed, Goto
      <4> QED
        BY <4>1 DEF TypeOK
    <3> QED
      BY <1>7, <3>1, <3>2, <3>3, <3>4, <3>5, <3>6 DEF TypeOK, UpdateServingRuntime
  <2>2. \A q \in Procs : RunOK(q)'
    <3>1. \A q \in Procs : q # p => Unmoved(q)
      BY <1>7 DEF TypeOK, Unmoved, UpdateServingRuntime, SetRuntime, Fail, Proceed, Goto
    <3>2. OnlyToRaw /\ layout' = layout
      BY <1>7 DEF OnlyToRaw, UpdateServingRuntime, SetRuntime, Fail, Proceed, Goto
    <3>3. pc[p] = "runtime"
      BY <1>7 DEF TypeOK, UpdateServingRuntime, SetRuntime, Fail, Proceed, Goto
    <3>4. UNCHANGED <<cur, standard, pvc>>
      BY <1>7 DEF TypeOK, UpdateServingRuntime, SetRuntime, Fail, Proceed, Goto
    <3>5. \/ pc'[p] = "patch" /\ blocked'[p] = blocked[p]
          \/ pc'[p] = "loop" /\ blocked'[p] = blocked[p] \cup {Ns[cur[p]]}
      <4>1. \/ pc' = [pc EXCEPT ![p] = "patch"] /\ blocked' = blocked
            \/ pc' = [pc EXCEPT ![p] = "loop"] /\ blocked' = [blocked EXCEPT ![p] = @ \cup {Ns[cur[p]]}]
        BY <1>7 DEF UpdateServingRuntime, SetRuntime, Fail, Proceed, Goto
      <4> QED
        BY <4>1 DEF TypeOK
    <3>6. dry'[p] = dry[p] /\ late'[p] = late[p]
      BY <1>7 DEF UpdateServingRuntime
    <3>7. RunOK(p)'
      BY <3>2, <3>3, <3>4, <3>5, <3>6 DEF RunOK, Covered, InHandOK, StandardOK, RuntimeKnown,
         OnPVC, Stored, RuntimeOf,
         OnlyToRaw, Planned, InTheWorks
    <3> QED
      BY <3>1, <3>2, <3>7, StaysOK
  <2>3. UNCHANGED <<mode, layout, uri>>
    BY <1>7 DEF UpdateServingRuntime
  <2> QED
    BY <2>1, <2>2, <2>3, ServicesKept DEF IndInv
<1>8. ASSUME NEW p \in Procs, UpdateServingRuntimeForPVC(p)
      PROVE  IndInv'
  <2>1. TypeOK'
    <3> cur[p] \in Services
      BY <1>8 DEF RunOK, InHandOK, InTheWorks, UpdateServingRuntimeForPVC
    <3>1. pc' \in [Procs -> PCs]
      <4>1. pc' = pc \/ \E l \in PCs : pc' = [pc EXCEPT ![p] = l]
        BY <1>8 DEF PCs, Over, InTheWorks, UpdateServingRuntimeForPVC, SetRuntime, Fail, Proceed, Goto
      <4> QED
        BY <4>1 DEF TypeOK
    <3>2. runtime' \in [Runtimes -> RuntimeStates]
      BY <1>8 DEF TypeOK, RuntimeStates, UpdateServingRuntimeForPVC, SetRuntime, Fail, Proceed, Goto
    <3>3. snap' \in [Procs -> RuntimeStates \cup {"none"}]
      <4>1. \/ snap' = snap
            \/ /\ RuntimeOf[cur[p]] # NoRuntime
               /\ snap' = [snap EXCEPT ![p] = runtime[RuntimeOf[cur[p]]]]
        BY <1>8 DEF RunOK, RuntimeKnown, UpdateServingRuntimeForPVC, SetRuntime, Fail, Proceed, Goto
      <4>2. RuntimeOf[cur[p]] # NoRuntime => runtime[RuntimeOf[cur[p]]] \in RuntimeStates
        BY DEF TypeOK, RuntimeOf, Layout
      <4> QED
        BY <4>1, <4>2 DEF TypeOK
    <3>4. failed' \in [Procs -> BOOLEAN]
      BY <1>8 DEF TypeOK, UpdateServingRuntimeForPVC, SetRuntime, Fail, Proceed, Goto
    <3>5. blocked' \in [Procs -> SUBSET Namespaces]
      <4>1. blocked' = blocked \/ blocked' = [blocked EXCEPT ![p] = @ \cup {Ns[cur[p]]}]
        BY <1>8 DEF UpdateServingRuntimeForPVC, SetRuntime, Fail, Proceed, Goto
      <4> QED
        BY <4>1, NsType DEF TypeOK
    <3>6. reported' \subseteq Services
      <4>1. reported' = reported \/ reported' = reported \cup {cur[p]}
        BY <1>8 DEF UpdateServingRuntimeForPVC, SetRuntime, Fail, Proceed, Goto
      <4> QED
        BY <4>1 DEF TypeOK
    <3> QED
      BY <1>8, <3>1, <3>2, <3>3, <3>4, <3>5, <3>6 DEF TypeOK, UpdateServingRuntimeForPVC
  <2>2. \A q \in Procs : RunOK(q)'
    <3>1. \A q \in Procs : q # p => Unmoved(q)
      BY <1>8 DEF TypeOK, Unmoved, UpdateServingRuntimeForPVC, SetRuntime, Fail, Proceed, Goto
    <3>2. OnlyToRaw /\ layout' = layout
      BY <1>8 DEF OnlyToRaw, UpdateServingRuntimeForPVC, SetRuntime, Fail, Proceed, Goto
    <3>3. pc[p] = "pvc runtime"
      BY <1>8 DEF TypeOK, UpdateServingRuntimeForPVC, SetRuntime, Fail, Proceed, Goto
    <3>4. UNCHANGED <<cur, standard, pvc>>
      BY <1>8 DEF TypeOK, UpdateServingRuntimeForPVC, SetRuntime, Fail, Proceed, Goto
    <3>5. \/ pc'[p] = "update" /\ blocked'[p] = blocked[p]
          \/ pc'[p] = "loop" /\ blocked'[p] = blocked[p] \cup {Ns[cur[p]]}
      <4>1. \/ pc' = [pc EXCEPT ![p] = "update"] /\ blocked' = blocked
            \/ pc' = [pc EXCEPT ![p] = "loop"] /\ blocked' = [blocked EXCEPT ![p] = @ \cup {Ns[cur[p]]}]
        BY <1>8 DEF UpdateServingRuntimeForPVC, SetRuntime, Fail, Proceed, Goto
      <4> QED
        BY <4>1 DEF TypeOK
    <3>6. dry'[p] = dry[p] /\ late'[p] = late[p]
      BY <1>8 DEF UpdateServingRuntimeForPVC
    <3>7. RunOK(p)'
      BY <3>2, <3>3, <3>4, <3>5, <3>6 DEF RunOK, Covered, InHandOK, StandardOK, RuntimeKnown,
         OnPVC, Stored, RuntimeOf,
         OnlyToRaw, Planned, InTheWorks
    <3> QED
      BY <3>1, <3>2, <3>7, StaysOK
  <2>3. UNCHANGED <<mode, layout, uri>>
    BY <1>8 DEF UpdateServingRuntimeForPVC
  <2> QED
    BY <2>1, <2>2, <2>3, ServicesKept DEF IndInv
<1>9. ASSUME NEW p \in Procs, PatchISVCDeploymentMode(p)
      PROVE  IndInv'
  <2>1. TypeOK'
    <3> cur[p] \in Services
      BY <1>9 DEF RunOK, InHandOK, InTheWorks, PatchISVCDeploymentMode
    <3>1. pc' \in [Procs -> PCs]
      <4>1. pc' = pc \/ \E l \in PCs : pc' = [pc EXCEPT ![p] = l]
        BY <1>9 DEF PCs, Over, InTheWorks, PatchISVCDeploymentMode, Converted, NotConverted, ToRaw, Fail,
           Proceed, Goto
      <4> QED
        BY <4>1 DEF TypeOK
    <3>2. mode' \in [Services -> {"ModelMesh", "RawDeployment", "absent"}]
      BY <1>9 DEF TypeOK, PatchISVCDeploymentMode, Converted, NotConverted, ToRaw, Fail, Proceed,
         Goto
    <3>3. fresh' \in [Procs -> SUBSET Services]
      BY <1>9 DEF TypeOK, PatchISVCDeploymentMode, Converted, NotConverted, ToRaw, Fail, Proceed,
         Goto
    <3>4. processed' \in [Procs -> SUBSET Namespaces]
      BY <1>9, NsType DEF TypeOK, PatchISVCDeploymentMode, Converted, NotConverted, ToRaw, Fail,
         Proceed, Goto
    <3>5. failed' \in [Procs -> BOOLEAN]
      BY <1>9 DEF TypeOK, PatchISVCDeploymentMode, Converted, NotConverted, ToRaw, Fail, Proceed,
         Goto
    <3>6. blocked' \in [Procs -> SUBSET Namespaces]
      <4>1. blocked' = blocked \/ blocked' = [blocked EXCEPT ![p] = @ \cup {Ns[cur[p]]}]
        BY <1>9 DEF PatchISVCDeploymentMode, Converted, NotConverted, ToRaw, Fail, Proceed, Goto
      <4> QED
        BY <4>1, NsType DEF TypeOK
    <3>7. reported' \subseteq Services
      <4>1. reported' = reported \/ reported' = reported \cup {cur[p]}
        BY <1>9 DEF PatchISVCDeploymentMode, Converted, NotConverted, ToRaw, Fail, Proceed, Goto
      <4> QED
        BY <4>1 DEF TypeOK
    <3> QED
      BY <1>9, <3>1, <3>2, <3>3, <3>4, <3>5, <3>6, <3>7 DEF TypeOK, PatchISVCDeploymentMode
  <2>2. \A q \in Procs : RunOK(q)'
    <3>1. \A q \in Procs : q # p => Unmoved(q)
      BY <1>9 DEF TypeOK, Unmoved, PatchISVCDeploymentMode, Converted, NotConverted, ToRaw, Fail,
         Proceed, Goto
    <3>2. OnlyToRaw /\ layout' = layout
      BY <1>9 DEF TypeOK, OnlyToRaw, PatchISVCDeploymentMode, Converted, NotConverted, ToRaw, Fail,
         Proceed, Goto
    <3>3. pc[p] = "patch"
      BY <1>9 DEF TypeOK, PatchISVCDeploymentMode, Converted, NotConverted, ToRaw, Fail, Proceed,
         Goto
    <3>4. UNCHANGED <<cur, standard, pvc>>
      BY <1>9 DEF TypeOK, PatchISVCDeploymentMode, Converted, NotConverted, ToRaw, Fail, Proceed,
         Goto
    <3>5. \/ pc'[p] = "loop" /\ blocked'[p] = blocked[p] /\ (dry[p] \/ mode'[cur[p]] # "ModelMesh")
          \/ pc'[p] = "restore" /\ blocked'[p] = blocked[p] \cup {Ns[cur[p]]}
      <4>1. \/ /\ pc' = [pc EXCEPT ![p] = "loop"] /\ blocked' = blocked
               /\ (dry[p] \/ mode' = [mode EXCEPT ![cur[p]] = "RawDeployment"])
            \/ pc' = [pc EXCEPT ![p] = "restore"] /\ blocked' = [blocked EXCEPT ![p] = @ \cup {Ns[cur[p]]}]
        BY <1>9 DEF PatchISVCDeploymentMode, Converted, NotConverted, ToRaw, Fail, Proceed, Goto
      <4> QED
        BY <4>1, <1>9 DEF TypeOK, RunOK, InHandOK, InTheWorks, PatchISVCDeploymentMode
    <3>6. dry'[p] = dry[p] /\ late'[p] = late[p]
      BY <1>9 DEF PatchISVCDeploymentMode
    <3>7. RunOK(p)'
      BY <3>2, <3>3, <3>4, <3>5, <3>6 DEF RunOK, Covered, InHandOK, StandardOK, RuntimeKnown,
         OnPVC, Stored, RuntimeOf,
         OnlyToRaw, Planned, InTheWorks
    <3> QED
      BY <3>1, <3>2, <3>7, StaysOK
  <2>3. mode' = mode \/ mode' = [mode EXCEPT ![cur[p]] = "RawDeployment"]
    BY <1>9 DEF PatchISVCDeploymentMode, Converted, NotConverted, ToRaw, Fail, Proceed, Goto
  <2>4. PVCModelsRewritten'
    <3>1. ~OnPVC(cur[p])
      BY <1>9 DEF RunOK, StandardOK, PatchISVCDeploymentMode
    <3> QED
      BY <1>9, <2>3, <3>1 DEF PVCModelsRewritten, TypeOK, OnPVC, Stored, PatchISVCDeploymentMode
  <2> QED
    BY <2>1, <2>2, <2>4 DEF IndInv
<1>10. ASSUME NEW p \in Procs, UpdateISVC(p)
      PROVE  IndInv'
  <2>1. TypeOK'
    <3> cur[p] \in Services
      BY <1>10 DEF RunOK, InHandOK, InTheWorks, UpdateISVC
    <3>1. pc' \in [Procs -> PCs]
      <4>1. pc' = pc \/ \E l \in PCs : pc' = [pc EXCEPT ![p] = l]
        BY <1>10 DEF PCs, Over, InTheWorks, UpdateISVC, Converted, NotConverted, ToRaw, Fail, Proceed,
           Goto
      <4> QED
        BY <4>1 DEF TypeOK
    <3>2. mode' \in [Services -> {"ModelMesh", "RawDeployment", "absent"}]
      BY <1>10 DEF TypeOK, UpdateISVC, Converted, NotConverted, ToRaw, Fail, Proceed, Goto
    <3>3. uri' \subseteq Services
      BY <1>10 DEF TypeOK, UpdateISVC, Converted, NotConverted, ToRaw, Fail, Proceed, Goto
    <3>4. fresh' \in [Procs -> SUBSET Services]
      BY <1>10 DEF TypeOK, UpdateISVC, Converted, NotConverted, ToRaw, Fail, Proceed, Goto
    <3>5. processed' \in [Procs -> SUBSET Namespaces]
      BY <1>10, NsType DEF TypeOK, UpdateISVC, Converted, NotConverted, ToRaw, Fail, Proceed, Goto
    <3>6. failed' \in [Procs -> BOOLEAN]
      BY <1>10 DEF TypeOK, UpdateISVC, Converted, NotConverted, ToRaw, Fail, Proceed, Goto
    <3>7. blocked' \in [Procs -> SUBSET Namespaces]
      <4>1. blocked' = blocked \/ blocked' = [blocked EXCEPT ![p] = @ \cup {Ns[cur[p]]}]
        BY <1>10 DEF UpdateISVC, Converted, NotConverted, ToRaw, Fail, Proceed, Goto
      <4> QED
        BY <4>1, NsType DEF TypeOK
    <3>8. reported' \subseteq Services
      <4>1. reported' = reported \/ reported' = reported \cup {cur[p]}
        BY <1>10 DEF UpdateISVC, Converted, NotConverted, ToRaw, Fail, Proceed, Goto
      <4> QED
        BY <4>1 DEF TypeOK
    <3> QED
      BY <1>10, <3>1, <3>2, <3>3, <3>4, <3>5, <3>6, <3>7, <3>8 DEF TypeOK, UpdateISVC
  <2>2. \A q \in Procs : RunOK(q)'
    <3>1. \A q \in Procs : q # p => Unmoved(q)
      BY <1>10 DEF TypeOK, Unmoved, UpdateISVC, Converted, NotConverted, ToRaw, Fail, Proceed, Goto
    <3>2. OnlyToRaw /\ layout' = layout
      BY <1>10 DEF TypeOK, OnlyToRaw, UpdateISVC, Converted, NotConverted, ToRaw, Fail, Proceed,
         Goto
    <3>3. pc[p] = "update"
      BY <1>10 DEF TypeOK, UpdateISVC, Converted, NotConverted, ToRaw, Fail, Proceed, Goto
    <3>4. UNCHANGED <<cur, standard, pvc>>
      BY <1>10 DEF TypeOK, UpdateISVC, Converted, NotConverted, ToRaw, Fail, Proceed, Goto
    <3>5. \/ pc'[p] = "loop" /\ blocked'[p] = blocked[p] /\ (dry[p] \/ mode'[cur[p]] # "ModelMesh")
          \/ pc'[p] = "restore" /\ blocked'[p] = blocked[p] \cup {Ns[cur[p]]}
      <4>1. \/ /\ pc' = [pc EXCEPT ![p] = "loop"] /\ blocked' = blocked
               /\ (dry[p] \/ mode' = [mode EXCEPT ![cur[p]] = "RawDeployment"])
            \/ pc' = [pc EXCEPT ![p] = "restore"] /\ blocked' = [blocked EXCEPT ![p] = @ \cup {Ns[cur[p]]}]
        BY <1>10 DEF UpdateISVC, Converted, NotConverted, ToRaw, Fail, Proceed, Goto
      <4> QED
        BY <4>1, <1>10 DEF TypeOK, RunOK, InHandOK, InTheWorks, UpdateISVC
    <3>6. dry'[p] = dry[p] /\ late'[p] = late[p]
      BY <1>10 DEF UpdateISVC
    <3>7. RunOK(p)'
      BY <3>2, <3>3, <3>4, <3>5, <3>6 DEF RunOK, Covered, InHandOK, StandardOK, RuntimeKnown,
         OnPVC, Stored, RuntimeOf,
         OnlyToRaw, Planned, InTheWorks
    <3> QED
      BY <3>1, <3>2, <3>7, StaysOK
  <2>3. mode' = mode \/ mode' = [mode EXCEPT ![cur[p]] = "RawDeployment"]
    BY <1>10 DEF UpdateISVC, Converted, NotConverted, ToRaw, Fail, Proceed, Goto
  <2>4. PVCModelsRewritten'
    <3>1. uri \subseteq uri' /\ (mode' = mode \/ cur[p] \in uri') /\ layout' = layout
      BY <1>10 DEF UpdateISVC, Converted, NotConverted, ToRaw, Fail, Proceed, Goto
    <3> QED
      BY <2>3, <3>1 DEF PVCModelsRewritten, TypeOK, Stored
  <2> QED
    BY <2>1, <2>2, <2>4 DEF IndInv
<1>11. ASSUME NEW p \in Procs, RestoreServingRuntime(p)
      PROVE  IndInv'
  <2>1. TypeOK'
    <3> cur[p] \in Services
      BY <1>11 DEF RunOK, InHandOK, InTheWorks, RestoreServingRuntime
    <3>1. pc' \in [Procs -> PCs]
      <4>1. pc' = pc \/ \E l \in PCs : pc' = [pc EXCEPT ![p] = l]
        BY <1>11 DEF PCs, Over, InTheWorks, RestoreServingRuntime, Goto
      <4> QED
        BY <4>1 DEF TypeOK
    <3>2. runtime' \in [Runtimes -> RuntimeStates]
      BY <1>11 DEF TypeOK, RuntimeStates, RestoreServingRuntime, Goto
    <3> QED
      BY <1>11, <3>1, <3>2 DEF TypeOK, RestoreServingRuntime
  <2>2. \A q \in Procs : RunOK(q)'
    <3>1. \A q \in Procs : q # p => Unmoved(q)
      BY <1>11 DEF TypeOK, Unmoved, RestoreServingRuntime, Goto
    <3>2. OnlyToRaw /\ layout' = layout
      BY <1>11 DEF OnlyToRaw, RestoreServingRuntime, Goto
    <3>3. pc[p] = "restore" /\ pc'[p] = "loop"
      BY <1>11 DEF TypeOK, RestoreServingRuntime, Goto
    <3>4. UNCHANGED <<cur, standard, pvc, blocked>>
      BY <1>11 DEF TypeOK, RestoreServingRuntime, Goto
    <3>5. dry'[p] = dry[p] /\ late'[p] = late[p]
      BY <1>11 DEF RestoreServingRuntime
    <3>6. RunOK(p)'
      BY <3>2, <3>3, <3>4, <3>5 DEF RunOK, Covered, InHandOK, StandardOK, RuntimeKnown, OnPVC,
         Stored, RuntimeOf,
         OnlyToRaw, Planned, InTheWorks
    <3> QED
      BY <3>1, <3>2, <3>6, StaysOK
  <2>3. UNCHANGED <<mode, layout, uri>>
    BY <1>11 DEF RestoreServingRuntime
  <2> QED
    BY <2>1, <2>2, <2>3, ServicesKept DEF IndInv
<1>12. ASSUME NEW p \in Procs, NEW ns \in Namespaces, RemoveModelMeshLabel(p, ns)
      PROVE  IndInv'
  <2>1. TypeOK'
    <3>1. label' \subseteq Namespaces
      BY <1>12 DEF TypeOK, RemoveModelMeshLabel
    <3>2. processed' \in [Procs -> SUBSET Namespaces]
      BY <1>12, NsType DEF TypeOK, RemoveModelMeshLabel
    <3>3. failed' \in [Procs -> BOOLEAN]
      BY <1>12 DEF TypeOK, RemoveModelMeshLabel
    <3> QED
      BY <1>12, <3>1, <3>2, <3>3 DEF TypeOK, RemoveModelMeshLabel
  <2>2. \A q \in Procs : RunOK(q)'
    <3>1. \A q \in Procs : q # p => Unmoved(q)
      BY <1>12 DEF TypeOK, Unmoved, RemoveModelMeshLabel
    <3>2. OnlyToRaw /\ layout' = layout
      BY <1>12 DEF OnlyToRaw, RemoveModelMeshLabel
    <3>3. Unmoved(p)
      BY <1>12 DEF Unmoved, RemoveModelMeshLabel
    <3> QED
      BY <3>1, <3>2, <3>3, StaysOK
  <2>3. PVCModelsRewritten'
    BY <1>12 DEF PVCModelsRewritten, Stored, RemoveModelMeshLabel
  <2> QED
    BY <2>1, <2>2, <2>3 DEF IndInv
<1>13. ASSUME NEW p \in Procs, Finish(p)
      PROVE  IndInv'
  <2>1. TypeOK'
    <3>1. pc' \in [Procs -> PCs]
      <4>1. pc' = pc \/ \E l \in PCs : pc' = [pc EXCEPT ![p] = l]
        BY <1>13 DEF PCs, Over, InTheWorks, Finish, Status, Goto, End
      <4> QED
        BY <4>1 DEF TypeOK
    <3>2. exit' \in [Procs -> {"none", "ok", "failures", "declined"}]
      BY <1>13 DEF TypeOK, Finish, Status, Goto, End
    <3> QED
      BY <1>13, <3>1, <3>2 DEF TypeOK, Finish
  <2>2. \A q \in Procs : RunOK(q)'
    <3>1. \A q \in Procs : q # p => Unmoved(q)
      BY <1>13 DEF TypeOK, Unmoved, Finish, Status, Goto, End
    <3>2. OnlyToRaw /\ layout' = layout
      BY <1>13 DEF OnlyToRaw, Finish, Status, Goto, End
    <3>3. pc'[p] = "done" /\ standard'[p] = standard[p]
      BY <1>13 DEF TypeOK, Finish, Status, Goto, End
    <3>4. dry'[p] = dry[p] /\ late'[p] = late[p]
      BY <1>13 DEF Finish
    <3>5. RunOK(p)'
      BY <3>2, <3>3, <3>4 DEF RunOK, Covered, InHandOK, StandardOK, RuntimeKnown, OnPVC, Stored,
         RuntimeOf,
         OnlyToRaw, Planned, InTheWorks
    <3> QED
      BY <3>1, <3>2, <3>5, StaysOK
  <2>3. UNCHANGED <<mode, layout, uri>>
    BY <1>13 DEF Finish
  <2> QED
    BY <2>1, <2>2, <2>3, ServicesKept DEF IndInv
<1>14. ASSUME NEW p \in Procs, Crash(p)
      PROVE  IndInv'
  <2>1. TypeOK'
    <3>1. pc' \in [Procs -> PCs]
      <4>1. pc' = pc \/ \E l \in PCs : pc' = [pc EXCEPT ![p] = l]
        BY <1>14 DEF PCs, Over, InTheWorks, Crash, Goto
      <4> QED
        BY <4>1 DEF TypeOK
    <3>2. reported' \subseteq Services
      BY <1>14 DEF TypeOK, RunOK, InHandOK, Crash, Goto
    <3> QED
      BY <1>14, <3>1, <3>2 DEF TypeOK, Crash
  <2>2. \A q \in Procs : RunOK(q)'
    <3>1. \A q \in Procs : q # p => Unmoved(q)
      BY <1>14 DEF TypeOK, Unmoved, Crash, Goto
    <3>2. OnlyToRaw /\ layout' = layout
      BY <1>14 DEF OnlyToRaw, Crash, Goto
    <3>3. pc'[p] = "crashed" /\ standard'[p] = standard[p]
      BY <1>14 DEF TypeOK, Crash, Goto
    <3>4. dry'[p] = dry[p] /\ late'[p] = late[p]
      BY <1>14 DEF Crash
    <3>5. RunOK(p)'
      BY <3>2, <3>3, <3>4 DEF RunOK, Covered, InHandOK, StandardOK, RuntimeKnown, OnPVC, Stored,
         RuntimeOf,
         OnlyToRaw, Planned, InTheWorks
    <3> QED
      BY <3>1, <3>2, <3>5, StaysOK
  <2>3. UNCHANGED <<mode, layout, uri>>
    BY <1>14 DEF Crash
  <2> QED
    BY <2>1, <2>2, <2>3, ServicesKept DEF IndInv
<1>15. ASSUME NEW p \in Procs, Start(p)
      PROVE  IndInv'
  <2>1. TypeOK'
    <3>1. starts' \in [Procs -> Nat] /\ late' \in [Procs -> SUBSET Services]
      BY <1>15 DEF TypeOK, Start, Reset, Goto
    <3>2. dry' \in [Procs -> BOOLEAN]
      <4>1. PICK f \in layout.flags : dry' = [dry EXCEPT ![p] = "dry-run" \in f]
        BY <1>15 DEF Start
      <4>2. ("dry-run" \in f) \in BOOLEAN
        OBVIOUS
      <4> QED
        BY <4>1, <4>2 DEF TypeOK
    <3>3. yes' \in [Procs -> BOOLEAN]
      <4>1. PICK f \in layout.flags : yes' = [yes EXCEPT ![p] = "yes" \in f]
        BY <1>15 DEF Start
      <4>2. ("yes" \in f) \in BOOLEAN
        OBVIOUS
      <4> QED
        BY <4>1, <4>2 DEF TypeOK
    <3>4. pc' \in [Procs -> PCs]
      <4>1. pc' = pc \/ \E l \in PCs : pc' = [pc EXCEPT ![p] = l]
        BY <1>15 DEF PCs, Over, InTheWorks, Start, Reset, Goto
      <4> QED
        BY <4>1 DEF TypeOK
    <3>5. listed' \in [Procs -> SUBSET Services]
      BY <1>15 DEF TypeOK, Start, Reset, Goto
    <3>6. fresh' \in [Procs -> SUBSET Services]
      BY <1>15 DEF TypeOK, Start, Reset, Goto
    <3>7. standard' \in [Procs -> SUBSET Services]
      BY <1>15 DEF TypeOK, Start, Reset, Goto
    <3>8. pvc' \in [Procs -> SUBSET Services]
      BY <1>15 DEF TypeOK, Start, Reset, Goto
    <3>9. cur' \in [Procs -> Services \cup {Nobody}]
      BY <1>15 DEF TypeOK, Start, Reset, Goto
    <3>10. snap' \in [Procs -> RuntimeStates \cup {"none"}]
      BY <1>15 DEF TypeOK, Start, Reset, Goto
    <3>11. processed' \in [Procs -> SUBSET Namespaces]
      BY <1>15, NsType DEF TypeOK, Start, Reset, Goto
    <3>12. blocked' \in [Procs -> SUBSET Namespaces]
      BY <1>15, NsType DEF TypeOK, Start, Reset, Goto
    <3>13. failed' \in [Procs -> BOOLEAN]
      BY <1>15 DEF TypeOK, Start, Reset, Goto
    <3>14. exit' \in [Procs -> {"none", "ok", "failures", "declined"}]
      BY <1>15 DEF TypeOK, Start, Reset, Goto
    <3> QED
      BY <1>15, <3>1, <3>2, <3>3, <3>4, <3>5, <3>6, <3>7, <3>8, <3>9, <3>10, <3>11, <3>12, <3>13,
         <3>14 DEF TypeOK, Start
  <2>2. \A q \in Procs : RunOK(q)'
    <3>1. \A q \in Procs : q # p => Unmoved(q)
      BY <1>15 DEF TypeOK, Unmoved, Start, Reset, Goto
    <3>2. OnlyToRaw /\ layout' = layout
      BY <1>15 DEF OnlyToRaw, Start, Reset, Goto
    <3>3. pc'[p] = "list" /\ standard'[p] = {}
      BY <1>15 DEF TypeOK, Start, Reset, Goto
    <3>4. RunOK(p)'
      BY <3>2, <3>3 DEF RunOK, Covered, InHandOK, StandardOK, RuntimeKnown, OnPVC, Stored,
         RuntimeOf,
         OnlyToRaw, Planned, InTheWorks
    <3> QED
      BY <3>1, <3>2, <3>4, StaysOK
  <2>3. UNCHANGED <<mode, layout, uri>>
    BY <1>15 DEF Start
  <2> QED
    BY <2>1, <2>2, <2>3, ServicesKept DEF IndInv
<1>16. ASSUME NEW s \in Services, Edit(s)
      PROVE  IndInv'
  <2>1. TypeOK'
    <3>1. fresh' \in [Procs -> SUBSET Services]
      BY <1>16 DEF TypeOK, Edit
    <3> QED
      BY <1>16, <3>1 DEF TypeOK, Edit
  <2>2. \A q \in Procs : RunOK(q)'
    BY <1>16, StaysOK DEF Edit, Unmoved, OnlyToRaw
  <2>3. UNCHANGED <<mode, layout, uri>>
    BY <1>16 DEF Edit
  <2> QED
    BY <2>1, <2>2, <2>3, ServicesKept DEF IndInv
<1>17. ASSUME NEW s \in Services, Deploy(s)
      PROVE  IndInv'
  <2>1. TypeOK'
    <3>1. mode' \in [Services -> {"ModelMesh", "RawDeployment", "absent"}]
      BY <1>17 DEF TypeOK, Deploy
    <3>2. late' \in [Procs -> SUBSET Services]
      BY <1>17 DEF TypeOK, Deploy
    <3> QED
      BY <1>17, <3>1, <3>2 DEF TypeOK, Deploy
  <2>2. ASSUME NEW q \in Procs PROVE RunOK(q)'
    <3>1. /\ UNCHANGED <<pc, dry, cur, listed, standard, pvc, blocked, layout>>
          /\ late'[q] = IF pc[q] \in Over \cup {"list"} THEN late[q] ELSE late[q] \cup {s}
          /\ \A t \in Services \ {s} : mode'[t] = mode[t]
      BY <1>17 DEF Deploy, TypeOK
    <3>2. ASSUME pc[q] \in Over \cup {"list"} PROVE Covered(q)'
      <4>1. pc'[q] \notin Planned /\ pc'[q] # "classify"
        BY <3>1, <3>2 DEF Planned, InTheWorks, Over
      <4> QED
        BY <4>1 DEF Covered
    <3>3. ASSUME pc[q] \notin Over \cup {"list"} PROVE Covered(q)'
      <4>1. late'[q] = late[q] \cup {s}
        BY <3>1, <3>3
      <4>2. Covered(q)
        BY DEF RunOK
      <4> QED
        BY <3>1, <4>1, <4>2 DEF Covered
    <3>4. Covered(q)'
      BY <3>2, <3>3
    <3> QED
      BY <3>1, <3>4 DEF RunOK, InHandOK, StandardOK, RuntimeKnown, OnPVC, Stored, RuntimeOf
  <2>3. PVCModelsRewritten'
    BY <1>17 DEF Deploy, PVCModelsRewritten, Stored, TypeOK
  <2> QED
    BY <2>1, <2>2, <2>3 DEF IndInv
<1>18. CASE UNCHANGED vars
  BY <1>18 DEF vars, IndInv, TypeOK, RunOK, Covered, InHandOK, StandardOK, RuntimeKnown,
     OnPVC, RuntimeOf, PVCModelsRewritten, Stored
<1> QED
  BY <1>1, <1>2, <1>3, <1>4, <1>5, <1>6, <1>7, <1>8, <1>9, <1>10, <1>11, <1>12, <1>13, <1>14,
     <1>15, <1>16, <1>17, <1>18 DEF Next, Step

-----------------------------------------------------------------------------
(* Type correctness of the conversion.                                     *)
THEOREM TypeCorrect == Spec => []TypeOK
<1>1. IndInv => TypeOK
  BY DEF IndInv
<1> QED
  BY IndInit, IndStep, <1>1, PTL DEF Spec

(* removeModelMeshLabel takes the label only from namespaces all of whose  *)
(* services in ModelMesh mode were deployed after the list of that run,    *)
(* however many runs overlap and whatever fails or is skipped in them.     *)
THEOREM LabelsKept == Spec => LabelKeptWhileNeeded
<1> DEFINE Kept ==
      \A p \in Procs : processed'[p] # processed[p] =>
         \A s \in Services :
            Ns[s] \in label \ label' /\ mode[s] = "ModelMesh" => s \in late[p]
<1>1. IndInv /\ [Next]_vars => [Kept]_vars
  <2> SUFFICES ASSUME IndInv, Next, NEW p \in Procs, processed'[p] # processed[p],
                      NEW s \in Services, Ns[s] \in label \ label', mode[s] = "ModelMesh"
               PROVE  s \in late[p]
    OBVIOUS
  <2>1. PICK q \in Procs, ns \in Namespaces : RemoveModelMeshLabel(q, ns)
    BY DEF Next, Step, ListISVCs, ListFails, Classify, Validate, Confirm, Take,
           UpdateServingRuntime, UpdateServingRuntimeForPVC, PatchISVCDeploymentMode, UpdateISVC,
           RestoreServingRuntime, Finish, Crash, Start, Edit, Deploy, cluster
  <2>2. q = p
    BY <2>1 DEF RemoveModelMeshLabel, IndInv, TypeOK
  <2>3. /\ pc[p] = "loop" /\ standard[p] = {} /\ pvc[p] = {}
        /\ ns \notin blocked[p] /\ ~dry[p] /\ Ns[s] = ns
    BY <2>1, <2>2 DEF RemoveModelMeshLabel
  <2> QED
    BY <2>3 DEF IndInv, RunOK, Covered, Planned, InTheWorks
<1> QED
  BY IndInit, IndStep, <1>1, PTL DEF Spec, LabelKeptWhileNeeded

(* classifyISVCsByStorageType never lets a model kept on a PVC into the    *)
(* standard loop, so none is switched without its storage URI.             *)
THEOREM PVCStorageRewritten == Spec => []PVCModelsRewritten
<1>1. IndInv => PVCModelsRewritten
  BY DEF IndInv
<1> QED
  BY IndInit, IndStep, <1>1, PTL DEF Spec

-----------------------------------------------------------------------------
(* What one process at a time may rely on, when no service comes late.     *)
Whole == \A s \in Services : mode[s] # "absent" /\ \A p \in Procs : s \notin late[p]

Working == {"loop"} \cup InTheWorks

Sharing(s, t) == s # t /\ RuntimeOf[s] = RuntimeOf[t] /\ RuntimeOf[s] # NoRuntime

(* A runtime shared with a model on a PVC: findPVCServingRuntimeConflicts  *)
(* stops every run that would convert one of its services.                 *)
OnMixedRuntime(s) == \E t \in Services : Sharing(s, t) /\ (OnPVC(s) \/ OnPVC(t))
MixedLeftAlone == \A s \in Services : OnMixedRuntime(s) => mode[s] = "ModelMesh"

(* A service that disagrees with its runtime is reported, or before the    *)
(* run or in its hands.                                                    *)
Loose(p) ==
    \A s \in Services : Broken(s) =>
        \/ s \in reported
        \/ ~dry[p] /\ pc[p] \in Working /\ s \in standard[p] \cup pvc[p]
        \/ ~dry[p] /\ pc[p] \in InTheWorks /\ s = cur[p]

(* What the run has before it is in ModelMesh mode and may be converted,   *)
(* and so is what it has in hand until it is converted.                    *)
Ahead(p) ==
    /\ pc[p] = "list" => listed[p] = {}
    /\ pc[p] = "classify" => \A s \in listed[p] : mode[s] = "ModelMesh"
    /\ pc[p] \in Planned =>
         \A s \in standard[p] \cup pvc[p] : mode[s] = "ModelMesh" /\ ~OnMixedRuntime(s)
    /\ pc[p] \in InTheWorks => /\ ~OnMixedRuntime(cur[p]) /\ cur[p] \notin standard[p] \cup pvc[p]
                               /\ cur[p] \in Auth => cur[p] \in auth

(* The services it leaves in ModelMesh mode it has reported.               *)
Behind(p) ==
    pc[p] \in Planned =>
        \A s \in Services : mode[s] = "ModelMesh" =>
            \/ s \in reported
            \/ s \in standard[p] \cup pvc[p]
            \/ pc[p] \in InTheWorks /\ s = cur[p]

(* The runtime is ready before its service is changed, and putting it back *)
(* disturbs only what is reported.                                         *)
RuntimeReady(p) ==
    /\ pc[p] \in {"patch", "update"} /\ RuntimeOf[cur[p]] # NoRuntime =>
         runtime[RuntimeOf[cur[p]]] # "multi"
    /\ pc[p] = "restore" => cur[p] \in reported
    /\ pc[p] \in {"runtime", "pvc runtime"} => snap[p] = "none"
    /\ pc[p] \in {"patch", "update", "restore"} /\ snap[p] # "none" =>
         \A t \in Services : Sharing(cur[p], t) =>
            snap[p] = "multi" /\ (mode[t] = "RawDeployment" => t \in reported)

Complete(p, s) ==
    /\ mode[s] = "RawDeployment" /\ ~Broken(s)
    /\ s \in Auth => s \in auth
    /\ Ns[s] \in processed[p] \/ Ns[s] \notin label

(* While nothing has failed, the services behind the run are converted.    *)
Progress(p) ==
    ~failed[p] /\ pc[p] \in Planned =>
        /\ blocked[p] = {} /\ pc[p] # "restore"
        /\ \A s \in listed[p] :
             \/ s \in standard[p] \cup pvc[p]
             \/ pc[p] \in InTheWorks /\ s = cur[p]
             \/ Complete(p, s)

AloneOK(p) ==
    /\ MixedLeftAlone /\ Loose(p)
    /\ dry[p] => pc[p] # "restore"
    /\ ~dry[p] => Ahead(p) /\ Behind(p) /\ RuntimeReady(p) /\ Progress(p)

(* Only the runtime references and the storage of the layout count.        *)
LEMMA SameLayout ==
    ASSUME layout' = layout
    PROVE  /\ RuntimeOf' = RuntimeOf /\ Stored' = Stored
           /\ \A s, t : Sharing(s, t)' <=> Sharing(s, t)
           /\ \A s : OnMixedRuntime(s)' <=> OnMixedRuntime(s)
BY DEF RuntimeOf, Stored, Sharing, OnMixedRuntime, OnPVC

LEMMA SameBroken ==
    ASSUME UNCHANGED <<mode, runtime, layout>>
    PROVE  \A s : Broken(s)' <=> Broken(s)
BY DEF Broken, RuntimeOf

(* A step that leaves the run with nothing in hand.                        *)
LEMMA LeavesWork ==
    ASSUME NEW p \in Procs, AloneOK(p), UNCHANGED <<mode, runtime, layout>>,
           reported \subseteq reported', pc'[p] \notin Planned, pc'[p] \notin {"list", "classify"},
           \A s \in Services : Broken(s) => s \in reported'
    PROVE  AloneOK(p)'
<1>1. MixedLeftAlone'
  BY SameLayout DEF AloneOK, MixedLeftAlone
<1>2. Loose(p)'
  BY SameBroken DEF Loose
<1>3. Ahead(p)' /\ Behind(p)' /\ RuntimeReady(p)' /\ Progress(p)'
  BY DEF Ahead, Behind, RuntimeReady, Progress, Planned, InTheWorks
<1> QED
  BY <1>1, <1>2, <1>3 DEF AloneOK, Planned, InTheWorks

(* A step of a dry run, which leaves the services alone.                   *)
LEMMA DryStep ==
    ASSUME NEW p \in Procs, AloneOK(p), UNCHANGED <<mode, runtime, layout, dry>>, dry[p],
           reported \subseteq reported', pc'[p] # "restore"
    PROVE  AloneOK(p)'
<1>1. MixedLeftAlone'
  BY SameLayout DEF AloneOK, MixedLeftAlone
<1>2. Loose(p)'
  BY SameBroken DEF AloneOK, Loose
<1> QED
  BY <1>1, <1>2 DEF AloneOK

(* The list, and the end of a run that finds nothing.                      *)
LEMMA AloneList ==
    ASSUME NEW p \in Procs, IndInv, AloneOK(p), ListISVCs(p)
    PROVE  AloneOK(p)'
<1> USE DEF cluster, options
<1>1. /\ pc[p] = "list" /\ pc'[p] \in {"classify", "done"}
      /\ UNCHANGED <<mode, runtime, layout, dry, reported>>
      /\ listed'[p] = {s \in Services : mode[s] = "ModelMesh"}
  BY DEF ListISVCs, Goto, End, IndInv, TypeOK
<1>2. MixedLeftAlone'
  BY <1>1, SameLayout DEF AloneOK, MixedLeftAlone
<1>3. Loose(p)'
  BY <1>1, SameBroken DEF AloneOK, Loose, Working, InTheWorks
<1>4. Ahead(p)' /\ Behind(p)' /\ RuntimeReady(p)' /\ Progress(p)'
  BY <1>1 DEF Ahead, Behind, RuntimeReady, Progress, Planned, InTheWorks
<1> QED
  BY <1>1, <1>2, <1>3, <1>4 DEF AloneOK

(* What is left to convert after the classification shares its runtime     *)
(* with no model on a PVC.                                                 *)
LEMMA NoConflict ==
    ASSUME TypeOK, NEW L \in SUBSET Services, NEW unread,
           ~Conflicts({s \in L : Kind(s, unread) = "standard"},
                      {s \in L : Kind(s, unread) = "pvc"},
                      {s \in L : Kind(s, unread) = "skipped"}),
           \A s \in Services : OnMixedRuntime(s) => s \in L
    PROVE  \A s \in L : OnMixedRuntime(s) => Kind(s, unread) = "skipped"
<1> SUFFICES ASSUME NEW s \in L, OnMixedRuntime(s), Kind(s, unread) # "skipped"
             PROVE  FALSE
  OBVIOUS
<1>1. PICK t \in Services : Sharing(s, t) /\ (OnPVC(s) \/ OnPVC(t))
  BY DEF OnMixedRuntime
<1>2. OnMixedRuntime(t)
  <2>1. Sharing(t, s)
    BY <1>1 DEF Sharing
  <2> QED
    BY <1>1, <2>1 DEF OnMixedRuntime
<1>3. t \in L
  BY <1>2
<1>4. \A x \in L : Kind(x, unread) \in {"skipped", "pvc", "standard"}
  BY DEF Kind
<1>5. \A x \in L : OnPVC(x) => Kind(x, unread) \in {"skipped", "pvc"}
  BY DEF Kind, OnPVC
<1>6. s # t /\ RuntimeOf[s] = RuntimeOf[t] /\ RuntimeOf[s] # NoRuntime
  BY <1>1 DEF Sharing
<1>7. CASE Kind(s, unread) = "pvc"
  BY <1>3, <1>4, <1>6, <1>7 DEF Conflicts, Shared
<1>8. CASE Kind(s, unread) = "standard"
  <2>1. OnPVC(t)
    BY <1>1, <1>5, <1>8
  <2>2. Kind(t, unread) \in {"skipped", "pvc"}
    BY <1>3, <1>5, <2>1
  <2> QED
    BY <1>3, <1>6, <1>8, <2>2 DEF Conflicts, Shared
<1> QED
  BY <1>4, <1>7, <1>8

(* classifyISVCsByStorageType and the look for conflicts.                  *)
LEMMA AloneClassify ==
    ASSUME NEW p \in Procs, IndInv, Whole, AloneOK(p), Classify(p)
    PROVE  AloneOK(p)'
<1> USE DEF cluster, options
<1>1. PICK unread \in SUBSET Namespaces :
        LET skipped == {s \in listed[p] : Kind(s, unread) = "skipped"}
            onPVC == {s \in listed[p] : Kind(s, unread) = "pvc"}
            std == {s \in listed[p] : Kind(s, unread) = "standard"}
        IN
        /\ standard' = [standard EXCEPT ![p] = std]
        /\ pvc' = [pvc EXCEPT ![p] = onPVC]
        /\ blocked' = [blocked EXCEPT ![p] = {Ns[s] : s \in skipped}]
        /\ IF Conflicts(std, onPVC, skipped)
           THEN /\ End(p, "failures")
                /\ failed' = [failed EXCEPT ![p] = TRUE]
                /\ reported' = reported \cup listed[p]
           ELSE /\ Goto(p, "validate")
                /\ failed' = [failed EXCEPT ![p] = skipped # {}]
                /\ reported' = reported \cup skipped
                /\ UNCHANGED exit
  BY DEF Classify
<1> DEFINE skipped == {s \in listed[p] : Kind(s, unread) = "skipped"}
           onPVC == {s \in listed[p] : Kind(s, unread) = "pvc"}
           std == {s \in listed[p] : Kind(s, unread) = "standard"}
<1>2. /\ pc[p] = "classify" /\ UNCHANGED <<mode, runtime, layout, dry, listed, cur>>
      /\ reported \subseteq reported' /\ listed[p] \in SUBSET Services
  BY <1>1 DEF Classify, IndInv, TypeOK
<1>3. \A s \in Services : Broken(s) => s \in reported
  BY <1>2 DEF AloneOK, Loose, Working, InTheWorks
<1>4. CASE Conflicts(std, onPVC, skipped)
  <2>1. pc'[p] = "done"
    BY <1>1, <1>4 DEF End, Goto, IndInv, TypeOK
  <2> QED
    BY <1>2, <1>3, <2>1, LeavesWork DEF Planned, InTheWorks
<1>5. CASE dry[p]
  <2>1. pc'[p] \in {"done", "validate"}
    BY <1>1 DEF End, Goto, IndInv, TypeOK
  <2> QED
    BY <1>2, <1>5, <2>1, DryStep
<1>6. CASE ~dry[p] /\ ~Conflicts(std, onPVC, skipped)
  <2>1. /\ pc'[p] = "validate" /\ standard'[p] = std /\ pvc'[p] = onPVC
        /\ blocked'[p] = {Ns[s] : s \in skipped}
        /\ failed'[p] = (skipped # {})
        /\ reported' = reported \cup skipped
    BY <1>1, <1>6 DEF Goto, IndInv, TypeOK
  <2>2. \A s \in listed[p] : mode[s] = "ModelMesh"
    BY <1>2, <1>6 DEF AloneOK, Ahead
  <2>3. \A s \in Services : mode[s] = "ModelMesh" => s \in listed[p]
    BY <1>2, <1>6 DEF IndInv, RunOK, Covered, Whole
  <2>4. \A s \in Services : OnMixedRuntime(s) => s \in listed[p]
    BY <2>3 DEF AloneOK, MixedLeftAlone
  <2>5. \A s \in listed[p] : OnMixedRuntime(s) => s \in skipped
    BY <1>2, <1>6, <2>4, NoConflict DEF IndInv
  <2>6. \A s \in listed[p] : s \in skipped \/ s \in std \cup onPVC
    BY DEF Kind
  <2>7. MixedLeftAlone'
    BY <1>2, SameLayout DEF AloneOK, MixedLeftAlone
  <2>8. Loose(p)'
    BY <1>2, <1>3, SameBroken DEF Loose
  <2>9. \A s \in std \cup onPVC : s \in listed[p] /\ s \notin skipped
    OBVIOUS
  <2> HIDE DEF skipped, std, onPVC
  <2>10. Ahead(p)'
    BY <1>2, <2>1, <2>2, <2>5, <2>9, SameLayout DEF Ahead, Planned, InTheWorks
  <2>11. Behind(p)'
    BY <1>2, <2>1, <2>3, <2>6 DEF Behind
  <2>12. RuntimeReady(p)'
    BY <2>1 DEF RuntimeReady
  <2>13. Progress(p)'
    BY <1>2, <2>1, <2>6 DEF Progress
  <2> QED
    BY <1>2, <1>6, <2>7, <2>8, <2>10, <2>11, <2>12, <2>13 DEF AloneOK
<1> QED
  BY <1>4, <1>5, <1>6

(* The validation of the runtimes and the user's answer change nothing.    *)
LEMMA AlonePasses ==
    ASSUME NEW p \in Procs, IndInv, AloneOK(p), Validate(p) \/ Confirm(p)
    PROVE  AloneOK(p)'
<1> USE DEF cluster, options, plan
<1>1. /\ pc[p] \in {"validate", "confirm"} /\ pc'[p] \in {"confirm", "loop", "done"}
      /\ UNCHANGED <<mode, runtime, layout, label, auth, dry, listed, standard, pvc, cur, snap,
                     processed, blocked>>
      /\ reported \subseteq reported'
      /\ pc'[p] # "done" => UNCHANGED <<failed, reported>>
  BY DEF Validate, Confirm, End, Goto, IndInv, TypeOK
<1>2. \A s \in Services : Broken(s) => s \in reported
  BY <1>1 DEF AloneOK, Loose, Working, InTheWorks
<1>3. CASE pc'[p] = "done"
  BY <1>1, <1>2, <1>3, LeavesWork DEF Planned, InTheWorks
<1>4. CASE pc'[p] # "done"
  <2>1. MixedLeftAlone'
    BY <1>1, SameLayout DEF AloneOK, MixedLeftAlone
  <2>2. Loose(p)'
    BY <1>1, <1>2, SameBroken DEF Loose
  <2>3. ASSUME ~dry[p] PROVE Ahead(p)' /\ Behind(p)' /\ RuntimeReady(p)' /\ Progress(p)'
    <3>1. Ahead(p) /\ Behind(p) /\ Progress(p)
      BY <2>3 DEF AloneOK
    <3>2. pc[p] \in Planned /\ pc[p] \notin InTheWorks /\ pc'[p] \notin InTheWorks
      BY <1>1, <1>4 DEF Planned, InTheWorks
    <3>3. Ahead(p)'
      BY <1>1, <1>4, <3>1, <3>2, SameLayout DEF Ahead
    <3>4. Behind(p)'
      BY <1>1, <1>4, <3>1, <3>2 DEF Behind
    <3>5. RuntimeReady(p)'
      BY <1>1 DEF RuntimeReady
    <3>6. Progress(p)'
      BY <1>1, <1>4, <3>1, <3>2, SameBroken DEF Progress, Complete
    <3> QED
      BY <3>3, <3>4, <3>5, <3>6
  <2> QED
    BY <1>1, <2>1, <2>2, <2>3 DEF AloneOK
<1> QED
  BY <1>3, <1>4

(* The next service is taken.                                              *)
LEMMA AloneTake ==
    ASSUME NEW p \in Procs, IndInv, AloneOK(p), NEW s \in Services, Take(p, s)
    PROVE  AloneOK(p)'
<1> USE DEF cluster, options, plan
<1>1. /\ pc[p] = "loop" /\ s \in standard[p] \cup pvc[p]
      /\ UNCHANGED <<mode, runtime, layout, label, dry, listed, processed>>
      /\ standard'[p] = standard[p] \ {s} /\ pvc'[p] = pvc[p] \ {s}
      /\ cur'[p] = s /\ snap'[p] = "none"
      /\ auth \subseteq auth' /\ reported \subseteq reported'
  BY DEF Take, Proceed, Fail, IndInv, TypeOK
<1>2. \/ /\ pc'[p] \in {"runtime", "pvc runtime"} /\ UNCHANGED <<failed, blocked>>
         /\ ~dry[p] /\ s \in Auth => s \in auth'
      \/ pc'[p] = "loop" /\ s \in reported' /\ failed'[p]
  BY DEF Take, Proceed, Fail, Goto, IndInv, TypeOK
<1>3. CASE dry[p]
  BY <1>1, <1>2, <1>3, DryStep
<1>4. CASE ~dry[p]
  <2>1. Ahead(p) /\ Behind(p) /\ Progress(p) /\ MixedLeftAlone /\ Loose(p)
    BY <1>4 DEF AloneOK
  <2>2. /\ pc[p] \in Planned /\ pc[p] \notin InTheWorks /\ pc[p] \in Working
        /\ pc'[p] \in Working /\ pc'[p] \in Planned
        /\ pc'[p] \in InTheWorks \/ s \in reported'
        /\ pc'[p] \notin {"list", "classify", "patch", "update", "restore"}
    BY <1>1, <1>2 DEF Planned, InTheWorks, Working
  <2>3. MixedLeftAlone'
    BY <1>1, <2>1, SameLayout DEF MixedLeftAlone
  <2>4. Loose(p)'
    BY <1>1, <1>4, <2>1, <2>2, SameBroken DEF Loose
  <2>5. Ahead(p)'
    <3>1. ~OnMixedRuntime(s) /\ mode[s] = "ModelMesh"
      BY <1>1, <2>1, <2>2 DEF Ahead
    <3>2. \A t \in standard'[p] \cup pvc'[p] : mode'[t] = "ModelMesh" /\ ~OnMixedRuntime(t)'
      BY <1>1, <2>1, <2>2, SameLayout DEF Ahead
    <3>3. pc'[p] \in InTheWorks => (s \in Auth => s \in auth')
      BY <1>2, <1>4 DEF InTheWorks
    <3> QED
      BY <1>1, <2>2, <3>1, <3>2, <3>3, SameLayout DEF Ahead
  <2>6. Behind(p)'
    BY <1>1, <2>1, <2>2 DEF Behind
  <2>7. RuntimeReady(p)'
    BY <1>1, <2>2 DEF RuntimeReady
  <2>8. Progress(p)'
    <3> SUFFICES ASSUME ~failed'[p] PROVE Progress(p)'
      BY DEF Progress
    <3>1. pc'[p] \in {"runtime", "pvc runtime"} /\ UNCHANGED <<failed, blocked>>
      BY <1>2
    <3>2. pc'[p] \in InTheWorks
      BY <3>1 DEF InTheWorks
    <3>3. \A t \in Services : Complete(p, t) => Complete(p, t)'
      BY <1>1, SameBroken DEF Complete
    <3>4. \A t \in listed[p] : t \in Services
      BY DEF IndInv, TypeOK
    <3> QED
      BY <1>1, <2>1, <2>2, <3>1, <3>2, <3>3, <3>4 DEF Progress
  <2> QED
    BY <1>1, <1>4, <2>3, <2>4, <2>5, <2>6, <2>7, <2>8 DEF AloneOK
<1> QED
  BY <1>3, <1>4

(* A runtime is rewritten for the service in hand, or its rewriting fails. *)
(* What it shares its runtime with is before the run or reported.          *)
LEMMA AloneRuntime ==
    ASSUME NEW p \in Procs, IndInv, AloneOK(p), ~dry[p],
           pc[p] \in {"runtime", "pvc runtime"},
           UNCHANGED <<mode, layout, label, auth, dry, listed, standard, pvc, cur, processed>>,
           \/ pc'[p] \in {"patch", "update"} /\ UNCHANGED <<failed, blocked, reported>>
           \/ /\ pc'[p] = "loop" /\ failed'[p]
              /\ reported' = reported \cup {cur[p]},
           \A r \in Runtimes : runtime'[r] # runtime[r] =>
                r = RuntimeOf[cur[p]] /\ runtime'[r] # "multi",
           \A t \in Services : Sharing(cur[p], t) /\ mode[t] = "ModelMesh" =>
                \/ runtime' = runtime
                \/ t \in reported \/ t \in standard[p] \cup pvc[p],
           RuntimeReady(p)'
    PROVE  AloneOK(p)'
<1>1. /\ Ahead(p) /\ Behind(p) /\ Progress(p) /\ MixedLeftAlone /\ Loose(p)
  BY DEF AloneOK
<1>2. /\ pc[p] \in Planned /\ pc[p] \in InTheWorks /\ pc[p] \in Working
      /\ pc'[p] \in Working /\ pc'[p] \in Planned
      /\ pc'[p] \notin {"list", "classify", "restore"}
      /\ pc'[p] \in InTheWorks \/ cur[p] \in reported'
      /\ reported \subseteq reported'
  BY DEF Planned, InTheWorks, Working
<1>3. MixedLeftAlone'
  BY <1>1, SameLayout DEF MixedLeftAlone
<1>4. \A t \in Services : RuntimeOf[t] \in Runtimes \cup {NoRuntime}
  BY DEF IndInv, TypeOK, RuntimeOf, Layout
<1>5. Loose(p)'
  <2> SUFFICES ASSUME NEW t \in Services, Broken(t)'
               PROVE  t \in reported' \/ t \in standard[p] \cup pvc[p] \/ t = cur[p]
    BY <1>2 DEF Loose
  <2>1. CASE Broken(t)
    BY <1>1, <1>2, <2>1 DEF Loose
  <2>2. CASE ~Broken(t) /\ t # cur[p]
    <3>1. /\ RuntimeOf[t] # NoRuntime /\ RuntimeOf[t] \in Runtimes
          /\ runtime'[RuntimeOf[t]] # runtime[RuntimeOf[t]]
      BY <1>4, <2>2, SameLayout DEF Broken
    <3>2. Sharing(cur[p], t) /\ runtime'[RuntimeOf[t]] # "multi" /\ runtime' # runtime
      BY <2>2, <3>1 DEF Sharing
    <3>3. mode[t] = "ModelMesh"
      BY <3>2, SameLayout DEF Broken
    <3> QED
      BY <1>2, <3>2, <3>3
  <2> QED
    BY <2>1, <2>2
<1>6. Ahead(p)'
  BY <1>1, <1>2, SameLayout DEF Ahead
<1>7. Behind(p)'
  BY <1>1, <1>2 DEF Behind
<1>8. Progress(p)'
  <2> SUFFICES ASSUME ~failed'[p] PROVE Progress(p)'
    BY DEF Progress
  <2>1. pc'[p] \in InTheWorks /\ UNCHANGED <<failed, blocked>>
    BY DEF InTheWorks
  <2>2. \A t \in Services : Complete(p, t) => Complete(p, t)'
    <3> SUFFICES ASSUME NEW t \in Services, Complete(p, t) PROVE ~Broken(t)'
      BY DEF Complete
    <3>1. mode'[t] = "RawDeployment" /\ ~Broken(t)
      BY DEF Complete
    <3>2. ASSUME RuntimeOf[t] # NoRuntime, runtime'[RuntimeOf[t]] = "multi"
          PROVE  runtime[RuntimeOf[t]] = "multi"
      BY <1>4, <3>2
    <3> QED
      BY <3>1, <3>2, SameLayout DEF Broken
  <2>3. \A t \in listed[p] : t \in Services
    BY DEF IndInv, TypeOK
  <2> QED
    BY <1>1, <1>2, <2>1, <2>2, <2>3 DEF Progress
<1> QED
  BY <1>3, <1>5, <1>6, <1>7, <1>8 DEF AloneOK

(* updateServingRuntime *)
LEMMA AloneUpdate ==
    ASSUME NEW p \in Procs, IndInv, AloneOK(p), UpdateServingRuntime(p)
    PROVE  AloneOK(p)'
<1> USE DEF cluster, options, plan
<1> DEFINE r == RuntimeOf[cur[p]]
<1>1. /\ pc[p] = "runtime" /\ cur[p] \in Services
      /\ UNCHANGED <<mode, layout, label, auth, dry, listed, standard, pvc, cur, processed>>
      /\ r \in Runtimes \cup {NoRuntime}
  BY DEF UpdateServingRuntime, IndInv, RunOK, InHandOK, InTheWorks, TypeOK, RuntimeOf, Layout
<1>2. \/ pc'[p] = "patch" /\ UNCHANGED <<failed, blocked, reported>>
      \/ pc'[p] = "loop" /\ failed'[p] /\ reported' = reported \cup {cur[p]}
  BY DEF UpdateServingRuntime, SetRuntime, Proceed, Fail, Goto, IndInv, TypeOK
<1>3. CASE dry[p]
  <2>1. runtime' = runtime
    BY <1>3 DEF UpdateServingRuntime
  <2> QED
    BY <1>1, <1>2, <1>3, <2>1, DryStep
<1>4. CASE ~dry[p]
  <2>1. \/ runtime' = runtime
        \/ r # NoRuntime /\ runtime[r] = "multi" /\ runtime' = [runtime EXCEPT ![r] = "single"]
    BY <1>4 DEF UpdateServingRuntime, SetRuntime
  <2>2. \A x \in Runtimes : runtime'[x] # runtime[x] => x = r /\ runtime'[x] # "multi"
    BY <2>1 DEF IndInv, TypeOK
  <2>3. Ahead(p) /\ Behind(p) /\ RuntimeReady(p) /\ Loose(p)
    BY <1>4 DEF AloneOK
  <2>4. \A t \in Services : Sharing(cur[p], t) /\ mode[t] = "ModelMesh" =>
            t \in reported \/ t \in standard[p] \cup pvc[p]
    BY <1>1, <2>3 DEF Behind, Planned, InTheWorks, Sharing
  <2>5. RuntimeReady(p)'
    <3>1. CASE pc'[p] = "loop"
      BY <3>1 DEF RuntimeReady
    <3>2. CASE pc'[p] = "patch"
      <4>1. CASE runtime' = runtime /\ snap' = snap /\ runtime[r] # "multi"
        <5>1. snap'[p] = "none"
          BY <1>1, <2>3, <4>1 DEF RuntimeReady
        <5> QED
          BY <1>1, <3>2, <4>1, <5>1, SameLayout DEF RuntimeReady
      <4>2. CASE /\ r # NoRuntime /\ runtime[r] = "multi" /\ snap'[p] = "multi"
                 /\ runtime' = [runtime EXCEPT ![r] = "single"]
        <5>1. runtime'[r] = "single"
          BY <1>1, <4>2 DEF IndInv, TypeOK
        <5>2. \A t \in Services : Sharing(cur[p], t) /\ mode[t] = "RawDeployment" => t \in reported'
          <6> SUFFICES ASSUME NEW t \in Services, Sharing(cur[p], t), mode[t] = "RawDeployment"
                       PROVE  t \in reported'
            OBVIOUS
          <6>1. Broken(t) /\ t # cur[p]
            BY <4>2 DEF Broken, Sharing
          <6>2. t \notin standard[p] \cup pvc[p]
            BY <1>1, <2>3 DEF Ahead, Planned, InTheWorks
          <6> QED
            BY <1>2, <2>3, <6>1, <6>2 DEF Loose
        <5> QED
          BY <1>1, <3>2, <4>2, <5>1, <5>2, SameLayout DEF RuntimeReady
      <4>3. \/ runtime' = runtime /\ snap' = snap /\ runtime[r] # "multi"
            \/ /\ r # NoRuntime /\ runtime[r] = "multi" /\ snap'[p] = "multi"
               /\ runtime' = [runtime EXCEPT ![r] = "single"]
        BY <1>4, <3>2 DEF UpdateServingRuntime, SetRuntime, Proceed, Fail, Goto, IndInv, TypeOK
      <4> QED
        BY <4>1, <4>2, <4>3
    <3> QED
      BY <1>2, <3>1, <3>2
  <2> QED
    BY <1>1, <1>2, <1>4, <2>2, <2>4, <2>5, AloneRuntime
<1> QED
  BY <1>3, <1>4

(* updateServingRuntimeForPVC: the runtime is the service's own.           *)
LEMMA AloneUpdatePVC ==
    ASSUME NEW p \in Procs, IndInv, AloneOK(p), UpdateServingRuntimeForPVC(p)
    PROVE  AloneOK(p)'
<1> USE DEF cluster, options, plan
<1> DEFINE r == RuntimeOf[cur[p]]
<1>1. /\ pc[p] = "pvc runtime" /\ cur[p] \in Services
      /\ UNCHANGED <<mode, layout, label, auth, dry, listed, standard, pvc, cur, processed>>
      /\ r \in Runtimes
  BY DEF UpdateServingRuntimeForPVC, IndInv, RunOK, InHandOK, RuntimeKnown, InTheWorks, TypeOK,
         RuntimeOf, Layout
<1>2. \/ pc'[p] = "update" /\ UNCHANGED <<failed, blocked, reported>>
      \/ pc'[p] = "loop" /\ failed'[p] /\ reported' = reported \cup {cur[p]}
  BY DEF UpdateServingRuntimeForPVC, SetRuntime, Proceed, Fail, Goto, IndInv, TypeOK
<1>3. CASE dry[p]
  <2>1. runtime' = runtime
    BY <1>3 DEF UpdateServingRuntimeForPVC
  <2> QED
    BY <1>1, <1>2, <1>3, <2>1, DryStep
<1>4. CASE ~dry[p]
  <2>1. /\ runtime' = runtime \/ (Stored[cur[p]] = "pvc" /\ runtime' = [runtime EXCEPT ![r] = cur[p]])
        /\ pc'[p] = "update" =>
             Stored[cur[p]] = "pvc" /\ runtime' = [runtime EXCEPT ![r] = cur[p]]
    BY <1>4 DEF UpdateServingRuntimeForPVC, SetRuntime, Proceed, Fail, Goto, IndInv, TypeOK
  <2>2. cur[p] # "multi"
    BY <1>1, ModelMeshAssumption
  <2>3. \A x \in Runtimes : runtime'[x] # runtime[x] => x = r /\ runtime'[x] # "multi"
    BY <2>1, <2>2 DEF IndInv, TypeOK
  <2>4. Stored[cur[p]] = "pvc" => \A t \in Services : ~Sharing(cur[p], t)
    BY <1>1, <1>4 DEF AloneOK, Ahead, InTheWorks, OnMixedRuntime, OnPVC
  <2>5. \A t \in Services : Sharing(cur[p], t) /\ mode[t] = "ModelMesh" => runtime' = runtime
    BY <2>1, <2>4
  <2>6. RuntimeReady(p)'
    <3>1. CASE pc'[p] = "loop"
      BY <3>1 DEF RuntimeReady
    <3>2. CASE pc'[p] = "update"
      <4>1. runtime'[r] = cur[p]
        BY <1>1, <2>1, <3>2 DEF IndInv, TypeOK
      <4>2. \A t \in Services : ~Sharing(cur[p], t)'
        BY <1>1, <2>1, <2>4, <3>2, SameLayout
      <4> QED
        BY <1>1, <2>2, <3>2, <4>1, <4>2, SameLayout DEF RuntimeReady
    <3> QED
      BY <1>2, <3>1, <3>2
  <2> QED
    BY <1>1, <1>2, <1>4, <2>3, <2>5, <2>6, AloneRuntime
<1> QED
  BY <1>3, <1>4

(* The write of the service itself, by a patch or by an Update.            *)
LEMMA AloneWrites ==
    ASSUME NEW p \in Procs, IndInv, AloneOK(p), PatchISVCDeploymentMode(p) \/ UpdateISVC(p)
    PROVE  AloneOK(p)'
<1> USE DEF cluster, options, plan
<1>1. /\ pc[p] \in {"patch", "update"} /\ cur[p] \in Services
      /\ UNCHANGED <<runtime, layout, label, auth, dry, listed, standard, pvc, cur, snap>>
  BY DEF PatchISVCDeploymentMode, UpdateISVC, IndInv, RunOK, InHandOK, InTheWorks
<1>2. \/ mode' = mode
      \/ mode' = [mode EXCEPT ![cur[p]] = "RawDeployment"]
  BY DEF PatchISVCDeploymentMode, UpdateISVC, ToRaw
<1>3. \/ /\ pc'[p] = "loop" /\ UNCHANGED <<failed, blocked, reported>>
         /\ processed'[p] = processed[p] \cup {Ns[cur[p]]}
      \/ pc'[p] = "restore" /\ failed'[p] /\ reported' = reported \cup {cur[p]}
  BY DEF PatchISVCDeploymentMode, UpdateISVC, Converted, NotConverted, Proceed, Fail, Goto,
         IndInv, TypeOK
<1>4. CASE dry[p]
  <2>1. mode' = mode /\ pc'[p] = "loop"
    BY <1>4 DEF PatchISVCDeploymentMode, UpdateISVC, Converted, Proceed, Goto, IndInv, TypeOK
  <2> QED
    BY <1>1, <1>3, <1>4, <2>1, DryStep
<1>5. CASE ~dry[p]
  <2>1. pc'[p] = "loop" => mode' = [mode EXCEPT ![cur[p]] = "RawDeployment"]
    BY <1>5 DEF PatchISVCDeploymentMode, UpdateISVC, ToRaw, NotConverted, Fail, Goto, IndInv, TypeOK
  <2>2. /\ \A t \in Services \ {cur[p]} : mode'[t] = mode[t]
        /\ pc'[p] = "loop" => mode'[cur[p]] = "RawDeployment"
    BY <1>1, <1>2, <2>1 DEF IndInv, TypeOK
  <2>3. Ahead(p) /\ Behind(p) /\ RuntimeReady(p) /\ Progress(p) /\ MixedLeftAlone /\ Loose(p)
    BY <1>5 DEF AloneOK
  <2>4. /\ pc[p] \in Planned /\ pc[p] \in InTheWorks /\ pc[p] \in Working
        /\ pc'[p] \in Planned /\ pc'[p] \in Working /\ reported \subseteq reported'
        /\ pc'[p] \notin {"list", "classify", "patch", "update", "runtime", "pvc runtime"}
        /\ pc'[p] = "loop" => pc'[p] \notin InTheWorks
        /\ pc'[p] = "restore" => cur[p] \in reported'
    BY <1>1, <1>3 DEF Planned, InTheWorks, Working
  <2>5. ~OnMixedRuntime(cur[p]) /\ cur[p] \notin standard[p] \cup pvc[p]
    BY <2>3, <2>4 DEF Ahead
  <2>6. MixedLeftAlone'
    BY <1>1, <2>2, <2>3, <2>5, SameLayout DEF MixedLeftAlone
  <2>7. \A t \in Services \ {cur[p]} : Broken(t)' <=> Broken(t)
    BY <1>1, <2>2, SameLayout DEF Broken
  <2>8. pc'[p] = "loop" => ~Broken(cur[p])'
    BY <1>1, <2>2, <2>3, SameLayout DEF RuntimeReady, Broken
  <2>9. Loose(p)'
    <3> SUFFICES ASSUME NEW t \in Services, Broken(t)'
                 PROVE  t \in reported' \/ t \in standard[p] \cup pvc[p]
      BY <1>1, <1>5, <2>4 DEF Loose
    <3>1. CASE t = cur[p]
      BY <1>1, <1>3, <2>4, <2>8, <3>1
    <3>2. CASE t # cur[p]
      BY <2>3, <2>4, <2>7, <3>2 DEF Loose
    <3> QED
      BY <3>1, <3>2
  <2>10. Ahead(p)'
    <3>1. \A t \in standard'[p] \cup pvc'[p] : mode'[t] = "ModelMesh" /\ ~OnMixedRuntime(t)'
      <4>1. standard[p] \cup pvc[p] \subseteq Services
        BY DEF IndInv, TypeOK
      <4> QED
        BY <1>1, <2>2, <2>3, <2>4, <2>5, <4>1, SameLayout DEF Ahead
    <3>2. cur[p] \in Auth => cur[p] \in auth
      BY <2>3, <2>4 DEF Ahead
    <3> QED
      BY <1>1, <2>4, <2>5, <3>1, <3>2, SameLayout DEF Ahead
  <2>11. Behind(p)'
    <3> SUFFICES ASSUME NEW t \in Services, mode'[t] = "ModelMesh"
                 PROVE  t \in reported' \/ t \in standard[p] \cup pvc[p]
      BY <1>1 DEF Behind
    <3>1. CASE t = cur[p]
      BY <1>3, <2>2, <2>4, <3>1
    <3>2. CASE t # cur[p]
      BY <2>2, <2>3, <2>4, <3>2 DEF Behind
    <3> QED
      BY <3>1, <3>2
  <2>12. RuntimeReady(p)'
    <3>1. \A t \in Services : Sharing(cur[p], t) => mode'[t] = mode[t]
      BY <2>2 DEF Sharing
    <3> QED
      BY <1>1, <2>3, <2>4, <3>1, SameLayout DEF RuntimeReady
  <2>13. Progress(p)'
    <3> SUFFICES ASSUME ~failed'[p] PROVE Progress(p)'
      BY DEF Progress
    <3>1. /\ pc'[p] = "loop" /\ UNCHANGED <<failed, blocked>>
          /\ processed'[p] = processed[p] \cup {Ns[cur[p]]}
      BY <1>3
    <3>2. \A t \in Services \ {cur[p]} : Complete(p, t) => Complete(p, t)'
      BY <1>1, <2>2, <2>7, <3>1 DEF Complete
    <3>3. Complete(p, cur[p])'
      BY <1>1, <2>2, <2>3, <2>4, <2>8, <3>1 DEF Complete, Ahead
    <3>4. listed[p] \subseteq Services
      BY DEF IndInv, TypeOK
    <3> QED
      BY <1>1, <2>3, <2>4, <3>1, <3>2, <3>3, <3>4 DEF Progress
  <2> QED
    BY <1>1, <1>5, <2>6, <2>9, <2>10, <2>11, <2>12, <2>13 DEF AloneOK
<1> QED
  BY <1>4, <1>5

(* restoreServingRuntime puts back what only reported services contradict. *)
LEMMA AloneRestore ==
    ASSUME NEW p \in Procs, IndInv, AloneOK(p), RestoreServingRuntime(p)
    PROVE  AloneOK(p)'
<1> USE DEF cluster, options, plan
<1> DEFINE r == RuntimeOf[cur[p]]
<1>1. /\ pc[p] = "restore" /\ pc'[p] = "loop" /\ cur[p] \in Services
      /\ UNCHANGED <<mode, layout, label, auth, dry, listed, standard, pvc, cur, snap, processed,
                     blocked, failed, reported>>
  BY DEF RestoreServingRuntime, Goto, IndInv, RunOK, InHandOK, InTheWorks, TypeOK
<1>2. \/ runtime' = runtime
      \/ snap[p] # "none" /\ runtime' = [runtime EXCEPT ![r] = snap[p]]
  BY DEF RestoreServingRuntime
<1>3. MixedLeftAlone'
  BY <1>1, SameLayout DEF AloneOK, MixedLeftAlone
<1>4. CASE dry[p]
  BY <1>1, <1>4 DEF AloneOK
<1>5. CASE ~dry[p]
  <2>1. Ahead(p) /\ Behind(p) /\ RuntimeReady(p) /\ Progress(p) /\ Loose(p)
    BY <1>5 DEF AloneOK
  <2>2. /\ pc[p] \in Planned /\ pc[p] \in InTheWorks
        /\ pc'[p] \in Planned /\ pc'[p] \in Working /\ pc'[p] \notin InTheWorks
    BY <1>1 DEF Planned, InTheWorks, Working
  <2>3. cur[p] \in reported /\ failed[p]
    BY <1>1, <2>1, <2>2 DEF RuntimeReady, Progress
  <2>4. Loose(p)'
    <3> SUFFICES ASSUME NEW t \in Services, Broken(t)'
                 PROVE  t \in reported \/ t \in standard[p] \cup pvc[p]
      BY <1>1, <1>5, <2>2 DEF Loose
    <3>1. CASE Broken(t)
      BY <2>1, <2>3, <3>1 DEF Loose
    <3>2. CASE ~Broken(t) /\ t # cur[p]
      <4>1. /\ RuntimeOf[t] # NoRuntime /\ RuntimeOf[t] \in Runtimes
            /\ runtime'[RuntimeOf[t]] # runtime[RuntimeOf[t]]
        <5>1. RuntimeOf[t] \in Runtimes \cup {NoRuntime}
          BY DEF IndInv, TypeOK, RuntimeOf, Layout
        <5> QED
          BY <1>1, <3>2, <5>1, SameLayout DEF Broken
      <4>2. RuntimeOf[t] = r /\ snap[p] # "none" /\ runtime'[RuntimeOf[t]] = snap[p]
        BY <1>2, <4>1 DEF IndInv, TypeOK
      <4>3. Sharing(cur[p], t)
        BY <3>2, <4>1, <4>2 DEF Sharing
      <4>4. snap[p] = "multi" /\ (mode[t] = "RawDeployment" => t \in reported)
        BY <1>1, <2>1, <4>2, <4>3 DEF RuntimeReady
      <4>5. mode[t] = "RawDeployment"
        BY <1>1, <4>2, <4>4, SameLayout DEF Broken, IndInv, TypeOK
      <4> QED
        BY <4>4, <4>5
    <3> QED
      BY <2>3, <3>1, <3>2
  <2>5. Ahead(p)'
    BY <1>1, <2>1, <2>2, SameLayout DEF Ahead
  <2>6. Behind(p)'
    BY <1>1, <2>1, <2>2, <2>3 DEF Behind
  <2>7. RuntimeReady(p)' /\ Progress(p)'
    BY <1>1, <2>3 DEF RuntimeReady, Progress
  <2> QED
    BY <1>1, <1>3, <1>5, <2>4, <2>5, <2>6, <2>7 DEF AloneOK
<1> QED
  BY <1>4, <1>5

(* removeModelMeshLabel *)
LEMMA AloneLabel ==
    ASSUME NEW p \in Procs, IndInv, AloneOK(p), NEW ns \in Namespaces, RemoveModelMeshLabel(p, ns)
    PROVE  AloneOK(p)'
<1> USE DEF cluster, options, plan
<1>1. /\ pc[p] = "loop"
      /\ UNCHANGED <<mode, runtime, layout, auth, dry, listed, standard, pvc, cur, snap, pc,
                     blocked, reported>>
      /\ processed'[p] = processed[p] \ {ns} /\ label' \subseteq label
  BY DEF RemoveModelMeshLabel, IndInv, TypeOK
<1>2. CASE dry[p]
  BY <1>1, <1>2, DryStep
<1>3. CASE ~dry[p]
  <2>1. Ahead(p) /\ Behind(p) /\ RuntimeReady(p) /\ Progress(p) /\ MixedLeftAlone /\ Loose(p)
    BY <1>3 DEF AloneOK
  <2>2. MixedLeftAlone' /\ Loose(p)'
    BY <1>1, <2>1, SameLayout, SameBroken DEF MixedLeftAlone, Loose
  <2>3. Ahead(p)' /\ Behind(p)'
    BY <1>1, <2>1, SameLayout DEF Ahead, Behind
  <2>4. RuntimeReady(p)'
    BY <1>1 DEF RuntimeReady
  <2>5. Progress(p)'
    <3> SUFFICES ASSUME ~failed'[p] PROVE Progress(p)'
      BY DEF Progress
    <3>1. failed' = failed /\ label' = label \ {ns}
      BY <1>3 DEF RemoveModelMeshLabel, IndInv, TypeOK
    <3>2. \A t \in Services : Complete(p, t) => Complete(p, t)'
      BY <1>1, <3>1, SameBroken DEF Complete
    <3>3. listed[p] \subseteq Services
      BY DEF IndInv, TypeOK
    <3> QED
      BY <1>1, <2>1, <3>1, <3>2, <3>3 DEF Progress
  <2> QED
    BY <1>1, <1>3, <2>2, <2>3, <2>4, <2>5 DEF AloneOK
<1> QED
  BY <1>2, <1>3

(* The ends of a run: nothing it breaks goes unreported.                   *)
LEMMA AloneEnds ==
    ASSUME NEW p \in Procs, IndInv, AloneOK(p), ListFails(p) \/ Finish(p) \/ Crash(p)
    PROVE  AloneOK(p)'
<1> USE DEF cluster, options, plan
<1>1. /\ UNCHANGED <<mode, runtime, layout>> /\ reported \subseteq reported'
      /\ pc'[p] \in {"done", "crashed"}
  BY DEF ListFails, Finish, Crash, End, Goto, IndInv, TypeOK
<1>2. \A s \in Services : Broken(s) => s \in reported'
  <2>1. CASE ListFails(p)
    BY <1>1, <2>1 DEF ListFails, AloneOK, Loose, Working, InTheWorks
  <2>2. CASE Finish(p)
    BY <1>1, <2>2 DEF Finish, AloneOK, Loose, InTheWorks
  <2>3. CASE Crash(p)
    BY <1>1, <2>3 DEF Crash, AloneOK, Loose
  <2> QED
    BY <2>1, <2>2, <2>3
<1> QED
  BY <1>1, <1>2, LeavesWork DEF Planned, InTheWorks

LEMMA AloneStart ==
    ASSUME NEW p \in Procs, IndInv, AloneOK(p), Start(p)
    PROVE  AloneOK(p)'
<1>1. /\ UNCHANGED <<mode, runtime, layout, reported>>
      /\ pc[p] \in Over /\ pc'[p] = "list" /\ listed'[p] = {}
  BY DEF Start, Reset, cluster, Goto, IndInv, TypeOK
<1>2. MixedLeftAlone'
  BY <1>1, SameLayout DEF AloneOK, MixedLeftAlone
<1>3. Loose(p)'
  BY <1>1, SameBroken DEF AloneOK, Loose, Working, InTheWorks, Over
<1>4. Ahead(p)' /\ Behind(p)' /\ RuntimeReady(p)' /\ Progress(p)'
  BY <1>1 DEF Ahead, Behind, RuntimeReady, Progress, Planned, InTheWorks
<1> QED
  BY <1>1, <1>2, <1>3, <1>4 DEF AloneOK

(* What the others do.                                                     *)
LEMMA AloneOthers ==
    ASSUME NEW p \in Procs, AloneOK(p),
           UNCHANGED <<cluster, options, plan, pc, cur, snap, processed, blocked, failed, reported>>
    PROVE  AloneOK(p)'
<1> USE DEF cluster, options, plan
<1>1. MixedLeftAlone' /\ Loose(p)'
  BY SameLayout, SameBroken DEF AloneOK, MixedLeftAlone, Loose
<1>2. ASSUME ~dry[p] PROVE Ahead(p)' /\ Behind(p)' /\ RuntimeReady(p)' /\ Progress(p)'
  <2>1. Ahead(p) /\ Behind(p) /\ RuntimeReady(p) /\ Progress(p)
    BY <1>2 DEF AloneOK
  <2>2. Ahead(p)' /\ Behind(p)'
    BY <2>1, SameLayout DEF Ahead, Behind
  <2>3. RuntimeReady(p)'
    BY <2>1, SameLayout DEF RuntimeReady
  <2>4. Progress(p)'
    BY <2>1, SameBroken DEF Progress, Complete
  <2> QED
    BY <2>2, <2>3, <2>4
<1> QED
  BY <1>1, <1>2 DEF AloneOK

LEMMA AloneStep ==
    ASSUME NEW p, Procs = {p}, IndInv, Whole, AloneOK(p), [Next]_vars
    PROVE  AloneOK(p)'
<1>1. CASE Step(p)
  BY <1>1, AloneList, AloneClassify, AlonePasses, AloneTake, AloneUpdate, AloneUpdatePVC,
     AloneWrites, AloneRestore, AloneLabel, AloneEnds DEF Step
<1>2. CASE Crash(p)
  BY <1>2, AloneEnds
<1>3. CASE Start(p)
  BY <1>3, AloneStart
<1>4. CASE \E s \in Services : Edit(s)
  BY <1>4, AloneOthers DEF Edit
<1>5. CASE UNCHANGED vars
  BY <1>5, AloneOthers DEF vars
<1>6. \A s \in Services : ~Deploy(s)
  BY DEF Whole, Deploy
<1> QED
  BY <1>1, <1>2, <1>3, <1>4, <1>5, <1>6 DEF Next

(* No service is deployed if all are there.                                *)
LEMMA WholeStep ==
    ASSUME IndInv, Whole, [Next]_vars
    PROVE  Whole'
<1> USE DEF cluster, options, plan
<1>1. \A s \in Services : ~Deploy(s)
  BY DEF Whole, Deploy
<1>2. late' = late \/ \E p \in Procs : late' = [late EXCEPT ![p] = {}]
  BY <1>1 DEF Next, Step, ListISVCs, ListFails, Classify, Validate, Confirm, Take,
     UpdateServingRuntime, UpdateServingRuntimeForPVC, PatchISVCDeploymentMode, UpdateISVC,
     RestoreServingRuntime, RemoveModelMeshLabel, Finish, Crash, Start, Reset, Edit, vars
<1>3. mode' = mode \/ \E p \in Procs : mode' = [mode EXCEPT ![cur[p]] = "RawDeployment"]
  <2>1. ASSUME NEW p \in Procs, PatchISVCDeploymentMode(p) \/ UpdateISVC(p)
        PROVE  mode' = mode \/ mode' = [mode EXCEPT ![cur[p]] = "RawDeployment"]
    BY <2>1 DEF PatchISVCDeploymentMode, UpdateISVC, ToRaw
  <2>2. mode' = mode \/ \E p \in Procs : PatchISVCDeploymentMode(p) \/ UpdateISVC(p)
    BY <1>1 DEF Next, Step, ListISVCs, ListFails, Classify, Validate, Confirm, Take,
       UpdateServingRuntime, UpdateServingRuntimeForPVC, RestoreServingRuntime,
       RemoveModelMeshLabel, Finish, Crash, Start, Edit, vars
  <2> QED
    BY <2>1, <2>2
<1>4. \A s \in Services : mode'[s] # "absent"
  BY <1>3 DEF Whole, IndInv, TypeOK
<1>5. \A p \in Procs : late'[p] \subseteq late[p]
  BY <1>2 DEF IndInv, TypeOK
<1> QED
  BY <1>4, <1>5 DEF Whole

LEMMA AloneInit ==
    ASSUME NEW p \in Procs, \A l \in Layouts : l.first = Services, Init
    PROVE  Whole /\ AloneOK(p)
<1>1. \A s \in Services : mode[s] = "ModelMesh" /\ ~Broken(s)
  <2> SUFFICES ASSUME NEW s \in Services PROVE mode[s] = "ModelMesh" /\ ~Broken(s)
    OBVIOUS
  <2>1. mode[s] = "ModelMesh"
    BY DEF Init
  <2>2. RuntimeOf[s] # NoRuntime => runtime[RuntimeOf[s]] \in {"absent", "multi"}
    <3>1. RuntimeOf[s] \in Runtimes \cup {NoRuntime}
      BY IndInit DEF IndInv, TypeOK, RuntimeOf, Layout
    <3> QED
      BY <3>1 DEF Init
  <2> QED
    BY <2>1, <2>2 DEF Broken
<1>2. pc[p] = "new" /\ listed[p] = {} /\ Whole
  BY <1>1 DEF Init, Whole
<1> QED
  BY <1>1, <1>2 DEF AloneOK, MixedLeftAlone, Loose, Ahead, Behind, RuntimeReady, Progress, Planned,
     InTheWorks

(* If one run is at work at a time and no service comes late, a service    *)
(* that disagrees with its runtime is before the run or in its hands, or   *)
(* the user was told: the order runtime, service, and back again never     *)
(* breaks another one.                                                     *)
THEOREM BrokenReported ==
    ASSUME NEW p, Procs = {p}, \A l \in Layouts : l.first = Services
    PROVE  Spec => []BrokenIsReported
<1>1. Init => Whole /\ AloneOK(p)
  BY AloneInit
<1>2. IndInv /\ Whole /\ AloneOK(p) /\ [Next]_vars => Whole' /\ AloneOK(p)'
  BY AloneStep, WholeStep
<1>3. IndInv /\ AloneOK(p) => BrokenIsReported
  BY DEF AloneOK, Loose, BrokenIsReported, Working, InTheWorks, Over, IndInv, TypeOK, Layout
<1> QED
  BY <1>1, <1>2, <1>3, IndInit, IndStep, PTL DEF Spec

(* If one run is at work at a time and no service comes late, a `migrate   *)
(* run` that ends without a failure has converted all it listed: mode,     *)
(* runtime, auth resources and the label of the namespace.                 *)
THEOREM SuccessIsConversion ==
    ASSUME NEW only, Procs = {only}, \A l \in Layouts : l.first = Services
    PROVE  Spec => OkMeansConverted
<1> DEFINE Promise ==
      \A p \in Procs : Alone /\ exit[p] = "none" /\ exit'[p] = "ok" /\ ~dry[p] =>
        \A s \in listed[p] :
            /\ mode[s] = "RawDeployment" /\ ~Broken(s)
            /\ s \in Auth => s \in auth
            /\ Ns[s] \notin label
<1>1. Init => Whole /\ AloneOK(only)
  BY AloneInit
<1>2. IndInv /\ Whole /\ AloneOK(only) /\ [Next]_vars => Whole' /\ AloneOK(only)'
  BY AloneStep, WholeStep
<1>3. IndInv /\ AloneOK(only) /\ [Next]_vars => [Promise]_vars
  <2> SUFFICES ASSUME IndInv, AloneOK(only), Next, exit[only] = "none", exit'[only] = "ok", ~dry[only],
                      NEW s \in listed[only]
               PROVE  /\ mode[s] = "RawDeployment" /\ ~Broken(s)
                      /\ s \in Auth => s \in auth
                      /\ Ns[s] \notin label
    OBVIOUS
  <2>1. exit' # exit
    OBVIOUS
  <2>2. Step(only) \/ Start(only)
    BY <2>1 DEF Next, Crash, Edit, Deploy
  <2>3. ~Start(only)
    BY DEF Start, Reset, IndInv, TypeOK
  <2>4. CASE ListISVCs(only) \/ ListFails(only)
    BY <2>4 DEF ListISVCs, ListFails, AloneOK, Ahead
  <2>5. CASE Finish(only)
    <3>1. ~failed[only]
      BY <2>5 DEF Finish, End, Status, IndInv, TypeOK
    <3>2. /\ pc[only] = "loop" /\ standard[only] = {} /\ pvc[only] = {}
          /\ processed[only] \subseteq blocked[only]
      BY <2>5 DEF Finish
    <3>3. blocked[only] = {} /\ Complete(only, s)
      BY <3>1, <3>2 DEF AloneOK, Progress, Planned, InTheWorks
    <3> QED
      BY <3>2, <3>3 DEF Complete
  <2>6. ~Classify(only) /\ ~Validate(only) /\ ~Confirm(only)
    <3> USE DEF IndInv, TypeOK, End
    <3>1. ~Classify(only)
      <4>1. Classify(only) => exit' = exit \/ exit' = [exit EXCEPT ![only] = "failures"]
        BY DEF Classify
      <4> QED
        BY <2>1, <4>1
    <3>2. ~Validate(only)
      BY <2>1 DEF Validate
    <3>3. ~Confirm(only)
      BY <2>1 DEF Confirm
    <3> QED
      BY <3>1, <3>2, <3>3
  <2>7. ListISVCs(only) \/ ListFails(only) \/ Finish(only)
    BY <2>1, <2>2, <2>3, <2>6
       DEF Step, Take, UpdateServingRuntime, UpdateServingRuntimeForPVC, PatchISVCDeploymentMode,
           UpdateISVC, RestoreServingRuntime, RemoveModelMeshLabel
  <2> QED
    BY <2>4, <2>5, <2>7
<1> QED
  BY <1>1, <1>2, <1>3, IndInit, IndStep, PTL DEF Spec, OkMeansConverted
=============================================================================

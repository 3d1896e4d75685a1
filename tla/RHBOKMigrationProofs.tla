----------------------- MODULE RHBOKMigrationProofs -----------------------
(***************************************************************************)
(* Theorems about RHBOKMigration, for every number of processes, every set *)
(* of namespaces and workloads and every choice of flags.                  *)
(***************************************************************************)
EXTENDS RHBOKMigration, TLAPS

-----------------------------------------------------------------------------
\* Type correctness, one part of the state at a time.

\* A step that leaves a part of the state alone keeps its type.
LEMMA SameCluster == ASSUME ClusterTypeOK, UNCHANGED cluster PROVE ClusterTypeOK'
BY DEF ClusterTypeOK, cluster

LEMMA SameMemory == ASSUME MemoryTypeOK, UNCHANGED memory PROVE MemoryTypeOK'
BY DEF MemoryTypeOK, memory

\* Every name the actions use is one of the declared ones.
LEMMA Names ==
    /\ {"validate", "check-complete", "begin", "preserve", "remove",
        "remove-ask", "remove-patch", "wait-removed", "crds",
        "crd-check", "crd-delete", "install", "install-ask",
        "install-create", "install-wait", "activate", "activate-ask",
        "activate-patch", "wait-ready", "label-ns", "label-ns-ask",
        "label-ns-loop", "label-wl", "label-wl-ask", "label-wl-loop",
        "verify", "verify-check", "preserved", "idle", "done", "halted",
        "refused"} \subseteq Labels
    /\ {"migration-complete", "get-kueue-state", "preserve-kueue-config",
        "remove-embedded-kueue", "wait-embedded-removal",
        "delete-legacy-crds", "install-rhbok-operator", "activate-rhbok",
        "wait-kueue-ready", "label-kueue-namespaces",
        "label-kueue-workloads", "verify-migration-complete",
        "verify-resources-preserved"} \subseteq StepNames
    /\ {"none", "completed", "skipped", "failed"} \subseteq Statuses
BY DEF Labels, Ended, StepNames, Statuses

\* The moves of a process keep the type of pc and of the recorder.
LEMMA GotoType ==
    ASSUME ProcTypeOK, NEW p \in Procs, NEW label \in Labels, Goto(p, label)
    PROVE  pc' \in [Procs -> Labels]
BY DEF Goto, ProcTypeOK

LEMMA RecordType ==
    ASSUME ProcTypeOK, NEW p \in Procs, NEW step \in StepNames,
           NEW status \in Statuses, Record(p, step, status)
    PROVE  steps' \in [Procs -> [StepNames -> Statuses]]
BY DEF Record, ProcTypeOK

LEMMA FinishType ==
    ASSUME ProcTypeOK, NEW p \in Procs, NEW step \in StepNames,
           NEW status \in Statuses, NEW next \in Labels,
           Finish(p, step, status, next)
    PROVE  ProcTypeOK'
<1>1. (IF status = "failed" THEN "halted" ELSE next) \in Labels
  BY DEF Labels, Ended
<1> QED
  BY <1>1, GotoType, RecordType DEF Finish, ProcTypeOK

LEMMA LabelStepType ==
    ASSUME ProcTypeOK, NEW p \in Procs, NEW step \in StepNames, NEW items,
           NEW ask \in Labels, NEW loop \in Labels, NEW next \in Labels,
           LabelStep(p, step, items, ask, loop, next)
    PROVE  ProcTypeOK'
<1>1. {"completed", "skipped", "failed"} \subseteq Statuses
  BY DEF Statuses
<1>2. (IF opt[p].yes THEN loop ELSE ask) \in Labels
  OBVIOUS
<1> QED
  BY <1>1, <1>2, FinishType, GotoType DEF LabelStep, ProcTypeOK

LEMMA RunProcType ==
    ASSUME ProcTypeOK, NEW p \in Procs, Run(p)
    PROVE  ProcTypeOK'
<1>1. CASE Validate(p)
  BY <1>1, Names, FinishType, GotoType, RecordType
     DEF Validate, ProcTypeOK
<1>2. CASE CheckComplete(p)
  BY <1>2, Names, FinishType, GotoType, RecordType
     DEF CheckComplete, ProcTypeOK
<1>3. CASE Begin(p)
  BY <1>3, Names, FinishType, GotoType, RecordType
     DEF Begin, ProcTypeOK
<1>4. CASE Preserve(p)
  BY <1>4, Names, FinishType, GotoType, RecordType
     DEF Preserve, ProcTypeOK
<1>5. CASE Remove(p)
  BY <1>5, Names, FinishType, GotoType, RecordType
     DEF Remove, ProcTypeOK
<1>6. CASE RemovePatch(p)
  BY <1>6, Names, FinishType, GotoType, RecordType
     DEF RemovePatch, PatchManagementState, ProcTypeOK
<1>7. CASE WaitRemoved(p)
  BY <1>7, Names, FinishType, GotoType, RecordType
     DEF WaitRemoved, ProcTypeOK
<1>8. CASE DeleteCRDs(p)
  BY <1>8, Names, FinishType, GotoType, RecordType
     DEF DeleteCRDs, ProcTypeOK
<1>9. CASE CheckCRD(p)
  BY <1>9, Names, FinishType, GotoType, RecordType
     DEF CheckCRD, ProcTypeOK
<1>10. CASE DeleteCRD(p)
  BY <1>10, Names, FinishType, GotoType, RecordType
     DEF DeleteCRD, ProcTypeOK
<1>11. CASE FinishCRDs(p)
  BY <1>11, Names, FinishType, GotoType, RecordType
     DEF FinishCRDs, ProcTypeOK
<1>12. CASE InstallV0(p)
  BY <1>12, Names, FinishType, GotoType, RecordType
     DEF InstallV0, AfterInstall, ProcTypeOK
<1>13. CASE RequestSubscription(p)
  BY <1>13, Names, FinishType, GotoType, RecordType
     DEF RequestSubscription, Request, AfterInstall, ProcTypeOK
<1>14. CASE WaitForCSV(p)
  BY <1>14, Names, FinishType, GotoType, RecordType
     DEF WaitForCSV, WaitInstalled, AfterInstall, ProcTypeOK
<1>15. CASE InstallV1(p)
  BY <1>15, Names, FinishType, GotoType, RecordType
     DEF InstallV1, AfterInstall, ProcTypeOK
<1>16. CASE RequestExtension(p)
  BY <1>16, Names, FinishType, GotoType, RecordType
     DEF RequestExtension, Request, AfterInstall, ProcTypeOK
<1>17. CASE WaitForExtension(p)
  BY <1>17, Names, FinishType, GotoType, RecordType
     DEF WaitForExtension, WaitInstalled, AfterInstall, ProcTypeOK
<1>18. CASE Activate(p)
  BY <1>18, Names, FinishType, GotoType, RecordType
     DEF Activate, ProcTypeOK
<1>19. CASE ActivatePatch(p)
  BY <1>19, Names, FinishType, GotoType, RecordType
     DEF ActivatePatch, PatchManagementState, ProcTypeOK
<1>20. CASE WaitReady(p)
  BY <1>20, Names, FinishType, GotoType, RecordType
     DEF WaitReady, ProcTypeOK
<1>21. CASE LabelNS(p)
  BY <1>21, Names, LabelStepType DEF LabelNS
<1>22. ASSUME NEW n \in Namespaces, PatchNamespace(p, n) PROVE ProcTypeOK'
  BY <1>22, Names, FinishType, GotoType, RecordType
     DEF PatchNamespace, ProcTypeOK
<1>23. CASE LabelWL(p)
  BY <1>23, Names, LabelStepType DEF LabelWL
<1>24. ASSUME NEW w \in Workloads, PatchWorkload(p, w) PROVE ProcTypeOK'
  BY <1>24, Names, FinishType, GotoType, RecordType
     DEF PatchWorkload, ProcTypeOK
<1>25. CASE FinishLabels(p)
  BY <1>25, Names, FinishType, GotoType, RecordType
     DEF FinishLabels, ProcTypeOK
<1>26. CASE Verify(p)
  BY <1>26, Names, FinishType, GotoType, RecordType
     DEF Verify, ProcTypeOK
<1>27. CASE VerifyCheck(p)
  BY <1>27, Names, FinishType, GotoType, RecordType
     DEF VerifyCheck, ProcTypeOK
<1>28. CASE FinishVerify(p)
  BY <1>28, Names, FinishType, GotoType, RecordType
     DEF FinishVerify, ProcTypeOK
<1>29. CASE Preserved(p)
  <2>1. PICK status \in {"skipped", "completed", "failed"} :
          Record(p, "verify-resources-preserved", status)
    BY <1>29 DEF Preserved
  <2> QED
    BY <1>29, <2>1, Names, GotoType, RecordType DEF Preserved, ProcTypeOK
<1> QED
  BY <1>1, <1>2, <1>3, <1>4, <1>5, <1>6, <1>7, <1>8, <1>9, <1>10, <1>11,
     <1>12, <1>13, <1>14, <1>15, <1>16, <1>17, <1>18, <1>19, <1>20, <1>21,
     <1>22, <1>23, <1>24, <1>25, <1>26, <1>27, <1>28, <1>29 DEF Run

LEMMA UserProcType ==
    ASSUME ProcTypeOK, NEW p \in Procs, User(p)
    PROVE  ProcTypeOK'
<1>1. CASE Start(p)
  BY <1>1, Names, GotoType DEF Start, ProcTypeOK
<1>2. CASE Crash(p)
  BY <1>2, Names, FinishType, GotoType, RecordType
     DEF Crash, ProcTypeOK
<1>3. CASE RemoveAsk(p)
  BY <1>3, Names, FinishType, GotoType, RecordType
     DEF RemoveAsk, Ask, ProcTypeOK
<1>4. CASE InstallAsk(p)
  BY <1>4, Names, FinishType, GotoType, RecordType
     DEF InstallAsk, Ask, AfterInstall, ProcTypeOK
<1>5. CASE ActivateAsk(p)
  BY <1>5, Names, FinishType, GotoType, RecordType
     DEF ActivateAsk, Ask, ProcTypeOK
<1>6. CASE LabelNSAsk(p)
  BY <1>6, Names, FinishType, GotoType, RecordType
     DEF LabelNSAsk, Ask, ProcTypeOK
<1>7. CASE LabelWLAsk(p)
  BY <1>7, Names, FinishType, GotoType, RecordType
     DEF LabelWLAsk, Ask, ProcTypeOK
<1> QED
  BY <1>1, <1>2, <1>3, <1>4, <1>5, <1>6, <1>7 DEF User

\* The plan that a process caches has its type.
LEMMA PlanInType ==
    ASSUME ClusterTypeOK, MemoryTypeOK, NEW p \in Procs
    PROVE  ExecutePlan(p) \in PlanType
<1>1. LabelingPlan \in PlanType
  BY Parameters DEF LabelingPlan, PlanType, ClusterTypeOK, Candidates,
     KueueEnabledNamespaces, WorkloadLabeledNamespaces
<1> QED
  BY <1>1 DEF ExecutePlan, MemoryTypeOK

LEMMA RunMemoryType ==
    ASSUME ClusterTypeOK, MemoryTypeOK, NEW p \in Procs, Run(p)
    PROVE  MemoryTypeOK'
<1>1. CASE Validate(p)
  BY <1>1, Parameters DEF Validate, MemoryTypeOK, SelectedModes, Modes
<1>2. CASE CheckComplete(p)
  BY <1>2, SameMemory DEF CheckComplete
<1>3. CASE Begin(p)
  BY <1>3 DEF Begin, MemoryTypeOK, PlanType, NoPlan, ClusterTypeOK
<1>4. CASE Preserve(p)
  BY <1>4, SameMemory DEF Preserve
<1>5. CASE Remove(p)
  BY <1>5 DEF Remove, MemoryTypeOK
<1>6. CASE RemovePatch(p)
  BY <1>6 DEF RemovePatch, PatchManagementState, MemoryTypeOK
<1>7. CASE WaitRemoved(p)
  BY <1>7, SameMemory DEF WaitRemoved
<1>8. CASE DeleteCRDs(p)
  <2>1. bad' \in [Procs -> BOOLEAN]
    BY <1>8 DEF DeleteCRDs, MemoryTypeOK
  <2>2. count' \in [Procs -> Nat]
    BY <1>8 DEF DeleteCRDs, MemoryTypeOK
  <2> QED
    BY <1>8, <2>1, <2>2 DEF DeleteCRDs, MemoryTypeOK
<1>9. CASE CheckCRD(p)
  <2>1. bad' \in [Procs -> BOOLEAN]
    BY <1>9 DEF CheckCRD, MemoryTypeOK
  <2>2. count' \in [Procs -> Nat]
    BY <1>9 DEF CheckCRD, MemoryTypeOK
  <2> QED
    BY <1>9, <2>1, <2>2 DEF CheckCRD, MemoryTypeOK
<1>10. CASE DeleteCRD(p)
  <2>1. bad' \in [Procs -> BOOLEAN]
    BY <1>10 DEF DeleteCRD, MemoryTypeOK
  <2>2. count' \in [Procs -> Nat]
    BY <1>10 DEF DeleteCRD, MemoryTypeOK
  <2> QED
    BY <1>10, <2>1, <2>2 DEF DeleteCRD, MemoryTypeOK
<1>11. CASE FinishCRDs(p)
  BY <1>11, SameMemory DEF FinishCRDs
<1>12. CASE InstallV0(p)
  BY <1>12, SameMemory DEF InstallV0
<1>13. CASE RequestSubscription(p)
  BY <1>13, SameMemory DEF RequestSubscription, Request
<1>14. CASE WaitForCSV(p)
  BY <1>14, SameMemory DEF WaitForCSV, WaitInstalled
<1>15. CASE InstallV1(p)
  BY <1>15, SameMemory DEF InstallV1
<1>16. CASE RequestExtension(p)
  BY <1>16, SameMemory DEF RequestExtension, Request
<1>17. CASE WaitForExtension(p)
  BY <1>17, SameMemory DEF WaitForExtension, WaitInstalled
<1>18. CASE Activate(p)
  BY <1>18 DEF Activate, MemoryTypeOK
<1>19. CASE ActivatePatch(p)
  BY <1>19 DEF ActivatePatch, PatchManagementState, MemoryTypeOK
<1>20. CASE WaitReady(p)
  BY <1>20, SameMemory DEF WaitReady
<1>21. CASE LabelNS(p)
  BY <1>21, PlanInType DEF LabelNS, LabelStep, MemoryTypeOK, PlanType
<1>22. ASSUME NEW n \in Namespaces, PatchNamespace(p, n) PROVE MemoryTypeOK'
  BY <1>22 DEF PatchNamespace, MemoryTypeOK
<1>23. CASE LabelWL(p)
  BY <1>23, PlanInType DEF LabelWL, LabelStep, MemoryTypeOK, PlanType
<1>24. ASSUME NEW w \in Workloads, PatchWorkload(p, w) PROVE MemoryTypeOK'
  BY <1>24 DEF PatchWorkload, MemoryTypeOK
<1>25. CASE FinishLabels(p)
  BY <1>25, SameMemory DEF FinishLabels
<1>26. CASE Verify(p)
  <2>1. bad' \in [Procs -> BOOLEAN]
    BY <1>26 DEF Verify, MemoryTypeOK
  <2>2. count' \in [Procs -> Nat]
    BY <1>26 DEF Verify, MemoryTypeOK
  <2> QED
    BY <1>26, <2>1, <2>2 DEF Verify, MemoryTypeOK
<1>27. CASE VerifyCheck(p)
  <2>1. bad' \in [Procs -> BOOLEAN]
    BY <1>27 DEF VerifyCheck, MemoryTypeOK
  <2>2. count' \in [Procs -> Nat]
    BY <1>27 DEF VerifyCheck, MemoryTypeOK
  <2> QED
    BY <1>27, <2>1, <2>2 DEF VerifyCheck, MemoryTypeOK
<1>28. CASE FinishVerify(p)
  BY <1>28, SameMemory DEF FinishVerify
<1>29. CASE Preserved(p)
  BY <1>29, SameMemory DEF Preserved
<1> QED
  BY <1>1, <1>2, <1>3, <1>4, <1>5, <1>6, <1>7, <1>8, <1>9, <1>10, <1>11,
     <1>12, <1>13, <1>14, <1>15, <1>16, <1>17, <1>18, <1>19, <1>20, <1>21,
     <1>22, <1>23, <1>24, <1>25, <1>26, <1>27, <1>28, <1>29 DEF Run

LEMMA UserMemoryType ==
    ASSUME MemoryTypeOK, NEW p \in Procs, User(p)
    PROVE  MemoryTypeOK'
<1>1. CASE Start(p)
  BY <1>1, Parameters DEF Start, MemoryTypeOK, PlanType, NoPlan
<1>2. CASE Crash(p)
  BY <1>2, SameMemory DEF Crash
<1>3. CASE RemoveAsk(p)
  BY <1>3, SameMemory DEF RemoveAsk, Ask
<1>4. CASE InstallAsk(p)
  BY <1>4, SameMemory DEF InstallAsk, Ask
<1>5. CASE ActivateAsk(p)
  BY <1>5, SameMemory DEF ActivateAsk, Ask
<1>6. CASE LabelNSAsk(p)
  BY <1>6, SameMemory DEF LabelNSAsk, Ask
<1>7. CASE LabelWLAsk(p)
  BY <1>7, SameMemory DEF LabelWLAsk, Ask
<1> QED
  BY <1>1, <1>2, <1>3, <1>4, <1>5, <1>6, <1>7 DEF User

LEMMA RunClusterType ==
    ASSUME ClusterTypeOK, MemoryTypeOK, NEW p \in Procs, Run(p)
    PROVE  ClusterTypeOK'
<1>1. CASE Validate(p)
  BY <1>1, SameCluster DEF Validate
<1>2. CASE CheckComplete(p)
  BY <1>2, SameCluster DEF CheckComplete
<1>3. CASE Begin(p)
  BY <1>3, SameCluster DEF Begin
<1>4. CASE Preserve(p)
  BY <1>4 DEF Preserve, ClusterTypeOK, memory
<1>5. CASE Remove(p)
  BY <1>5, SameCluster DEF Remove
<1>6. CASE RemovePatch(p)
  BY <1>6 DEF RemovePatch, PatchManagementState, ClusterTypeOK, States
<1>7. CASE WaitRemoved(p)
  BY <1>7, SameCluster DEF WaitRemoved
<1>8. CASE DeleteCRDs(p)
  BY <1>8, SameCluster DEF DeleteCRDs
<1>9. CASE CheckCRD(p)
  BY <1>9, SameCluster DEF CheckCRD
<1>10. CASE DeleteCRD(p)
  BY <1>10 DEF DeleteCRD, ClusterTypeOK, CRDStates
<1>11. CASE FinishCRDs(p)
  BY <1>11, SameCluster DEF FinishCRDs
<1>12. CASE InstallV0(p)
  BY <1>12, SameCluster DEF InstallV0
<1>13. CASE RequestSubscription(p)
  BY <1>13 DEF RequestSubscription, Request, ClusterTypeOK, MemoryTypeOK, Modes,
     Requests
<1>14. CASE WaitForCSV(p)
  BY <1>14, SameCluster DEF WaitForCSV, WaitInstalled
<1>15. CASE InstallV1(p)
  BY <1>15, SameCluster DEF InstallV1
<1>16. CASE RequestExtension(p)
  BY <1>16 DEF RequestExtension, Request, ClusterTypeOK, MemoryTypeOK, Modes,
     Requests
<1>17. CASE WaitForExtension(p)
  BY <1>17, SameCluster DEF WaitForExtension, WaitInstalled
<1>18. CASE Activate(p)
  BY <1>18, SameCluster DEF Activate
<1>19. CASE ActivatePatch(p)
  BY <1>19 DEF ActivatePatch, PatchManagementState, ClusterTypeOK, States
<1>20. CASE WaitReady(p)
  BY <1>20, SameCluster DEF WaitReady
<1>21. CASE LabelNS(p)
  BY <1>21, SameCluster DEF LabelNS, LabelStep
<1>22. ASSUME NEW n \in Namespaces, PatchNamespace(p, n) PROVE ClusterTypeOK'
  BY <1>22 DEF PatchNamespace, ClusterTypeOK
<1>23. CASE LabelWL(p)
  BY <1>23, SameCluster DEF LabelWL, LabelStep
<1>24. ASSUME NEW w \in Workloads, PatchWorkload(p, w) PROVE ClusterTypeOK'
  BY <1>24 DEF PatchWorkload, ClusterTypeOK
<1>25. CASE FinishLabels(p)
  BY <1>25, SameCluster DEF FinishLabels
<1>26. CASE Verify(p)
  BY <1>26, SameCluster DEF Verify
<1>27. CASE VerifyCheck(p)
  BY <1>27, SameCluster DEF VerifyCheck
<1>28. CASE FinishVerify(p)
  BY <1>28, SameCluster DEF FinishVerify
<1>29. CASE Preserved(p)
  BY <1>29, SameCluster DEF Preserved
<1> QED
  BY <1>1, <1>2, <1>3, <1>4, <1>5, <1>6, <1>7, <1>8, <1>9, <1>10, <1>11,
     <1>12, <1>13, <1>14, <1>15, <1>16, <1>17, <1>18, <1>19, <1>20, <1>21,
     <1>22, <1>23, <1>24, <1>25, <1>26, <1>27, <1>28, <1>29 DEF Run

LEMMA UserClusterType ==
    ASSUME ClusterTypeOK, NEW p \in Procs, User(p)
    PROVE  ClusterTypeOK'
<1>1. CASE Start(p)
  BY <1>1, SameCluster DEF Start
<1>2. CASE Crash(p)
  BY <1>2, SameCluster DEF Crash
<1>3. CASE RemoveAsk(p)
  BY <1>3, SameCluster DEF RemoveAsk, Ask
<1>4. CASE InstallAsk(p)
  BY <1>4, SameCluster DEF InstallAsk, Ask
<1>5. CASE ActivateAsk(p)
  BY <1>5, SameCluster DEF ActivateAsk, Ask
<1>6. CASE LabelNSAsk(p)
  BY <1>6, SameCluster DEF LabelNSAsk, Ask
<1>7. CASE LabelWLAsk(p)
  BY <1>7, SameCluster DEF LabelWLAsk, Ask
<1> QED
  BY <1>1, <1>2, <1>3, <1>4, <1>5, <1>6, <1>7 DEF User

LEMMA OutsideType ==
    ASSUME ClusterTypeOK, Controllers \/ Others
    PROVE  ClusterTypeOK' /\ UNCHANGED <<pc, steps, memory>>
<1>1. CASE DeployEmbedded
  BY <1>1 DEF DeployEmbedded, ClusterTypeOK
<1>2. CASE RemoveEmbedded
  BY <1>2 DEF RemoveEmbedded, ClusterTypeOK
<1>3. CASE UpdateReady
  BY <1>3 DEF UpdateReady, ReportedReady, ClusterTypeOK, ReadyStates, States
<1>4. CASE PodsChange
  BY <1>4 DEF PodsChange, ClusterTypeOK
<1>5. ASSUME NEW m \in Modes, OLMInstall(m) PROVE ClusterTypeOK' /\ UNCHANGED <<pc, steps, memory>>
  BY <1>5 DEF OLMInstall, ClusterTypeOK, Requests
<1>6. ASSUME NEW w \in Workloads, CreateWorkload(w) PROVE ClusterTypeOK' /\ UNCHANGED <<pc, steps, memory>>
  BY <1>6 DEF CreateWorkload, ClusterTypeOK
<1>7. ASSUME NEW c \in CRDNames, CreateInstance(c) PROVE ClusterTypeOK' /\ UNCHANGED <<pc, steps, memory>>
  BY <1>7 DEF CreateInstance, ClusterTypeOK, CRDStates
<1>8. ASSUME NEW target \in AdminTargets, AdminEdit(target) PROVE ClusterTypeOK' /\ UNCHANGED <<pc, steps, memory>>
  BY <1>8, Parameters DEF AdminEdit, ClusterTypeOK
<1> QED
  BY <1>1, <1>2, <1>3, <1>4, <1>5, <1>6, <1>7, <1>8 DEF Controllers, Others

LEMMA InitType == Init => TypeOK
<1> SUFFICES ASSUME Init PROVE TypeOK
  OBVIOUS
<1>1. ClusterTypeOK
  BY Parameters DEF Init, ClusterType, ClusterTypeOK
<1>2. ProcTypeOK
  BY DEF Init, ProcTypeOK, Labels, Ended, Statuses
<1>3. MemoryTypeOK
  BY Parameters DEF Init, MemoryTypeOK, PlanType, NoPlan, Modes, States
<1> QED
  BY <1>1, <1>2, <1>3 DEF TypeOK

LEMMA NextType == TypeOK /\ [Next]_vars => TypeOK'
<1> SUFFICES ASSUME TypeOK, [Next]_vars PROVE TypeOK'
  OBVIOUS
<1>1. ASSUME NEW p \in Procs, Run(p) PROVE TypeOK'
  BY <1>1, RunProcType, RunMemoryType, RunClusterType DEF TypeOK
<1>2. ASSUME NEW p \in Procs, User(p) PROVE TypeOK'
  BY <1>2, UserProcType, UserMemoryType, UserClusterType DEF TypeOK
<1>3. CASE Controllers \/ Others
  BY <1>3, OutsideType, SameMemory DEF TypeOK, ProcTypeOK
<1>4. CASE UNCHANGED vars
  BY <1>4, SameMemory, SameCluster DEF TypeOK, ProcTypeOK, vars
<1> QED
  BY <1>1, <1>2, <1>3, <1>4 DEF Next

\* In every reachable state of every instance, the cluster, the recorders and the
\* memory of each process have their types: no handler writes a managementState,
\* a step status or a label the rest of the code does not know.
THEOREM TypeCorrect == Spec => []TypeOK
BY InitType, NextType, PTL DEF Spec

-----------------------------------------------------------------------------
\* What one step of a process does to the others and to the cluster.

Same(q) == /\ pc'[q] = pc[q] /\ opt'[q] = opt[q] /\ seen'[q] = seen[q]
           /\ steps'[q] = steps[q] /\ todo'[q] = todo[q] /\ count'[q] = count[q]

\* A step of one process leaves the memory of every other alone.
LEMMA RunFrame ==
    ASSUME TypeOK, NEW p \in Procs, NEW q \in Procs \ {p}, Run(p)
    PROVE  Same(q)
<1>1. CASE Validate(p)
  BY <1>1 DEF Validate, Same, Finish, Goto, Record, memory, TypeOK, ProcTypeOK,
     MemoryTypeOK
<1>2. CASE CheckComplete(p)
  BY <1>2 DEF CheckComplete, Same, Finish, Goto, Record, memory, TypeOK,
     ProcTypeOK, MemoryTypeOK
<1>3. CASE Begin(p)
  BY <1>3 DEF Begin, Same, Finish, Goto, Record, memory, TypeOK, ProcTypeOK,
     MemoryTypeOK
<1>4. CASE Preserve(p)
  BY <1>4 DEF Preserve, Same, Finish, Goto, Record, memory, TypeOK, ProcTypeOK,
     MemoryTypeOK
<1>5. CASE Remove(p)
  BY <1>5 DEF Remove, Same, Finish, Goto, Record, memory, TypeOK, ProcTypeOK,
     MemoryTypeOK
<1>6. CASE RemovePatch(p)
  BY <1>6 DEF RemovePatch, PatchManagementState, Same, Finish, Goto, Record,
     memory, TypeOK, ProcTypeOK, MemoryTypeOK
<1>7. CASE WaitRemoved(p)
  BY <1>7 DEF WaitRemoved, Same, Finish, Goto, Record, memory, TypeOK,
     ProcTypeOK, MemoryTypeOK
<1>8. CASE DeleteCRDs(p)
  BY <1>8 DEF DeleteCRDs, Same, Finish, Goto, Record, memory, TypeOK, ProcTypeOK,
     MemoryTypeOK
<1>9. CASE CheckCRD(p)
  BY <1>9 DEF CheckCRD, Same, Finish, Goto, Record, memory, TypeOK, ProcTypeOK,
     MemoryTypeOK
<1>10. CASE DeleteCRD(p)
  BY <1>10 DEF DeleteCRD, Same, Finish, Goto, Record, memory, TypeOK, ProcTypeOK,
     MemoryTypeOK
<1>11. CASE FinishCRDs(p)
  BY <1>11 DEF FinishCRDs, Same, Finish, Goto, Record, memory, TypeOK,
     ProcTypeOK, MemoryTypeOK
<1>12. CASE InstallV0(p)
  BY <1>12 DEF InstallV0, Same, Finish, Goto, Record, memory, TypeOK, ProcTypeOK,
     MemoryTypeOK
<1>13. CASE RequestSubscription(p)
  BY <1>13 DEF RequestSubscription, Request, Same, Finish, Goto, Record, memory,
     TypeOK, ProcTypeOK, MemoryTypeOK
<1>14. CASE WaitForCSV(p)
  BY <1>14 DEF WaitForCSV, WaitInstalled, Same, Finish, Goto, Record, memory,
     TypeOK, ProcTypeOK, MemoryTypeOK
<1>15. CASE InstallV1(p)
  BY <1>15 DEF InstallV1, Same, Finish, Goto, Record, memory, TypeOK, ProcTypeOK,
     MemoryTypeOK
<1>16. CASE RequestExtension(p)
  BY <1>16 DEF RequestExtension, Request, Same, Finish, Goto, Record, memory,
     TypeOK, ProcTypeOK, MemoryTypeOK
<1>17. CASE WaitForExtension(p)
  BY <1>17 DEF WaitForExtension, WaitInstalled, Same, Finish, Goto, Record,
     memory, TypeOK, ProcTypeOK, MemoryTypeOK
<1>18. CASE Activate(p)
  BY <1>18 DEF Activate, Same, Finish, Goto, Record, memory, TypeOK, ProcTypeOK,
     MemoryTypeOK
<1>19. CASE ActivatePatch(p)
  BY <1>19 DEF ActivatePatch, PatchManagementState, Same, Finish, Goto, Record,
     memory, TypeOK, ProcTypeOK, MemoryTypeOK
<1>20. CASE WaitReady(p)
  BY <1>20 DEF WaitReady, Same, Finish, Goto, Record, memory, TypeOK, ProcTypeOK,
     MemoryTypeOK
<1>21. CASE LabelNS(p)
  BY <1>21 DEF LabelNS, LabelStep, Same, Finish, Goto, Record, memory, TypeOK,
     ProcTypeOK, MemoryTypeOK
<1>22. ASSUME NEW n \in Namespaces, PatchNamespace(p, n) PROVE Same(q)
  BY <1>22 DEF PatchNamespace, Same, Finish, Goto, Record, memory, TypeOK,
     ProcTypeOK, MemoryTypeOK
<1>23. CASE LabelWL(p)
  BY <1>23 DEF LabelWL, LabelStep, Same, Finish, Goto, Record, memory, TypeOK,
     ProcTypeOK, MemoryTypeOK
<1>24. ASSUME NEW w \in Workloads, PatchWorkload(p, w) PROVE Same(q)
  BY <1>24 DEF PatchWorkload, Same, Finish, Goto, Record, memory, TypeOK,
     ProcTypeOK, MemoryTypeOK
<1>25. CASE FinishLabels(p)
  BY <1>25 DEF FinishLabels, Same, Finish, Goto, Record, memory, TypeOK,
     ProcTypeOK, MemoryTypeOK
<1>26. CASE Verify(p)
  BY <1>26 DEF Verify, Same, Finish, Goto, Record, memory, TypeOK, ProcTypeOK,
     MemoryTypeOK
<1>27. CASE VerifyCheck(p)
  BY <1>27 DEF VerifyCheck, Same, Finish, Goto, Record, memory, TypeOK,
     ProcTypeOK, MemoryTypeOK
<1>28. CASE FinishVerify(p)
  BY <1>28 DEF FinishVerify, Same, Finish, Goto, Record, memory, TypeOK,
     ProcTypeOK, MemoryTypeOK
<1>29. CASE Preserved(p)
  BY <1>29 DEF Preserved, Same, Finish, Goto, Record, memory, TypeOK, ProcTypeOK,
     MemoryTypeOK
<1> QED
  BY <1>1, <1>2, <1>3, <1>4, <1>5, <1>6, <1>7, <1>8, <1>9, <1>10, <1>11,
     <1>12, <1>13, <1>14, <1>15, <1>16, <1>17, <1>18, <1>19, <1>20, <1>21,
     <1>22, <1>23, <1>24, <1>25, <1>26, <1>27, <1>28, <1>29 DEF Run

LEMMA UserFrame ==
    ASSUME TypeOK, NEW p \in Procs, NEW q \in Procs \ {p}, User(p)
    PROVE  Same(q)
<1>1. CASE Start(p)
  BY <1>1 DEF Start, Same, Finish, Goto, Record, memory, TypeOK, ProcTypeOK,
     MemoryTypeOK
<1>2. CASE Crash(p)
  BY <1>2 DEF Crash, Same, Finish, Goto, Record, memory, TypeOK, ProcTypeOK,
     MemoryTypeOK
<1>3. CASE RemoveAsk(p)
  BY <1>3 DEF RemoveAsk, Ask, Same, Finish, Goto, Record, memory, TypeOK,
     ProcTypeOK, MemoryTypeOK
<1>4. CASE InstallAsk(p)
  BY <1>4 DEF InstallAsk, Ask, Same, Finish, Goto, Record, memory, TypeOK,
     ProcTypeOK, MemoryTypeOK
<1>5. CASE ActivateAsk(p)
  BY <1>5 DEF ActivateAsk, Ask, Same, Finish, Goto, Record, memory, TypeOK,
     ProcTypeOK, MemoryTypeOK
<1>6. CASE LabelNSAsk(p)
  BY <1>6 DEF LabelNSAsk, Ask, Same, Finish, Goto, Record, memory, TypeOK,
     ProcTypeOK, MemoryTypeOK
<1>7. CASE LabelWLAsk(p)
  BY <1>7 DEF LabelWLAsk, Ask, Same, Finish, Goto, Record, memory, TypeOK,
     ProcTypeOK, MemoryTypeOK
<1> QED
  BY <1>1, <1>2, <1>3, <1>4, <1>5, <1>6, <1>7 DEF User

-----------------------------------------------------------------------------
\* A dry run never gets to where the code writes.

LEMMA RunWriter ==
    ASSUME TypeOK, NEW p \in Procs, Run(p), pc[p] \in WritePoints => ~opt[p].dry
    PROVE  pc'[p] \in WritePoints => ~opt'[p].dry
<1>1. CASE Validate(p)
  BY <1>1 DEF Validate, Finish, Goto, memory, WritePoints, TypeOK, ProcTypeOK,
     MemoryTypeOK
<1>2. CASE CheckComplete(p)
  BY <1>2 DEF CheckComplete, Finish, Goto, memory, WritePoints, TypeOK,
     ProcTypeOK, MemoryTypeOK
<1>3. CASE Begin(p)
  BY <1>3 DEF Begin, Finish, Goto, memory, WritePoints, TypeOK, ProcTypeOK,
     MemoryTypeOK
<1>4. CASE Preserve(p)
  BY <1>4 DEF Preserve, Finish, Goto, memory, WritePoints, TypeOK, ProcTypeOK,
     MemoryTypeOK
<1>5. CASE Remove(p)
  BY <1>5 DEF Remove, Finish, Goto, memory, WritePoints, TypeOK, ProcTypeOK,
     MemoryTypeOK
<1>6. CASE RemovePatch(p)
  BY <1>6 DEF RemovePatch, PatchManagementState, Finish, Goto, memory,
     WritePoints, TypeOK, ProcTypeOK, MemoryTypeOK
<1>7. CASE WaitRemoved(p)
  BY <1>7 DEF WaitRemoved, Finish, Goto, memory, WritePoints, TypeOK, ProcTypeOK,
     MemoryTypeOK
<1>8. CASE DeleteCRDs(p)
  BY <1>8 DEF DeleteCRDs, Finish, Goto, memory, WritePoints, TypeOK, ProcTypeOK,
     MemoryTypeOK
<1>9. CASE CheckCRD(p)
  BY <1>9 DEF CheckCRD, Finish, Goto, memory, WritePoints, TypeOK, ProcTypeOK,
     MemoryTypeOK
<1>10. CASE DeleteCRD(p)
  BY <1>10 DEF DeleteCRD, Finish, Goto, memory, WritePoints, TypeOK, ProcTypeOK,
     MemoryTypeOK
<1>11. CASE FinishCRDs(p)
  BY <1>11 DEF FinishCRDs, Finish, Goto, memory, WritePoints, TypeOK, ProcTypeOK,
     MemoryTypeOK
<1>12. CASE InstallV0(p)
  BY <1>12 DEF InstallV0, AfterInstall, Finish, Goto, memory, WritePoints,
     TypeOK, ProcTypeOK, MemoryTypeOK
<1>13. CASE RequestSubscription(p)
  BY <1>13 DEF RequestSubscription, Request, AfterInstall, Finish, Goto, memory,
     WritePoints, TypeOK, ProcTypeOK, MemoryTypeOK
<1>14. CASE WaitForCSV(p)
  BY <1>14 DEF WaitForCSV, WaitInstalled, AfterInstall, Finish, Goto, memory,
     WritePoints, TypeOK, ProcTypeOK, MemoryTypeOK
<1>15. CASE InstallV1(p)
  BY <1>15 DEF InstallV1, AfterInstall, Finish, Goto, memory, WritePoints,
     TypeOK, ProcTypeOK, MemoryTypeOK
<1>16. CASE RequestExtension(p)
  BY <1>16 DEF RequestExtension, Request, AfterInstall, Finish, Goto, memory,
     WritePoints, TypeOK, ProcTypeOK, MemoryTypeOK
<1>17. CASE WaitForExtension(p)
  BY <1>17 DEF WaitForExtension, WaitInstalled, AfterInstall, Finish, Goto,
     memory, WritePoints, TypeOK, ProcTypeOK, MemoryTypeOK
<1>18. CASE Activate(p)
  BY <1>18 DEF Activate, Finish, Goto, memory, WritePoints, TypeOK, ProcTypeOK,
     MemoryTypeOK
<1>19. CASE ActivatePatch(p)
  BY <1>19 DEF ActivatePatch, PatchManagementState, Finish, Goto, memory,
     WritePoints, TypeOK, ProcTypeOK, MemoryTypeOK
<1>20. CASE WaitReady(p)
  BY <1>20 DEF WaitReady, Finish, Goto, memory, WritePoints, TypeOK, ProcTypeOK,
     MemoryTypeOK
<1>21. CASE LabelNS(p)
  BY <1>21 DEF LabelNS, LabelStep, Finish, Goto, memory, WritePoints, TypeOK,
     ProcTypeOK, MemoryTypeOK
<1>22. ASSUME NEW n \in Namespaces, PatchNamespace(p, n) PROVE pc'[p] \in WritePoints => ~opt'[p].dry
  BY <1>22 DEF PatchNamespace
<1>23. CASE LabelWL(p)
  BY <1>23 DEF LabelWL, LabelStep, Finish, Goto, memory, WritePoints, TypeOK,
     ProcTypeOK, MemoryTypeOK
<1>24. ASSUME NEW w \in Workloads, PatchWorkload(p, w) PROVE pc'[p] \in WritePoints => ~opt'[p].dry
  BY <1>24 DEF PatchWorkload
<1>25. CASE FinishLabels(p)
  BY <1>25 DEF FinishLabels, Finish, Goto, memory, WritePoints, TypeOK,
     ProcTypeOK, MemoryTypeOK
<1>26. CASE Verify(p)
  BY <1>26 DEF Verify, Finish, Goto, memory, WritePoints, TypeOK, ProcTypeOK,
     MemoryTypeOK
<1>27. CASE VerifyCheck(p)
  BY <1>27 DEF VerifyCheck
<1>28. CASE FinishVerify(p)
  BY <1>28 DEF FinishVerify, Finish, Goto, memory, WritePoints, TypeOK,
     ProcTypeOK, MemoryTypeOK
<1>29. CASE Preserved(p)
  BY <1>29 DEF Preserved, Finish, Goto, memory, WritePoints, TypeOK, ProcTypeOK,
     MemoryTypeOK
<1> QED
  BY <1>1, <1>2, <1>3, <1>4, <1>5, <1>6, <1>7, <1>8, <1>9, <1>10, <1>11,
     <1>12, <1>13, <1>14, <1>15, <1>16, <1>17, <1>18, <1>19, <1>20, <1>21,
     <1>22, <1>23, <1>24, <1>25, <1>26, <1>27, <1>28, <1>29 DEF Run

LEMMA UserWriter ==
    ASSUME TypeOK, NEW p \in Procs, User(p), pc[p] \in WritePoints => ~opt[p].dry
    PROVE  pc'[p] \in WritePoints => ~opt'[p].dry
<1>1. CASE Start(p)
  BY <1>1 DEF Start, Finish, Goto, memory, WritePoints, TypeOK, ProcTypeOK,
     MemoryTypeOK
<1>2. CASE Crash(p)
  BY <1>2 DEF Crash, Finish, Goto, memory, WritePoints, TypeOK, ProcTypeOK,
     MemoryTypeOK
<1>3. CASE RemoveAsk(p)
  BY <1>3 DEF RemoveAsk, Ask, Finish, Goto, memory, WritePoints, TypeOK,
     ProcTypeOK, MemoryTypeOK
<1>4. CASE InstallAsk(p)
  BY <1>4 DEF InstallAsk, Ask, AfterInstall, Finish, Goto, memory, WritePoints,
     TypeOK, ProcTypeOK, MemoryTypeOK
<1>5. CASE ActivateAsk(p)
  BY <1>5 DEF ActivateAsk, Ask, Finish, Goto, memory, WritePoints, TypeOK,
     ProcTypeOK, MemoryTypeOK
<1>6. CASE LabelNSAsk(p)
  BY <1>6 DEF LabelNSAsk, Ask, Finish, Goto, memory, WritePoints, TypeOK,
     ProcTypeOK, MemoryTypeOK
<1>7. CASE LabelWLAsk(p)
  BY <1>7 DEF LabelWLAsk, Ask, Finish, Goto, memory, WritePoints, TypeOK,
     ProcTypeOK, MemoryTypeOK
<1> QED
  BY <1>1, <1>2, <1>3, <1>4, <1>5, <1>6, <1>7 DEF User

LEMMA RunDry ==
    ASSUME NEW p \in Procs, Run(p), opt[p].dry, pc[p] \notin WritePoints
    PROVE  UNCHANGED cluster
<1>1. CASE Validate(p)
  BY <1>1 DEF Validate
<1>2. CASE CheckComplete(p)
  BY <1>2 DEF CheckComplete
<1>3. CASE Begin(p)
  BY <1>3 DEF Begin
<1>4. CASE Preserve(p)
  BY <1>4 DEF Preserve, WritePoints, cluster
<1>5. CASE Remove(p)
  BY <1>5 DEF Remove
<1>6. CASE RemovePatch(p)
  BY <1>6 DEF RemovePatch, PatchManagementState, WritePoints, cluster
<1>7. CASE WaitRemoved(p)
  BY <1>7 DEF WaitRemoved
<1>8. CASE DeleteCRDs(p)
  BY <1>8 DEF DeleteCRDs
<1>9. CASE CheckCRD(p)
  BY <1>9 DEF CheckCRD
<1>10. CASE DeleteCRD(p)
  BY <1>10 DEF DeleteCRD, WritePoints, cluster
<1>11. CASE FinishCRDs(p)
  BY <1>11 DEF FinishCRDs
<1>12. CASE InstallV0(p)
  BY <1>12 DEF InstallV0
<1>13. CASE RequestSubscription(p)
  BY <1>13 DEF RequestSubscription, Request, WritePoints, cluster
<1>14. CASE WaitForCSV(p)
  BY <1>14 DEF WaitForCSV, WaitInstalled
<1>15. CASE InstallV1(p)
  BY <1>15 DEF InstallV1
<1>16. CASE RequestExtension(p)
  BY <1>16 DEF RequestExtension, Request, WritePoints, cluster
<1>17. CASE WaitForExtension(p)
  BY <1>17 DEF WaitForExtension, WaitInstalled
<1>18. CASE Activate(p)
  BY <1>18 DEF Activate
<1>19. CASE ActivatePatch(p)
  BY <1>19 DEF ActivatePatch, PatchManagementState, WritePoints, cluster
<1>20. CASE WaitReady(p)
  BY <1>20 DEF WaitReady
<1>21. CASE LabelNS(p)
  BY <1>21 DEF LabelNS, LabelStep
<1>22. ASSUME NEW n \in Namespaces, PatchNamespace(p, n) PROVE UNCHANGED cluster
  BY <1>22 DEF PatchNamespace, WritePoints, cluster
<1>23. CASE LabelWL(p)
  BY <1>23 DEF LabelWL, LabelStep
<1>24. ASSUME NEW w \in Workloads, PatchWorkload(p, w) PROVE UNCHANGED cluster
  BY <1>24 DEF PatchWorkload, WritePoints, cluster
<1>25. CASE FinishLabels(p)
  BY <1>25 DEF FinishLabels
<1>26. CASE Verify(p)
  BY <1>26 DEF Verify
<1>27. CASE VerifyCheck(p)
  BY <1>27 DEF VerifyCheck
<1>28. CASE FinishVerify(p)
  BY <1>28 DEF FinishVerify
<1>29. CASE Preserved(p)
  BY <1>29 DEF Preserved
<1> QED
  BY <1>1, <1>2, <1>3, <1>4, <1>5, <1>6, <1>7, <1>8, <1>9, <1>10, <1>11,
     <1>12, <1>13, <1>14, <1>15, <1>16, <1>17, <1>18, <1>19, <1>20, <1>21,
     <1>22, <1>23, <1>24, <1>25, <1>26, <1>27, <1>28, <1>29 DEF Run

LEMMA UserDry ==
    ASSUME NEW p \in Procs, User(p)
    PROVE  UNCHANGED cluster
<1>1. CASE Start(p)
  BY <1>1 DEF Start
<1>2. CASE Crash(p)
  BY <1>2 DEF Crash
<1>3. CASE RemoveAsk(p)
  BY <1>3 DEF RemoveAsk, Ask
<1>4. CASE InstallAsk(p)
  BY <1>4 DEF InstallAsk, Ask
<1>5. CASE ActivateAsk(p)
  BY <1>5 DEF ActivateAsk, Ask
<1>6. CASE LabelNSAsk(p)
  BY <1>6 DEF LabelNSAsk, Ask
<1>7. CASE LabelWLAsk(p)
  BY <1>7 DEF LabelWLAsk, Ask
<1> QED
  BY <1>1, <1>2, <1>3, <1>4, <1>5, <1>6, <1>7 DEF User

LEMMA InitWriter == Init => NoDryWriter
BY DEF Init, NoDryWriter, WritePoints

LEMMA NextWriter == TypeOK /\ NoDryWriter /\ [Next]_vars => NoDryWriter'
<1> SUFFICES ASSUME TypeOK, NoDryWriter, [Next]_vars, NEW q \in Procs
             PROVE  (pc[q] \in WritePoints => ~opt[q].dry)'
  BY DEF NoDryWriter
<1>1. ASSUME NEW p \in Procs, Run(p) \/ User(p)
      PROVE  (pc[q] \in WritePoints => ~opt[q].dry)'
  <2>1. CASE q = p
    BY <1>1, <2>1, RunWriter, UserWriter DEF NoDryWriter
  <2>2. CASE q # p
    <3>1. Same(q)
      BY <1>1, <2>2, RunFrame, UserFrame
    <3> QED
      BY <3>1 DEF Same, NoDryWriter
  <2> QED
    BY <2>1, <2>2
<1>2. CASE Controllers \/ Others
  <2>1. UNCHANGED <<pc, steps, memory>>
    BY <1>2, OutsideType DEF TypeOK
  <2> QED
    BY <2>1 DEF NoDryWriter, memory
<1>3. CASE UNCHANGED vars
  BY <1>3 DEF NoDryWriter, vars, memory
<1> QED
  BY <1>1, <1>2, <1>3 DEF Next

\* --dry-run: no step of a dry run writes to the cluster, whatever other runs,
\* controllers and users do to it at the same time.
THEOREM DryRunSafe == Spec => DryRunWritesNothing
<1> DEFINE Quiet == \A p \in Procs :
              opt[p].dry /\ opt'[p] = opt[p] /\ Moves(p) => UNCHANGED cluster
<1>1. TypeOK /\ NoDryWriter /\ [Next]_vars => [Quiet]_vars
  <2> SUFFICES ASSUME TypeOK, NoDryWriter, Next, NEW p \in Procs, opt[p].dry, Moves(p)
               PROVE  UNCHANGED cluster
    OBVIOUS
  <2>1. ASSUME NEW q \in Procs, Run(q) \/ User(q) PROVE q = p
    <3> SUFFICES ASSUME q # p PROVE FALSE
      OBVIOUS
    <3>1. Same(p)
      BY <2>1, RunFrame, UserFrame
    <3> QED
      BY <3>1 DEF Same, Moves
  <2>2. CASE Controllers \/ Others
    <3>1. UNCHANGED <<pc, steps, memory>>
      BY <2>2, OutsideType DEF TypeOK
    <3> QED
      BY <3>1 DEF Moves, memory
  <2>3. CASE Run(p)
    BY <2>3, RunDry DEF NoDryWriter
  <2>4. CASE User(p)
    BY <2>4, UserDry
  <2> QED
    BY <2>1, <2>2, <2>3, <2>4 DEF Next
<1> QED
  BY <1>1, InitType, NextType, InitWriter, NextWriter, PTL
     DEF Spec, DryRunWritesNothing

-----------------------------------------------------------------------------
\* The removal protocol.

\* No process touches what the controllers report, or asks for Managed; only the
\* installation step requests RHBOK.
Effect(p) ==
    /\ UNCHANGED <<embedded, ready>>
    /\ mgmt' \in {mgmt, "Removed", "Unmanaged"}
    /\ rhbok' = rhbok \/ pc[p] = "install-create"

LEMMA RunEffect == ASSUME NEW p \in Procs, Run(p) PROVE Effect(p)
<1>1. CASE Validate(p)
  BY <1>1 DEF Validate, Effect, cluster
<1>2. CASE CheckComplete(p)
  BY <1>2 DEF CheckComplete, Effect, cluster
<1>3. CASE Begin(p)
  BY <1>3 DEF Begin, Effect, cluster
<1>4. CASE Preserve(p)
  BY <1>4 DEF Preserve, Effect, cluster
<1>5. CASE Remove(p)
  BY <1>5 DEF Remove, Effect, cluster
<1>6. CASE RemovePatch(p)
  BY <1>6 DEF RemovePatch, PatchManagementState, Effect, cluster
<1>7. CASE WaitRemoved(p)
  BY <1>7 DEF WaitRemoved, Effect, cluster
<1>8. CASE DeleteCRDs(p)
  BY <1>8 DEF DeleteCRDs, Effect, cluster
<1>9. CASE CheckCRD(p)
  BY <1>9 DEF CheckCRD, Effect, cluster
<1>10. CASE DeleteCRD(p)
  BY <1>10 DEF DeleteCRD, Effect, cluster
<1>11. CASE FinishCRDs(p)
  BY <1>11 DEF FinishCRDs, Effect, cluster
<1>12. CASE InstallV0(p)
  BY <1>12 DEF InstallV0, Effect, cluster
<1>13. CASE RequestSubscription(p)
  BY <1>13 DEF RequestSubscription, Request, Effect, cluster
<1>14. CASE WaitForCSV(p)
  BY <1>14 DEF WaitForCSV, WaitInstalled, Effect, cluster
<1>15. CASE InstallV1(p)
  BY <1>15 DEF InstallV1, Effect, cluster
<1>16. CASE RequestExtension(p)
  BY <1>16 DEF RequestExtension, Request, Effect, cluster
<1>17. CASE WaitForExtension(p)
  BY <1>17 DEF WaitForExtension, WaitInstalled, Effect, cluster
<1>18. CASE Activate(p)
  BY <1>18 DEF Activate, Effect, cluster
<1>19. CASE ActivatePatch(p)
  BY <1>19 DEF ActivatePatch, PatchManagementState, Effect, cluster
<1>20. CASE WaitReady(p)
  BY <1>20 DEF WaitReady, Effect, cluster
<1>21. CASE LabelNS(p)
  BY <1>21 DEF LabelNS, LabelStep, Effect, cluster
<1>22. ASSUME NEW n \in Namespaces, PatchNamespace(p, n) PROVE Effect(p)
  BY <1>22 DEF PatchNamespace, Effect, cluster
<1>23. CASE LabelWL(p)
  BY <1>23 DEF LabelWL, LabelStep, Effect, cluster
<1>24. ASSUME NEW w \in Workloads, PatchWorkload(p, w) PROVE Effect(p)
  BY <1>24 DEF PatchWorkload, Effect, cluster
<1>25. CASE FinishLabels(p)
  BY <1>25 DEF FinishLabels, Effect, cluster
<1>26. CASE Verify(p)
  BY <1>26 DEF Verify, Effect, cluster
<1>27. CASE VerifyCheck(p)
  BY <1>27 DEF VerifyCheck, Effect, cluster
<1>28. CASE FinishVerify(p)
  BY <1>28 DEF FinishVerify, Effect, cluster
<1>29. CASE Preserved(p)
  BY <1>29 DEF Preserved, Effect, cluster
<1> QED
  BY <1>1, <1>2, <1>3, <1>4, <1>5, <1>6, <1>7, <1>8, <1>9, <1>10, <1>11,
     <1>12, <1>13, <1>14, <1>15, <1>16, <1>17, <1>18, <1>19, <1>20, <1>21,
     <1>22, <1>23, <1>24, <1>25, <1>26, <1>27, <1>28, <1>29 DEF Run

LEMMA UserEffect == ASSUME NEW p \in Procs, User(p) PROVE Effect(p)
BY UserDry DEF Effect, cluster

\* A step after which a process that writes is past the removal: it was already, or
\* it began with a component that is not Managed, or it has waited.
Enters(p) ==
    pc'[p] \in AfterRemoval /\ ~opt'[p].dry =>
        /\ opt'[p] = opt[p]
        /\ \/ pc[p] \in AfterRemoval /\ seen'[p] = seen[p]
           \/ mgmt # "Managed" /\ mgmt' = mgmt /\ seen'[p] # "Managed"
           \/ EmbeddedRemoved /\ mgmt' = mgmt

LEMMA RunEnters ==
    ASSUME TypeOK, NEW p \in Procs, ~opt[p].skip, Run(p)
    PROVE  Enters(p)
<1>1. CASE Validate(p)
  BY <1>1 DEF Validate, Enters, Finish, Goto, memory, AfterRemoval, TypeOK,
     ProcTypeOK, MemoryTypeOK
<1>2. CASE CheckComplete(p)
  BY <1>2 DEF CheckComplete, Enters, Finish, Goto, memory, AfterRemoval, TypeOK,
     ProcTypeOK, MemoryTypeOK
<1>3. CASE Begin(p)
  BY <1>3 DEF Begin, Enters, Finish, Goto, memory, AfterRemoval, cluster, TypeOK,
     ProcTypeOK, MemoryTypeOK
<1>4. CASE Preserve(p)
  BY <1>4 DEF Preserve, Enters, Finish, Goto, memory, AfterRemoval, TypeOK,
     ProcTypeOK, MemoryTypeOK
<1>5. CASE Remove(p)
  BY <1>5 DEF Remove, Enters, Finish, Goto, memory, AfterRemoval, TypeOK,
     ProcTypeOK, MemoryTypeOK
<1>6. CASE RemovePatch(p)
  BY <1>6 DEF RemovePatch, PatchManagementState, Enters, Finish, Goto, memory,
     AfterRemoval, TypeOK, ProcTypeOK, MemoryTypeOK
<1>7. CASE WaitRemoved(p)
  BY <1>7 DEF WaitRemoved, Enters, Finish, Goto, memory, AfterRemoval,
     EmbeddedRemoved, cluster, TypeOK, ProcTypeOK, MemoryTypeOK
<1>8. CASE DeleteCRDs(p)
  BY <1>8 DEF DeleteCRDs, Enters, Finish, Goto, memory, AfterRemoval, TypeOK,
     ProcTypeOK, MemoryTypeOK
<1>9. CASE CheckCRD(p)
  BY <1>9 DEF CheckCRD, Enters, Finish, Goto, memory, AfterRemoval, TypeOK,
     ProcTypeOK, MemoryTypeOK
<1>10. CASE DeleteCRD(p)
  BY <1>10 DEF DeleteCRD, Enters, Finish, Goto, memory, AfterRemoval, TypeOK,
     ProcTypeOK, MemoryTypeOK
<1>11. CASE FinishCRDs(p)
  BY <1>11 DEF FinishCRDs, Enters, Finish, Goto, memory, AfterRemoval, TypeOK,
     ProcTypeOK, MemoryTypeOK
<1>12. CASE InstallV0(p)
  BY <1>12 DEF InstallV0, AfterInstall, Enters, Finish, Goto, memory,
     AfterRemoval, TypeOK, ProcTypeOK, MemoryTypeOK
<1>13. CASE RequestSubscription(p)
  BY <1>13 DEF RequestSubscription, Request, AfterInstall, Enters, Finish, Goto,
     memory, AfterRemoval, TypeOK, ProcTypeOK, MemoryTypeOK
<1>14. CASE WaitForCSV(p)
  BY <1>14 DEF WaitForCSV, WaitInstalled, AfterInstall, Enters, Finish, Goto,
     memory, AfterRemoval, TypeOK, ProcTypeOK, MemoryTypeOK
<1>15. CASE InstallV1(p)
  BY <1>15 DEF InstallV1, AfterInstall, Enters, Finish, Goto, memory,
     AfterRemoval, TypeOK, ProcTypeOK, MemoryTypeOK
<1>16. CASE RequestExtension(p)
  BY <1>16 DEF RequestExtension, Request, AfterInstall, Enters, Finish, Goto,
     memory, AfterRemoval, TypeOK, ProcTypeOK, MemoryTypeOK
<1>17. CASE WaitForExtension(p)
  BY <1>17 DEF WaitForExtension, WaitInstalled, AfterInstall, Enters, Finish,
     Goto, memory, AfterRemoval, TypeOK, ProcTypeOK, MemoryTypeOK
<1>18. CASE Activate(p)
  BY <1>18 DEF Activate, Enters, Finish, Goto, memory, AfterRemoval, TypeOK,
     ProcTypeOK, MemoryTypeOK
<1>19. CASE ActivatePatch(p)
  BY <1>19 DEF ActivatePatch, PatchManagementState, Enters, Finish, Goto, memory,
     AfterRemoval, TypeOK, ProcTypeOK, MemoryTypeOK
<1>20. CASE WaitReady(p)
  BY <1>20 DEF WaitReady, Enters, Finish, Goto, memory, AfterRemoval, TypeOK,
     ProcTypeOK, MemoryTypeOK
<1>21. CASE LabelNS(p)
  BY <1>21 DEF LabelNS, LabelStep, Enters, Finish, Goto, memory, AfterRemoval,
     TypeOK, ProcTypeOK, MemoryTypeOK
<1>22. ASSUME NEW n \in Namespaces, PatchNamespace(p, n) PROVE Enters(p)
  BY <1>22 DEF PatchNamespace, Enters, Finish, Goto, memory, AfterRemoval,
     TypeOK, ProcTypeOK, MemoryTypeOK
<1>23. CASE LabelWL(p)
  BY <1>23 DEF LabelWL, LabelStep, Enters, Finish, Goto, memory, AfterRemoval,
     TypeOK, ProcTypeOK, MemoryTypeOK
<1>24. ASSUME NEW w \in Workloads, PatchWorkload(p, w) PROVE Enters(p)
  BY <1>24 DEF PatchWorkload, Enters, Finish, Goto, memory, AfterRemoval, TypeOK,
     ProcTypeOK, MemoryTypeOK
<1>25. CASE FinishLabels(p)
  BY <1>25 DEF FinishLabels, Enters, Finish, Goto, memory, AfterRemoval, TypeOK,
     ProcTypeOK, MemoryTypeOK
<1>26. CASE Verify(p)
  BY <1>26 DEF Verify, Enters, Finish, Goto, memory, AfterRemoval, TypeOK,
     ProcTypeOK, MemoryTypeOK
<1>27. CASE VerifyCheck(p)
  BY <1>27 DEF VerifyCheck, Enters, Finish, Goto, memory, AfterRemoval, TypeOK,
     ProcTypeOK, MemoryTypeOK
<1>28. CASE FinishVerify(p)
  BY <1>28 DEF FinishVerify, Enters, Finish, Goto, memory, AfterRemoval, TypeOK,
     ProcTypeOK, MemoryTypeOK
<1>29. CASE Preserved(p)
  BY <1>29 DEF Preserved, Enters, Finish, Goto, memory, AfterRemoval, TypeOK,
     ProcTypeOK, MemoryTypeOK
<1> QED
  BY <1>1, <1>2, <1>3, <1>4, <1>5, <1>6, <1>7, <1>8, <1>9, <1>10, <1>11,
     <1>12, <1>13, <1>14, <1>15, <1>16, <1>17, <1>18, <1>19, <1>20, <1>21,
     <1>22, <1>23, <1>24, <1>25, <1>26, <1>27, <1>28, <1>29 DEF Run

LEMMA UserEnters ==
    ASSUME TypeOK, NEW p \in Procs, User(p)
    PROVE  Enters(p)
<1>1. CASE Start(p)
  BY <1>1 DEF Start, Enters, Finish, Goto, memory, AfterRemoval, TypeOK,
     ProcTypeOK, MemoryTypeOK
<1>2. CASE Crash(p)
  BY <1>2 DEF Crash, Enters, Finish, Goto, memory, AfterRemoval, TypeOK,
     ProcTypeOK, MemoryTypeOK
<1>3. CASE RemoveAsk(p)
  BY <1>3 DEF RemoveAsk, Ask, Enters, Finish, Goto, memory, AfterRemoval, TypeOK,
     ProcTypeOK, MemoryTypeOK
<1>4. CASE InstallAsk(p)
  BY <1>4 DEF InstallAsk, Ask, AfterInstall, Enters, Finish, Goto, memory,
     AfterRemoval, TypeOK, ProcTypeOK, MemoryTypeOK
<1>5. CASE ActivateAsk(p)
  BY <1>5 DEF ActivateAsk, Ask, Enters, Finish, Goto, memory, AfterRemoval,
     TypeOK, ProcTypeOK, MemoryTypeOK
<1>6. CASE LabelNSAsk(p)
  BY <1>6 DEF LabelNSAsk, Ask, Enters, Finish, Goto, memory, AfterRemoval,
     TypeOK, ProcTypeOK, MemoryTypeOK
<1>7. CASE LabelWLAsk(p)
  BY <1>7 DEF LabelWLAsk, Ask, Enters, Finish, Goto, memory, AfterRemoval,
     TypeOK, ProcTypeOK, MemoryTypeOK
<1> QED
  BY <1>1, <1>2, <1>3, <1>4, <1>5, <1>6, <1>7 DEF User

LEMMA RunFlags == ASSUME NEW p \in Procs, Run(p) PROVE opt' = opt
<1>1. CASE Validate(p)
  BY <1>1 DEF Validate, memory
<1>2. CASE CheckComplete(p)
  BY <1>2 DEF CheckComplete, memory
<1>3. CASE Begin(p)
  BY <1>3 DEF Begin, memory
<1>4. CASE Preserve(p)
  BY <1>4 DEF Preserve, memory
<1>5. CASE Remove(p)
  BY <1>5 DEF Remove, memory
<1>6. CASE RemovePatch(p)
  BY <1>6 DEF RemovePatch, PatchManagementState, memory
<1>7. CASE WaitRemoved(p)
  BY <1>7 DEF WaitRemoved, memory
<1>8. CASE DeleteCRDs(p)
  BY <1>8 DEF DeleteCRDs, memory
<1>9. CASE CheckCRD(p)
  BY <1>9 DEF CheckCRD, memory
<1>10. CASE DeleteCRD(p)
  BY <1>10 DEF DeleteCRD, memory
<1>11. CASE FinishCRDs(p)
  BY <1>11 DEF FinishCRDs, memory
<1>12. CASE InstallV0(p)
  BY <1>12 DEF InstallV0, memory
<1>13. CASE RequestSubscription(p)
  BY <1>13 DEF RequestSubscription, Request, memory
<1>14. CASE WaitForCSV(p)
  BY <1>14 DEF WaitForCSV, WaitInstalled, memory
<1>15. CASE InstallV1(p)
  BY <1>15 DEF InstallV1, memory
<1>16. CASE RequestExtension(p)
  BY <1>16 DEF RequestExtension, Request, memory
<1>17. CASE WaitForExtension(p)
  BY <1>17 DEF WaitForExtension, WaitInstalled, memory
<1>18. CASE Activate(p)
  BY <1>18 DEF Activate, memory
<1>19. CASE ActivatePatch(p)
  BY <1>19 DEF ActivatePatch, PatchManagementState, memory
<1>20. CASE WaitReady(p)
  BY <1>20 DEF WaitReady, memory
<1>21. CASE LabelNS(p)
  BY <1>21 DEF LabelNS, LabelStep, memory
<1>22. ASSUME NEW n \in Namespaces, PatchNamespace(p, n) PROVE opt' = opt
  BY <1>22 DEF PatchNamespace, memory
<1>23. CASE LabelWL(p)
  BY <1>23 DEF LabelWL, LabelStep, memory
<1>24. ASSUME NEW w \in Workloads, PatchWorkload(p, w) PROVE opt' = opt
  BY <1>24 DEF PatchWorkload, memory
<1>25. CASE FinishLabels(p)
  BY <1>25 DEF FinishLabels, memory
<1>26. CASE Verify(p)
  BY <1>26 DEF Verify, memory
<1>27. CASE VerifyCheck(p)
  BY <1>27 DEF VerifyCheck, memory
<1>28. CASE FinishVerify(p)
  BY <1>28 DEF FinishVerify, memory
<1>29. CASE Preserved(p)
  BY <1>29 DEF Preserved, memory
<1> QED
  BY <1>1, <1>2, <1>3, <1>4, <1>5, <1>6, <1>7, <1>8, <1>9, <1>10, <1>11,
     <1>12, <1>13, <1>14, <1>15, <1>16, <1>17, <1>18, <1>19, <1>20, <1>21,
     <1>22, <1>23, <1>24, <1>25, <1>26, <1>27, <1>28, <1>29 DEF Run

\* Once the component is not Managed it stays so, an embedded Kueue that is gone
\* stays gone, and OLM only acts on what was requested.
Settling ==
    /\ mgmt # "Managed" => mgmt' # "Managed" /\ (~embedded => ~embedded')
    /\ \A m \in Modes : rhbok[m] = "none" => rhbok'[m] = "none"
    /\ RemovedMeansGone => RemovedMeansGone'

LEMMA OutsideSettles ==
    ASSUME Undisturbed, TypeOK, Controllers \/ Others
    PROVE  Settling
<1>1. CASE DeployEmbedded
  BY <1>1 DEF DeployEmbedded, Settling, RemovedMeansGone
<1>2. CASE RemoveEmbedded
  BY <1>2 DEF RemoveEmbedded, Settling, RemovedMeansGone
<1>3. CASE UpdateReady
  BY <1>3 DEF UpdateReady, ReportedReady, Settling, RemovedMeansGone, TypeOK,
     ClusterTypeOK, States
<1>4. CASE PodsChange
  BY <1>4 DEF PodsChange, Settling, RemovedMeansGone
<1>5. ASSUME NEW m \in Modes, OLMInstall(m) PROVE Settling
  BY <1>5 DEF OLMInstall, Settling, RemovedMeansGone, TypeOK, ClusterTypeOK
<1>6. ASSUME NEW w \in Workloads, CreateWorkload(w) PROVE Settling
  BY <1>6 DEF CreateWorkload, Settling, RemovedMeansGone
<1>7. ASSUME NEW c \in CRDNames, CreateInstance(c) PROVE Settling
  BY <1>7 DEF CreateInstance, Settling, RemovedMeansGone
<1>8. ASSUME NEW target \in AdminTargets, AdminEdit(target) PROVE Settling
  BY <1>8 DEF AdminEdit, Settling, RemovedMeansGone, Undisturbed
<1> QED
  BY <1>1, <1>2, <1>3, <1>4, <1>5, <1>6, <1>7, <1>8 DEF Controllers, Others

LEMMA ProcessStep ==
    ASSUME Undisturbed, RemovalInv, NEW p \in Procs, Run(p) \/ User(p)
    PROVE  RemovalInv'
<1>1. Effect(p) /\ Enters(p)
  BY RunEffect, UserEffect, RunEnters, UserEnters DEF RemovalInv, NoSkip
<1>2. \A q \in Procs \ {p} : Same(q)
  BY RunFrame, UserFrame DEF RemovalInv
<1>3. TypeOK' /\ NoDryWriter'
  BY NextType, NextWriter DEF RemovalInv, Next
<1>4. NoSkip'
  <2>1. CASE Run(p)
    BY <2>1, RunFlags DEF RemovalInv, NoSkip
  <2>2. CASE Start(p)
    BY <2>2, Parameters DEF Start, RemovalInv, NoSkip, Undisturbed, TypeOK,
       MemoryTypeOK
  <2>3. CASE User(p) /\ ~Start(p)
    <3>1. opt' = opt
      BY <2>3 DEF User, Crash, RemoveAsk, InstallAsk, ActivateAsk, LabelNSAsk,
         LabelWLAsk, Ask, memory
    <3> QED
      BY <3>1 DEF RemovalInv, NoSkip
  <2> QED
    BY <2>1, <2>2, <2>3
<1>5. RemovedMeansGone'
  BY <1>1 DEF Effect, RemovalInv, RemovedMeansGone
<1>6. mgmt # "Managed" => mgmt' # "Managed"
  BY <1>1 DEF Effect
<1>7. embedded' = embedded
  BY <1>1 DEF Effect
<1>8. NotManagedAfterRemoval'
  <2> SUFFICES ASSUME NEW q \in Procs, pc'[q] \in AfterRemoval, ~opt'[q].dry
               PROVE  mgmt' # "Managed"
    BY DEF NotManagedAfterRemoval
  <2>1. CASE q = p
    BY <2>1, <1>1, <1>6 DEF Enters, EmbeddedRemoved, RemovalInv,
       NotManagedAfterRemoval
  <2>2. CASE q # p
    BY <2>2, <1>2, <1>6 DEF Same, RemovalInv, NotManagedAfterRemoval
  <2> QED
    BY <2>1, <2>2
<1>9. InstallAfterRemoval'
  <2> SUFFICES ASSUME NEW q \in Procs, pc'[q] \in AfterRemoval, seen'[q] = "Managed",
                      ~opt'[q].dry, ~opt'[q].skip
               PROVE  mgmt' # "Managed" /\ ~embedded'
    BY DEF InstallAfterRemoval
  <2>1. CASE q = p
    <3>1. CASE EmbeddedRemoved
      BY <3>1, <1>6, <1>7 DEF EmbeddedRemoved, RemovalInv, RemovedMeansGone
    <3>2. CASE pc[p] \in AfterRemoval /\ seen'[p] = seen[p]
      BY <2>1, <3>2, <1>1, <1>6, <1>7 DEF Enters, RemovalInv, InstallAfterRemoval
    <3> QED
      BY <2>1, <3>1, <3>2, <1>1 DEF Enters
  <2>2. CASE q # p
    BY <2>2, <1>2, <1>6, <1>7 DEF Same, RemovalInv, InstallAfterRemoval
  <2> QED
    BY <2>1, <2>2
<1>10. NotWedged'
  <2>1. CASE rhbok' = rhbok
    BY <2>1, <1>6 DEF RemovalInv, NotWedged
  <2>2. CASE pc[p] = "install-create"
    BY <2>2, <1>6 DEF RemovalInv, NoDryWriter, WritePoints, AfterRemoval,
       NotManagedAfterRemoval, NotWedged
  <2> QED
    BY <2>1, <2>2, <1>1 DEF Effect
<1> QED
  BY <1>3, <1>4, <1>5, <1>8, <1>9, <1>10 DEF RemovalInv

LEMMA OutsideStep ==
    ASSUME Undisturbed, RemovalInv, Controllers \/ Others
    PROVE  RemovalInv'
<1>1. Settling
  BY OutsideSettles DEF RemovalInv
<1>2. UNCHANGED <<pc, opt, seen>>
  BY OutsideType DEF RemovalInv, TypeOK, memory
<1>3. TypeOK' /\ NoDryWriter'
  BY NextType, NextWriter DEF RemovalInv, Next
<1>4. NoSkip' /\ RemovedMeansGone'
  BY <1>1, <1>2 DEF Settling, RemovalInv, NoSkip
<1>5. NotManagedAfterRemoval' /\ InstallAfterRemoval'
  BY <1>1, <1>2 DEF Settling, RemovalInv, NotManagedAfterRemoval,
     InstallAfterRemoval
<1>6. NotWedged'
  BY <1>1 DEF Settling, RemovalInv, NotWedged
<1> QED
  BY <1>3, <1>4, <1>5, <1>6 DEF RemovalInv

LEMMA RemovalInduction ==
    ASSUME Undisturbed
    PROVE  /\ Init => RemovalInv
           /\ RemovalInv /\ [Next]_vars => RemovalInv'
<1>1. Init => RemovalInv
  <2> SUFFICES ASSUME Init PROVE RemovalInv
    OBVIOUS
  <2>1. TypeOK /\ NoDryWriter
    BY InitType, InitWriter
  <2>2. NoSkip
    BY DEF Init, NoSkip, Undisturbed
  <2>3. NotManagedAfterRemoval /\ InstallAfterRemoval
    BY DEF Init, NotManagedAfterRemoval, InstallAfterRemoval, AfterRemoval
  <2>4. RemovedMeansGone /\ NotWedged
    BY DEF Init, RemovedMeansGone, NotWedged, Undisturbed
  <2> QED
    BY <2>1, <2>2, <2>3, <2>4 DEF RemovalInv
<1>2. RemovalInv /\ [Next]_vars => RemovalInv'
  <2> SUFFICES ASSUME RemovalInv, [Next]_vars PROVE RemovalInv'
    OBVIOUS
  <2>1. CASE UNCHANGED vars
    BY <2>1, NextType, NextWriter DEF RemovalInv, NoSkip, NotManagedAfterRemoval,
       RemovedMeansGone, InstallAfterRemoval, NotWedged, vars, cluster, memory
  <2>2. CASE Next
    BY <2>2, ProcessStep, OutsideStep DEF Next
  <2> QED
    BY <2>1, <2>2
<1> QED
  BY <1>1, <1>2

\* However many runs overlap, crash and start again, a run that waited for the
\* removal goes on only once the embedded Kueue is gone, and it never comes back
\* (run_task.go's order of steps and waitForEmbeddedRemoval's condition).
THEOREM RemovalHolds ==
    ASSUME Undisturbed
    PROVE  Spec => []InstallAfterRemoval
<1>1. RemovalInv => InstallAfterRemoval
  BY DEF RemovalInv
<1> QED
  BY <1>1, RemovalInduction, PTL DEF Spec

\* No sequence of overlapping, failing and restarted runs without
\* --skip-remove-embedded produces the state that checkNoRHBOKConflicts refuses,
\* so no crash makes the migration impossible to resume.
THEOREM NeverWedged ==
    ASSUME Undisturbed
    PROVE  Spec => []NotWedged
<1>1. RemovalInv => NotWedged
  BY DEF RemovalInv
<1> QED
  BY <1>1, RemovalInduction, PTL DEF Spec

-----------------------------------------------------------------------------
\* One generation of OLM.  The preflight looks for the requests of both and fixes
\* the mode; what it found missing has to be missing still when the request of the
\* other generation would come.

\* Either one process runs at a time, told whatever mode and cut off anywhere, or
\* the API server serves one generation only, to any number of them.
OneServed(m) ==
    /\ OLMAPIs \subseteq {m}
    /\ \A c \in Clusters, k \in Modes : k # m => c.rhbok[k] = "none"
OneRequester == (\A p, q \in Procs : p = q) \/ \E m \in Modes : OneServed(m)

\* A process past its preflight.
Past(p) == pc[p] \notin Ended \cup {"validate"}

\* Only the request of its own mode is added by a process, and the mode is set by
\* the preflight alone.
Asks(p) ==
    /\ \A k \in Modes : k # mode[p] => rhbok'[k] = rhbok[k]
    /\ pc[p] = "install-create" \/ rhbok' = rhbok
    /\ Past(p)' => opt' = opt
    /\ \/ mode' = mode /\ (Past(p)' => Past(p))
       \/ /\ pc[p] = "validate"
          /\ mode'[p] \in SelectedModes(opt[p].olm) /\ ~Conflict(mode'[p])
          /\ \A q \in Procs \ {p} : mode'[q] = mode[q]

LEMMA RunAsks == ASSUME TypeOK, NEW p \in Procs, Run(p) PROVE Asks(p)
<1>1. CASE Validate(p)
  BY <1>1 DEF Validate, SelectedModes, Asks, Past, Ended, Finish, Goto, Record, memory,
     cluster, TypeOK, ProcTypeOK, MemoryTypeOK, ClusterTypeOK
<1>2. CASE CheckComplete(p)
  BY <1>2 DEF CheckComplete, Asks, Past, Ended, Finish, Goto, Record, memory, cluster,
     TypeOK, ProcTypeOK, MemoryTypeOK, ClusterTypeOK
<1>3. CASE Begin(p)
  BY <1>3 DEF Begin, Asks, Past, Ended, Finish, Goto, Record, memory, cluster, TypeOK,
     ProcTypeOK, MemoryTypeOK, ClusterTypeOK
<1>4. CASE Preserve(p)
  BY <1>4 DEF Preserve, Asks, Past, Ended, Finish, Goto, Record, memory, cluster,
     TypeOK, ProcTypeOK, MemoryTypeOK, ClusterTypeOK
<1>5. CASE Remove(p)
  BY <1>5 DEF Remove, Asks, Past, Ended, Finish, Goto, Record, memory, cluster, TypeOK,
     ProcTypeOK, MemoryTypeOK, ClusterTypeOK
<1>6. CASE RemovePatch(p)
  BY <1>6 DEF RemovePatch, PatchManagementState, Asks, Past, Ended, Finish, Goto,
     Record, memory, cluster, TypeOK, ProcTypeOK, MemoryTypeOK, ClusterTypeOK
<1>7. CASE WaitRemoved(p)
  BY <1>7 DEF WaitRemoved, Asks, Past, Ended, Finish, Goto, Record, memory, cluster,
     TypeOK, ProcTypeOK, MemoryTypeOK, ClusterTypeOK
<1>8. CASE DeleteCRDs(p)
  BY <1>8 DEF DeleteCRDs, Asks, Past, Ended, Finish, Goto, Record, memory, cluster,
     TypeOK, ProcTypeOK, MemoryTypeOK, ClusterTypeOK
<1>9. CASE CheckCRD(p)
  BY <1>9 DEF CheckCRD, Asks, Past, Ended, Finish, Goto, Record, memory, cluster,
     TypeOK, ProcTypeOK, MemoryTypeOK, ClusterTypeOK
<1>10. CASE DeleteCRD(p)
  BY <1>10 DEF DeleteCRD, Asks, Past, Ended, Finish, Goto, Record, memory, cluster,
     TypeOK, ProcTypeOK, MemoryTypeOK, ClusterTypeOK
<1>11. CASE FinishCRDs(p)
  BY <1>11 DEF FinishCRDs, Asks, Past, Ended, Finish, Goto, Record, memory, cluster,
     TypeOK, ProcTypeOK, MemoryTypeOK, ClusterTypeOK
<1>12. CASE InstallV0(p)
  BY <1>12 DEF InstallV0, AfterInstall, Asks, Past, Ended, Finish, Goto, Record, memory,
     cluster, TypeOK, ProcTypeOK, MemoryTypeOK, ClusterTypeOK
<1>13. CASE RequestSubscription(p)
  BY <1>13 DEF RequestSubscription, Request, AfterInstall, Asks, Past, Ended, Finish,
     Goto, Record, memory, cluster, TypeOK, ProcTypeOK, MemoryTypeOK, ClusterTypeOK
<1>14. CASE WaitForCSV(p)
  BY <1>14 DEF WaitForCSV, WaitInstalled, AfterInstall, Asks, Past, Ended, Finish, Goto,
     Record, memory, cluster, TypeOK, ProcTypeOK, MemoryTypeOK, ClusterTypeOK
<1>15. CASE InstallV1(p)
  BY <1>15 DEF InstallV1, AfterInstall, Asks, Past, Ended, Finish, Goto, Record, memory,
     cluster, TypeOK, ProcTypeOK, MemoryTypeOK, ClusterTypeOK
<1>16. CASE RequestExtension(p)
  BY <1>16 DEF RequestExtension, Request, AfterInstall, Asks, Past, Ended, Finish, Goto,
     Record, memory, cluster, TypeOK, ProcTypeOK, MemoryTypeOK, ClusterTypeOK
<1>17. CASE WaitForExtension(p)
  BY <1>17 DEF WaitForExtension, WaitInstalled, AfterInstall, Asks, Past, Ended, Finish,
     Goto, Record, memory, cluster, TypeOK, ProcTypeOK, MemoryTypeOK, ClusterTypeOK
<1>18. CASE Activate(p)
  BY <1>18 DEF Activate, Asks, Past, Ended, Finish, Goto, Record, memory, cluster,
     TypeOK, ProcTypeOK, MemoryTypeOK, ClusterTypeOK
<1>19. CASE ActivatePatch(p)
  BY <1>19 DEF ActivatePatch, PatchManagementState, Asks, Past, Ended, Finish, Goto,
     Record, memory, cluster, TypeOK, ProcTypeOK, MemoryTypeOK, ClusterTypeOK
<1>20. CASE WaitReady(p)
  BY <1>20 DEF WaitReady, Asks, Past, Ended, Finish, Goto, Record, memory, cluster,
     TypeOK, ProcTypeOK, MemoryTypeOK, ClusterTypeOK
<1>21. CASE LabelNS(p)
  BY <1>21 DEF LabelNS, LabelStep, Asks, Past, Ended, Finish, Goto, Record, memory,
     cluster, TypeOK, ProcTypeOK, MemoryTypeOK, ClusterTypeOK
<1>22. ASSUME NEW n \in Namespaces, PatchNamespace(p, n) PROVE Asks(p)
  BY <1>22 DEF PatchNamespace, Asks, Past, Ended, Finish, Goto, Record, memory, cluster,
     TypeOK, ProcTypeOK, MemoryTypeOK, ClusterTypeOK
<1>23. CASE LabelWL(p)
  BY <1>23 DEF LabelWL, LabelStep, Asks, Past, Ended, Finish, Goto, Record, memory,
     cluster, TypeOK, ProcTypeOK, MemoryTypeOK, ClusterTypeOK
<1>24. ASSUME NEW w \in Workloads, PatchWorkload(p, w) PROVE Asks(p)
  BY <1>24 DEF PatchWorkload, Asks, Past, Ended, Finish, Goto, Record, memory, cluster,
     TypeOK, ProcTypeOK, MemoryTypeOK, ClusterTypeOK
<1>25. CASE FinishLabels(p)
  BY <1>25 DEF FinishLabels, Asks, Past, Ended, Finish, Goto, Record, memory, cluster,
     TypeOK, ProcTypeOK, MemoryTypeOK, ClusterTypeOK
<1>26. CASE Verify(p)
  BY <1>26 DEF Verify, Asks, Past, Ended, Finish, Goto, Record, memory, cluster, TypeOK,
     ProcTypeOK, MemoryTypeOK, ClusterTypeOK
<1>27. CASE VerifyCheck(p)
  BY <1>27 DEF VerifyCheck, Asks, Past, Ended, Finish, Goto, Record, memory, cluster,
     TypeOK, ProcTypeOK, MemoryTypeOK, ClusterTypeOK
<1>28. CASE FinishVerify(p)
  BY <1>28 DEF FinishVerify, Asks, Past, Ended, Finish, Goto, Record, memory, cluster,
     TypeOK, ProcTypeOK, MemoryTypeOK, ClusterTypeOK
<1>29. CASE Preserved(p)
  BY <1>29 DEF Preserved, Asks, Past, Ended, Finish, Goto, Record, memory, cluster,
     TypeOK, ProcTypeOK, MemoryTypeOK, ClusterTypeOK
<1> QED
  BY <1>1, <1>2, <1>3, <1>4, <1>5, <1>6, <1>7, <1>8, <1>9, <1>10, <1>11, <1>12, <1>13,
     <1>14, <1>15, <1>16, <1>17, <1>18, <1>19, <1>20, <1>21, <1>22, <1>23, <1>24, <1>25,
     <1>26, <1>27, <1>28, <1>29 DEF Run

LEMMA UserAsks == ASSUME TypeOK, NEW p \in Procs, User(p) PROVE Asks(p)
BY DEF Asks, Past, Ended, User, Start, Crash, RemoveAsk, InstallAsk, ActivateAsk,
   LabelNSAsk, LabelWLAsk, Ask, Finish, Goto, Record, memory, cluster, TypeOK,
   ProcTypeOK

\* OLM and the others request nothing.
LEMMA OutsideAsks ==
    ASSUME TypeOK, Controllers \/ Others
    PROVE  /\ UNCHANGED <<pc, steps, memory>>
           /\ \A k \in Modes : rhbok[k] = "none" => rhbok'[k] = "none"
<1>1. UNCHANGED <<pc, steps, memory>>
  BY OutsideType DEF TypeOK
<1>2. ASSUME NEW m \in Modes, OLMInstall(m)
      PROVE  \A k \in Modes : rhbok[k] = "none" => rhbok'[k] = "none"
  BY <1>2 DEF OLMInstall, TypeOK, ClusterTypeOK
<1>3. CASE ~ \E m \in Modes : OLMInstall(m)
  BY <1>3 DEF Controllers, Others, DeployEmbedded, RemoveEmbedded, UpdateReady,
     PodsChange, CreateWorkload, CreateInstance, AdminEdit
<1> QED
  BY <1>1, <1>2, <1>3

\* A step keeps the others where they are.
LEMMA OthersStay ==
    ASSUME TypeOK, NEW p \in Procs, Run(p) \/ User(p), NEW q \in Procs \ {p}
    PROVE  Past(q)' <=> Past(q)
BY RunFrame, UserFrame DEF Same, Past

\* With one process: what its preflight did not find is not there, and the preflight
\* of v1, or of a mode that was not given, has looked for the other generation.
NoneBeside ==
    \A p \in Procs : Past(p) =>
        /\ mode[p] = "v1" => rhbok["v0"] = "none"
        /\ mode[p] = "v0" /\ opt[p].olm # "v0" => rhbok["v1"] = "none"

\* With one generation served.
OnlyServed(m) ==
    /\ \A k \in Modes : k # m => rhbok[k] = "none"
    /\ \A p \in Procs : Past(p) => mode[p] = m

LEMMA OneProcessInduction ==
    ASSUME \A p, q \in Procs : p = q, TypeOK, NoneBeside, [Next]_vars
    PROVE  NoneBeside'
<1>1. ASSUME NEW p \in Procs, Run(p) \/ User(p)
      PROVE  NoneBeside'
  <2>1. Asks(p)
    BY <1>1, RunAsks, UserAsks
  <2>2. mode[p] \in Modes /\ opt[p] \in FlagType /\ \A q \in Procs : q = p
    BY DEF TypeOK, MemoryTypeOK
  <2>3. CASE mode' = mode /\ (Past(p)' => Past(p))
    <3>1. CASE Past(p)'
      <4>1. opt'[p] = opt[p] /\ \A k \in Modes : k # mode[p] => rhbok'[k] = rhbok[k]
        BY <2>1, <3>1 DEF Asks
      <4> QED
        BY <2>2, <2>3, <3>1, <4>1 DEF NoneBeside, Modes
    <3>2. CASE ~Past(p)'
      BY <2>2, <3>2 DEF NoneBeside
    <3> QED
      BY <3>1, <3>2
  <2>4. CASE /\ pc[p] = "validate"
             /\ mode'[p] \in SelectedModes(opt[p].olm) /\ ~Conflict(mode'[p])
    <3>1. rhbok' = rhbok /\ (Past(p)' => opt' = opt)
      BY <2>1, <2>4 DEF Asks
    <3>2. mode'[p] = "v1" => rhbok["v0"] = "none"
      BY <2>4 DEF Conflict, ConflictV1
    <3>3. mode'[p] = "v0" /\ opt[p].olm # "v0" => rhbok["v1"] = "none"
      <4>1. opt[p].olm \in {"auto", "v0", "v1"}
        BY <2>2 DEF FlagType
      <4> QED
        BY <2>4, <4>1 DEF SelectedModes
    <3> QED
      BY <2>2, <3>1, <3>2, <3>3 DEF NoneBeside
  <2> QED
    BY <2>1, <2>3, <2>4 DEF Asks
<1>2. CASE Controllers \/ Others
  <2>1. /\ UNCHANGED <<pc, steps, memory>>
        /\ \A k \in Modes : rhbok[k] = "none" => rhbok'[k] = "none"
    BY <1>2, OutsideAsks
  <2> QED
    BY <2>1 DEF NoneBeside, Past, memory, Modes
<1>3. CASE UNCHANGED vars
  BY <1>3 DEF vars, cluster, memory, NoneBeside, Past
<1> QED
  BY <1>1, <1>2, <1>3 DEF Next

\* The step that makes it two is one of a run told v0, with the extension there.
SecondRequest ==
    ~BothRequested /\ BothRequested' =>
        \E p \in Procs :
            pc[p] = "install-create" /\ opt[p].olm = "v0" /\ rhbok["v1"] # "none"

LEMMA OneProcessStep ==
    ASSUME TypeOK, NoneBeside, [Next]_vars
    PROVE  SecondRequest
<1>1. ASSUME NEW p \in Procs, Run(p) \/ User(p)
      PROVE  SecondRequest
  <2> SUFFICES ASSUME ~BothRequested, BothRequested'
               PROVE  pc[p] = "install-create" /\ opt[p].olm = "v0" /\ rhbok["v1"] # "none"
    BY DEF SecondRequest
  <2>1. Asks(p) /\ mode[p] \in Modes
    BY <1>1, RunAsks, UserAsks DEF TypeOK, MemoryTypeOK
  <2>2. pc[p] = "install-create"
    BY <2>1 DEF Asks, BothRequested
  <2>3. Past(p)
    BY <2>2 DEF Past, Ended
  <2>4. mode[p] # "v1"
    BY <2>1, <2>3 DEF Asks, NoneBeside, BothRequested, Modes
  <2>5. mode[p] = "v0" /\ rhbok["v1"] # "none"
    BY <2>1, <2>4 DEF Asks, BothRequested, Modes
  <2> QED
    BY <2>2, <2>3, <2>5 DEF NoneBeside
<1>2. CASE Controllers \/ Others
  BY <1>2, OutsideAsks DEF SecondRequest, BothRequested
<1>3. CASE UNCHANGED vars
  BY <1>3 DEF vars, cluster, SecondRequest, BothRequested
<1> QED
  BY <1>1, <1>2, <1>3 DEF Next

LEMMA OneServedInduction ==
    ASSUME NEW m \in Modes, OneServed(m), TypeOK, OnlyServed(m), [Next]_vars
    PROVE  OnlyServed(m)'
<1>1. ASSUME NEW p \in Procs, Run(p) \/ User(p)
      PROVE  OnlyServed(m)'
  <2>1. Asks(p)
    BY <1>1, RunAsks, UserAsks
  <2>2. \A q \in Procs \ {p} : Past(q)' <=> Past(q)
    BY <1>1, OthersStay
  <2>3. \A k \in Modes : k # m => rhbok'[k] = "none"
    BY <2>1 DEF Asks, OnlyServed, Past, Ended
  <2>4. CASE mode' = mode /\ (Past(p)' => Past(p))
    BY <2>2, <2>3, <2>4 DEF OnlyServed
  <2>5. CASE /\ mode'[p] \in SelectedModes(opt[p].olm)
             /\ \A q \in Procs \ {p} : mode'[q] = mode[q]
    <3>1. rhbok["v1"] # "none" => m = "v1"
      BY DEF OnlyServed, Modes
    <3>2. mode'[p] = m
      BY <2>5, <3>1 DEF SelectedModes, OneServed
    <3> QED
      BY <2>2, <2>3, <2>5, <3>2 DEF OnlyServed
  <2> QED
    BY <2>1, <2>4, <2>5 DEF Asks
<1>2. CASE Controllers \/ Others
  BY <1>2, OutsideAsks DEF OnlyServed, Past, memory
<1>3. CASE UNCHANGED vars
  BY <1>3 DEF vars, cluster, memory, OnlyServed, Past
<1> QED
  BY <1>1, <1>2, <1>3 DEF Next

\* RHBOK comes to be requested from both generations of OLM only by a run told v0
\* beside an extension (checkNoRHBOKConflictsV0 does not look for one), also where
\* runs are cut off and the next one is told another mode: selectOLMMode follows an
\* extension that exists, and the v1 preflight refuses a Subscription.
THEOREM OneGeneration ==
    ASSUME OneRequester
    PROVE  Spec => OneOLMGeneration
<1>1. CASE \A p, q \in Procs : p = q
  <2>1. Init => NoneBeside
    BY DEF Init, NoneBeside, Past, Ended
  <2>2. TypeOK /\ NoneBeside /\ [Next]_vars => NoneBeside'
    BY <1>1, OneProcessInduction
  <2>3. TypeOK /\ NoneBeside /\ [Next]_vars => [SecondRequest]_vars
    BY OneProcessStep
  <2> QED
    BY <2>1, <2>2, <2>3, TypeCorrect, PTL DEF Spec, OneOLMGeneration, SecondRequest
<1>2. ASSUME NEW m \in Modes, OneServed(m)
      PROVE  Spec => OneOLMGeneration
  <2>1. Init => OnlyServed(m)
    BY <1>2 DEF Init, OnlyServed, OneServed, Past, Ended
  <2>2. TypeOK /\ OnlyServed(m) /\ [Next]_vars => OnlyServed(m)'
    BY <1>2, OneServedInduction
  <2>3. OnlyServed(m)' => [SecondRequest]_vars
    BY DEF OnlyServed, SecondRequest, BothRequested, Modes
  <2> QED
    BY <2>1, <2>2, <2>3, TypeCorrect, PTL DEF Spec, OneOLMGeneration, SecondRequest
<1> QED
  BY <1>1, <1>2 DEF OneRequester

-----------------------------------------------------------------------------
\* A cluster that one process has to itself.

\* No second process, no administrator and no user meanwhile.
Alone == (\A p, q \in Procs : p = q) /\ AdminTargets = {} /\ ~UserEdits

\* What the controllers may do meanwhile.
Quiet ==
    /\ UNCHANGED <<pc, steps, memory, mgmt, openshift, wls, queued>>
    /\ embedded' => embedded \/ mgmt = "Managed"
    /\ \A m \in Modes : rhbok[m] = "installed" => rhbok'[m] = "installed"

LEMMA OutsideQuiet == ASSUME Alone, TypeOK, Controllers \/ Others PROVE Quiet
<1>1. UNCHANGED <<pc, steps, memory>>
  BY OutsideType DEF TypeOK
<1>2. ASSUME NEW m \in Modes, OLMInstall(m) PROVE Quiet
  BY <1>1, <1>2 DEF OLMInstall, Quiet, TypeOK, ClusterTypeOK
<1>3. CASE DeployEmbedded
  BY <1>1, <1>3 DEF DeployEmbedded, Quiet
<1>4. CASE RemoveEmbedded \/ UpdateReady \/ PodsChange
  BY <1>1, <1>4 DEF RemoveEmbedded, UpdateReady, PodsChange, Quiet
<1>5. CASE Others
  BY <1>1, <1>5 DEF Others, CreateWorkload, CreateInstance, AdminEdit, Alone
<1> QED
  BY <1>2, <1>3, <1>4, <1>5 DEF Controllers

\* The managementState: where a process may write it, and what it saw before.
Removing == {"remove-ask", "remove-patch"}
Activating == {"activate-ask", "activate-patch"}
Steers(p) ==
    /\ \/ mgmt' = mgmt
       \/ pc[p] = "remove-patch" /\ mgmt' = "Removed"
       \/ pc[p] = "activate-patch" /\ mgmt' = "Unmanaged"
    /\ pc'[p] \in Removing => mgmt' = mgmt /\ (mgmt = "Managed" \/ pc[p] \in Removing)
    /\ pc'[p] \in Activating => mgmt' = mgmt /\ (mgmt # "Unmanaged" \/ pc[p] \in Activating)

LEMMA RunSteers == ASSUME TypeOK, NEW p \in Procs, Run(p) PROVE Steers(p)
<1>1. CASE Validate(p)
  BY <1>1 DEF Validate, SelectedModes, Steers, Removing, Activating, Finish, Goto,
     Record, memory, cluster, TypeOK, ProcTypeOK, MemoryTypeOK, ClusterTypeOK
<1>2. CASE CheckComplete(p)
  BY <1>2 DEF CheckComplete, Steers, Removing, Activating, Finish, Goto, Record, memory,
     cluster, TypeOK, ProcTypeOK, MemoryTypeOK, ClusterTypeOK
<1>3. CASE Begin(p)
  BY <1>3 DEF Begin, Steers, Removing, Activating, Finish, Goto, Record, memory,
     cluster, TypeOK, ProcTypeOK, MemoryTypeOK, ClusterTypeOK
<1>4. CASE Preserve(p)
  BY <1>4 DEF Preserve, Steers, Removing, Activating, Finish, Goto, Record, memory,
     cluster, TypeOK, ProcTypeOK, MemoryTypeOK, ClusterTypeOK
<1>5. CASE Remove(p)
  BY <1>5 DEF Remove, Steers, Removing, Activating, Finish, Goto, Record, memory,
     cluster, TypeOK, ProcTypeOK, MemoryTypeOK, ClusterTypeOK
<1>6. CASE RemovePatch(p)
  BY <1>6 DEF RemovePatch, PatchManagementState, Steers, Removing, Activating, Finish,
     Goto, Record, memory, cluster, TypeOK, ProcTypeOK, MemoryTypeOK, ClusterTypeOK
<1>7. CASE WaitRemoved(p)
  BY <1>7 DEF WaitRemoved, Steers, Removing, Activating, Finish, Goto, Record, memory,
     cluster, TypeOK, ProcTypeOK, MemoryTypeOK, ClusterTypeOK
<1>8. CASE DeleteCRDs(p)
  BY <1>8 DEF DeleteCRDs, Steers, Removing, Activating, Finish, Goto, Record, memory,
     cluster, TypeOK, ProcTypeOK, MemoryTypeOK, ClusterTypeOK
<1>9. CASE CheckCRD(p)
  BY <1>9 DEF CheckCRD, Steers, Removing, Activating, Finish, Goto, Record, memory,
     cluster, TypeOK, ProcTypeOK, MemoryTypeOK, ClusterTypeOK
<1>10. CASE DeleteCRD(p)
  BY <1>10 DEF DeleteCRD, Steers, Removing, Activating, Finish, Goto, Record, memory,
     cluster, TypeOK, ProcTypeOK, MemoryTypeOK, ClusterTypeOK
<1>11. CASE FinishCRDs(p)
  BY <1>11 DEF FinishCRDs, Steers, Removing, Activating, Finish, Goto, Record, memory,
     cluster, TypeOK, ProcTypeOK, MemoryTypeOK, ClusterTypeOK
<1>12. CASE InstallV0(p)
  BY <1>12 DEF InstallV0, AfterInstall, Steers, Removing, Activating, Finish, Goto,
     Record, memory, cluster, TypeOK, ProcTypeOK, MemoryTypeOK, ClusterTypeOK
<1>13. CASE RequestSubscription(p)
  BY <1>13 DEF RequestSubscription, Request, AfterInstall, Steers, Removing, Activating,
     Finish, Goto, Record, memory, cluster, TypeOK, ProcTypeOK, MemoryTypeOK,
     ClusterTypeOK
<1>14. CASE WaitForCSV(p)
  BY <1>14 DEF WaitForCSV, WaitInstalled, AfterInstall, Steers, Removing, Activating,
     Finish, Goto, Record, memory, cluster, TypeOK, ProcTypeOK, MemoryTypeOK,
     ClusterTypeOK
<1>15. CASE InstallV1(p)
  BY <1>15 DEF InstallV1, AfterInstall, Steers, Removing, Activating, Finish, Goto,
     Record, memory, cluster, TypeOK, ProcTypeOK, MemoryTypeOK, ClusterTypeOK
<1>16. CASE RequestExtension(p)
  BY <1>16 DEF RequestExtension, Request, AfterInstall, Steers, Removing, Activating,
     Finish, Goto, Record, memory, cluster, TypeOK, ProcTypeOK, MemoryTypeOK,
     ClusterTypeOK
<1>17. CASE WaitForExtension(p)
  BY <1>17 DEF WaitForExtension, WaitInstalled, AfterInstall, Steers, Removing,
     Activating, Finish, Goto, Record, memory, cluster, TypeOK, ProcTypeOK,
     MemoryTypeOK, ClusterTypeOK
<1>18. CASE Activate(p)
  BY <1>18 DEF Activate, Steers, Removing, Activating, Finish, Goto, Record, memory,
     cluster, TypeOK, ProcTypeOK, MemoryTypeOK, ClusterTypeOK
<1>19. CASE ActivatePatch(p)
  BY <1>19 DEF ActivatePatch, PatchManagementState, Steers, Removing, Activating,
     Finish, Goto, Record, memory, cluster, TypeOK, ProcTypeOK, MemoryTypeOK,
     ClusterTypeOK
<1>20. CASE WaitReady(p)
  BY <1>20 DEF WaitReady, Steers, Removing, Activating, Finish, Goto, Record, memory,
     cluster, TypeOK, ProcTypeOK, MemoryTypeOK, ClusterTypeOK
<1>21. CASE LabelNS(p)
  BY <1>21 DEF LabelNS, LabelStep, Steers, Removing, Activating, Finish, Goto, Record,
     memory, cluster, TypeOK, ProcTypeOK, MemoryTypeOK, ClusterTypeOK
<1>22. ASSUME NEW n \in Namespaces, PatchNamespace(p, n) PROVE Steers(p)
  BY <1>22 DEF PatchNamespace, Steers, Removing, Activating, Finish, Goto, Record,
     memory, cluster, TypeOK, ProcTypeOK, MemoryTypeOK, ClusterTypeOK
<1>23. CASE LabelWL(p)
  BY <1>23 DEF LabelWL, LabelStep, Steers, Removing, Activating, Finish, Goto, Record,
     memory, cluster, TypeOK, ProcTypeOK, MemoryTypeOK, ClusterTypeOK
<1>24. ASSUME NEW w \in Workloads, PatchWorkload(p, w) PROVE Steers(p)
  BY <1>24 DEF PatchWorkload, Steers, Removing, Activating, Finish, Goto, Record,
     memory, cluster, TypeOK, ProcTypeOK, MemoryTypeOK, ClusterTypeOK
<1>25. CASE FinishLabels(p)
  BY <1>25 DEF FinishLabels, Steers, Removing, Activating, Finish, Goto, Record, memory,
     cluster, TypeOK, ProcTypeOK, MemoryTypeOK, ClusterTypeOK
<1>26. CASE Verify(p)
  BY <1>26 DEF Verify, Steers, Removing, Activating, Finish, Goto, Record, memory,
     cluster, TypeOK, ProcTypeOK, MemoryTypeOK, ClusterTypeOK
<1>27. CASE VerifyCheck(p)
  BY <1>27 DEF VerifyCheck, Steers, Removing, Activating, Finish, Goto, Record, memory,
     cluster, TypeOK, ProcTypeOK, MemoryTypeOK, ClusterTypeOK
<1>28. CASE FinishVerify(p)
  BY <1>28 DEF FinishVerify, Steers, Removing, Activating, Finish, Goto, Record, memory,
     cluster, TypeOK, ProcTypeOK, MemoryTypeOK, ClusterTypeOK
<1>29. CASE Preserved(p)
  BY <1>29 DEF Preserved, Steers, Removing, Activating, Finish, Goto, Record, memory,
     cluster, TypeOK, ProcTypeOK, MemoryTypeOK, ClusterTypeOK
<1> QED
  BY <1>1, <1>2, <1>3, <1>4, <1>5, <1>6, <1>7, <1>8, <1>9, <1>10, <1>11, <1>12, <1>13,
     <1>14, <1>15, <1>16, <1>17, <1>18, <1>19, <1>20, <1>21, <1>22, <1>23, <1>24, <1>25,
     <1>26, <1>27, <1>28, <1>29 DEF Run

LEMMA UserSteers == ASSUME TypeOK, NEW p \in Procs, User(p) PROVE Steers(p)
BY UserDry DEF Steers, Removing, Activating, AfterInstall, User, Start, Crash,
   RemoveAsk, InstallAsk, ActivateAsk, LabelNSAsk, LabelWLAsk, Ask, Finish, Goto,
   Record, memory, cluster, TypeOK, ProcTypeOK

\* What a run read before it writes still holds when it does.
ReadHolds ==
    \A p \in Procs : /\ pc[p] \in Removing => mgmt = "Managed"
                     /\ pc[p] \in Activating => mgmt # "Unmanaged"

LEMMA ReadHoldsStep ==
    ASSUME Alone, TypeOK, ReadHolds, [Next]_vars
    PROVE  ReadHolds'
<1>1. ASSUME NEW p \in Procs, Run(p) \/ User(p) PROVE ReadHolds'
  BY <1>1, RunSteers, UserSteers DEF Alone, Steers, ReadHolds
<1>2. CASE Controllers \/ Others
  BY <1>2, OutsideQuiet DEF Quiet, ReadHolds
<1>3. CASE UNCHANGED vars
  BY <1>3 DEF vars, cluster, ReadHolds
<1> QED
  BY <1>1, <1>2, <1>3 DEF Next

\* One process at a time drives the component from Managed to Removed to Unmanaged
\* and never back, however often it is cut off and started again.
THEOREM OneWay ==
    ASSUME Alone, Undisturbed
    PROVE  Spec => StateMachine
<1> DEFINE Forward == mgmt' # mgmt =>
              \/ mgmt = "Managed" /\ mgmt' = "Removed"
              \/ mgmt = "Removed" /\ mgmt' = "Unmanaged"
<1>1. RemovalInv /\ ReadHolds /\ [Next]_vars => [Forward]_vars
  <2> SUFFICES ASSUME RemovalInv, ReadHolds, Next PROVE Forward
    OBVIOUS
  <2>0. TypeOK /\ mgmt \in States
    BY DEF RemovalInv, TypeOK, ClusterTypeOK
  <2>1. ASSUME NEW p \in Procs, Run(p) \/ User(p) PROVE Forward
    <3>1. Steers(p)
      BY <2>0, <2>1, RunSteers, UserSteers
    <3>2. CASE pc[p] = "remove-patch" /\ mgmt' = "Removed"
      BY <3>2 DEF ReadHolds, Removing
    <3>3. CASE pc[p] = "activate-patch" /\ mgmt' = "Unmanaged"
      <4>1. mgmt # "Unmanaged"
        BY <3>3 DEF ReadHolds, Activating
      <4>2. ~opt[p].dry
        BY <3>3 DEF RemovalInv, NoDryWriter, WritePoints
      <4>3. mgmt # "Managed"
        BY <3>3, <4>2 DEF RemovalInv, NotManagedAfterRemoval, AfterRemoval
      <4> QED
        BY <2>0, <3>3, <4>1, <4>3 DEF States
    <3> QED
      BY <3>1, <3>2, <3>3 DEF Steers
  <2>2. CASE Controllers \/ Others
    BY <2>0, <2>2, OutsideQuiet DEF Quiet
  <2> QED
    BY <2>1, <2>2 DEF Next
<1>2. Init => ReadHolds
  BY DEF Init, ReadHolds, Removing, Activating
<1>3. RemovalInv => TypeOK
  BY DEF RemovalInv
<1>4. TypeOK /\ ReadHolds /\ [Next]_vars => ReadHolds'
  BY ReadHoldsStep
<1> QED
  BY <1>1, <1>2, <1>3, <1>4, RemovalInduction, PTL DEF Spec, StateMachine

-----------------------------------------------------------------------------
\* The verification: eight checks, made one after the other, say something of one
\* state only if what an early one found is still so at the end.

\* What has been found by the time the loop is at check number count[p].
Found(p) ==
    /\ count[p] > 1 => ~embedded \/ mgmt = "Managed"
    /\ count[p] > 2 => mgmt = "Unmanaged"
    /\ count[p] > 4 => \E m \in Modes : rhbok[m] = "installed"
    /\ count[p] > 7 => Candidates \subseteq openshift
    /\ count[p] > 8 => \A w \in wls \ queued : HomeNS[w] \notin KueueEnabledNamespaces
Migrated ==
    /\ mgmt = "Unmanaged" /\ ~embedded
    /\ \E m \in Modes : rhbok[m] = "installed"
    /\ Candidates \subseteq openshift
    /\ \A w \in wls : HomeNS[w] \in Candidates => w \in queued
VerifyInv ==
    \A p \in Procs :
        /\ pc[p] = "verify-check" /\ ~bad[p] => Found(p)
        /\ steps[p]["verify-migration-complete"] = "completed" =>
             pc[p] \in Ended \cup {"preserved"}
        /\ steps[p]["verify-migration-complete"] = "completed" => Migrated

\* The controllers do not undo what was found.
LEMMA QuietKeeps ==
    ASSUME Quiet
    PROVE  /\ \A p \in Procs : Found(p) => Found(p)'
           /\ Migrated => Migrated'
<1>1. UNCHANGED <<pc, count, mgmt, openshift, wls, queued>>
  BY DEF Quiet, memory
<1>2. UNCHANGED <<Candidates, KueueEnabledNamespaces>>
  BY <1>1 DEF Candidates, KueueEnabledNamespaces, WorkloadLabeledNamespaces
<1>3. (\E m \in Modes : rhbok[m] = "installed") => \E m \in Modes : rhbok'[m] = "installed"
  BY DEF Quiet
<1>4. embedded' => embedded \/ mgmt = "Managed"
  BY DEF Quiet
<1>5. \A p \in Procs : Found(p) => Found(p)'
  BY <1>1, <1>2, <1>3, <1>4 DEF Found
<1>6. Migrated => Migrated'
  BY <1>1, <1>2, <1>3, <1>4 DEF Migrated
<1> QED
  BY <1>5, <1>6

\* A step that is none of the verification's neither enters its loop nor records
\* its verdict.
NoVerdict(p) ==
    /\ pc[p] \notin Ended \cup {"preserved"}
    /\ pc'[p] # "verify-check"
    /\ steps'[p]["verify-migration-complete"] = steps[p]["verify-migration-complete"]

LEMMA RunNoVerdict ==
    ASSUME TypeOK, NEW p \in Procs, Run(p), ~Verify(p), ~VerifyCheck(p), ~FinishVerify(p),
           ~Preserved(p)
    PROVE  NoVerdict(p)
<1>1. CASE Validate(p)
  BY <1>1 DEF Validate, SelectedModes, NoVerdict, Ended, StepNames, Finish, Goto,
     Record, memory, cluster, TypeOK, ProcTypeOK, MemoryTypeOK, ClusterTypeOK
<1>2. CASE CheckComplete(p)
  BY <1>2 DEF CheckComplete, NoVerdict, Ended, StepNames, Finish, Goto, Record, memory,
     cluster, TypeOK, ProcTypeOK, MemoryTypeOK, ClusterTypeOK
<1>3. CASE Begin(p)
  BY <1>3 DEF Begin, NoVerdict, Ended, StepNames, Finish, Goto, Record, memory, cluster,
     TypeOK, ProcTypeOK, MemoryTypeOK, ClusterTypeOK
<1>4. CASE Preserve(p)
  BY <1>4 DEF Preserve, NoVerdict, Ended, StepNames, Finish, Goto, Record, memory,
     cluster, TypeOK, ProcTypeOK, MemoryTypeOK, ClusterTypeOK
<1>5. CASE Remove(p)
  BY <1>5 DEF Remove, NoVerdict, Ended, StepNames, Finish, Goto, Record, memory,
     cluster, TypeOK, ProcTypeOK, MemoryTypeOK, ClusterTypeOK
<1>6. CASE RemovePatch(p)
  BY <1>6 DEF RemovePatch, PatchManagementState, NoVerdict, Ended, StepNames, Finish,
     Goto, Record, memory, cluster, TypeOK, ProcTypeOK, MemoryTypeOK, ClusterTypeOK
<1>7. CASE WaitRemoved(p)
  BY <1>7 DEF WaitRemoved, NoVerdict, Ended, StepNames, Finish, Goto, Record, memory,
     cluster, TypeOK, ProcTypeOK, MemoryTypeOK, ClusterTypeOK
<1>8. CASE DeleteCRDs(p)
  BY <1>8 DEF DeleteCRDs, NoVerdict, Ended, StepNames, Finish, Goto, Record, memory,
     cluster, TypeOK, ProcTypeOK, MemoryTypeOK, ClusterTypeOK
<1>9. CASE CheckCRD(p)
  BY <1>9 DEF CheckCRD, NoVerdict, Ended, StepNames, Finish, Goto, Record, memory,
     cluster, TypeOK, ProcTypeOK, MemoryTypeOK, ClusterTypeOK
<1>10. CASE DeleteCRD(p)
  BY <1>10 DEF DeleteCRD, NoVerdict, Ended, StepNames, Finish, Goto, Record, memory,
     cluster, TypeOK, ProcTypeOK, MemoryTypeOK, ClusterTypeOK
<1>11. CASE FinishCRDs(p)
  BY <1>11 DEF FinishCRDs, NoVerdict, Ended, StepNames, Finish, Goto, Record, memory,
     cluster, TypeOK, ProcTypeOK, MemoryTypeOK, ClusterTypeOK
<1>12. CASE InstallV0(p)
  BY <1>12 DEF InstallV0, AfterInstall, NoVerdict, Ended, StepNames, Finish, Goto,
     Record, memory, cluster, TypeOK, ProcTypeOK, MemoryTypeOK, ClusterTypeOK
<1>13. CASE RequestSubscription(p)
  BY <1>13 DEF RequestSubscription, Request, AfterInstall, NoVerdict, Ended, StepNames,
     Finish, Goto, Record, memory, cluster, TypeOK, ProcTypeOK, MemoryTypeOK,
     ClusterTypeOK
<1>14. CASE WaitForCSV(p)
  BY <1>14 DEF WaitForCSV, WaitInstalled, AfterInstall, NoVerdict, Ended, StepNames,
     Finish, Goto, Record, memory, cluster, TypeOK, ProcTypeOK, MemoryTypeOK,
     ClusterTypeOK
<1>15. CASE InstallV1(p)
  BY <1>15 DEF InstallV1, AfterInstall, NoVerdict, Ended, StepNames, Finish, Goto,
     Record, memory, cluster, TypeOK, ProcTypeOK, MemoryTypeOK, ClusterTypeOK
<1>16. CASE RequestExtension(p)
  BY <1>16 DEF RequestExtension, Request, AfterInstall, NoVerdict, Ended, StepNames,
     Finish, Goto, Record, memory, cluster, TypeOK, ProcTypeOK, MemoryTypeOK,
     ClusterTypeOK
<1>17. CASE WaitForExtension(p)
  BY <1>17 DEF WaitForExtension, WaitInstalled, AfterInstall, NoVerdict, Ended,
     StepNames, Finish, Goto, Record, memory, cluster, TypeOK, ProcTypeOK, MemoryTypeOK,
     ClusterTypeOK
<1>18. CASE Activate(p)
  BY <1>18 DEF Activate, NoVerdict, Ended, StepNames, Finish, Goto, Record, memory,
     cluster, TypeOK, ProcTypeOK, MemoryTypeOK, ClusterTypeOK
<1>19. CASE ActivatePatch(p)
  BY <1>19 DEF ActivatePatch, PatchManagementState, NoVerdict, Ended, StepNames, Finish,
     Goto, Record, memory, cluster, TypeOK, ProcTypeOK, MemoryTypeOK, ClusterTypeOK
<1>20. CASE WaitReady(p)
  BY <1>20 DEF WaitReady, NoVerdict, Ended, StepNames, Finish, Goto, Record, memory,
     cluster, TypeOK, ProcTypeOK, MemoryTypeOK, ClusterTypeOK
<1>21. CASE LabelNS(p)
  BY <1>21 DEF LabelNS, LabelStep, NoVerdict, Ended, StepNames, Finish, Goto, Record,
     memory, cluster, TypeOK, ProcTypeOK, MemoryTypeOK, ClusterTypeOK
<1>22. ASSUME NEW n \in Namespaces, PatchNamespace(p, n) PROVE NoVerdict(p)
  BY <1>22 DEF PatchNamespace, NoVerdict, Ended, StepNames, Finish, Goto, Record,
     memory, cluster, TypeOK, ProcTypeOK, MemoryTypeOK, ClusterTypeOK
<1>23. CASE LabelWL(p)
  BY <1>23 DEF LabelWL, LabelStep, NoVerdict, Ended, StepNames, Finish, Goto, Record,
     memory, cluster, TypeOK, ProcTypeOK, MemoryTypeOK, ClusterTypeOK
<1>24. ASSUME NEW w \in Workloads, PatchWorkload(p, w) PROVE NoVerdict(p)
  BY <1>24 DEF PatchWorkload, NoVerdict, Ended, StepNames, Finish, Goto, Record, memory,
     cluster, TypeOK, ProcTypeOK, MemoryTypeOK, ClusterTypeOK
<1>25. CASE FinishLabels(p)
  BY <1>25 DEF FinishLabels, NoVerdict, Ended, StepNames, Finish, Goto, Record, memory,
     cluster, TypeOK, ProcTypeOK, MemoryTypeOK, ClusterTypeOK
<1> QED
  BY <1>1, <1>2, <1>3, <1>4, <1>5, <1>6, <1>7, <1>8, <1>9, <1>10, <1>11, <1>12, <1>13,
     <1>14, <1>15, <1>16, <1>17, <1>18, <1>19, <1>20, <1>21, <1>22, <1>23, <1>24, <1>25
     DEF Run

\* The checks add up.
LEMMA VerdictHolds ==
    ASSUME TypeOK, NEW p \in Procs, count[p] > 8, Found(p)
    PROVE  Migrated
<1>1. count[p] \in Nat
  BY DEF TypeOK, MemoryTypeOK
<1>2. count[p] > 1 /\ count[p] > 2 /\ count[p] > 4 /\ count[p] > 7
  BY <1>1
<1>3. /\ mgmt = "Unmanaged" /\ ~embedded
      /\ \E m \in Modes : rhbok[m] = "installed"
      /\ Candidates \subseteq openshift
  BY <1>2 DEF Found
<1>4. \A w \in wls : HomeNS[w] \in Candidates => w \in queued
  BY <1>3 DEF Found, KueueEnabledNamespaces
<1> QED
  BY <1>3, <1>4 DEF Migrated

\* One more check that passes.
LEMMA CheckFinds ==
    ASSUME TypeOK, NEW p \in Procs, VerifyCheck(p), Found(p),
           CheckPasses(mode[p], VerifyChecks[count[p]])
    PROVE  Found(p)'
<1>1. /\ count[p] \in Nat /\ count'[p] = count[p] + 1
      /\ UNCHANGED <<mgmt, embedded, ready, rhbok, pods, openshift, wls, queued>>
  BY DEF VerifyCheck, TypeOK, MemoryTypeOK, cluster
<1>2. UNCHANGED <<Candidates, KueueEnabledNamespaces>>
  BY <1>1 DEF Candidates, KueueEnabledNamespaces, WorkloadLabeledNamespaces
<1>3. count[p] = 1 => ~embedded
  BY DEF VerifyChecks, CheckPasses
<1>4. count[p] = 2 => mgmt = "Unmanaged"
  BY DEF VerifyChecks, CheckPasses
<1>5. count[p] = 4 => \E m \in Modes : rhbok[m] = "installed"
  <2>1. count[p] = 4 => OperatorInstalled(mode[p])
    BY DEF VerifyChecks, CheckPasses
  <2>2. mode[p] \in Modes
    BY DEF TypeOK, MemoryTypeOK
  <2> QED
    BY <2>1, <2>2 DEF OperatorInstalled, Modes
<1>6. count[p] = 7 => Candidates \subseteq openshift
  <2>1. count[p] = 7 => LabelingPlan.ns = {}
    BY DEF VerifyChecks, CheckPasses
  <2>2. LabelingPlan.ns = Candidates \ openshift
    BY DEF LabelingPlan
  <2> QED
    BY <2>1, <2>2
<1>7. count[p] = 8 => \A w \in wls \ queued : HomeNS[w] \notin KueueEnabledNamespaces
  BY DEF VerifyChecks, CheckPasses
<1>8. \A i \in Nat : count'[p] > i => count[p] > i \/ count[p] = i
  BY <1>1
<1>9. /\ count'[p] > 1 => ~embedded' \/ mgmt' = "Managed"
      /\ count'[p] > 2 => mgmt' = "Unmanaged"
  BY <1>1, <1>3, <1>4, <1>8 DEF Found
<1>10. count'[p] > 4 => \E m \in Modes : rhbok'[m] = "installed"
  BY <1>1, <1>5, <1>8 DEF Found
<1>11. count'[p] > 7 => (Candidates \subseteq openshift)'
  BY <1>1, <1>2, <1>6, <1>8 DEF Found
<1>12. count'[p] > 8 => (\A w \in wls \ queued : HomeNS[w] \notin KueueEnabledNamespaces)'
  BY <1>1, <1>2, <1>7, <1>8 DEF Found
<1> QED
  BY <1>9, <1>10, <1>11, <1>12 DEF Found

LEMMA VerifyStep ==
    ASSUME Alone, TypeOK, VerifyInv, [Next]_vars
    PROVE  VerifyInv'
<1> DEFINE verdict(p) == steps[p]["verify-migration-complete"]
<1>1. ASSUME NEW p \in Procs, Run(p), NoVerdict(p) PROVE VerifyInv'
  <2>1. verdict(p)' # "completed"
    BY <1>1 DEF NoVerdict, VerifyInv
  <2> QED
    BY <1>1, <2>1 DEF NoVerdict, VerifyInv, Alone
<1>2. ASSUME NEW p \in Procs, Verify(p) PROVE VerifyInv'
  <2>1. verdict(p) # "completed"
    BY <1>2 DEF Verify, VerifyInv, Ended
  <2>2. verdict(p)' # "completed"
    BY <1>2, <2>1 DEF Verify, Record, TypeOK, ProcTypeOK, StepNames
  <2>3. count'[p] = 1
    BY <1>2 DEF Verify, TypeOK, MemoryTypeOK
  <2>4. Found(p)'
    BY <2>3 DEF Found
  <2> QED
    BY <2>2, <2>4 DEF VerifyInv, Alone
<1>3. ASSUME NEW p \in Procs, VerifyCheck(p) PROVE VerifyInv'
  <2>1. pc[p] = "verify-check" /\ UNCHANGED <<pc, steps>>
    BY <1>3 DEF VerifyCheck
  <2>2. verdict(p)' # "completed"
    BY <2>1 DEF VerifyInv, Ended
  <2>3. ~bad'[p] => Found(p)'
    <3>1. CASE CheckPasses(mode[p], VerifyChecks[count[p]]) /\ bad' = bad
      BY <1>3, <2>1, <3>1, CheckFinds DEF VerifyInv
    <3>2. CASE bad' = [bad EXCEPT ![p] = TRUE]
      BY <3>2 DEF TypeOK, MemoryTypeOK
    <3> QED
      BY <1>3, <3>1, <3>2 DEF VerifyCheck
  <2> QED
    BY <2>2, <2>3 DEF VerifyInv, Alone
<1>4. ASSUME NEW p \in Procs, FinishVerify(p) PROVE VerifyInv'
  <2>1. /\ pc[p] = "verify-check" /\ pc'[p] = "preserved" /\ UNCHANGED cluster
        /\ count[p] > Len(VerifyChecks)
    BY <1>4 DEF FinishVerify, Goto, TypeOK, ProcTypeOK
  <2>2. verdict(p)' = "completed" => ~bad[p]
    BY <1>4 DEF FinishVerify, Record, TypeOK, ProcTypeOK, StepNames
  <2>3. count[p] > 8
    BY <2>1 DEF VerifyChecks
  <2>4. ~bad[p] => Migrated
    BY <2>1, <2>3, VerdictHolds DEF VerifyInv
  <2>5. Migrated => Migrated'
    BY <2>1 DEF cluster, Migrated, Candidates, KueueEnabledNamespaces,
       WorkloadLabeledNamespaces
  <2> QED
    BY <2>1, <2>2, <2>4, <2>5 DEF VerifyInv, Alone
<1>5. ASSUME NEW p \in Procs, Preserved(p) \/ User(p) PROVE VerifyInv'
  <2>1. UNCHANGED cluster
    BY <1>5, UserDry DEF Preserved
  <2>2. Migrated => Migrated'
    BY <2>1 DEF cluster, Migrated, Candidates, KueueEnabledNamespaces,
       WorkloadLabeledNamespaces
  <2>3. pc'[p] # "verify-check"
    BY <1>5 DEF Preserved, AfterInstall, User, Start, Crash, RemoveAsk, InstallAsk,
       ActivateAsk, LabelNSAsk, LabelWLAsk, Ask, Finish, Goto, Record, memory, cluster,
       Ended, TypeOK, ProcTypeOK
  <2>4. verdict(p)' = "completed" => verdict(p) = "completed"
    BY <1>5 DEF Preserved, User, Start, Crash, RemoveAsk, InstallAsk, ActivateAsk,
       LabelNSAsk, LabelWLAsk, Ask, Finish, Goto, Record, memory, cluster, TypeOK,
       ProcTypeOK, StepNames
  <2>5. verdict(p)' = "completed" => pc'[p] \in Ended \cup {"preserved"}
    <3>1. CASE Preserved(p)
      BY <3>1 DEF Preserved, Goto, Ended, TypeOK, ProcTypeOK
    <3>2. CASE Start(p)
      BY <3>2 DEF Start, TypeOK, ProcTypeOK, StepNames
    <3>3. CASE Crash(p)
      BY <3>3 DEF Crash, Goto, Ended, TypeOK, ProcTypeOK
    <3>4. CASE User(p) /\ ~Start(p) /\ ~Crash(p)
      <4>1. pc[p] \notin Ended \cup {"preserved"}
        BY <3>4 DEF User, RemoveAsk, InstallAsk, ActivateAsk, LabelNSAsk, LabelWLAsk,
           Ended
      <4> QED
        BY <2>4, <4>1 DEF VerifyInv
    <3> QED
      BY <1>5, <3>1, <3>2, <3>3, <3>4
  <2> QED
    BY <2>2, <2>3, <2>4, <2>5 DEF VerifyInv, Alone
<1>6. CASE Controllers \/ Others
  <2>1. Quiet
    BY <1>6, OutsideQuiet
  <2>2. UNCHANGED <<pc, steps, bad>>
    BY <2>1 DEF Quiet, memory
  <2> QED
    BY <2>1, <2>2, QuietKeeps DEF VerifyInv
<1>7. CASE UNCHANGED vars
  <2>1. Quiet
    BY <1>7 DEF vars, cluster, Quiet
  <2>2. UNCHANGED <<pc, steps, bad>>
    BY <2>1 DEF Quiet, memory
  <2> QED
    BY <2>1, <2>2, QuietKeeps DEF VerifyInv
<1>8. ASSUME NEW p \in Procs, Run(p) PROVE VerifyInv'
  <2>1. CASE ~Verify(p) /\ ~VerifyCheck(p) /\ ~FinishVerify(p) /\ ~Preserved(p)
    BY <1>1, <1>8, <2>1, RunNoVerdict
  <2> QED
    BY <1>2, <1>3, <1>4, <1>5, <2>1
<1> QED
  BY <1>5, <1>6, <1>7, <1>8 DEF Next

\* When the verification of a run that has the cluster to itself has passed, the
\* cluster is migrated: what the first of the eight checks found is still so after
\* the last, whatever the controllers do in between.
THEOREM VerdictIsTrue ==
    ASSUME Alone
    PROVE  Spec => []VerifiedMeansMigrated
<1>1. Init => VerifyInv
  BY DEF Init, VerifyInv, StepNames
<1>2. TypeOK /\ VerifyInv /\ [Next]_vars => VerifyInv'
  BY VerifyStep
<1>3. VerifyInv => VerifiedMeansMigrated
  BY DEF VerifyInv, VerifiedMeansMigrated, Migrated
<1> QED
  BY <1>1, <1>2, <1>3, TypeCorrect, PTL DEF Spec

-----------------------------------------------------------------------------
\* The activation.  A user who declines the installation may still accept the
\* activation; a run without prompts activates only what is installed.

\* No prompts, and no administrator who sets Unmanaged by hand.
Unattended ==
    /\ \A f \in FlagSets : f.yes \/ f.dry
    /\ "Unmanaged" \notin AdminTargets

OperatorThere == \E m \in Modes : rhbok[m] = "installed"
BeforeActivation == {"activate", "activate-ask", "activate-patch"}
Installs(p) ==
    /\ OperatorThere => OperatorThere'
    /\ pc'[p] = "install-ask" => pc[p] = "install-ask" \/ ~(opt[p].yes \/ opt[p].dry)
    /\ pc'[p] \in BeforeActivation =>
         \/ opt'[p] = opt[p] /\ (opt[p].dry \/ pc[p] \in BeforeActivation \cup {"install-ask"})
         \/ OperatorThere

LEMMA RunInstalls == ASSUME TypeOK, NEW p \in Procs, Run(p) PROVE Installs(p)
<1>1. CASE Validate(p)
  BY <1>1 DEF Validate, SelectedModes, Installs, OperatorThere, BeforeActivation,
     Finish, Goto, Record, memory, cluster, TypeOK, ProcTypeOK, MemoryTypeOK,
     ClusterTypeOK
<1>2. CASE CheckComplete(p)
  BY <1>2 DEF CheckComplete, Installs, OperatorThere, BeforeActivation, Finish, Goto,
     Record, memory, cluster, TypeOK, ProcTypeOK, MemoryTypeOK, ClusterTypeOK
<1>3. CASE Begin(p)
  BY <1>3 DEF Begin, Installs, OperatorThere, BeforeActivation, Finish, Goto, Record,
     memory, cluster, TypeOK, ProcTypeOK, MemoryTypeOK, ClusterTypeOK
<1>4. CASE Preserve(p)
  BY <1>4 DEF Preserve, Installs, OperatorThere, BeforeActivation, Finish, Goto, Record,
     memory, cluster, TypeOK, ProcTypeOK, MemoryTypeOK, ClusterTypeOK
<1>5. CASE Remove(p)
  BY <1>5 DEF Remove, Installs, OperatorThere, BeforeActivation, Finish, Goto, Record,
     memory, cluster, TypeOK, ProcTypeOK, MemoryTypeOK, ClusterTypeOK
<1>6. CASE RemovePatch(p)
  BY <1>6 DEF RemovePatch, PatchManagementState, Installs, OperatorThere,
     BeforeActivation, Finish, Goto, Record, memory, cluster, TypeOK, ProcTypeOK,
     MemoryTypeOK, ClusterTypeOK
<1>7. CASE WaitRemoved(p)
  BY <1>7 DEF WaitRemoved, Installs, OperatorThere, BeforeActivation, Finish, Goto,
     Record, memory, cluster, TypeOK, ProcTypeOK, MemoryTypeOK, ClusterTypeOK
<1>8. CASE DeleteCRDs(p)
  BY <1>8 DEF DeleteCRDs, Installs, OperatorThere, BeforeActivation, Finish, Goto,
     Record, memory, cluster, TypeOK, ProcTypeOK, MemoryTypeOK, ClusterTypeOK
<1>9. CASE CheckCRD(p)
  BY <1>9 DEF CheckCRD, Installs, OperatorThere, BeforeActivation, Finish, Goto, Record,
     memory, cluster, TypeOK, ProcTypeOK, MemoryTypeOK, ClusterTypeOK
<1>10. CASE DeleteCRD(p)
  BY <1>10 DEF DeleteCRD, Installs, OperatorThere, BeforeActivation, Finish, Goto,
     Record, memory, cluster, TypeOK, ProcTypeOK, MemoryTypeOK, ClusterTypeOK
<1>11. CASE FinishCRDs(p)
  BY <1>11 DEF FinishCRDs, Installs, OperatorThere, BeforeActivation, Finish, Goto,
     Record, memory, cluster, TypeOK, ProcTypeOK, MemoryTypeOK, ClusterTypeOK
<1>12. CASE InstallV0(p)
  BY <1>12 DEF InstallV0, AfterInstall, Installs, OperatorThere, BeforeActivation,
     Finish, Goto, Record, memory, cluster, TypeOK, ProcTypeOK, MemoryTypeOK,
     ClusterTypeOK
<1>13. CASE RequestSubscription(p)
  BY <1>13 DEF RequestSubscription, Request, AfterInstall, Installs, OperatorThere,
     BeforeActivation, Finish, Goto, Record, memory, cluster, TypeOK, ProcTypeOK,
     MemoryTypeOK, ClusterTypeOK
<1>14. CASE WaitForCSV(p)
  BY <1>14 DEF WaitForCSV, WaitInstalled, AfterInstall, Installs, OperatorThere,
     BeforeActivation, Finish, Goto, Record, memory, cluster, TypeOK, ProcTypeOK,
     MemoryTypeOK, ClusterTypeOK
<1>15. CASE InstallV1(p)
  BY <1>15 DEF InstallV1, AfterInstall, Installs, OperatorThere, BeforeActivation,
     Finish, Goto, Record, memory, cluster, TypeOK, ProcTypeOK, MemoryTypeOK,
     ClusterTypeOK
<1>16. CASE RequestExtension(p)
  BY <1>16 DEF RequestExtension, Request, AfterInstall, Installs, OperatorThere,
     BeforeActivation, Finish, Goto, Record, memory, cluster, TypeOK, ProcTypeOK,
     MemoryTypeOK, ClusterTypeOK
<1>17. CASE WaitForExtension(p)
  BY <1>17 DEF WaitForExtension, WaitInstalled, AfterInstall, Installs, OperatorThere,
     BeforeActivation, Finish, Goto, Record, memory, cluster, TypeOK, ProcTypeOK,
     MemoryTypeOK, ClusterTypeOK
<1>18. CASE Activate(p)
  BY <1>18 DEF Activate, Installs, OperatorThere, BeforeActivation, Finish, Goto,
     Record, memory, cluster, TypeOK, ProcTypeOK, MemoryTypeOK, ClusterTypeOK
<1>19. CASE ActivatePatch(p)
  BY <1>19 DEF ActivatePatch, PatchManagementState, Installs, OperatorThere,
     BeforeActivation, Finish, Goto, Record, memory, cluster, TypeOK, ProcTypeOK,
     MemoryTypeOK, ClusterTypeOK
<1>20. CASE WaitReady(p)
  BY <1>20 DEF WaitReady, Installs, OperatorThere, BeforeActivation, Finish, Goto,
     Record, memory, cluster, TypeOK, ProcTypeOK, MemoryTypeOK, ClusterTypeOK
<1>21. CASE LabelNS(p)
  BY <1>21 DEF LabelNS, LabelStep, Installs, OperatorThere, BeforeActivation, Finish,
     Goto, Record, memory, cluster, TypeOK, ProcTypeOK, MemoryTypeOK, ClusterTypeOK
<1>22. ASSUME NEW n \in Namespaces, PatchNamespace(p, n) PROVE Installs(p)
  BY <1>22 DEF PatchNamespace, Installs, OperatorThere, BeforeActivation, Finish, Goto,
     Record, memory, cluster, TypeOK, ProcTypeOK, MemoryTypeOK, ClusterTypeOK
<1>23. CASE LabelWL(p)
  BY <1>23 DEF LabelWL, LabelStep, Installs, OperatorThere, BeforeActivation, Finish,
     Goto, Record, memory, cluster, TypeOK, ProcTypeOK, MemoryTypeOK, ClusterTypeOK
<1>24. ASSUME NEW w \in Workloads, PatchWorkload(p, w) PROVE Installs(p)
  BY <1>24 DEF PatchWorkload, Installs, OperatorThere, BeforeActivation, Finish, Goto,
     Record, memory, cluster, TypeOK, ProcTypeOK, MemoryTypeOK, ClusterTypeOK
<1>25. CASE FinishLabels(p)
  BY <1>25 DEF FinishLabels, Installs, OperatorThere, BeforeActivation, Finish, Goto,
     Record, memory, cluster, TypeOK, ProcTypeOK, MemoryTypeOK, ClusterTypeOK
<1>26. CASE Verify(p)
  BY <1>26 DEF Verify, Installs, OperatorThere, BeforeActivation, Finish, Goto, Record,
     memory, cluster, TypeOK, ProcTypeOK, MemoryTypeOK, ClusterTypeOK
<1>27. CASE VerifyCheck(p)
  BY <1>27 DEF VerifyCheck, Installs, OperatorThere, BeforeActivation, Finish, Goto,
     Record, memory, cluster, TypeOK, ProcTypeOK, MemoryTypeOK, ClusterTypeOK
<1>28. CASE FinishVerify(p)
  BY <1>28 DEF FinishVerify, Installs, OperatorThere, BeforeActivation, Finish, Goto,
     Record, memory, cluster, TypeOK, ProcTypeOK, MemoryTypeOK, ClusterTypeOK
<1>29. CASE Preserved(p)
  BY <1>29 DEF Preserved, Installs, OperatorThere, BeforeActivation, Finish, Goto,
     Record, memory, cluster, TypeOK, ProcTypeOK, MemoryTypeOK, ClusterTypeOK
<1> QED
  BY <1>1, <1>2, <1>3, <1>4, <1>5, <1>6, <1>7, <1>8, <1>9, <1>10, <1>11, <1>12, <1>13,
     <1>14, <1>15, <1>16, <1>17, <1>18, <1>19, <1>20, <1>21, <1>22, <1>23, <1>24, <1>25,
     <1>26, <1>27, <1>28, <1>29 DEF Run

LEMMA UserInstalls == ASSUME TypeOK, NEW p \in Procs, User(p) PROVE Installs(p)
<1>1. OperatorThere => OperatorThere'
  BY UserDry DEF cluster, OperatorThere
<1> QED
  BY <1>1 DEF Installs, BeforeActivation, AfterInstall, User, Start, Crash, RemoveAsk,
     InstallAsk, ActivateAsk, LabelNSAsk, LabelWLAsk, Ask, Finish, Goto, Record, memory,
     cluster, TypeOK, ProcTypeOK

OperatorFirst ==
    \A p \in Procs :
        /\ opt[p].yes \/ opt[p].dry
        /\ pc[p] # "install-ask"
        /\ pc[p] \in BeforeActivation /\ ~opt[p].dry => OperatorThere

LEMMA OutsideKeepsOperator ==
    ASSUME TypeOK, Controllers \/ Others
    PROVE  OperatorThere => OperatorThere'
<1>1. ASSUME NEW m \in Modes, OLMInstall(m) PROVE OperatorThere => OperatorThere'
  BY <1>1 DEF OLMInstall, OperatorThere, TypeOK, ClusterTypeOK
<1>2. CASE ~ \E m \in Modes : OLMInstall(m)
  BY <1>2 DEF Controllers, Others, DeployEmbedded, RemoveEmbedded, UpdateReady,
     PodsChange, CreateWorkload, CreateInstance, AdminEdit, OperatorThere
<1> QED
  BY <1>1, <1>2

LEMMA OperatorFirstStep ==
    ASSUME Unattended, TypeOK, OperatorFirst, [Next]_vars
    PROVE  OperatorFirst'
<1>1. ASSUME NEW p \in Procs, Run(p) \/ User(p) PROVE OperatorFirst'
  <2>1. Installs(p)
    BY <1>1, RunInstalls, UserInstalls
  <2>2. \A q \in Procs \ {p} : pc'[q] = pc[q] /\ opt'[q] = opt[q]
    BY <1>1, RunFrame, UserFrame DEF Same
  <2>3. opt'[p].yes \/ opt'[p].dry
    <3>1. CASE Start(p)
      BY <3>1 DEF Start, Unattended, TypeOK, MemoryTypeOK
    <3>2. CASE Run(p)
      BY <3>2, RunFlags DEF OperatorFirst
    <3>3. CASE User(p) /\ ~Start(p)
      <4>1. opt' = opt
        BY <3>3 DEF User, Crash, RemoveAsk, InstallAsk, ActivateAsk, LabelNSAsk,
           LabelWLAsk, Ask, memory
      <4> QED
        BY <4>1 DEF OperatorFirst
    <3> QED
      BY <1>1, <3>1, <3>2, <3>3
  <2> QED
    BY <2>1, <2>2, <2>3 DEF Installs, OperatorFirst
<1>2. CASE Controllers \/ Others
  <2>1. UNCHANGED <<pc, opt>>
    BY <1>2, OutsideType DEF TypeOK, memory
  <2> QED
    BY <1>2, <2>1, OutsideKeepsOperator DEF OperatorFirst
<1>3. CASE UNCHANGED vars
  BY <1>3 DEF vars, cluster, memory, OperatorFirst, OperatorThere
<1> QED
  BY <1>1, <1>2, <1>3 DEF Next

\* Runs without prompts, however many overlap and wherever they are cut off, hand
\* Kueue over only to an operator that is installed.
THEOREM ActivatedWhenInstalled ==
    ASSUME Unattended
    PROVE  Spec => ActivatedOnlyWithOperator
<1> DEFINE Ready == mgmt # "Unmanaged" /\ mgmt' = "Unmanaged" =>
                      \E m \in Modes : rhbok[m] = "installed"
<1>1. TypeOK /\ NoDryWriter /\ OperatorFirst /\ [Next]_vars => [Ready]_vars
  <2> SUFFICES ASSUME TypeOK, NoDryWriter, OperatorFirst, Next PROVE Ready
    OBVIOUS
  <2>1. ASSUME NEW p \in Procs, Run(p) \/ User(p) PROVE Ready
    <3>1. mgmt # "Unmanaged" /\ mgmt' = "Unmanaged" => pc[p] = "activate-patch"
      BY <2>1, RunSteers, UserSteers DEF Steers
    <3>2. pc[p] = "activate-patch" => OperatorThere
      BY DEF NoDryWriter, WritePoints, OperatorFirst, BeforeActivation
    <3> QED
      BY <3>1, <3>2 DEF OperatorThere
  <2>2. CASE Controllers \/ Others
    BY <2>2 DEF Controllers, Others, DeployEmbedded, RemoveEmbedded, UpdateReady,
       PodsChange, OLMInstall, CreateWorkload, CreateInstance, AdminEdit, Unattended
  <2> QED
    BY <2>1, <2>2 DEF Next
<1>2. Init => OperatorFirst
  BY DEF Init, OperatorFirst, BeforeActivation, Unattended
<1>3. TypeOK /\ OperatorFirst /\ [Next]_vars => OperatorFirst'
  BY OperatorFirstStep
<1> QED
  BY <1>1, <1>2, <1>3, TypeCorrect, InitType, NextType, InitWriter, NextWriter, PTL
     DEF Spec, ActivatedOnlyWithOperator
=============================================================================

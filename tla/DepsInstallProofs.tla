-------------------------- MODULE DepsInstallProofs --------------------------
(***************************************************************************)
(* Theorems about DepsInstall, for any number of processes, any manifest   *)
(* and any cluster to begin with.                                          *)
(***************************************************************************)
EXTENDS DepsInstall, TLAPS

\* One entry of a table of the processes' dependencies is changed.
LEMMA Update ==
    ASSUME NEW S, NEW f \in [Procs -> [Deps -> S]], NEW p \in Procs,
           NEW d \in Deps, NEW v \in S
    PROVE  /\ [f EXCEPT ![p][d] = v] \in [Procs -> [Deps -> S]]
           /\ \A q \in Procs, x \in Deps :
                [f EXCEPT ![p][d] = v][q][x] = IF q = p /\ x = d THEN v ELSE f[q][x]
OBVIOUS

-----------------------------------------------------------------------------
\* What the actions with alternatives come down to.

LEMMA CheckEffect ==
    ASSUME NEW p \in Procs, NEW d \in Deps, Check(p, d)
    PROVE  \E v \in Answers :
             /\ v = "requested" => IsAlreadyInstalled(p, d)
             /\ answer' = [answer EXCEPT ![p][d] = v]
BY DEF Check, Answers

LEMMA WaitEffect ==
    ASSUME NEW p \in Procs, NEW d \in Deps, WaitForDependency(p, d)
    PROVE  \E v \in {"installed", "failed"} :
             /\ v = "installed" => Ready(p, d)
             /\ result' = [result EXCEPT ![p][d] = v]
BY DEF WaitForDependency

\* A step of the loop short of a request goes on or gives the dependency up.
LEMMA LoopEffect ==
    ASSUME NEW p \in Procs, NEW d \in Deps,
           CreateNamespace(p, d) \/ EnsureOperatorGroup(p, d)
    PROVE  /\ UNCHANGED <<groups, subs, exts, csvs, foreign, overtaken, mode, pc, answer,
                          exit, restarts>>
           /\ spaces' = spaces \/ spaces' = spaces \cup {Namespace[d]}
           /\ pc[p] = "create" /\ d \in todo[p]
           /\ \/ Leave(p, d, "failed")
              \/ \E step \in Steps : GoTo(p, step)
<1>1. CASE CreateNamespace(p, d)
  BY <1>1 DEF CreateNamespace, Creating, Current, Steps
<1>2. CASE EnsureOperatorGroup(p, d)
  BY <1>2 DEF EnsureOperatorGroup, Creating, Current, Steps
<1> QED
  BY <1>1, <1>2

LEMMA LeaveEffect ==
    ASSUME TypeOK, NEW p \in Procs, NEW d \in Deps, NEW o \in Outcomes, Leave(p, d, o)
    PROVE  /\ todo' \in [Procs -> SUBSET Deps] /\ at' \in [Procs -> Steps]
           /\ result' \in [Procs -> [Deps -> Outcomes]]
           /\ \A q \in Procs : todo'[q] = IF q = p THEN todo[q] \ {d} ELSE todo[q]
           /\ \A q \in Procs, x \in Deps :
                result'[q][x] = IF q = p /\ x = d THEN o ELSE result[q][x]
<1>1. /\ todo' \in [Procs -> SUBSET Deps] /\ at' \in [Procs -> Steps]
      /\ \A q \in Procs : todo'[q] = IF q = p THEN todo[q] \ {d} ELSE todo[q]
  BY DEF Leave, TypeOK, Steps
<1>2. result \in [Procs -> [Deps -> Outcomes]] /\ result' = [result EXCEPT ![p][d] = o]
  BY DEF Leave, TypeOK
<1>3. /\ result' \in [Procs -> [Deps -> Outcomes]]
      /\ \A q \in Procs, x \in Deps :
           result'[q][x] = IF q = p /\ x = d THEN o ELSE result[q][x]
  BY <1>2, Update
<1> QED
  BY <1>1, <1>3

\* The check ends: with nothing to do, with an error, or with a list of what
\* is missing.
LEMMA FilterEffect ==
    ASSUME NEW p \in Procs, FilterDepsToInstall(p)
    PROVE  /\ \A d \in Selected : answer[p][d] # "unknown"
           /\ UNCHANGED <<cluster, mode, at, answer, result, restarts>>
           /\ \/ /\ pc' = [pc EXCEPT ![p] = "done"]
                 /\ \E e \in {"ok", "error"} :
                      /\ exit' = [exit EXCEPT ![p] = e]
                      /\ e = "ok" => \A d \in Selected :
                                        answer[p][d] \notin {"absent", "error"}
                 /\ UNCHANGED todo
              \/ /\ pc' = [pc EXCEPT ![p] = "accounts"]
                 /\ todo' = [todo EXCEPT ![p] =
                                {d \in Selected : answer[p][d] = "absent"}]
                 /\ \A d \in Selected : answer[p][d] # "error"
                 /\ UNCHANGED exit
BY DEF FilterDepsToInstall

-----------------------------------------------------------------------------
LEMMA TypeInit == Init => TypeOK
BY InstallAssumption DEF Init, TypeOK, Situations, SubStates, ExtStates, CsvStates, PCs,
   Steps,
   Answers, Outcomes, OperatorGroups

LEMMA AddGroupType ==
    ASSUME TypeOK, NEW n \in Namespaces, NEW g \in OperatorGroups, AddGroup(n, g)
    PROVE  groups' \in [Namespaces -> SUBSET OperatorGroups] /\ overtaken' \subseteq Namespaces
BY DEF AddGroup, TypeOK

\* Every step keeps the types.
LEMMA TypeStep == TypeOK /\ [Next]_vars => TypeOK'
<1> SUFFICES ASSUME TypeOK, [Next]_vars PROVE TypeOK'
  OBVIOUS
<1>1. ASSUME NEW p \in Procs, NEW d \in Deps, Check(p, d)
      PROVE  TypeOK'
  <2>1. PICK v \in Answers : answer' = [answer EXCEPT ![p][d] = v]
    BY <1>1, CheckEffect
  <2>2. answer' \in [Procs -> [Deps -> Answers]]
    BY <2>1, Update DEF TypeOK
  <2> QED
    BY <1>1, <2>2 DEF Check, TypeOK, cluster
<1>2. ASSUME NEW p \in Procs, NEW d \in Deps, CreateNamespace(p, d)
      PROVE  TypeOK'
  <2>0. Namespace[d] \in Namespaces
    BY InstallAssumption
  <2>1. spaces' \subseteq Namespaces
    <3>1. spaces' = spaces \/ spaces' = spaces \cup {Namespace[d]}
      BY <1>2, LoopEffect
    <3>2. spaces \subseteq Namespaces
      BY DEF TypeOK
    <3> QED
      BY <2>0, <3>1, <3>2
  <2>2. CASE Leave(p, d, "failed")
    <3>1. "failed" \in Outcomes
      BY DEF Outcomes
    <3> QED
      BY <1>2, <2>1, <2>2, <3>1, LoopEffect, LeaveEffect DEF TypeOK
  <2>3. CASE \E step \in Steps : GoTo(p, step)
    BY <1>2, <2>1, <2>3, LoopEffect DEF GoTo, TypeOK
  <2> QED
    BY <1>2, <2>2, <2>3, LoopEffect
<1>3. ASSUME NEW p \in Procs, NEW d \in Deps, EnsureOperatorGroup(p, d)
      PROVE  TypeOK'
  <2>0. Namespace[d] \in Namespaces
    BY InstallAssumption
  <2>1. spaces' \subseteq Namespaces
    <3>1. spaces' = spaces \/ spaces' = spaces \cup {Namespace[d]}
      BY <1>3, LoopEffect
    <3>2. spaces \subseteq Namespaces
      BY DEF TypeOK
    <3> QED
      BY <2>0, <3>1, <3>2
  <2>2. CASE Leave(p, d, "failed")
    <3>1. "failed" \in Outcomes
      BY DEF Outcomes
    <3> QED
      BY <1>3, <2>1, <2>2, <3>1, LoopEffect, LeaveEffect DEF TypeOK
  <2>3. CASE \E step \in Steps : GoTo(p, step)
    BY <1>3, <2>1, <2>3, LoopEffect DEF GoTo, TypeOK
  <2> QED
    BY <1>3, <2>2, <2>3, LoopEffect
<1>4. ASSUME NEW p \in Procs, NEW d \in Deps, CreateOperatorGroup(p, d)
      PROVE  TypeOK'
  <2>1. Group("own", Targets[d]) \in OperatorGroups /\ Namespace[d] \in Namespaces
    BY InstallAssumption DEF Group, OperatorGroups
  <2>2. groups' \in [Namespaces -> SUBSET OperatorGroups] /\ overtaken' \subseteq Namespaces
    BY <1>4, <2>1, AddGroupType DEF CreateOperatorGroup, TypeOK
  <2> QED
    BY <1>4, <2>2 DEF CreateOperatorGroup, Creating, GoTo, TypeOK, Steps
<1>5. ASSUME NEW p \in Procs, NEW d \in Deps, CreateSubscription(p, d)
      PROVE  TypeOK'
  BY <1>5 DEF CreateSubscription, Creating, Leave, TypeOK, SubStates,
     ExtStates, CsvStates, PCs, Steps, Answers, Outcomes, cluster
<1>6. ASSUME NEW p \in Procs, NEW d \in Deps, CreateClusterExtension(p, d)
      PROVE  TypeOK'
  BY <1>6 DEF CreateClusterExtension, Creating, Leave, TypeOK, SubStates,
     ExtStates, CsvStates, PCs, Steps, Answers, Outcomes, cluster
<1>7. ASSUME NEW p \in Procs, NEW d \in Deps, CreateFails(p, d)
      PROVE  TypeOK'
  BY <1>7 DEF CreateFails, Creating, Leave, Steps, TypeOK, SubStates,
     ExtStates, CsvStates, PCs, Steps, Answers, Outcomes, cluster
<1>8. ASSUME NEW p \in Procs, NEW d \in Deps, WaitForDependency(p, d)
      PROVE  TypeOK'
  <2>1. PICK v \in {"installed", "failed"} : result' = [result EXCEPT ![p][d] = v]
    BY <1>8, WaitEffect
  <2>2. v \in Outcomes
    BY DEF Outcomes
  <2>3. result' \in [Procs -> [Deps -> Outcomes]]
    BY <2>1, <2>2, Update DEF TypeOK
  <2> QED
    BY <1>8, <2>3 DEF WaitForDependency, TypeOK, cluster
<1>9. ASSUME NEW p \in Procs, FilterDepsToInstall(p)
      PROVE  TypeOK'
  <2>1. Selected \subseteq Deps
    BY DEF Selected
  <2>2. pc' \in [Procs -> PCs]
    BY <1>9, FilterEffect DEF TypeOK, PCs
  <2>3. exit' \in [Procs -> {"none", "ok", "error"}]
    BY <1>9, FilterEffect DEF TypeOK
  <2>4. todo' \in [Procs -> SUBSET Deps]
    <3>1. \/ todo' = todo
          \/ todo' = [todo EXCEPT ![p] = {d \in Selected : answer[p][d] = "absent"}]
      BY <1>9, FilterEffect
    <3>2. {d \in Selected : answer[p][d] = "absent"} \in SUBSET Deps
      BY <2>1
    <3>3. todo \in [Procs -> SUBSET Deps]
      BY DEF TypeOK
    <3> QED
      BY <3>1, <3>2, <3>3
  <2> QED
    BY <1>9, <2>2, <2>3, <2>4, FilterEffect DEF TypeOK, cluster
<1>10. ASSUME NEW p \in Procs, ValidateServiceAccounts(p)
      PROVE  TypeOK'
  <2>1. pc' \in [Procs -> PCs]
    <3>1. pc' = [pc EXCEPT ![p] = "create"] \/ pc' = [pc EXCEPT ![p] = "done"]
      BY <1>10 DEF ValidateServiceAccounts
    <3> QED
      BY <3>1 DEF TypeOK, PCs
  <2>2. exit' \in [Procs -> {"none", "ok", "error"}]
    BY <1>10 DEF ValidateServiceAccounts, TypeOK
  <2> QED
    BY <1>10, <2>1, <2>2 DEF ValidateServiceAccounts, TypeOK, cluster
<1>11. ASSUME NEW p \in Procs, StartWaiting(p)
      PROVE  TypeOK'
  BY <1>11 DEF StartWaiting, TypeOK, SubStates, ExtStates, CsvStates, PCs,
     Steps, Answers, Outcomes, cluster
<1>12. ASSUME NEW p \in Procs, Finish(p)
      PROVE  TypeOK'
  BY <1>12 DEF Finish, TypeOK, SubStates, ExtStates, CsvStates, PCs, Steps,
     Answers, Outcomes, cluster
<1>13. ASSUME NEW p \in Procs, Crash(p)
      PROVE  TypeOK'
  BY <1>13 DEF Crash, TypeOK, SubStates, ExtStates, CsvStates, PCs, Steps,
     Answers, Outcomes, cluster
<1>14. ASSUME NEW p \in Procs, Restart(p)
      PROVE  TypeOK'
  BY <1>14, InstallAssumption DEF Restart, TypeOK, SubStates, ExtStates, CsvStates, PCs, Steps,
     Answers, Outcomes, cluster
<1>15. ASSUME NEW d \in Deps, OLM(d)
      PROVE  TypeOK'
  <2>1. subs' \in [Deps -> SubStates]
    BY <1>15 DEF OLM, TypeOK, SubStates
  <2>2. exts' \in [Deps -> ExtStates]
    BY <1>15 DEF OLM, TypeOK, ExtStates
  <2>3. csvs' \in [Deps -> CsvStates]
    BY <1>15 DEF OLM, TypeOK, CsvStates
  <2> QED
    BY <1>15, <2>1, <2>2, <2>3 DEF OLM, TypeOK
<1>16. ASSUME NEW n \in Namespaces, ForeignGroup(n)
      PROVE  TypeOK'
  <2>1. PICK g \in OperatorGroups : AddGroup(n, g)
    BY <1>16, InstallAssumption DEF ForeignGroup, Group, OperatorGroups
  <2>2. groups' \in [Namespaces -> SUBSET OperatorGroups] /\ overtaken' \subseteq Namespaces
    BY <2>1, AddGroupType
  <2>3. foreign' \in 0 .. MaxForeign
    BY <1>16, InstallAssumption DEF ForeignGroup, TypeOK
  <2> QED
    BY <1>16, <2>2, <2>3 DEF ForeignGroup, TypeOK
<1>17. CASE UNCHANGED vars
  BY <1>17 DEF vars, cluster, TypeOK
<1> QED
  BY <1>1, <1>2, <1>3, <1>4, <1>5, <1>6, <1>7, <1>8, <1>9, <1>10, <1>11, <1>12,
     <1>13, <1>14, <1>15, <1>16, <1>17 DEF Next, Step, CreateDepResources

\* Type correctness of `deps install`.
THEOREM TypeCorrect == Spec => []TypeOK
<1> QED
  BY TypeInit, TypeStep, PTL DEF Spec

-----------------------------------------------------------------------------
\* A request to OLM is never withdrawn: what was requested, or installed,
\* when a check looked still is when its answer is used.
LEMMA RequestsStay ==
    ASSUME TypeOK, [Next]_vars, NEW x \in Deps
    PROVE  /\ Requested(x) => Requested(x)'
           /\ csvs[x] = "succeeded" \/ exts[x] = "installed" =>
                csvs'[x] = "succeeded" \/ exts'[x] = "installed"
<1> DEFINE Stay == /\ Requested(x) => Requested(x)'
                   /\ csvs[x] = "succeeded" \/ exts[x] = "installed" =>
                        csvs'[x] = "succeeded" \/ exts'[x] = "installed"
<1>1. ASSUME NEW p \in Procs, NEW d \in Deps, Check(p, d)
      PROVE  Stay
  BY <1>1 DEF Check, TypeOK, Requested, RequestedV0Subscription,
     RequestedClusterExtension, HasSucceededCSV, cluster
<1>2. ASSUME NEW p \in Procs, NEW d \in Deps, CreateNamespace(p, d)
      PROVE  Stay
  BY <1>2 DEF CreateNamespace, Creating, TypeOK, Requested,
     RequestedV0Subscription, RequestedClusterExtension, HasSucceededCSV,
     cluster
<1>3. ASSUME NEW p \in Procs, NEW d \in Deps, EnsureOperatorGroup(p, d)
      PROVE  Stay
  BY <1>3 DEF EnsureOperatorGroup, Creating, TypeOK, Requested,
     RequestedV0Subscription, RequestedClusterExtension, HasSucceededCSV,
     cluster
<1>4. ASSUME NEW p \in Procs, NEW d \in Deps, CreateOperatorGroup(p, d)
      PROVE  Stay
  BY <1>4, InstallAssumption DEF CreateOperatorGroup, Creating, GoTo, Group, OperatorGroups,
     TypeOK, Requested, RequestedV0Subscription, RequestedClusterExtension,
     HasSucceededCSV, cluster
<1>5. ASSUME NEW p \in Procs, NEW d \in Deps, CreateSubscription(p, d)
      PROVE  Stay
  BY <1>5 DEF CreateSubscription, Creating, Leave, TypeOK, Requested,
     RequestedV0Subscription, RequestedClusterExtension, HasSucceededCSV,
     cluster
<1>6. ASSUME NEW p \in Procs, NEW d \in Deps, CreateClusterExtension(p, d)
      PROVE  Stay
  BY <1>6 DEF CreateClusterExtension, Creating, Leave, TypeOK, Requested,
     RequestedV0Subscription, RequestedClusterExtension, HasSucceededCSV,
     cluster
<1>7. ASSUME NEW p \in Procs, NEW d \in Deps, CreateFails(p, d)
      PROVE  Stay
  BY <1>7 DEF CreateFails, Creating, Leave, Steps, TypeOK, Requested,
     RequestedV0Subscription, RequestedClusterExtension, HasSucceededCSV,
     cluster
<1>8. ASSUME NEW p \in Procs, NEW d \in Deps, WaitForDependency(p, d)
      PROVE  Stay
  BY <1>8 DEF WaitForDependency, TypeOK, Requested, RequestedV0Subscription,
     RequestedClusterExtension, HasSucceededCSV, cluster
<1>9. ASSUME NEW p \in Procs, FilterDepsToInstall(p)
      PROVE  Stay
  BY <1>9 DEF FilterDepsToInstall, TypeOK, Requested, RequestedV0Subscription,
     RequestedClusterExtension, HasSucceededCSV, cluster
<1>10. ASSUME NEW p \in Procs, ValidateServiceAccounts(p)
      PROVE  Stay
  BY <1>10 DEF ValidateServiceAccounts, TypeOK, Requested,
     RequestedV0Subscription, RequestedClusterExtension, HasSucceededCSV,
     cluster
<1>11. ASSUME NEW p \in Procs, StartWaiting(p)
      PROVE  Stay
  BY <1>11 DEF StartWaiting, TypeOK, Requested, RequestedV0Subscription,
     RequestedClusterExtension, HasSucceededCSV, cluster
<1>12. ASSUME NEW p \in Procs, Finish(p)
      PROVE  Stay
  BY <1>12 DEF Finish, TypeOK, Requested, RequestedV0Subscription,
     RequestedClusterExtension, HasSucceededCSV, cluster
<1>13. ASSUME NEW p \in Procs, Crash(p)
      PROVE  Stay
  BY <1>13 DEF Crash, TypeOK, Requested, RequestedV0Subscription,
     RequestedClusterExtension, HasSucceededCSV, cluster
<1>14. ASSUME NEW p \in Procs, Restart(p)
      PROVE  Stay
  BY <1>14, InstallAssumption DEF Restart, TypeOK, Requested, RequestedV0Subscription,
     RequestedClusterExtension, HasSucceededCSV, cluster
<1>15. ASSUME NEW d \in Deps, OLM(d)
      PROVE  Stay
  BY <1>15 DEF OLM, TypeOK, Requested, RequestedV0Subscription,
     RequestedClusterExtension, HasSucceededCSV, cluster
<1>16. ASSUME NEW n \in Namespaces, ForeignGroup(n)
      PROVE  Stay
  BY <1>16 DEF ForeignGroup, TypeOK, Requested, RequestedV0Subscription,
     RequestedClusterExtension, HasSucceededCSV, cluster
<1>17. CASE UNCHANGED vars
  BY <1>17 DEF vars, cluster, Requested, RequestedV0Subscription,
     RequestedClusterExtension, HasSucceededCSV
<1> QED
  BY <1>1, <1>2, <1>3, <1>4, <1>5, <1>6, <1>7, <1>8, <1>9, <1>10, <1>11, <1>12,
     <1>13, <1>14, <1>15, <1>16, <1>17 DEF Next, Step, CreateDepResources

\* The invariant holds of the initial states.
LEMMA IndInvInit == Init => IndInv
BY DEF Init, IndInv, AnswersStayTrue, PendingRequested, NoneDropsOut, LoopDone,
   ExitOkMeansRequested, InstalledMeansReady

\* What every step keeps whoever takes it.
LEMMA Kept ==
    ASSUME TypeOK, [Next]_vars
    PROVE  /\ \A x \in Deps : Requested(x) => Requested(x)'
           /\ \A x \in Deps : csvs[x] = "succeeded" \/ exts[x] = "installed" =>
                 csvs'[x] = "succeeded" \/ exts'[x] = "installed"
           /\ Selected' = Selected /\ Selected \subseteq Deps
<1>1. Selected' = Selected /\ Selected \subseteq Deps
  BY DEF Selected, ShouldInstallDep
<1> QED
  BY <1>1, RequestsStay

\* A step that leaves the processes alone keeps the invariant.
LEMMA OthersKeep ==
    ASSUME TypeOK, IndInv, [Next]_vars, UNCHANGED <<pc, todo, answer, result, exit>>
    PROVE  IndInv'
<1>1. AnswersStayTrue'
  BY Kept DEF IndInv, AnswersStayTrue
<1>2. PendingRequested'
  BY Kept DEF IndInv, PendingRequested
<1>3. NoneDropsOut'
  BY Kept DEF IndInv, NoneDropsOut
<1>4. LoopDone'
  BY DEF IndInv, LoopDone
<1>5. ExitOkMeansRequested'
  BY Kept DEF IndInv, ExitOkMeansRequested
<1>6. InstalledMeansReady'
  BY Kept DEF IndInv, InstalledMeansReady
<1> QED
  BY <1>1, <1>2, <1>3, <1>4, <1>5, <1>6 DEF IndInv

\* So does a step of the loop, which goes on with its dependency or leaves it,
\* to be waited for only if it is requested.
LEMMA LoopKeeps ==
    ASSUME TypeOK, IndInv, [Next]_vars, NEW p \in Procs, NEW d \in Deps,
           NEW o \in {"failed", "pending"}, o = "pending" => Requested(d)',
           pc[p] = "create", UNCHANGED <<pc, answer, exit>>,
           UNCHANGED <<todo, result>> \/ Leave(p, d, o)
    PROVE  IndInv'
<1>1. CASE UNCHANGED <<todo, result>>
  BY <1>1, OthersKeep
<1>2. CASE Leave(p, d, o)
  <2>0. o \in Outcomes
    BY DEF Outcomes
  <2>1. /\ \A q \in Procs : todo'[q] = IF q = p THEN todo[q] \ {d} ELSE todo[q]
        /\ \A q \in Procs, x \in Deps :
             result'[q][x] = IF q = p /\ x = d THEN o ELSE result[q][x]
    <3>1. \A q \in Procs : todo'[q] = IF q = p THEN todo[q] \ {d} ELSE todo[q]
      BY <1>2, <2>0, LeaveEffect
    <3>2. \A q \in Procs, x \in Deps :
            result'[q][x] = IF q = p /\ x = d THEN o ELSE result[q][x]
      BY <1>2, <2>0, LeaveEffect
    <3> QED
      BY <3>1, <3>2
  <2>2. AnswersStayTrue'
    BY Kept DEF IndInv, AnswersStayTrue
  <2>3. PendingRequested'
    BY <2>1, Kept DEF IndInv, PendingRequested
  <2>4. NoneDropsOut'
    <3> SUFFICES ASSUME NEW q \in Procs, pc[q] \in {"accounts", "create", "wait"},
                        NEW x \in Selected, x \in Deps
                 PROVE  \/ answer[q][x] = "requested"
                        \/ x \in todo'[q]
                        \/ result'[q][x] # "none"
      BY Kept DEF NoneDropsOut
    <3>1. answer[q][x] = "requested" \/ x \in todo[q] \/ result[q][x] # "none"
      BY DEF IndInv, NoneDropsOut
    <3> QED
      BY <2>1, <3>1
  <2>5. LoopDone'
    BY <2>1 DEF IndInv, LoopDone
  <2>6. ExitOkMeansRequested'
    BY Kept DEF IndInv, ExitOkMeansRequested
  <2>7. InstalledMeansReady'
    BY <2>1, Kept DEF IndInv, InstalledMeansReady
  <2> QED
    BY <2>2, <2>3, <2>4, <2>5, <2>6, <2>7 DEF IndInv
<1> QED
  BY <1>1, <1>2

\* Every step keeps the invariant.
LEMMA IndInvStep == TypeOK /\ IndInv /\ [Next]_vars => IndInv'
<1> SUFFICES ASSUME TypeOK, IndInv, [Next]_vars PROVE IndInv'
  OBVIOUS
<1>0. /\ \A x \in Deps : Requested(x) => Requested(x)'
      /\ \A x \in Deps : csvs[x] = "succeeded" \/ exts[x] = "installed" =>
            csvs'[x] = "succeeded" \/ exts'[x] = "installed"
  BY Kept
<1>s. Selected' = Selected
  BY Kept
<1>t. Selected \subseteq Deps
  BY Kept
<1>1. ASSUME NEW p \in Procs, NEW d \in Deps, Check(p, d)
      PROVE  IndInv'
  <2>a. PICK v \in Answers : /\ v = "requested" => IsAlreadyInstalled(p, d)
                            /\ answer' = [answer EXCEPT ![p][d] = v]
    BY <1>1, CheckEffect
  <2>b. \A q \in Procs, x \in Deps :
          answer'[q][x] = IF q = p /\ x = d THEN v ELSE answer[q][x]
    BY <2>a, Update DEF TypeOK
  <2>c. v = "requested" => Requested(d)
    BY <2>a DEF IsAlreadyInstalled, Requested, RequestedV0Subscription,
       RequestedClusterExtension, HasSucceededCSV
  <2>d. pc[p] = "check"
    BY <1>1 DEF Check
  <2>u. UNCHANGED <<csvs, exts, subs, pc, todo, exit, result>>
    BY <1>1 DEF Check, cluster
  <2>1. AnswersStayTrue'
    BY <1>0, <1>s, <1>t, <2>b, <2>c, <2>d, <2>u DEF IndInv, AnswersStayTrue
  <2>2. PendingRequested'
    BY <1>0, <1>s, <1>t, <2>b, <2>c, <2>d, <2>u DEF IndInv, PendingRequested
  <2>3. NoneDropsOut'
    BY <1>0, <1>s, <1>t, <2>b, <2>c, <2>d, <2>u DEF IndInv, NoneDropsOut
  <2>4. LoopDone'
    BY <1>0, <1>s, <1>t, <2>b, <2>c, <2>d, <2>u DEF IndInv, LoopDone
  <2>5. ExitOkMeansRequested'
    BY <1>0, <1>s, <1>t, <2>b, <2>c, <2>d, <2>u DEF IndInv,
       ExitOkMeansRequested
  <2>6. InstalledMeansReady'
    BY <1>0, <1>s, <1>t, <2>b, <2>c, <2>d, <2>u DEF IndInv, InstalledMeansReady
  <2> QED
    BY <2>1, <2>2, <2>3, <2>4, <2>5, <2>6 DEF IndInv
<1>2. ASSUME NEW p \in Procs, NEW d \in Deps, CreateNamespace(p, d)
      PROVE  IndInv'
  BY <1>2, LoopEffect, LoopKeeps DEF GoTo
<1>3. ASSUME NEW p \in Procs, NEW d \in Deps, EnsureOperatorGroup(p, d)
      PROVE  IndInv'
  BY <1>3, LoopEffect, LoopKeeps DEF GoTo
<1>4. ASSUME NEW p \in Procs, NEW d \in Deps, CreateOperatorGroup(p, d)
      PROVE  IndInv'
  <2>1. pc[p] = "create" /\ UNCHANGED <<pc, answer, exit, todo, result>>
    BY <1>4 DEF CreateOperatorGroup, Creating, GoTo
  <2> QED
    BY <2>1, OthersKeep
<1>5. ASSUME NEW p \in Procs, NEW d \in Deps, CreateSubscription(p, d)
      PROVE  IndInv'
  <2>1. pc[p] = "create" /\ UNCHANGED <<pc, answer, exit>> /\ Leave(p, d, "pending")
    BY <1>5 DEF CreateSubscription, Creating
  <2>2. subs'[d] # "none"
    BY <1>5 DEF CreateSubscription, TypeOK
  <2>3. Requested(d)'
    BY <2>2 DEF Requested, RequestedV0Subscription
  <2> QED
    BY <2>1, <2>3, LoopKeeps
<1>6. ASSUME NEW p \in Procs, NEW d \in Deps, CreateClusterExtension(p, d)
      PROVE  IndInv'
  <2>1. /\ pc[p] = "create" /\ UNCHANGED <<pc, answer, exit>>
        /\ Leave(p, d, IF exts[d] = "elsewhere" THEN "failed" ELSE "pending")
    BY <1>6 DEF CreateClusterExtension, Creating
  <2>2. CASE exts[d] = "elsewhere"
    BY <2>1, <2>2, LoopKeeps
  <2>3. CASE exts[d] # "elsewhere"
    <3>1. exts'[d] \in {"requested", "installed", "failed"}
      BY <1>6, <2>3 DEF CreateClusterExtension, TypeOK, ExtStates
    <3>2. Requested(d)'
      BY <3>1 DEF Requested, RequestedClusterExtension
    <3> QED
      BY <2>1, <2>3, <3>2, LoopKeeps
  <2> QED
    BY <2>2, <2>3
<1>7. ASSUME NEW p \in Procs, NEW d \in Deps, CreateFails(p, d)
      PROVE  IndInv'
  <2>1. pc[p] = "create" /\ UNCHANGED <<pc, answer, exit>> /\ Leave(p, d, "failed")
    BY <1>7 DEF CreateFails, Creating
  <2> QED
    BY <2>1, LoopKeeps
<1>8. ASSUME NEW p \in Procs, NEW d \in Deps, WaitForDependency(p, d)
      PROVE  IndInv'
  <2>a. PICK v \in {"installed", "failed"} : /\ v = "installed" => Ready(p, d)
                                            /\ result' = [result EXCEPT ![p][d] = v]
    BY <1>8, WaitEffect
  <2>b. v \in Outcomes
    BY DEF Outcomes
  <2>c. \A q \in Procs, x \in Deps :
          result'[q][x] = IF q = p /\ x = d THEN v ELSE result[q][x]
    BY <2>a, <2>b, Update DEF TypeOK
  <2>d. v = "installed" => csvs[d] = "succeeded" \/ exts[d] = "installed"
    BY <2>a DEF Ready, HasSucceededCSV
  <2>e. Requested(d)
    BY <1>8 DEF WaitForDependency, IndInv, PendingRequested
  <2>u. UNCHANGED <<csvs, exts, subs, pc, todo, exit, answer>>
    BY <1>8 DEF WaitForDependency, cluster
  <2>1. AnswersStayTrue'
    BY <1>0, <1>s, <1>t, <2>c, <2>d, <2>e, <2>u DEF IndInv, AnswersStayTrue
  <2>2. PendingRequested'
    BY <1>0, <1>s, <1>t, <2>c, <2>d, <2>e, <2>u DEF IndInv, PendingRequested
  <2>3. NoneDropsOut'
    BY <1>0, <1>s, <1>t, <2>c, <2>d, <2>e, <2>u DEF IndInv, NoneDropsOut
  <2>4. LoopDone'
    BY <1>0, <1>s, <1>t, <2>c, <2>d, <2>e, <2>u DEF IndInv, LoopDone
  <2>5. ExitOkMeansRequested'
    BY <1>0, <1>s, <1>t, <2>c, <2>d, <2>e, <2>u DEF IndInv,
       ExitOkMeansRequested
  <2>6. InstalledMeansReady'
    BY <1>0, <1>s, <1>t, <2>c, <2>d, <2>e, <2>u DEF IndInv, InstalledMeansReady
  <2> QED
    BY <2>1, <2>2, <2>3, <2>4, <2>5, <2>6 DEF IndInv
<1>9. ASSUME NEW p \in Procs, FilterDepsToInstall(p)
      PROVE  IndInv'
  <2>u. UNCHANGED <<csvs, exts, subs, answer, result>>
    BY <1>9, FilterEffect DEF cluster
  <2>v. \A x \in Selected : answer[p][x] \in Answers \ {"unknown"}
    BY <1>9, <1>t, FilterEffect DEF TypeOK
  <2>a. CASE /\ pc' = [pc EXCEPT ![p] = "done"]
             /\ \E e \in {"ok", "error"} :
                  /\ exit' = [exit EXCEPT ![p] = e]
                  /\ e = "ok" => \A x \in Selected :
                                    answer[p][x] \notin {"absent", "error"}
             /\ UNCHANGED todo
    <3>1. PICK e \in {"ok", "error"} :
            /\ exit' = [exit EXCEPT ![p] = e]
            /\ e = "ok" => \A x \in Selected : answer[p][x] \notin {"absent", "error"}
      BY <2>a
    <3>2. e = "ok" => \A x \in Selected : Requested(x)
      BY <1>t, <2>v, <3>1 DEF Answers, IndInv, AnswersStayTrue
    <3>3. ExitOkMeansRequested'
      BY <1>0, <1>s, <1>t, <3>1, <3>2 DEF TypeOK, IndInv, ExitOkMeansRequested
    <3>4. NoneDropsOut'
      BY <1>s, <2>a, <2>u DEF TypeOK, IndInv, NoneDropsOut
    <3>5. LoopDone'
      BY <2>a DEF TypeOK, IndInv, LoopDone
    <3> QED
      BY <1>0, <2>u, <3>3, <3>4, <3>5 DEF IndInv, AnswersStayTrue,
         PendingRequested, InstalledMeansReady
  <2>b. CASE /\ pc' = [pc EXCEPT ![p] = "accounts"]
             /\ todo' = [todo EXCEPT ![p] =
                            {x \in Selected : answer[p][x] = "absent"}]
             /\ \A x \in Selected : answer[p][x] # "error"
             /\ UNCHANGED exit
    <3>1. \A x \in Selected : answer[p][x] \in {"requested", "absent"}
      BY <2>b, <2>v DEF Answers
    <3>2. /\ todo'[p] = {x \in Selected : answer[p][x] = "absent"}
          /\ \A q \in Procs : q # p => todo'[q] = todo[q] /\ pc'[q] = pc[q]
          /\ pc'[p] = "accounts"
      BY <2>b DEF TypeOK
    <3>3. ExitOkMeansRequested'
      BY <1>0, <1>s, <1>t, <2>b DEF IndInv, ExitOkMeansRequested
    <3>4. NoneDropsOut'
      BY <1>s, <2>u, <3>1, <3>2 DEF IndInv, NoneDropsOut
    <3>5. LoopDone'
      BY <3>2 DEF IndInv, LoopDone
    <3> QED
      BY <1>0, <2>u, <3>3, <3>4, <3>5 DEF IndInv, AnswersStayTrue,
         PendingRequested, InstalledMeansReady
  <2> QED
    BY <1>9, <2>a, <2>b, FilterEffect
<1>10. ASSUME NEW p \in Procs, ValidateServiceAccounts(p)
      PROVE  IndInv'
  <2>a. /\ pc[p] = "accounts"
        /\ \A q \in Procs : q # p => pc'[q] = pc[q] /\ exit'[q] = exit[q]
        /\ pc'[p] \in {"create", "done"} /\ exit'[p] \in {exit[p], "error"}
        /\ UNCHANGED <<csvs, exts, subs, todo, answer, result>>
    BY <1>10 DEF ValidateServiceAccounts, TypeOK, cluster
  <2>1. AnswersStayTrue'
    BY <1>0, <1>s, <1>t, <2>a DEF IndInv, AnswersStayTrue
  <2>2. PendingRequested'
    BY <1>0, <1>s, <1>t, <2>a DEF IndInv, PendingRequested
  <2>3. NoneDropsOut'
    BY <1>0, <1>s, <1>t, <2>a DEF IndInv, NoneDropsOut
  <2>4. LoopDone'
    BY <1>0, <1>s, <1>t, <2>a DEF IndInv, LoopDone
  <2>5. ExitOkMeansRequested'
    BY <1>0, <1>s, <1>t, <2>a DEF IndInv, ExitOkMeansRequested
  <2>6. InstalledMeansReady'
    BY <1>0, <1>s, <1>t, <2>a DEF IndInv, InstalledMeansReady
  <2> QED
    BY <2>1, <2>2, <2>3, <2>4, <2>5, <2>6 DEF IndInv
<1>11. ASSUME NEW p \in Procs, StartWaiting(p)
      PROVE  IndInv'
  <2>1. AnswersStayTrue'
    BY <1>0, <1>s, <1>t, <1>11 DEF StartWaiting, TypeOK, cluster, IndInv,
       AnswersStayTrue
  <2>2. PendingRequested'
    BY <1>0, <1>s, <1>t, <1>11 DEF StartWaiting, TypeOK, cluster, IndInv,
       PendingRequested
  <2>3. NoneDropsOut'
    BY <1>0, <1>s, <1>t, <1>11 DEF StartWaiting, TypeOK, cluster, IndInv,
       NoneDropsOut
  <2>4. LoopDone'
    BY <1>0, <1>s, <1>t, <1>11 DEF StartWaiting, TypeOK, cluster, IndInv,
       LoopDone
  <2>5. ExitOkMeansRequested'
    BY <1>0, <1>s, <1>t, <1>11 DEF StartWaiting, TypeOK, cluster, IndInv,
       ExitOkMeansRequested
  <2>6. InstalledMeansReady'
    BY <1>0, <1>s, <1>t, <1>11 DEF StartWaiting, TypeOK, cluster, IndInv,
       InstalledMeansReady
  <2> QED
    BY <2>1, <2>2, <2>3, <2>4, <2>5, <2>6 DEF IndInv
<1>12. ASSUME NEW p \in Procs, Finish(p)
      PROVE  IndInv'
  <2>1. AnswersStayTrue'
    BY <1>0, <1>s, <1>t, <1>12 DEF Finish, TypeOK, cluster, IndInv,
       AnswersStayTrue
  <2>2. PendingRequested'
    BY <1>0, <1>s, <1>t, <1>12 DEF Finish, TypeOK, cluster, IndInv,
       PendingRequested
  <2>3. NoneDropsOut'
    BY <1>0, <1>s, <1>t, <1>12 DEF Finish, TypeOK, cluster, IndInv,
       NoneDropsOut
  <2>4. LoopDone'
    BY <1>0, <1>s, <1>t, <1>12 DEF Finish, TypeOK, cluster, IndInv, LoopDone
  <2>5. ExitOkMeansRequested'
    BY <1>0, <1>s, <1>t, <1>12 DEF Finish, TypeOK, cluster, IndInv,
       ExitOkMeansRequested, AnswersStayTrue, PendingRequested, NoneDropsOut,
       LoopDone, Outcomes
  <2>6. InstalledMeansReady'
    BY <1>0, <1>s, <1>t, <1>12 DEF Finish, TypeOK, cluster, IndInv,
       InstalledMeansReady
  <2> QED
    BY <2>1, <2>2, <2>3, <2>4, <2>5, <2>6 DEF IndInv
<1>13. ASSUME NEW p \in Procs, Crash(p)
      PROVE  IndInv'
  <2>1. AnswersStayTrue'
    BY <1>0, <1>s, <1>t, <1>13 DEF Crash, TypeOK, cluster, IndInv,
       AnswersStayTrue
  <2>2. PendingRequested'
    BY <1>0, <1>s, <1>t, <1>13 DEF Crash, TypeOK, cluster, IndInv,
       PendingRequested
  <2>3. NoneDropsOut'
    BY <1>0, <1>s, <1>t, <1>13 DEF Crash, TypeOK, cluster, IndInv, NoneDropsOut
  <2>4. LoopDone'
    BY <1>0, <1>s, <1>t, <1>13 DEF Crash, TypeOK, cluster, IndInv, LoopDone
  <2>5. ExitOkMeansRequested'
    BY <1>0, <1>s, <1>t, <1>13 DEF Crash, TypeOK, cluster, IndInv,
       ExitOkMeansRequested
  <2>6. InstalledMeansReady'
    BY <1>0, <1>s, <1>t, <1>13 DEF Crash, TypeOK, cluster, IndInv,
       InstalledMeansReady
  <2> QED
    BY <2>1, <2>2, <2>3, <2>4, <2>5, <2>6 DEF IndInv
<1>14. ASSUME NEW p \in Procs, Restart(p)
      PROVE  IndInv'
  <2>1. AnswersStayTrue'
    BY <1>0, <1>s, <1>t, <1>14 DEF Restart, TypeOK, cluster, IndInv,
       AnswersStayTrue
  <2>2. PendingRequested'
    BY <1>0, <1>s, <1>t, <1>14 DEF Restart, TypeOK, cluster, IndInv,
       PendingRequested
  <2>3. NoneDropsOut'
    BY <1>0, <1>s, <1>t, <1>14 DEF Restart, TypeOK, cluster, IndInv,
       NoneDropsOut
  <2>4. LoopDone'
    BY <1>0, <1>s, <1>t, <1>14 DEF Restart, TypeOK, cluster, IndInv, LoopDone
  <2>5. ExitOkMeansRequested'
    BY <1>0, <1>s, <1>t, <1>14 DEF Restart, TypeOK, cluster, IndInv,
       ExitOkMeansRequested
  <2>6. InstalledMeansReady'
    BY <1>0, <1>s, <1>t, <1>14 DEF Restart, TypeOK, cluster, IndInv,
       InstalledMeansReady
  <2> QED
    BY <2>1, <2>2, <2>3, <2>4, <2>5, <2>6 DEF IndInv
<1>15. ASSUME NEW d \in Deps, OLM(d)
      PROVE  IndInv'
  BY <1>15, OthersKeep DEF OLM
<1>16. ASSUME NEW n \in Namespaces, ForeignGroup(n)
      PROVE  IndInv'
  BY <1>16, OthersKeep DEF ForeignGroup
<1>17. CASE UNCHANGED vars
  BY <1>17, OthersKeep DEF vars
<1> QED
  BY <1>1, <1>2, <1>3, <1>4, <1>5, <1>6, <1>7, <1>8, <1>9, <1>10, <1>11, <1>12,
     <1>13, <1>14, <1>15, <1>16, <1>17 DEF Next, Step, CreateDepResources

\* The inductive invariant holds of every behaviour.
LEMMA Invariance == Spec => [](TypeOK /\ IndInv)
<1> QED
  BY TypeInit, TypeStep, IndInvInit, IndInvStep, PTL DEF Spec

\* A run that reports success leaves no selected dependency without a request
\* to OLM, however many runs overlap and wherever they are cut off.
THEOREM OkMeansRequested == Spec => []ExitOkMeansRequested
<1>1. IndInv => ExitOkMeansRequested
  BY DEF IndInv
<1> QED
  BY <1>1, Invariance, PTL

\* "installed" is reported only of operators OLM has installed.
THEOREM InstalledIsReady == Spec => []InstalledMeansReady
<1>1. IndInv => InstalledMeansReady
  BY DEF IndInv
<1> QED
  BY <1>1, Invariance, PTL

-----------------------------------------------------------------------------
(* One package, one generation of OLM. A process looks for requests of both *)
(* and then adds one of its own; what it found missing has to stay missing  *)
(* until then. That is so if nobody with another API works beside it, and   *)
(* it can see ClusterExtensions at all.                                     *)

\* One process at a time, or all of them resolve the same API.
OneAPI ==
    /\ CanListExtensions
    /\ (\A p, q \in Procs : p = q) \/ (\A m, n \in Modes : m = n)

\* What was not found of the other API's requests is still not there.
AbsentStays ==
    \A p \in Procs, d \in Deps : answer[p][d] = "absent" =>
        IF mode[p] = "v1" THEN ~RequestedV0Subscription(d)
        ELSE ~RequestedClusterExtension(d)
TodoAbsent == \A p \in Procs : \A d \in todo[p] : answer[p][d] = "absent"
DualInv == NoDualRequest /\ AbsentStays /\ TodoAbsent

LEMMA DualInit == Init => DualInv
<1> SUFFICES ASSUME Init PROVE DualInv
  OBVIOUS
<1>1. NoDualRequest
  BY InstallAssumption DEF Init, NoDualRequest, RequestedV0Subscription,
     RequestedClusterExtension
<1>2. AbsentStays /\ TodoAbsent
  BY DEF Init, AbsentStays, TodoAbsent
<1> QED
  BY <1>1, <1>2 DEF DualInv

\* A step that adds no request and nothing to anyone's list.
LEMMA DualFrame ==
    ASSUME TypeOK, DualInv, UNCHANGED <<mode, answer>>,
           \A q \in Procs : todo'[q] \subseteq todo[q],
           \A x \in Deps : /\ RequestedV0Subscription(x)' => RequestedV0Subscription(x)
                           /\ RequestedClusterExtension(x)' => RequestedClusterExtension(x)
    PROVE  DualInv'
<1>1. NoDualRequest'
  BY DEF DualInv, NoDualRequest
<1>2. AbsentStays'
  BY DEF DualInv, AbsentStays
<1>3. TodoAbsent'
  BY DEF DualInv, TodoAbsent
<1> QED
  BY <1>1, <1>2, <1>3 DEF DualInv

\* Every step keeps it.
LEMMA DualStep ==
    ASSUME OneAPI, TypeOK, DualInv, [Next]_vars
    PROVE  DualInv'
<1>1. ASSUME NEW p \in Procs, NEW d \in Deps, Check(p, d)
      PROVE  DualInv'
  <2>1. PICK v \in Answers : /\ v = "absent" => ~IsAlreadyInstalled(p, d)
                             /\ answer' = [answer EXCEPT ![p][d] = v]
    BY <1>1 DEF Check, Answers
  <2>2. \A q \in Procs, x \in Deps :
          answer'[q][x] = IF q = p /\ x = d THEN v ELSE answer[q][x]
    BY <2>1, Update DEF TypeOK
  <2>3. UNCHANGED <<subs, exts, mode, todo>>
    BY <1>1 DEF Check, cluster
  <2>4. v = "absent" => IF mode[p] = "v1" THEN ~RequestedV0Subscription(d)
                        ELSE ~RequestedClusterExtension(d)
    BY <2>1 DEF IsAlreadyInstalled, OneAPI
  <2>5. NoDualRequest'
    BY <2>3 DEF DualInv, NoDualRequest, RequestedV0Subscription,
       RequestedClusterExtension
  <2>6. AbsentStays'
    BY <2>2, <2>3, <2>4 DEF DualInv, AbsentStays, RequestedV0Subscription,
       RequestedClusterExtension
  <2>7. TodoAbsent'
    <3>1. answer[p][d] = "unknown"
      BY <1>1 DEF Check
    <3>2. \A q \in Procs : todo[q] \subseteq Deps
      BY DEF TypeOK
    <3> QED
      BY <2>2, <2>3, <3>1, <3>2 DEF DualInv, TodoAbsent
  <2> QED
    BY <2>5, <2>6, <2>7 DEF DualInv
<1>2. ASSUME NEW p \in Procs, NEW d \in Deps,
             CreateNamespace(p, d) \/ EnsureOperatorGroup(p, d)
      PROVE  DualInv'
  <2>1. UNCHANGED <<subs, exts, mode, answer>>
    BY <1>2, LoopEffect
  <2>2. \A q \in Procs : todo'[q] \subseteq todo[q]
    <3>1. CASE Leave(p, d, "failed")
      BY <3>1 DEF Leave, TypeOK
    <3>2. CASE \E step \in Steps : GoTo(p, step)
      BY <3>2 DEF GoTo
    <3> QED
      BY <1>2, <3>1, <3>2, LoopEffect
  <2> QED
    BY <2>1, <2>2, DualFrame DEF RequestedV0Subscription, RequestedClusterExtension
<1>3. ASSUME NEW p \in Procs, NEW d \in Deps, CreateOperatorGroup(p, d)
      PROVE  DualInv'
  <2>1. UNCHANGED <<subs, exts, mode, answer, todo>>
    BY <1>3 DEF CreateOperatorGroup, Creating, GoTo
  <2> QED
    BY <2>1, DualFrame DEF RequestedV0Subscription, RequestedClusterExtension
<1>4. ASSUME NEW p \in Procs, NEW d \in Deps, CreateSubscription(p, d)
      PROVE  DualInv'
  <2>1. /\ mode[p] = "v0" /\ d \in todo[p]
        /\ UNCHANGED <<exts, mode, answer>>
        /\ \A q \in Procs : todo'[q] \subseteq todo[q]
        /\ \A x \in Deps : x # d => subs'[x] = subs[x]
    BY <1>4 DEF CreateSubscription, Creating, Current, Leave, TypeOK
  <2>2. ~RequestedClusterExtension(d)
    BY <2>1 DEF DualInv, AbsentStays, TodoAbsent
  <2>3. \A q \in Procs : mode[q] = "v0"
    BY <2>1 DEF OneAPI, TypeOK
  <2>4. NoDualRequest'
    BY <2>1, <2>2 DEF DualInv, NoDualRequest, RequestedV0Subscription,
       RequestedClusterExtension
  <2>5. AbsentStays'
    BY <2>1, <2>3 DEF DualInv, AbsentStays, RequestedV0Subscription,
       RequestedClusterExtension
  <2>6. TodoAbsent'
    BY <2>1 DEF DualInv, TodoAbsent
  <2> QED
    BY <2>4, <2>5, <2>6 DEF DualInv
<1>5. ASSUME NEW p \in Procs, NEW d \in Deps, CreateClusterExtension(p, d)
      PROVE  DualInv'
  <2>1. /\ mode[p] = "v1" /\ d \in todo[p]
        /\ UNCHANGED <<subs, mode, answer>>
        /\ \A q \in Procs : todo'[q] \subseteq todo[q]
        /\ \A x \in Deps : x # d => exts'[x] = exts[x]
    BY <1>5 DEF CreateClusterExtension, Creating, Current, Leave, TypeOK
  <2>2. ~RequestedV0Subscription(d)
    BY <2>1 DEF DualInv, AbsentStays, TodoAbsent
  <2>3. \A q \in Procs : mode[q] = "v1"
    BY <2>1 DEF OneAPI, TypeOK
  <2>4. NoDualRequest'
    BY <2>1, <2>2 DEF DualInv, NoDualRequest, RequestedV0Subscription,
       RequestedClusterExtension
  <2>5. AbsentStays'
    BY <2>1, <2>3 DEF DualInv, AbsentStays, RequestedV0Subscription,
       RequestedClusterExtension
  <2>6. TodoAbsent'
    BY <2>1 DEF DualInv, TodoAbsent
  <2> QED
    BY <2>4, <2>5, <2>6 DEF DualInv
<1>6. ASSUME NEW p \in Procs, NEW d \in Deps, CreateFails(p, d)
      PROVE  DualInv'
  <2>1. UNCHANGED <<subs, exts, mode, answer>>
    BY <1>6 DEF CreateFails, Creating
  <2>2. \A q \in Procs : todo'[q] \subseteq todo[q]
    BY <1>6 DEF CreateFails, Leave, TypeOK
  <2> QED
    BY <2>1, <2>2, DualFrame DEF RequestedV0Subscription, RequestedClusterExtension
<1>7. ASSUME NEW p \in Procs, FilterDepsToInstall(p)
      PROVE  DualInv'
  <2>1. UNCHANGED <<subs, exts, mode, answer>>
    BY <1>7, FilterEffect DEF cluster
  <2>2. \/ todo' = todo
        \/ todo' = [todo EXCEPT ![p] = {d \in Selected : answer[p][d] = "absent"}]
    BY <1>7, FilterEffect
  <2>3. \A q \in Procs : \/ todo'[q] = todo[q]
                         \/ \A d \in todo'[q] : answer[q][d] = "absent"
    BY <2>2 DEF TypeOK
  <2>4. TodoAbsent'
    BY <2>1, <2>3 DEF DualInv, TodoAbsent
  <2>5. NoDualRequest' /\ AbsentStays'
    BY <2>1 DEF DualInv, NoDualRequest, AbsentStays, RequestedV0Subscription,
       RequestedClusterExtension
  <2> QED
    BY <2>4, <2>5 DEF DualInv
<1>8. ASSUME NEW p \in Procs, NEW d \in Deps, WaitForDependency(p, d)
      PROVE  DualInv'
  <2>1. UNCHANGED <<subs, exts, mode, answer, todo>>
    BY <1>8 DEF WaitForDependency, cluster
  <2> QED
    BY <2>1, DualFrame DEF RequestedV0Subscription, RequestedClusterExtension
<1>9. ASSUME NEW p \in Procs, Restart(p)
      PROVE  DualInv'
  <2>1. /\ UNCHANGED <<subs, exts>>
        /\ \A q \in Procs : q # p => /\ mode'[q] = mode[q] /\ todo'[q] = todo[q]
                                     /\ answer'[q] = answer[q]
        /\ todo'[p] = {} /\ answer'[p] = [d \in Deps |-> "unknown"]
    BY <1>9 DEF Restart, TypeOK, cluster
  <2>2. NoDualRequest'
    BY <2>1 DEF DualInv, NoDualRequest, RequestedV0Subscription,
       RequestedClusterExtension
  <2>3. AbsentStays'
    BY <2>1 DEF DualInv, AbsentStays, RequestedV0Subscription,
       RequestedClusterExtension
  <2>4. TodoAbsent'
    BY <2>1 DEF DualInv, TodoAbsent
  <2> QED
    BY <2>2, <2>3, <2>4 DEF DualInv
<1>10. ASSUME NEW d \in Deps, OLM(d)
      PROVE  DualInv'
  <2>1. UNCHANGED <<mode, answer, todo>>
    BY <1>10 DEF OLM
  <2>2. \A x \in Deps : subs'[x] # "none" => subs[x] # "none"
    BY <1>10 DEF OLM, TypeOK
  <2>3. \A x \in Deps : exts'[x] \in {"requested", "installed", "failed"} =>
                        exts[x] \in {"requested", "installed", "failed"}
    BY <1>10 DEF OLM, TypeOK
  <2> QED
    BY <2>1, <2>2, <2>3, DualFrame DEF RequestedV0Subscription, RequestedClusterExtension
<1>11. ASSUME NEW n \in Namespaces, ForeignGroup(n)
      PROVE  DualInv'
  <2>1. UNCHANGED <<subs, exts, mode, answer, todo>>
    BY <1>11 DEF ForeignGroup
  <2> QED
    BY <2>1, DualFrame DEF RequestedV0Subscription, RequestedClusterExtension
<1>12. CASE UNCHANGED vars
  <2>1. UNCHANGED <<subs, exts, mode, answer, todo>>
    BY <1>12 DEF vars, cluster
  <2> QED
    BY <2>1, DualFrame DEF RequestedV0Subscription, RequestedClusterExtension
<1>13. ASSUME NEW p \in Procs,
              \/ ValidateServiceAccounts(p) \/ StartWaiting(p) \/ Finish(p) \/ Crash(p)
       PROVE  DualInv'
  <2>1. UNCHANGED <<subs, exts, mode, answer, todo>>
    BY <1>13 DEF ValidateServiceAccounts, StartWaiting, Finish, Crash, cluster
  <2> QED
    BY <2>1, DualFrame DEF RequestedV0Subscription, RequestedClusterExtension
<1> QED
  BY <1>1, <1>2, <1>3, <1>4, <1>5, <1>6, <1>7, <1>8, <1>9, <1>10, <1>11, <1>12, <1>13
     DEF Next, Step, CreateDepResources

\* No package is requested through both generations of OLM, however often a
\* run is cut off and started again with another API: isAlreadyInstalled looks
\* for the requests of both.
THEOREM OneInstallerEach == ASSUME OneAPI PROVE Spec => []NoDualRequest
<1>1. Init => DualInv
  BY DualInit
<1>2. TypeOK /\ DualInv /\ [Next]_vars => DualInv'
  BY DualStep
<1>3. DualInv => NoDualRequest
  BY DEF DualInv
<1> QED
  BY <1>1, <1>2, <1>3, TypeCorrect, PTL DEF Spec

-----------------------------------------------------------------------------
(* Subscriptions and their OperatorGroups. ensureOperatorGroup lists the    *)
(* groups, and creates one if there is none. Where no other group came up   *)
(* in between, there is one group at most, and before a Subscription is     *)
(* created it is there and has the targets.                                 *)

\* A namespace the property is about, and what it says of a dependency.
Plain(n) == n \notin overtaken /\ \A g, h \in Groups0[n] : g = h
Serves(d) ==
    \E g \in groups[Namespace[d]] : groups[Namespace[d]] = {g} /\ g.targets = Targets[d]

\* Before the loop no dependency is half done.
LoopStart == \A p \in Procs : pc[p] \in {"check", "accounts"} => at[p] = "namespace"
AtMostOne == \A n \in Namespaces : Plain(n) => \A g, h \in groups[n] : g = h
\* Between the List and the Create there is no group, or the very one to create.
ListHolds ==
    \A p \in Procs, d \in Deps :
        pc[p] = "create" /\ at[p] = "group" /\ Current(p, d) /\ Plain(Namespace[d]) =>
        groups[Namespace[d]] \subseteq {Group("own", Targets[d])}
\* Before the Subscription there is a group that serves it.
GroupReady ==
    \A p \in Procs, d \in Deps :
        /\ pc[p] = "create" /\ mode[p] = "v0" /\ at[p] = "request" /\ Current(p, d)
        /\ Plain(Namespace[d])
        => Serves(d)
AddedServed == \A d \in Deps : Added(d) /\ Plain(Namespace[d]) => Serves(d)
GroupInv == LoopStart /\ AtMostOne /\ ListHolds /\ GroupReady /\ AddedServed

LEMMA GroupInit == Init => GroupInv
<1> SUFFICES ASSUME Init PROVE GroupInv
  OBVIOUS
<1>1. LoopStart /\ ListHolds /\ GroupReady
  BY DEF Init, LoopStart, ListHolds, GroupReady
<1>2. AddedServed
  BY DEF Init, AddedServed, Added, RequestedV0Subscription
<1>3. AtMostOne
  BY DEF Init, AtMostOne, Plain
<1> QED
  BY <1>1, <1>2, <1>3 DEF GroupInv

\* The loop is at one dependency.
LEMMA OneCurrent ==
    ASSUME TypeOK, NEW p \in Procs, NEW d \in Deps, NEW e \in Deps,
           Current(p, d), Current(p, e)
    PROVE  d = e
<1>1. Order[d] \in Nat /\ Order[e] \in Nat /\ Order[d] <= Order[e] /\ Order[e] <= Order[d]
  BY InstallAssumption DEF Current
<1>2. Order[d] = Order[e]
  BY <1>1
<1> QED
  BY <1>2, InstallAssumption

\* A step of p that leaves the groups and the Subscriptions alone, and p at the
\* start of a dependency, outside the loop, or where it was.
LEMMA GroupFrame ==
    ASSUME TypeOK, GroupInv, UNCHANGED <<groups, overtaken>>,
           \A x \in Deps : RequestedV0Subscription(x)' => RequestedV0Subscription(x),
           \A q \in Procs :
               \/ /\ pc'[q] = pc[q] /\ at'[q] = at[q] /\ mode'[q] = mode[q]
                  /\ todo'[q] = todo[q]
               \/ at'[q] = "namespace"
               \/ pc'[q] \notin {"check", "accounts", "create"}
    PROVE  GroupInv'
<1>0. /\ \A n \in Namespaces : Plain(n)' <=> Plain(n)
      /\ \A x \in Deps : Namespace[x] \in Namespaces /\ (Serves(x)' <=> Serves(x))
  BY InstallAssumption DEF Plain, Serves
<1>1. LoopStart'
  BY DEF GroupInv, LoopStart
<1>2. ListHolds'
  BY <1>0 DEF GroupInv, ListHolds, Current
<1>3. GroupReady'
  BY <1>0 DEF GroupInv, GroupReady, Current
<1>4. AddedServed'
  BY <1>0 DEF GroupInv, AddedServed, Added
<1>5. AtMostOne'
  BY <1>0 DEF GroupInv, AtMostOne
<1> QED
  BY <1>1, <1>2, <1>3, <1>4, <1>5 DEF GroupInv

\* p goes to another step with d; the groups stay.
LEMMA GroupGoTo ==
    ASSUME TypeOK, GroupInv, NEW p \in Procs, NEW d \in Deps, NEW step \in Steps,
           UNCHANGED <<groups, overtaken, subs, pc, mode>>, pc[p] = "create", Current(p, d),
           GoTo(p, step),
           step = "group" => groups[Namespace[d]] = {},
           step = "request" /\ mode[p] = "v0" /\ Plain(Namespace[d]) => Serves(d)
    PROVE  GroupInv'
<1>0. /\ \A n \in Namespaces : Plain(n)' <=> Plain(n)
      /\ \A x \in Deps : Namespace[x] \in Namespaces /\ (Serves(x)' <=> Serves(x))
  BY InstallAssumption DEF Plain, Serves
<1>1. /\ todo' = todo /\ at'[p] = step
      /\ \A q \in Procs : q # p => at'[q] = at[q]
  BY DEF GoTo, TypeOK
<1>2. LoopStart'
  BY <1>1 DEF GroupInv, LoopStart
<1>3. \A q \in Procs, x \in Deps : Current(q, x)' <=> Current(q, x)
  BY <1>1 DEF Current
<1>4. \A x \in Deps : Current(p, x) => x = d
  BY OneCurrent
<1>5. ListHolds'
  BY <1>0, <1>1, <1>3, <1>4 DEF GroupInv, ListHolds
<1>6. GroupReady'
  BY <1>0, <1>1, <1>3, <1>4 DEF GroupInv, GroupReady
<1>7. AddedServed'
  BY <1>0 DEF GroupInv, AddedServed, Added, RequestedV0Subscription
<1>8. AtMostOne'
  BY <1>0 DEF GroupInv, AtMostOne
<1> QED
  BY <1>2, <1>5, <1>6, <1>7, <1>8 DEF GroupInv

\* What a dependency that is left, or a process outside the loop, comes down to.
LEMMA LeaveFrame ==
    ASSUME TypeOK, NEW p \in Procs, NEW d \in Deps, NEW o, Leave(p, d, o),
           UNCHANGED <<pc, mode>>
    PROVE  \A q \in Procs :
               \/ /\ pc'[q] = pc[q] /\ at'[q] = at[q] /\ mode'[q] = mode[q]
                  /\ todo'[q] = todo[q]
               \/ at'[q] = "namespace"
BY DEF Leave, TypeOK

\* A group comes up where there is none. Whoever was about to create another is
\* overtaken; whoever has created it goes on with its Subscription.
LEMMA GroupAdded ==
    ASSUME TypeOK, GroupInv, NEW n \in Namespaces, NEW g, AddGroup(n, g),
           Plain(n) => groups[n] = {},
           UNCHANGED <<subs, pc, mode, todo>>,
           \A q \in Procs : at'[q] # at[q] =>
               /\ at'[q] = "request" /\ pc[q] = "create"
               /\ \A x \in Deps : Current(q, x) => Namespace[x] = n /\ g.targets = Targets[x]
    PROVE  GroupInv'
<1>1. \A m \in Namespaces : groups'[m] = IF m = n THEN groups[m] \cup {g} ELSE groups[m]
  BY DEF TypeOK, AddGroup
<1>2. \A m \in Namespaces : Plain(m)' => Plain(m)
  BY DEF Plain, AddGroup
<1>3. Plain(n)' => groups'[n] = {g} /\ groups[n] = {}
  BY <1>1, <1>2
<1>4. ASSUME Plain(n)', NEW q \in Procs, NEW x \in Deps,
             pc[q] = "create", at[q] = "group", Current(q, x), Namespace[x] = n
      PROVE  g = Group("own", Targets[x])
  BY <1>4 DEF AddGroup, Plain
<1>5. /\ \A x \in Deps : Namespace[x] \in Namespaces
      /\ \A q \in Procs, x \in Deps : Current(q, x)' <=> Current(q, x)
  BY InstallAssumption DEF Current
<1>6. \A x \in Deps : Plain(Namespace[x])' /\ Serves(x) => Serves(x)'
  BY <1>1, <1>3, <1>5 DEF Serves
<1>7. LoopStart'
  BY DEF GroupInv, LoopStart
<1>8. AtMostOne'
  <2> SUFFICES ASSUME NEW m \in Namespaces, Plain(m)'
               PROVE  \A k, h \in groups'[m] : k = h
    BY DEF AtMostOne
  <2>1. CASE m = n
    BY <1>3, <2>1
  <2>2. CASE m # n
    <3>1. groups'[m] = groups[m] /\ Plain(m)
      BY <1>1, <1>2, <2>2
    <3> QED
      BY <3>1 DEF GroupInv, AtMostOne
  <2> QED
    BY <2>1, <2>2
<1>9. ListHolds'
  <2> SUFFICES ASSUME NEW q \in Procs, NEW x \in Deps, pc[q] = "create", at'[q] = "group",
                      Current(q, x), Plain(Namespace[x])'
               PROVE  groups'[Namespace[x]] \subseteq {Group("own", Targets[x])}
    BY <1>5 DEF ListHolds
  <2>1. at[q] = "group"
    OBVIOUS
  <2>2. CASE Namespace[x] = n
    BY <1>3, <1>4, <2>1, <2>2
  <2>3. CASE Namespace[x] # n
    BY <1>1, <1>2, <1>5, <2>1, <2>3 DEF GroupInv, ListHolds
  <2> QED
    BY <2>2, <2>3
<1>10. GroupReady'
  <2> SUFFICES ASSUME NEW q \in Procs, NEW x \in Deps, pc[q] = "create", mode[q] = "v0",
                      at'[q] = "request", Current(q, x), Plain(Namespace[x])'
               PROVE  Serves(x)'
    BY <1>5 DEF GroupReady
  <2>1. CASE at'[q] = at[q]
    <3>1. Serves(x)
      BY <1>2, <1>5, <2>1 DEF GroupInv, GroupReady
    <3> QED
      BY <1>6, <3>1
  <2>2. CASE at'[q] # at[q]
    BY <1>3, <2>2 DEF Serves
  <2> QED
    BY <2>1, <2>2
<1>11. AddedServed'
  BY <1>2, <1>5, <1>6 DEF GroupInv, AddedServed, Added, RequestedV0Subscription
<1> QED
  BY <1>7, <1>8, <1>9, <1>10, <1>11 DEF GroupInv

\* The Create of ensureOperatorGroup.
LEMMA GroupCreated ==
    ASSUME TypeOK, GroupInv, NEW p \in Procs, NEW d \in Deps, CreateOperatorGroup(p, d)
    PROVE  GroupInv'
<1> DEFINE n == Namespace[d]
           h == Group("own", Targets[d])
<1>1. /\ pc[p] = "create" /\ at[p] = "group" /\ Current(p, d)
      /\ UNCHANGED <<subs, pc, mode>> /\ GoTo(p, "request")
      /\ IF \E g \in groups[n] : g.name = "own" THEN UNCHANGED <<groups, overtaken>>
                                               ELSE AddGroup(n, h)
  BY DEF CreateOperatorGroup, Creating
<1>2. n \in Namespaces /\ h.name = "own" /\ h.targets = Targets[d]
  BY InstallAssumption DEF Group
<1>3. Plain(n) => groups[n] \subseteq {h}
  BY <1>1 DEF GroupInv, ListHolds
<1> HIDE DEF h
<1>4. CASE \E g \in groups[n] : g.name = "own"
  <2>1. Plain(n) => Serves(d)
    BY <1>2, <1>3, <1>4 DEF Serves
  <2>2. "request" \in Steps /\ "request" # "group"
    BY DEF Steps
  <2> QED
    BY <1>1, <1>4, <2>1, <2>2, GroupGoTo
<1>5. CASE ~ \E g \in groups[n] : g.name = "own"
  <2>1. Plain(n) => groups[n] = {}
    BY <1>2, <1>3, <1>5
  <2>2. /\ todo' = todo /\ at'[p] = "request"
        /\ \A q \in Procs : q # p => at'[q] = at[q]
    BY <1>1 DEF GoTo, TypeOK
  <2>3. \A x \in Deps : Current(p, x) => x = d
    BY <1>1, OneCurrent
  <2> QED
    BY <1>1, <1>2, <1>5, <2>1, <2>2, <2>3, GroupAdded
<1> QED
  BY <1>4, <1>5

\* Every step keeps the invariant.
LEMMA GroupStep ==
    ASSUME TypeOK, GroupInv, [Next]_vars
    PROVE  GroupInv'
<1>1. ASSUME NEW p \in Procs, NEW d \in Deps, Check(p, d) \/ WaitForDependency(p, d)
      PROVE  GroupInv'
  <2>1. UNCHANGED <<groups, overtaken, subs, pc, at, mode, todo>>
    BY <1>1 DEF Check, WaitForDependency, cluster
  <2> QED
    BY <2>1, GroupFrame DEF RequestedV0Subscription
<1>2. ASSUME NEW p \in Procs, NEW d \in Deps, CreateNamespace(p, d)
      PROVE  GroupInv'
  <2>1. /\ UNCHANGED <<groups, overtaken, subs, pc, mode>> /\ pc[p] = "create" /\ Current(p, d)
        /\ \/ Leave(p, d, "failed")
           \/ GoTo(p, IF mode[p] = "v1" THEN "request" ELSE "groups")
    BY <1>2 DEF CreateNamespace, Creating
  <2>2. CASE Leave(p, d, "failed")
    BY <2>1, <2>2, LeaveFrame, GroupFrame DEF RequestedV0Subscription
  <2>3. CASE mode[p] = "v1" /\ GoTo(p, "request")
    <3>1. "request" \in Steps /\ "request" # "group" /\ "v1" # "v0"
      BY DEF Steps
    <3> QED
      BY <2>1, <2>3, <3>1, GroupGoTo
  <2>4. CASE GoTo(p, "groups")
    <3>1. "groups" \in Steps /\ "groups" # "group" /\ "groups" # "request"
      BY DEF Steps
    <3> QED
      BY <2>1, <2>4, <3>1, GroupGoTo
  <2> QED
    BY <2>1, <2>2, <2>3, <2>4
<1>3. ASSUME NEW p \in Procs, NEW d \in Deps, EnsureOperatorGroup(p, d)
      PROVE  GroupInv'
  <2>1. /\ UNCHANGED <<groups, overtaken, subs, pc, mode>> /\ pc[p] = "create" /\ Current(p, d)
        /\ \/ groups[Namespace[d]] = {} /\ GoTo(p, "group")
           \/ /\ \E g \in groups[Namespace[d]] : g.targets = Targets[d]
              /\ GoTo(p, "request")
           \/ Leave(p, d, "failed")
    BY <1>3 DEF EnsureOperatorGroup, Creating
  <2>2. "request" \in Steps /\ "group" \in Steps /\ "request" # "group"
    BY DEF Steps
  <2>3. CASE Leave(p, d, "failed")
    BY <2>1, <2>3, LeaveFrame, GroupFrame DEF RequestedV0Subscription
  <2>4. CASE groups[Namespace[d]] = {} /\ GoTo(p, "group")
    BY <2>1, <2>2, <2>4, GroupGoTo
  <2>5. CASE /\ \E g \in groups[Namespace[d]] : g.targets = Targets[d]
             /\ GoTo(p, "request")
    <3>1. Namespace[d] \in Namespaces
      BY InstallAssumption
    <3>2. Plain(Namespace[d]) => Serves(d)
      BY <2>5, <3>1 DEF GroupInv, AtMostOne, Serves
    <3> QED
      BY <2>1, <2>2, <2>5, <3>2, GroupGoTo
  <2> QED
    BY <2>1, <2>3, <2>4, <2>5
<1>4. ASSUME NEW p \in Procs, NEW d \in Deps, CreateOperatorGroup(p, d)
      PROVE  GroupInv'
  BY <1>4, GroupCreated
<1>5. ASSUME NEW p \in Procs, NEW d \in Deps, CreateSubscription(p, d)
      PROVE  GroupInv'
  <2>1. /\ pc[p] = "create" /\ mode[p] = "v0" /\ at[p] = "request" /\ Current(p, d)
        /\ UNCHANGED <<groups, overtaken, pc, mode>> /\ Leave(p, d, "pending")
        /\ subs' = IF subs[d] = "none" THEN [subs EXCEPT ![d] = "requested"] ELSE subs
    BY <1>5 DEF CreateSubscription, Creating
  <2>2. Plain(Namespace[d]) => Serves(d)
    BY <2>1 DEF GroupInv, GroupReady
  <2>3. \A q \in Procs :
               \/ /\ pc'[q] = pc[q] /\ at'[q] = at[q] /\ mode'[q] = mode[q]
                  /\ todo'[q] = todo[q]
               \/ at'[q] = "namespace"
    BY <2>1, LeaveFrame
  <2>4. \A x \in Deps : x # d => subs'[x] = subs[x]
    BY <2>1 DEF TypeOK
  <2>5. /\ \A n \in Namespaces : Plain(n)' <=> Plain(n)
        /\ \A x \in Deps : Namespace[x] \in Namespaces /\ (Serves(x)' <=> Serves(x))
    BY <2>1, InstallAssumption DEF Plain, Serves
  <2>6. LoopStart' /\ AtMostOne'
    BY <2>1, <2>3, <2>5 DEF GroupInv, LoopStart, AtMostOne
  <2>7. ListHolds'
    BY <2>1, <2>3, <2>5 DEF GroupInv, ListHolds, Current
  <2>8. GroupReady'
    BY <2>1, <2>3, <2>5 DEF GroupInv, GroupReady, Current
  <2>9. AddedServed'
    BY <2>2, <2>4, <2>5 DEF GroupInv, AddedServed, Added, RequestedV0Subscription
  <2> QED
    BY <2>6, <2>7, <2>8, <2>9 DEF GroupInv
<1>6. ASSUME NEW p \in Procs, NEW d \in Deps,
             CreateClusterExtension(p, d) \/ CreateFails(p, d)
      PROVE  GroupInv'
  <2>1. /\ UNCHANGED <<groups, overtaken, subs, pc, mode>>
        /\ \E o \in {"failed", "pending"} : Leave(p, d, o)
    BY <1>6 DEF CreateClusterExtension, CreateFails, Creating
  <2> QED
    BY <2>1, LeaveFrame, GroupFrame DEF RequestedV0Subscription
<1>7. ASSUME NEW p \in Procs, FilterDepsToInstall(p)
      PROVE  GroupInv'
  <2>1. UNCHANGED <<groups, overtaken, subs, at, mode>>
    BY <1>7, FilterEffect DEF cluster
  <2>2. pc[p] = "check"
    BY <1>7 DEF FilterDepsToInstall
  <2>3. at'[p] = "namespace"
    BY <2>1, <2>2 DEF GroupInv, LoopStart
  <2>4. \A q \in Procs : q # p => pc'[q] = pc[q] /\ todo'[q] = todo[q]
    BY <1>7, FilterEffect DEF TypeOK
  <2> QED
    BY <2>1, <2>3, <2>4, GroupFrame DEF RequestedV0Subscription
<1>8. ASSUME NEW p \in Procs, ValidateServiceAccounts(p)
      PROVE  GroupInv'
  <2>1. UNCHANGED <<groups, overtaken, subs, at, mode, todo>> /\ pc[p] = "accounts"
    BY <1>8 DEF ValidateServiceAccounts, cluster
  <2>2. at'[p] = "namespace"
    BY <2>1 DEF GroupInv, LoopStart
  <2>3. \A q \in Procs : q # p => pc'[q] = pc[q]
    BY <1>8 DEF ValidateServiceAccounts, TypeOK
  <2> QED
    BY <2>1, <2>2, <2>3, GroupFrame DEF RequestedV0Subscription
<1>9. ASSUME NEW p \in Procs, StartWaiting(p) \/ Finish(p) \/ Crash(p)
      PROVE  GroupInv'
  <2>1. UNCHANGED <<groups, overtaken, subs, at, mode, todo>>
    BY <1>9 DEF StartWaiting, Finish, Crash, cluster
  <2>2. \A q \in Procs : pc'[q] = pc[q] \/ pc'[q] \in {"wait", "done", "crashed"}
    BY <1>9 DEF StartWaiting, Finish, Crash, TypeOK
  <2> QED
    BY <2>1, <2>2, GroupFrame DEF RequestedV0Subscription
<1>10. ASSUME NEW p \in Procs, Restart(p)
      PROVE  GroupInv'
  <2>1. UNCHANGED <<groups, overtaken, subs>>
    BY <1>10 DEF Restart, cluster
  <2>2. /\ at'[p] = "namespace"
        /\ \A q \in Procs : q # p => /\ pc'[q] = pc[q] /\ at'[q] = at[q]
                                     /\ mode'[q] = mode[q] /\ todo'[q] = todo[q]
    BY <1>10 DEF Restart, TypeOK
  <2> QED
    BY <2>1, <2>2, GroupFrame DEF RequestedV0Subscription
<1>11. ASSUME NEW d \in Deps, OLM(d)
      PROVE  GroupInv'
  <2>1. UNCHANGED <<groups, overtaken, pc, at, mode, todo>>
    BY <1>11 DEF OLM
  <2>2. \A x \in Deps : subs'[x] # "none" => subs[x] # "none"
    BY <1>11 DEF OLM, TypeOK
  <2> QED
    BY <2>1, <2>2, GroupFrame DEF RequestedV0Subscription
<1>12. ASSUME NEW n \in Namespaces, ForeignGroup(n)
      PROVE  GroupInv'
  <2>1. UNCHANGED <<subs, pc, mode, todo, at>> /\ groups[n] = {}
    BY <1>12 DEF ForeignGroup
  <2>2. \E g : AddGroup(n, g)
    BY <1>12 DEF ForeignGroup
  <2> QED
    BY <2>1, <2>2, GroupAdded
<1>13. CASE UNCHANGED vars
  <2>1. UNCHANGED <<groups, overtaken, subs, pc, at, mode, todo>>
    BY <1>13 DEF vars, cluster
  <2> QED
    BY <2>1, GroupFrame DEF RequestedV0Subscription
<1> QED
  BY <1>1, <1>2, <1>3, <1>4, <1>5, <1>6, <1>7, <1>8, <1>9, <1>10, <1>11, <1>12, <1>13
     DEF Next, Step, CreateDepResources

\* A Subscription that was added is served by the one OperatorGroup of its
\* namespace, which has the targets of its dependency, for any processes and any
\* groups of an administrator's, whatever their names: except where a group came
\* up between a List and its Create, or there were two to begin with.
THEOREM SubscriptionsServed == Spec => []GroupServesSubscription
<1>1. Init => GroupInv
  BY GroupInit
<1>2. TypeOK /\ GroupInv /\ [Next]_vars => GroupInv'
  BY GroupStep
<1>3. GroupInv => GroupServesSubscription
  BY DEF GroupInv, AddedServed, Plain, Serves, GroupServesSubscription
<1> QED
  BY <1>1, <1>2, <1>3, TypeCorrect, PTL DEF Spec
=============================================================================

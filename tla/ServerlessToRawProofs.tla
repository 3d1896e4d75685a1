------------------------- MODULE ServerlessToRawProofs -------------------------
(***************************************************************************)
(* Theorems about ServerlessToRaw, for any number of processes and         *)
(* services and any number of edits and reruns.                            *)
(***************************************************************************)
EXTENDS ServerlessToRaw, TLAPS

(* A process has the service in hand, between its Delete and its Create.   *)
InHand(s) == \E p \in Procs : cur[p] = s /\ pc[p] \in InTheWorks

(* A service that is gone, or on its way out, is in hand or reported.      *)
LossAccounted ==
    \A s \in Services : mode[s] = "gone" \/ s \in terminating => s \in reported \/ InHand(s)

(* A service held by a finalizer is still there, so creating it again      *)
(* leaves nothing behind that could remove it later.                       *)
HeldIsThere == \A s \in Services : s \in terminating => mode[s] # "gone"

(* What a process has before it and in hand it has a copy of; a rollback   *)
(* follows a failure that was reported.                                    *)
CopiesKept ==
    \A p \in Procs :
        /\ \A s \in todo[p] : copy[p][s] # 0
        /\ pc[p] \in InTheWorks \cup {"route", "auth"} => cur[p] \in Services /\ copy[p][cur[p]] # 0
        /\ pc[p] = "rollback" => cur[p] \in reported

IndInv == TypeOK /\ LossAccounted /\ HeldIsThere /\ CopiesKept


(* What the other processes have in hand stays there.                      *)
LEMMA StillInHand ==
    ASSUME NEW p \in Procs, NEW s, InHand(s),
           \A q \in Procs : q # p => cur'[q] = cur[q] /\ pc'[q] = pc[q],
           ~(cur[p] = s /\ pc[p] \in InTheWorks)
    PROVE  InHand(s)'
BY DEF InHand

(* A step of a process with nothing in hand that removes no service.       *)
LEMMA NothingLost ==
    ASSUME NEW p \in Procs, LossAccounted, pc[p] \notin InTheWorks,
           \A q \in Procs : q # p => cur'[q] = cur[q] /\ pc'[q] = pc[q],
           mode' = mode, terminating' = terminating, reported \subseteq reported'
    PROVE  LossAccounted'
BY StillInHand DEF LossAccounted

-----------------------------------------------------------------------------
LEMMA IndInit == Init => IndInv
BY ServerlessAssumption DEF Init, IndInv, TypeOK, LossAccounted, HeldIsThere, CopiesKept, InHand,
   PCs, InTheWorks

(* Every step keeps the invariant.                                         *)
LEMMA IndStep == IndInv /\ [Next]_vars => IndInv'
<1> SUFFICES ASSUME IndInv, [Next]_vars PROVE IndInv'
  OBVIOUS
<1> USE ServerlessAssumption DEF IndInv, cluster, options
<1>1. ASSUME NEW p \in Procs, ListISVCs(p)
      PROVE  IndInv'
  <2>1. TypeOK'
    <3>1. pc' \in [Procs -> PCs]
      <4>1. pc' = pc \/ \E l \in PCs : pc' = [pc EXCEPT ![p] = l]
        BY <1>1 DEF PCs, ListISVCs, Goto, End
      <4> QED
        BY <4>1 DEF TypeOK
    <3>2. exit' \in [Procs -> {"none", "ok", "failures", "declined"}]
      BY <1>1 DEF TypeOK, ListISVCs, Goto, End, Listed
    <3>3. todo' \in [Procs -> SUBSET Services]
      BY <1>1 DEF TypeOK, ListISVCs, Goto, End, Listed
    <3>4. copy' \in [Procs -> [Services -> 0 .. MaxVersion]]
      BY <1>1 DEF TypeOK, ListISVCs, Goto, End, Listed
    <3> QED
      BY <1>1, <3>1, <3>2, <3>3, <3>4 DEF TypeOK, ListISVCs
  <2>2. LossAccounted'
    <3>1. pc[p] \notin InTheWorks
      BY <1>1 DEF InTheWorks, ListISVCs, Goto, End
    <3>2. \A q \in Procs : q # p => cur'[q] = cur[q] /\ pc'[q] = pc[q]
      BY <1>1 DEF TypeOK, ListISVCs, Goto, End
    <3>3. UNCHANGED <<mode, terminating>> /\ reported \subseteq reported'
      BY <1>1 DEF ListISVCs, Goto, End
    <3> QED
      BY <3>1, <3>2, <3>3, NothingLost
  <2>3. HeldIsThere'
    BY <1>1 DEF TypeOK, HeldIsThere, ListISVCs, Goto, End
  <2>4. CopiesKept'
    BY <1>1 DEF TypeOK, CopiesKept, InTheWorks, ListISVCs, Goto, End, Listed
  <2> QED
    BY <2>1, <2>2, <2>3, <2>4
<1>2. ASSUME NEW p \in Procs, ListFails(p)
      PROVE  IndInv'
  <2>1. TypeOK'
    <3>1. pc' \in [Procs -> PCs]
      <4>1. pc' = pc \/ \E l \in PCs : pc' = [pc EXCEPT ![p] = l]
        BY <1>2 DEF PCs, ListFails, Goto, End
      <4> QED
        BY <4>1 DEF TypeOK
    <3>2. exit' \in [Procs -> {"none", "ok", "failures", "declined"}]
      BY <1>2 DEF TypeOK, ListFails, Goto, End, Status
    <3>3. failed' \in [Procs -> BOOLEAN]
      BY <1>2 DEF TypeOK, ListFails, Goto, End, Status
    <3> QED
      BY <1>2, <3>1, <3>2, <3>3 DEF TypeOK, ListFails
  <2>2. LossAccounted'
    <3>1. pc[p] \notin InTheWorks
      BY <1>2 DEF InTheWorks, ListFails, Goto, End, Status
    <3>2. \A q \in Procs : q # p => cur'[q] = cur[q] /\ pc'[q] = pc[q]
      BY <1>2 DEF TypeOK, ListFails, Goto, End, Status
    <3>3. UNCHANGED <<mode, terminating>> /\ reported \subseteq reported'
      BY <1>2 DEF ListFails, Goto, End, Status
    <3> QED
      BY <3>1, <3>2, <3>3, NothingLost
  <2>3. HeldIsThere'
    BY <1>2 DEF TypeOK, HeldIsThere, ListFails, Goto, End, Status
  <2>4. CopiesKept'
    BY <1>2 DEF TypeOK, CopiesKept, InTheWorks, ListFails, Goto, End, Status
  <2> QED
    BY <2>1, <2>2, <2>3, <2>4
<1>3. ASSUME NEW p \in Procs, Confirm(p)
      PROVE  IndInv'
  <2>1. TypeOK'
    <3>1. pc' \in [Procs -> PCs]
      <4>1. pc' = pc \/ \E l \in PCs : pc' = [pc EXCEPT ![p] = l]
        BY <1>3 DEF PCs, Confirm, Goto, End
      <4> QED
        BY <4>1 DEF TypeOK
    <3>2. exit' \in [Procs -> {"none", "ok", "failures", "declined"}]
      BY <1>3 DEF TypeOK, Confirm, Goto, End
    <3> QED
      BY <1>3, <3>1, <3>2 DEF TypeOK, Confirm
  <2>2. LossAccounted'
    <3>1. pc[p] \notin InTheWorks
      BY <1>3 DEF InTheWorks, Confirm, Goto, End
    <3>2. \A q \in Procs : q # p => cur'[q] = cur[q] /\ pc'[q] = pc[q]
      BY <1>3 DEF TypeOK, Confirm, Goto, End
    <3>3. UNCHANGED <<mode, terminating>> /\ reported \subseteq reported'
      BY <1>3 DEF Confirm, Goto, End
    <3> QED
      BY <3>1, <3>2, <3>3, NothingLost
  <2>3. HeldIsThere'
    BY <1>3 DEF TypeOK, HeldIsThere, Confirm, Goto, End
  <2>4. CopiesKept'
    BY <1>3 DEF TypeOK, CopiesKept, InTheWorks, Confirm, Goto, End
  <2> QED
    BY <2>1, <2>2, <2>3, <2>4
<1>4. ASSUME NEW p \in Procs, WriteBackup(p)
      PROVE  IndInv'
  <2>1. TypeOK'
    <3>1. pc' \in [Procs -> PCs]
      <4>1. pc' = pc \/ \E l \in PCs : pc' = [pc EXCEPT ![p] = l]
        BY <1>4 DEF PCs, WriteBackup, Goto, End
      <4> QED
        BY <4>1 DEF TypeOK
    <3>2. exit' \in [Procs -> {"none", "ok", "failures", "declined"}]
      BY <1>4 DEF TypeOK, WriteBackup, Goto, End, Status
    <3>3. saved' \in [Services -> 0 .. MaxVersion]
      BY <1>4 DEF TypeOK, WriteBackup, Goto, End, Status
    <3>4. failed' \in [Procs -> BOOLEAN]
      BY <1>4 DEF TypeOK, WriteBackup, Goto, End, Status
    <3> QED
      BY <1>4, <3>1, <3>2, <3>3, <3>4 DEF TypeOK, WriteBackup
  <2>2. LossAccounted'
    <3>1. pc[p] \notin InTheWorks
      BY <1>4 DEF InTheWorks, WriteBackup, Goto, End, Status
    <3>2. \A q \in Procs : q # p => cur'[q] = cur[q] /\ pc'[q] = pc[q]
      BY <1>4 DEF TypeOK, WriteBackup, Goto, End, Status
    <3>3. UNCHANGED <<mode, terminating>> /\ reported \subseteq reported'
      BY <1>4 DEF WriteBackup, Goto, End, Status
    <3> QED
      BY <3>1, <3>2, <3>3, NothingLost
  <2>3. HeldIsThere'
    BY <1>4 DEF TypeOK, HeldIsThere, WriteBackup, Goto, End, Status
  <2>4. CopiesKept'
    BY <1>4 DEF TypeOK, CopiesKept, InTheWorks, WriteBackup, Goto, End, Status
  <2> QED
    BY <2>1, <2>2, <2>3, <2>4
<1>5. ASSUME NEW p \in Procs, NEW s \in Services, DeleteISVC(p, s)
      PROVE  IndInv'
  <2>1. TypeOK'
    <3>1. pc' \in [Procs -> PCs]
      <4>1. pc' = pc \/ \E l \in PCs : pc' = [pc EXCEPT ![p] = l]
        BY <1>5 DEF PCs, DeleteISVC, Deleted, Fail, Goto
      <4> QED
        BY <4>1 DEF TypeOK
    <3>2. mode' \in [Services -> {"Serverless", "RawDeployment", "gone"}]
      BY <1>5 DEF TypeOK, CopiesKept, InTheWorks, DeleteISVC, Deleted, Fail, Goto
    <3>3. terminating' \subseteq Services
      BY <1>5 DEF TypeOK, DeleteISVC, Deleted, Fail, Goto
    <3>4. todo' \in [Procs -> SUBSET Services]
      BY <1>5 DEF TypeOK, DeleteISVC, Deleted, Fail, Goto
    <3>5. cur' \in [Procs -> Services \cup {Nobody}]
      BY <1>5 DEF TypeOK, DeleteISVC, Deleted, Fail, Goto
    <3>6. failed' \in [Procs -> BOOLEAN]
      BY <1>5 DEF TypeOK, DeleteISVC, Deleted, Fail, Goto
    <3>7. reported' \subseteq Services
      BY <1>5 DEF TypeOK, CopiesKept, InTheWorks, DeleteISVC, Deleted, Fail, Goto
    <3> QED
      BY <1>5, <3>1, <3>2, <3>3, <3>4, <3>5, <3>6, <3>7 DEF TypeOK, DeleteISVC
  <2>2. LossAccounted'
    <3>1. \A q \in Procs : q # p => cur'[q] = cur[q] /\ pc'[q] = pc[q]
      BY <1>5 DEF TypeOK, DeleteISVC, Deleted, Fail, Goto
    <3>2. pc[p] \notin InTheWorks
      BY <1>5 DEF InTheWorks, DeleteISVC, Deleted, Fail, Goto
    <3>3. mode'[s] = "gone" \/ s \in terminating' => s \in reported' \/ InHand(s)'
      <4>1. CASE dry[p] /\ UNCHANGED <<mode, terminating, reported>>
        BY <3>1, <3>2, <4>1, StillInHand DEF LossAccounted
      <4>2. CASE ~dry[p] /\ pc' = [pc EXCEPT ![p] = "wait"]
        <5>1. cur'[p] = s /\ pc'[p] \in InTheWorks
          BY <1>5, <4>2 DEF TypeOK, InTheWorks, DeleteISVC
        <5> QED
          BY <5>1 DEF InHand
      <4>3. CASE s \in reported'
        BY <4>3
      <4> QED
        BY <1>5, <4>1, <4>2, <4>3 DEF DeleteISVC, Deleted, Fail, Goto
    <3>4. ASSUME NEW t \in Services, t # s
          PROVE  mode'[t] = "gone" \/ t \in terminating' => t \in reported' \/ InHand(t)'
      <4>1. mode'[t] = mode[t] /\ (t \in terminating' <=> t \in terminating)
        BY <1>5, <3>4 DEF TypeOK, DeleteISVC, Deleted, Fail, Goto
      <4>2. reported \subseteq reported'
        BY <1>5 DEF DeleteISVC, Deleted, Fail, Goto
      <4> QED
        BY <3>1, <3>2, <4>1, <4>2, StillInHand DEF LossAccounted
    <3> QED
      BY <3>3, <3>4 DEF LossAccounted
  <2>3. HeldIsThere'
    BY <1>5 DEF TypeOK, HeldIsThere, DeleteISVC, Deleted, Fail, Goto
  <2>4. CopiesKept'
    BY <1>5 DEF TypeOK, CopiesKept, InTheWorks, DeleteISVC, Deleted, Fail, Goto
  <2> QED
    BY <2>1, <2>2, <2>3, <2>4
<1>6. ASSUME NEW p \in Procs, WaitForISVCDeletion(p)
      PROVE  IndInv'
  <2>1. TypeOK'
    <3>1. pc' \in [Procs -> PCs]
      <4>1. pc' = pc \/ \E l \in PCs : pc' = [pc EXCEPT ![p] = l]
        BY <1>6 DEF PCs, WaitForISVCDeletion, Fail, Goto
      <4> QED
        BY <4>1 DEF TypeOK
    <3>2. failed' \in [Procs -> BOOLEAN]
      BY <1>6 DEF TypeOK, WaitForISVCDeletion, Fail, Goto
    <3>3. reported' \subseteq Services
      BY <1>6 DEF TypeOK, CopiesKept, InTheWorks, WaitForISVCDeletion, Fail, Goto
    <3> QED
      BY <1>6, <3>1, <3>2, <3>3 DEF TypeOK, WaitForISVCDeletion
  <2>2. LossAccounted'
    <3>1. \A q \in Procs : q # p => cur'[q] = cur[q] /\ pc'[q] = pc[q]
      BY <1>6 DEF TypeOK, WaitForISVCDeletion, Fail, Goto
    <3>2. UNCHANGED <<mode, terminating>> /\ reported \subseteq reported'
      BY <1>6 DEF WaitForISVCDeletion, Fail, Goto
    <3>3. ASSUME NEW t \in Services, InHand(t) PROVE t \in reported' \/ InHand(t)'
      <4>1. CASE cur[p] = t
        <5>1. CASE t \in reported'
          BY <5>1
        <5>2. CASE pc' = [pc EXCEPT ![p] = "recreate"]
          <6>1. cur'[p] = t /\ pc'[p] \in InTheWorks
            BY <1>6, <4>1, <5>2 DEF TypeOK, InTheWorks, WaitForISVCDeletion
          <6> QED
            BY <6>1 DEF InHand
        <5> QED
          BY <1>6, <4>1, <5>1, <5>2 DEF WaitForISVCDeletion, Fail, Goto
      <4>2. CASE cur[p] # t
        BY <3>1, <3>3, <4>2, StillInHand
      <4> QED
        BY <4>1, <4>2
    <3> QED
      BY <3>2, <3>3 DEF LossAccounted
  <2>3. HeldIsThere'
    BY <1>6 DEF TypeOK, HeldIsThere, WaitForISVCDeletion, Fail, Goto
  <2>4. CopiesKept'
    BY <1>6 DEF TypeOK, CopiesKept, InTheWorks, WaitForISVCDeletion, Fail, Goto
  <2> QED
    BY <2>1, <2>2, <2>3, <2>4
<1>7. ASSUME NEW p \in Procs, Recreate(p)
      PROVE  IndInv'
  <2>1. TypeOK'
    <3>1. pc' \in [Procs -> PCs]
      <4>1. pc' = pc \/ \E l \in PCs : pc' = [pc EXCEPT ![p] = l]
        BY <1>7 DEF PCs, Recreate, CreateISVC, Fail, Goto
      <4> QED
        BY <4>1 DEF TypeOK
    <3>2. mode' \in [Services -> {"Serverless", "RawDeployment", "gone"}]
      <4>1. \/ mode' = mode
            \/ mode' = [mode EXCEPT ![cur[p]] = "RawDeployment"]
        BY <1>7 DEF Recreate, CreateISVC
      <4> QED
        BY <4>1 DEF TypeOK
    <3>3. version' \in [Services -> 1 .. MaxVersion]
      <4>1. cur[p] \in Services /\ copy[p][cur[p]] \in 1 .. MaxVersion
        BY <1>7 DEF TypeOK, CopiesKept, InTheWorks, Recreate
      <4>2. version' = version \/ version' = [version EXCEPT ![cur[p]] = copy[p][cur[p]]]
        BY <1>7 DEF Recreate, CreateISVC
      <4> QED
        BY <4>1, <4>2 DEF TypeOK
    <3>4. terminating' \subseteq Services
      BY <1>7 DEF TypeOK, Recreate, CreateISVC, Fail, Goto
    <3>5. failed' \in [Procs -> BOOLEAN]
      BY <1>7 DEF TypeOK, Recreate, CreateISVC, Fail, Goto
    <3>6. reported' \subseteq Services
      BY <1>7 DEF TypeOK, CopiesKept, InTheWorks, Recreate, CreateISVC, Fail, Goto
    <3> QED
      BY <1>7, <3>1, <3>2, <3>3, <3>4, <3>5, <3>6 DEF TypeOK, Recreate
  <2>2. LossAccounted'
    <3>0. cur[p] \in Services
      BY <1>7 DEF CopiesKept, InTheWorks, Recreate
    <3>1. \A q \in Procs : q # p => cur'[q] = cur[q] /\ pc'[q] = pc[q]
      BY <1>7 DEF TypeOK, Recreate, CreateISVC, Fail, Goto
    <3>3. mode'[cur[p]] = "gone" \/ cur[p] \in terminating' => cur[p] \in reported'
      <4>1. CASE cur[p] \in reported'
        BY <4>1
      <4>2. CASE CreateISVC(p, "RawDeployment")
        <5>1. mode[cur[p]] = "gone" /\ mode'[cur[p]] = "RawDeployment" /\ terminating' = terminating
          BY <3>0, <4>2 DEF TypeOK, CreateISVC
        <5> QED
          BY <3>0, <5>1 DEF HeldIsThere
      <4> QED
        BY <1>7, <4>1, <4>2 DEF Recreate, Fail
    <3>4. ASSUME NEW t \in Services, t # cur[p]
          PROVE  mode'[t] = "gone" \/ t \in terminating' => t \in reported' \/ InHand(t)'
      <4>1. mode'[t] = mode[t] /\ terminating' = terminating /\ reported \subseteq reported'
        BY <1>7, <3>4 DEF TypeOK, Recreate, CreateISVC, Fail, Goto
      <4> QED
        BY <3>1, <3>4, <4>1, StillInHand DEF LossAccounted
    <3> QED
      BY <3>0, <3>3, <3>4 DEF LossAccounted
  <2>3. HeldIsThere'
    BY <1>7 DEF TypeOK, HeldIsThere, Recreate, CreateISVC, Fail, Goto
  <2>4. CopiesKept'
    BY <1>7 DEF TypeOK, CopiesKept, InTheWorks, Recreate, CreateISVC, Fail, Goto
  <2> QED
    BY <2>1, <2>2, <2>3, <2>4
<1>8. ASSUME NEW p \in Procs, Rollback(p)
      PROVE  IndInv'
  <2>1. TypeOK'
    <3>1. pc' \in [Procs -> PCs]
      <4>1. pc' = pc \/ \E l \in PCs : pc' = [pc EXCEPT ![p] = l]
        BY <1>8 DEF PCs, Rollback, CreateISVC, Goto
      <4> QED
        BY <4>1 DEF TypeOK
    <3>2. mode' \in [Services -> {"Serverless", "RawDeployment", "gone"}]
      <4>1. \/ mode' = mode
            \/ mode' = [mode EXCEPT ![cur[p]] = "Serverless"]
        BY <1>8 DEF Rollback, CreateISVC
      <4> QED
        BY <4>1 DEF TypeOK
    <3>3. version' \in [Services -> 1 .. MaxVersion]
      <4>1. cur[p] \in Services /\ copy[p][cur[p]] \in 1 .. MaxVersion
        BY <1>8 DEF TypeOK, CopiesKept, InTheWorks, Rollback
      <4>2. version' = version \/ version' = [version EXCEPT ![cur[p]] = copy[p][cur[p]]]
        BY <1>8 DEF Rollback, CreateISVC
      <4> QED
        BY <4>1, <4>2 DEF TypeOK
    <3>4. terminating' \subseteq Services
      BY <1>8 DEF TypeOK, Rollback, CreateISVC, Goto
    <3> QED
      BY <1>8, <3>1, <3>2, <3>3, <3>4 DEF TypeOK, Rollback
  <2>2. LossAccounted'
    <3>0. cur[p] \in Services
      BY <1>8 DEF CopiesKept, InTheWorks, Rollback
    <3>1. \A q \in Procs : q # p => cur'[q] = cur[q] /\ pc'[q] = pc[q]
      BY <1>8 DEF TypeOK, Rollback, CreateISVC, Goto
    <3>3. mode'[cur[p]] = "gone" \/ cur[p] \in terminating' => cur[p] \in reported'
      BY <1>8 DEF Rollback, CopiesKept
    <3>4. ASSUME NEW t \in Services, t # cur[p]
          PROVE  mode'[t] = "gone" \/ t \in terminating' => t \in reported' \/ InHand(t)'
      <4>1. mode'[t] = mode[t] /\ terminating' = terminating /\ reported \subseteq reported'
        BY <1>8, <3>4 DEF TypeOK, Rollback, CreateISVC, Goto
      <4> QED
        BY <3>1, <3>4, <4>1, StillInHand DEF LossAccounted
    <3> QED
      BY <3>0, <3>3, <3>4 DEF LossAccounted
  <2>3. HeldIsThere'
    BY <1>8 DEF TypeOK, HeldIsThere, Rollback, CreateISVC, Goto
  <2>4. CopiesKept'
    BY <1>8 DEF TypeOK, CopiesKept, InTheWorks, Rollback, CreateISVC, Goto
  <2> QED
    BY <2>1, <2>2, <2>3, <2>4
<1>9. ASSUME NEW p \in Procs, DeleteIstioRoute(p)
      PROVE  IndInv'
  <2>1. TypeOK'
    <3>1. pc' \in [Procs -> PCs]
      <4>1. pc' = pc \/ \E l \in PCs : pc' = [pc EXCEPT ![p] = l]
        BY <1>9 DEF PCs, DeleteIstioRoute, Fail, Goto
      <4> QED
        BY <4>1 DEF TypeOK
    <3>2. route' \subseteq Services
      BY <1>9 DEF TypeOK, DeleteIstioRoute, Fail, Goto
    <3>3. need' \in [Procs -> 0 .. 3]
      BY <1>9 DEF TypeOK, DeleteIstioRoute, Fail, Goto
    <3>4. failed' \in [Procs -> BOOLEAN]
      BY <1>9 DEF TypeOK, DeleteIstioRoute, Fail, Goto
    <3>5. reported' \subseteq Services
      <4>1. cur[p] \in Services
        BY <1>9 DEF CopiesKept, DeleteIstioRoute
      <4>2. reported' = reported \/ reported' = reported \cup {cur[p]}
        BY <1>9 DEF DeleteIstioRoute, Fail
      <4> QED
        BY <4>1, <4>2 DEF TypeOK
    <3> QED
      BY <1>9, <3>1, <3>2, <3>3, <3>4, <3>5 DEF TypeOK, DeleteIstioRoute
  <2>2. LossAccounted'
    <3>1. pc[p] \notin InTheWorks
      BY <1>9 DEF InTheWorks, DeleteIstioRoute, Fail, Goto
    <3>2. \A q \in Procs : q # p => cur'[q] = cur[q] /\ pc'[q] = pc[q]
      BY <1>9 DEF TypeOK, DeleteIstioRoute, Fail, Goto
    <3>3. UNCHANGED <<mode, terminating>> /\ reported \subseteq reported'
      BY <1>9 DEF DeleteIstioRoute, Fail, Goto
    <3> QED
      BY <3>1, <3>2, <3>3, NothingLost
  <2>3. HeldIsThere'
    BY <1>9 DEF TypeOK, HeldIsThere, DeleteIstioRoute, Fail, Goto
  <2>4. CopiesKept'
    BY <1>9 DEF TypeOK, CopiesKept, InTheWorks, DeleteIstioRoute, Fail, Goto
  <2> QED
    BY <2>1, <2>2, <2>3, <2>4
<1>10. ASSUME NEW p \in Procs, EnsureAuthResources(p)
      PROVE  IndInv'
  <2>1. TypeOK'
    <3>1. pc' \in [Procs -> PCs]
      <4>1. pc' = pc \/ \E l \in PCs : pc' = [pc EXCEPT ![p] = l]
        BY <1>10 DEF PCs, EnsureAuthResources, Fail, Goto
      <4> QED
        BY <4>1 DEF TypeOK
    <3>2. auth' \in [Services -> SUBSET AuthKinds]
      <4>1. cur[p] \in Services
        BY <1>10 DEF CopiesKept, EnsureAuthResources
      <4>2. \/ auth' = auth
            \/ /\ need[p] # 0
               /\ auth' = [auth EXCEPT ![cur[p]] = @ \cup {AuthOrder[need[p]]}]
        BY <1>10 DEF EnsureAuthResources
      <4>3. need[p] # 0 => AuthOrder[need[p]] \in AuthKinds
        BY DEF TypeOK, AuthOrder, AuthKinds
      <4>4. CASE auth' = auth
        BY <4>4 DEF TypeOK
      <4>5. ASSUME NEW x \in AuthKinds, auth' = [auth EXCEPT ![cur[p]] = @ \cup {x}]
            PROVE  auth' \in [Services -> SUBSET AuthKinds]
        <5>1. auth \in [Services -> SUBSET AuthKinds]
          BY DEF TypeOK
        <5>2. auth[cur[p]] \cup {x} \in SUBSET AuthKinds
          BY <4>1, <5>1
        <5> QED
          BY <4>1, <4>5, <5>1, <5>2
      <4> QED
        BY <4>2, <4>3, <4>4, <4>5
    <3>3. need' \in [Procs -> 0 .. 3]
      BY <1>10 DEF TypeOK, EnsureAuthResources, Fail, Goto, AuthOrder, AuthKinds
    <3>4. failed' \in [Procs -> BOOLEAN]
      <4>1. failed' = failed \/ failed' = [failed EXCEPT ![p] = TRUE]
        BY <1>10 DEF EnsureAuthResources, Fail
      <4> QED
        BY <4>1 DEF TypeOK
    <3>5. reported' \subseteq Services
      <4>1. cur[p] \in Services
        BY <1>10 DEF CopiesKept, EnsureAuthResources
      <4>2. reported' = reported \/ reported' = reported \cup {cur[p]}
        BY <1>10 DEF EnsureAuthResources, Fail
      <4> QED
        BY <4>1, <4>2 DEF TypeOK
    <3> QED
      BY <1>10, <3>1, <3>2, <3>3, <3>4, <3>5 DEF TypeOK, EnsureAuthResources
  <2>2. LossAccounted'
    <3>1. pc[p] \notin InTheWorks
      BY <1>10 DEF InTheWorks, EnsureAuthResources, Fail, Goto
    <3>2. \A q \in Procs : q # p => cur'[q] = cur[q] /\ pc'[q] = pc[q]
      BY <1>10 DEF TypeOK, EnsureAuthResources, Fail, Goto
    <3>3. UNCHANGED <<mode, terminating>> /\ reported \subseteq reported'
      BY <1>10 DEF EnsureAuthResources, Fail, Goto
    <3> QED
      BY <3>1, <3>2, <3>3, NothingLost
  <2>3. HeldIsThere'
    BY <1>10 DEF TypeOK, HeldIsThere, EnsureAuthResources, Fail, Goto
  <2>4. CopiesKept'
    BY <1>10 DEF TypeOK, CopiesKept, InTheWorks, EnsureAuthResources, Fail, Goto, AuthOrder, AuthKinds
  <2> QED
    BY <2>1, <2>2, <2>3, <2>4
<1>11. ASSUME NEW p \in Procs, Finish(p)
      PROVE  IndInv'
  <2>1. TypeOK'
    <3>1. pc' \in [Procs -> PCs]
      <4>1. pc' = pc \/ \E l \in PCs : pc' = [pc EXCEPT ![p] = l]
        BY <1>11 DEF PCs, Finish, Goto, End
      <4> QED
        BY <4>1 DEF TypeOK
    <3>2. exit' \in [Procs -> {"none", "ok", "failures", "declined"}]
      BY <1>11 DEF TypeOK, Finish, Goto, End, Status
    <3> QED
      BY <1>11, <3>1, <3>2 DEF TypeOK, Finish
  <2>2. LossAccounted'
    <3>1. pc[p] \notin InTheWorks
      BY <1>11 DEF InTheWorks, Finish, Goto, End, Status
    <3>2. \A q \in Procs : q # p => cur'[q] = cur[q] /\ pc'[q] = pc[q]
      BY <1>11 DEF TypeOK, Finish, Goto, End, Status
    <3>3. UNCHANGED <<mode, terminating>> /\ reported \subseteq reported'
      BY <1>11 DEF Finish, Goto, End, Status
    <3> QED
      BY <3>1, <3>2, <3>3, NothingLost
  <2>3. HeldIsThere'
    BY <1>11 DEF TypeOK, HeldIsThere, Finish, Goto, End, Status
  <2>4. CopiesKept'
    BY <1>11 DEF TypeOK, CopiesKept, InTheWorks, Finish, Goto, End, Status
  <2> QED
    BY <2>1, <2>2, <2>3, <2>4
<1>12. ASSUME NEW p \in Procs, Crash(p)
      PROVE  IndInv'
  <2>1. TypeOK'
    <3>1. pc' \in [Procs -> PCs]
      <4>1. pc' = pc \/ \E l \in PCs : pc' = [pc EXCEPT ![p] = l]
        BY <1>12 DEF PCs, Crash, Goto
      <4> QED
        BY <4>1 DEF TypeOK
    <3>2. reported' \subseteq Services
      BY <1>12 DEF TypeOK, CopiesKept, InTheWorks, Crash, Goto
    <3> QED
      BY <1>12, <3>1, <3>2 DEF TypeOK, Crash
  <2>2. LossAccounted'
    <3>1. \A q \in Procs : q # p => cur'[q] = cur[q] /\ pc'[q] = pc[q]
      BY <1>12 DEF TypeOK, Crash, Goto
    <3>2. UNCHANGED <<mode, terminating>> /\ reported \subseteq reported'
      BY <1>12 DEF Crash, Goto
    <3>3. ASSUME NEW t \in Services, InHand(t) PROVE t \in reported' \/ InHand(t)'
      <4>1. CASE cur[p] = t /\ pc[p] \in InTheWorks
        BY <1>12, <4>1 DEF Crash
      <4>2. CASE ~(cur[p] = t /\ pc[p] \in InTheWorks)
        BY <3>1, <3>3, <4>2, StillInHand
      <4> QED
        BY <4>1, <4>2
    <3> QED
      BY <3>2, <3>3 DEF LossAccounted
  <2>3. HeldIsThere'
    BY <1>12 DEF TypeOK, HeldIsThere, Crash, Goto
  <2>4. CopiesKept'
    BY <1>12 DEF TypeOK, CopiesKept, InTheWorks, Crash, Goto
  <2> QED
    BY <2>1, <2>2, <2>3, <2>4
<1>13. ASSUME NEW p \in Procs, Restart(p)
      PROVE  IndInv'
  <2>1. TypeOK'
    BY <1>13 DEF TypeOK, CopiesKept, PCs, InTheWorks, Restart, Goto
  <2>2. LossAccounted'
    <3>1. pc[p] \notin InTheWorks
      BY <1>13 DEF InTheWorks, Restart, Goto
    <3>2. \A q \in Procs : q # p => cur'[q] = cur[q] /\ pc'[q] = pc[q]
      BY <1>13 DEF TypeOK, Restart, Goto
    <3>3. UNCHANGED <<mode, terminating>> /\ reported \subseteq reported'
      BY <1>13 DEF Restart, Goto
    <3> QED
      BY <3>1, <3>2, <3>3, NothingLost
  <2>3. HeldIsThere'
    BY <1>13 DEF TypeOK, HeldIsThere, Restart, Goto
  <2>4. CopiesKept'
    BY <1>13 DEF TypeOK, CopiesKept, InTheWorks, Restart, Goto
  <2> QED
    BY <2>1, <2>2, <2>3, <2>4
<1>14. ASSUME NEW s \in Services, Finalized(s)
      PROVE  IndInv'
  <2>1. TypeOK'
    BY <1>14 DEF TypeOK, CopiesKept, PCs, InTheWorks, Finalized
  <2>2. LossAccounted'
    BY <1>14 DEF TypeOK, LossAccounted, InHand, Finalized
  <2>3. HeldIsThere'
    BY <1>14 DEF TypeOK, HeldIsThere, Finalized
  <2>4. CopiesKept'
    BY <1>14 DEF TypeOK, CopiesKept, InTheWorks, Finalized
  <2> QED
    BY <2>1, <2>2, <2>3, <2>4
<1>15. ASSUME NEW s \in Services, Edit(s)
      PROVE  IndInv'
  <2>1. TypeOK'
    BY <1>15 DEF TypeOK, CopiesKept, PCs, InTheWorks, Edit
  <2>2. LossAccounted'
    BY <1>15 DEF TypeOK, LossAccounted, InHand, Edit
  <2>3. HeldIsThere'
    BY <1>15 DEF TypeOK, HeldIsThere, Edit
  <2>4. CopiesKept'
    BY <1>15 DEF TypeOK, CopiesKept, InTheWorks, Edit
  <2> QED
    BY <2>1, <2>2, <2>3, <2>4
<1>16. CASE UNCHANGED vars
  BY <1>16 DEF vars, TypeOK, LossAccounted, HeldIsThere, CopiesKept, InHand
<1> QED
  BY <1>1, <1>2, <1>3, <1>4, <1>5, <1>6, <1>7, <1>8, <1>9, <1>10, <1>11, <1>12, <1>13, <1>14, <1>15, <1>16 DEF Next, Step

-----------------------------------------------------------------------------
(* Type correctness of the conversion, however many processes overlap.     *)
THEOREM TypeCorrect == Spec => []TypeOK
<1>1. IndInv => TypeOK
  BY DEF IndInv
<1> QED
  BY IndInit, IndStep, <1>1, PTL DEF Spec

(* No InferenceService disappears without the user having been told: one   *)
(* that is gone is being created again by a run, or its step failed, or    *)
(* the run that deleted it was cut off (deleteAndRecreateISVC).            *)
THEOREM LossesReported == Spec => []LossIsReported
<1>1. IndInv => LossIsReported
  BY DEF IndInv, LossAccounted, InHand, LossIsReported
<1> QED
  BY IndInit, IndStep, <1>1, PTL DEF Spec

-----------------------------------------------------------------------------
(* What a run without a failure has done. Another run that listed the same *)
(* service earlier may take it down again, so this is about one process at *)
(* a time.                                                                 *)
OneProcess == \A p, q \in Procs : p = q

AtWork == {"confirm", "loop", "route", "auth"} \cup InTheWorks

(* Nothing is left to do for the service, and nothing will undo it.        *)
Converted(s) ==
    /\ mode[s] = "RawDeployment" /\ s \notin terminating
    /\ s \notin route
    /\ s \in Auth => auth[s] = AuthKinds

(* The steps of deleteAndRecreateISVC and after that are behind a service. *)
Under(p) ==
    /\ \A s \in Services :
         copy[p][s] # 0 /\ s \notin todo[p] /\ (s # cur[p] \/ pc[p] = "loop") => Converted(s)
    /\ pc[p] # "rollback"
    /\ pc[p] \in {"route", "auth"} =>
         mode[cur[p]] = "RawDeployment" /\ cur[p] \notin terminating
    /\ pc[p] = "auth" =>
         /\ cur[p] \notin route
         /\ cur[p] \in Auth =>
              \A left \in 1 .. 3 : left > need[p] => AuthOrder[left] \in auth[cur[p]]

(* As long as no step of the run has failed, the services it has left      *)
(* behind are converted.                                                   *)
Progress ==
    \A p \in Procs :
        /\ pc[p] \in {"list", "confirm"} => cur[p] = Nobody
        /\ pc[p] \in AtWork => /\ cmd[p] = "run"
                               /\ cur[p] \notin todo[p]
                               /\ ~dry[p] /\ ~failed[p] => Under(p)

(* Every step of the one process, of a finalizer or of a user keeps that.  *)
LEMMA ProgressStep ==
    ASSUME OneProcess, IndInv, Progress, [Next]_vars
    PROVE  Progress'
<1> USE ServerlessAssumption DEF IndInv, cluster, options, OneProcess
<1>1. ASSUME NEW p \in Procs, ListISVCs(p) PROVE Progress'
  <2>1. \A s \in Services : copy'[p][s] # 0 => s \in todo'[p]
    BY <1>1 DEF ListISVCs, TypeOK
  <2>2. cur'[p] = Nobody /\ todo'[p] \subseteq Services
    BY <1>1 DEF ListISVCs, Listed, TypeOK, Progress
  <2>3. pc'[p] \in AtWork => cmd'[p] = "run" /\ pc'[p] \in {"confirm", "loop"}
    <3>1. CASE Listed = {} \/ (cmd[p] = "prepare" /\ dry[p])
      BY <1>1, <3>1 DEF ListISVCs, Goto, End, TypeOK, AtWork, InTheWorks
    <3>2. CASE ~(Listed = {} \/ (cmd[p] = "prepare" /\ dry[p]))
      <4>1. pc'[p] = IF cmd[p] = "prepare" THEN "write"
                     ELSE IF yes[p] \/ dry[p] THEN "loop" ELSE "confirm"
        BY <1>1, <3>2 DEF ListISVCs, Goto, TypeOK
      <4>2. cmd[p] \in {"prepare", "run"} /\ cmd' = cmd
        BY <1>1 DEF ListISVCs, TypeOK
      <4> QED
        BY <4>1, <4>2 DEF AtWork, InTheWorks
    <3> QED
      BY <3>1, <3>2
  <2> QED
    BY <2>1, <2>2, <2>3 DEF Progress, Under
<1>2. ASSUME NEW p \in Procs, ListFails(p) PROVE Progress'
  <2>1. pc'[p] = "done"
    BY <1>2 DEF ListFails, Goto, End, TypeOK
  <2> QED
    BY <2>1 DEF Progress, AtWork, InTheWorks, OneProcess
<1>3. ASSUME NEW p \in Procs, Confirm(p) PROVE Progress'
  <2>1. CASE pc'[p] = "loop"
    <3>1. /\ cmd'[p] = "run" /\ cur'[p] = Nobody /\ cur'[p] \notin todo'[p]
          /\ ~dry'[p] /\ ~failed'[p] => Under(p)
      BY <1>3 DEF Confirm, Progress, AtWork
    <3>2. Under(p) => Under(p)'
      BY <1>3, <2>1, <3>1 DEF Confirm, Under, Converted
    <3> QED
      BY <2>1, <3>1, <3>2, <1>3 DEF Progress, Confirm
  <2>2. CASE pc'[p] # "loop"
    BY <1>3, <2>2 DEF Confirm, Goto, End, TypeOK, Progress, AtWork, InTheWorks
  <2> QED
    BY <2>1, <2>2
<1>4. ASSUME NEW p \in Procs, WriteBackup(p) PROVE Progress'
  BY <1>4 DEF WriteBackup, Goto, End, TypeOK, Progress, AtWork, InTheWorks
<1>5. ASSUME NEW p \in Procs, NEW s \in Services, DeleteISVC(p, s) PROVE Progress'
  <2>1. /\ cmd[p] = "run"
        /\ ~dry[p] /\ ~failed[p] => Under(p)
        /\ pc[p] = "loop" /\ s \in todo[p]
        /\ UNCHANGED <<cmd, dry, copy, route, auth>>
    BY <1>5 DEF DeleteISVC, Progress, AtWork
  <2>2. cur'[p] = s /\ todo'[p] = todo[p] \ {s} /\ pc'[p] \notin {"list", "confirm"}
    BY <1>5 DEF DeleteISVC, Goto, Fail, TypeOK
  <2>3. ASSUME ~dry'[p], ~failed'[p] PROVE Under(p)'
    <3>1. pc'[p] = "wait" /\ ~dry[p] /\ ~failed[p]
      BY <1>5, <2>3 DEF DeleteISVC, Goto, Fail, TypeOK
    <3>2. \A t \in Services \ {s} : mode'[t] = mode[t] /\ (t \in terminating' => t \in terminating)
      BY <1>5 DEF DeleteISVC, Deleted, TypeOK
    <3>3. \A t \in Services \ {s} : Converted(t) => Converted(t)'
      BY <2>1, <3>2 DEF Converted
    <3> QED
      BY <2>1, <2>2, <3>1, <3>3 DEF Under
  <2> QED
    BY <2>1, <2>2, <2>3 DEF Progress
<1>6. ASSUME NEW p \in Procs, WaitForISVCDeletion(p) PROVE Progress'
  <2>1. /\ cmd[p] = "run" /\ cur[p] \notin todo[p]
        /\ ~dry[p] /\ ~failed[p] => Under(p)
        /\ pc[p] = "wait"
        /\ UNCHANGED <<cluster, cmd, dry, copy, cur, todo>>
    BY <1>6 DEF WaitForISVCDeletion, Progress, AtWork, InTheWorks
  <2>2. /\ pc'[p] \in {"recreate", "loop"}
        /\ pc'[p] = "loop" => failed'[p]
        /\ pc'[p] = "recreate" => failed' = failed
    BY <1>6 DEF WaitForISVCDeletion, Goto, Fail, TypeOK
  <2>3. ASSUME ~dry'[p], ~failed'[p] PROVE Under(p)'
    BY <2>1, <2>2, <2>3 DEF Under, Converted
  <2> QED
    BY <2>1, <2>2, <2>3 DEF Progress
<1>7. ASSUME NEW p \in Procs, Recreate(p) PROVE Progress'
  <2>1. /\ cmd[p] = "run" /\ cur[p] \notin todo[p]
        /\ ~dry[p] /\ ~failed[p] => Under(p)
        /\ pc[p] = "recreate" /\ cur[p] \in Services
        /\ UNCHANGED <<route, auth, cmd, dry, copy, cur, todo>>
    BY <1>7 DEF Recreate, Progress, AtWork, InTheWorks, CopiesKept
  <2>2. /\ pc'[p] \in {"rollback", "route"}
        /\ pc'[p] = "rollback" => failed'[p]
    BY <1>7 DEF Recreate, Goto, Fail, TypeOK
  <2>3. ASSUME ~dry'[p], ~failed'[p] PROVE Under(p)'
    <3>1. /\ CreateISVC(p, "RawDeployment") /\ failed' = failed /\ pc'[p] = "route"
      BY <1>7, <2>2, <2>3 DEF Recreate, Fail, TypeOK
    <3>2. /\ mode'[cur[p]] = "RawDeployment" /\ cur[p] \notin terminating'
          /\ \A t \in Services \ {cur[p]} : mode'[t] = mode[t]
          /\ terminating' = terminating
      BY <2>1, <3>1 DEF CreateISVC, TypeOK, HeldIsThere
    <3>3. \A t \in Services \ {cur[p]} : Converted(t) => Converted(t)'
      BY <2>1, <3>2 DEF Converted
    <3> QED
      BY <2>1, <2>3, <3>1, <3>2, <3>3 DEF Under
  <2> QED
    BY <2>1, <2>2, <2>3 DEF Progress
<1>8. ASSUME NEW p \in Procs, Rollback(p) PROVE Progress'
  <2>1. /\ cmd[p] = "run" /\ cur[p] \notin todo[p] /\ (dry[p] \/ failed[p])
        /\ UNCHANGED <<failed, cmd, dry, cur, todo>>
        /\ pc'[p] = "loop"
    BY <1>8 DEF Rollback, Goto, Progress, AtWork, InTheWorks, Under, TypeOK
  <2> QED
    BY <2>1 DEF Progress
<1>9. ASSUME NEW p \in Procs, DeleteIstioRoute(p) PROVE Progress'
  <2>1. /\ cmd[p] = "run" /\ cur[p] \notin todo[p]
        /\ ~dry[p] /\ ~failed[p] => Under(p)
        /\ pc[p] = "route" /\ cur[p] \in Services
        /\ UNCHANGED <<mode, terminating, auth, cmd, dry, copy, cur, todo>>
    BY <1>9 DEF DeleteIstioRoute, Progress, AtWork, CopiesKept
  <2>2. pc'[p] = "auth"
    BY <1>9 DEF DeleteIstioRoute, Goto, Fail, TypeOK
  <2>3. ASSUME ~dry'[p], ~failed'[p] PROVE Under(p)'
    <3>1. failed' = failed /\ route' = route \ {cur[p]}
      BY <1>9, <2>3 DEF DeleteIstioRoute, Fail, TypeOK
    <3>2. need'[p] = IF cur[p] \in Auth THEN 3 ELSE 0
      BY <1>9 DEF DeleteIstioRoute, TypeOK
    <3>3. \A t \in Services : Converted(t) => Converted(t)'
      BY <2>1, <3>1 DEF Converted
    <3> QED
      BY <2>1, <2>2, <2>3, <3>1, <3>2, <3>3 DEF Under
  <2> QED
    BY <2>1, <2>2, <2>3 DEF Progress
<1>10. ASSUME NEW p \in Procs, EnsureAuthResources(p) PROVE Progress'
  <2>1. /\ cmd[p] = "run" /\ cur[p] \notin todo[p]
        /\ ~dry[p] /\ ~failed[p] => Under(p)
        /\ pc[p] = "auth" /\ cur[p] \in Services /\ need[p] \in 0 .. 3
        /\ UNCHANGED <<mode, terminating, route, cmd, dry, copy, cur, todo>>
    BY <1>10 DEF EnsureAuthResources, Progress, AtWork, CopiesKept, TypeOK
  <2>2. /\ need[p] = 0 => pc'[p] = "loop" /\ UNCHANGED <<auth, need, failed>>
        /\ need[p] # 0 => pc'[p] = "auth" /\ need'[p] = need[p] - 1
    BY <1>10 DEF EnsureAuthResources, Goto, Fail, TypeOK
  <2>3. ASSUME ~dry'[p], ~failed'[p], need[p] = 0 PROVE Under(p)'
    <3>1. Under(p) /\ \A left \in 1 .. 3 : left > need[p]
      BY <2>1, <2>2, <2>3
    <3>2. cur[p] \in Auth => auth[cur[p]] = AuthKinds
      <4> SUFFICES ASSUME cur[p] \in Auth PROVE AuthKinds \subseteq auth[cur[p]]
        BY <2>1 DEF TypeOK
      <4>1. AuthOrder[1] \in auth[cur[p]] /\ AuthOrder[2] \in auth[cur[p]]
              /\ AuthOrder[3] \in auth[cur[p]]
        BY <2>1, <3>1 DEF Under
      <4> QED
        BY <4>1 DEF AuthOrder, AuthKinds
    <3>3. Converted(cur[p])
      BY <2>1, <3>1, <3>2 DEF Under, Converted
    <3>4. \A t \in Services : Converted(t) => Converted(t)'
      BY <2>1, <2>2, <2>3 DEF Converted
    <3> QED
      BY <2>1, <2>2, <2>3, <3>1, <3>3, <3>4 DEF Under
  <2>4. ASSUME ~dry'[p], ~failed'[p], need[p] # 0 PROVE Under(p)'
    <3>1. /\ failed' = failed
          /\ auth' = [auth EXCEPT ![cur[p]] = @ \cup {AuthOrder[need[p]]}]
      BY <1>10, <2>1, <2>4 DEF EnsureAuthResources, Fail, TypeOK
    <3>2. Under(p) /\ pc'[p] = "auth" /\ need'[p] = need[p] - 1
      BY <2>1, <2>2, <2>4, <3>1
    <3>3. /\ auth'[cur[p]] = auth[cur[p]] \cup {AuthOrder[need[p]]}
          /\ \A t \in Services \ {cur[p]} : auth'[t] = auth[t]
      BY <2>1, <3>1 DEF TypeOK
    <3>4. \A t \in Services \ {cur[p]} : Converted(t) => Converted(t)'
      BY <2>1, <3>3 DEF Converted
    <3>5. cur[p] \in Auth =>
            \A left \in 1 .. 3 : left > need'[p] => AuthOrder[left] \in auth'[cur[p]]
      <4> SUFFICES ASSUME cur[p] \in Auth, NEW left \in 1 .. 3, left > need'[p]
                   PROVE  AuthOrder[left] \in auth'[cur[p]]
        OBVIOUS
      <4>1. left = need[p] \/ left > need[p]
        BY <2>1, <3>2
      <4> QED
        BY <2>1, <3>2, <3>3, <4>1 DEF Under
    <3> QED
      BY <2>1, <3>2, <3>4, <3>5 DEF Under
  <2> QED
    BY <2>1, <2>2, <2>3, <2>4 DEF Progress
<1>11. ASSUME NEW p \in Procs, Finish(p) PROVE Progress'
  BY <1>11 DEF Finish, Goto, End, TypeOK, Progress, AtWork, InTheWorks
<1>12. ASSUME NEW p \in Procs, Crash(p) PROVE Progress'
  BY <1>12 DEF Crash, Goto, TypeOK, Progress, AtWork, InTheWorks
<1>13. ASSUME NEW p \in Procs, Restart(p) PROVE Progress'
  <2>1. pc'[p] = "list" /\ cur'[p] = Nobody
    BY <1>13 DEF Restart, Goto, TypeOK
  <2> QED
    BY <2>1 DEF Progress, AtWork, InTheWorks
<1>14. ASSUME NEW s \in Services, Finalized(s) PROVE Progress'
  <2>1. /\ s \in terminating /\ terminating' = terminating \ {s}
        /\ \A t \in Services \ {s} : mode'[t] = mode[t]
        /\ UNCHANGED <<route, auth, options, pc, copy, todo, cur, need, failed>>
    BY <1>14 DEF Finalized, TypeOK
  <2>2. \A t \in Services : Converted(t) => Converted(t)'
    BY <2>1 DEF Converted
  <2>3. \A p \in Procs : pc[p] \in {"route", "auth"} => cur[p] \in Services
    BY DEF CopiesKept
  <2>4. \A p \in Procs : Under(p) => Under(p)'
    BY <2>1, <2>2, <2>3 DEF Under
  <2> QED
    BY <2>1, <2>4 DEF Progress
<1>15. ASSUME NEW s \in Services, Edit(s) PROVE Progress'
  <2>1. UNCHANGED <<mode, terminating, route, auth, options, pc, copy, todo, cur, need, failed>>
    BY <1>15 DEF Edit
  <2>2. \A p \in Procs : Under(p) => Under(p)'
    BY <2>1 DEF Under, Converted
  <2> QED
    BY <2>1, <2>2 DEF Progress
<1>16. CASE UNCHANGED vars
  BY <1>16 DEF vars, Progress, Under, Converted
<1> QED
  BY <1>1, <1>2, <1>3, <1>4, <1>5, <1>6, <1>7, <1>8, <1>9, <1>10, <1>11, <1>12, <1>13, <1>14,
     <1>15, <1>16 DEF Next, Step

(* A `migrate run` that ends without a failure has converted every service *)
(* it listed, down to the auth resources, if no other run is at work       *)
(* meanwhile: whatever finalizers and users do, however often it was cut   *)
(* off and started again before.                                           *)
THEOREM SuccessIsConversion ==
    ASSUME OneProcess
    PROVE  Spec => OkMeansConverted
<1> DEFINE Promise ==
        \A p \in Procs :
            (pc[p] = "loop" /\ exit'[p] = "ok" /\ exit[p] = "none" /\ ~dry[p]) =>
                \A s \in Services : copy[p][s] # 0 =>
                    /\ mode[s] = "RawDeployment"
                    /\ s \notin route
                    /\ s \in Auth => auth[s] = AuthKinds
<1>1. Init => Progress
  BY DEF Init, Progress, AtWork, InTheWorks
<1>2. IndInv /\ Progress /\ [Next]_vars => Progress'
  BY ProgressStep
<1>3. IndInv /\ Progress /\ [Next]_vars => [Promise]_vars
  <2> SUFFICES ASSUME IndInv, Progress, Next, NEW p \in Procs, NEW s \in Services,
                      pc[p] = "loop", exit'[p] = "ok", exit[p] = "none", ~dry[p],
                      copy[p][s] # 0
               PROVE  /\ mode[s] = "RawDeployment"
                      /\ s \notin route
                      /\ s \in Auth => auth[s] = AuthKinds
    OBVIOUS
  <2>1. Finish(p)
    <3>1. exit' # exit
      OBVIOUS
    <3>2. PICK q \in Procs : Step(q) \/ Crash(q) \/ Restart(q)
      BY <3>1 DEF Next, Finalized, Edit
    <3>3. q = p
      BY DEF OneProcess
    <3> QED
      BY <3>1, <3>2, <3>3
         DEF Step, ListISVCs, ListFails, Confirm, WriteBackup, DeleteISVC, WaitForISVCDeletion,
             Recreate, Rollback, DeleteIstioRoute, EnsureAuthResources, Crash, Restart
  <2>2. cmd[p] = "run" /\ todo[p] = {} /\ (~failed[p] => Under(p))
    BY <2>1 DEF Finish, Progress, AtWork
  <2>3. ~failed[p]
    BY <2>1, <2>2 DEF Finish, End, Status, IndInv, TypeOK
  <2> QED
    BY <2>2, <2>3 DEF Under, Converted
<1>4. Spec => [][Promise]_vars
  BY <1>1, <1>2, <1>3, IndInit, IndStep, PTL DEF Spec
<1> QED
  BY <1>4 DEF OkMeansConverted
=============================================================================

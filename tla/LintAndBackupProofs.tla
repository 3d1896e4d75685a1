------------------------- MODULE LintAndBackupProofs --------------------------
(***************************************************************************)
(* Proofs about Lint, for every cluster, every selection of the checks,    *)
(* every order of them and every number of outages and edits; and about    *)
(* BackupPipeline, for every set of types, instances and dependencies,     *)
(* every list of included types and every number of workers.               *)
(***************************************************************************)
EXTENDS Lint, BackupPipeline, WellFoundedInduction, TLAPS

-----------------------------------------------------------------------------
(* Lint: what a read that breaks down does to a check.                     *)

(* d is the cluster h as a command sees it some of whose reads break down. *)
(* Reads that are denied are left out. The list of the autoscalers, whose  *)
(* failure the capacity check passes over, breaks down with all others;    *)
(* the discovery, whose failure is passed over too, where v1 tells all.    *)
Blurs(d, h) ==
    /\ d.from = h.from /\ d.to = h.to /\ d.st = h.st /\ d.has = h.has /\ d.olm = h.olm
    /\ d.conds = h.conds /\ d.mon = h.mon /\ d.dash = h.dash /\ d.wls = h.wls
    /\ d.owned = h.owned /\ d.orch = h.orch /\ d.streams = h.streams /\ d.ootb = h.ootb
    /\ d.ists = h.ists /\ d.books = h.books /\ d.v1 = h.v1
    /\ d.disc = h.disc \/ V1TellsAll(h)
    /\ \A w \in h.wls : w.kind \in MonitoredWorkloadTypes
    /\ \A k \in Kinds : /\ h.fault[k] \in {"ok", "untyped"}
                        /\ d.fault[k] \in {h.fault[k], "down"}
    /\ d.fault["ClusterAutoscaler"] # "down" \/ d.fault["DSC"] = "down"

(* A result that leaves the exit code alone, and one that finds nothing.   *)
Alarms == {"advisory", "blocking", "prohibited"}
Silent(r) == r.err = "" /\ r.impacts \cap Alarms = {}
Clear(r) == r.err = "" /\ r.impacts \subseteq {"none"}

(* x is what a check says where reads break down and y what it says where  *)
(* none does: CanApply agrees if it answers, and a silent result is clear. *)
Answers(x, y) == (x = "no" => y = "no") /\ (x = "yes" => y = "yes")
Stands(x, y) == Answers(x.can, y.can) /\ (Silent(x.run) => Clear(y.run))

(* The two outcomes of a list.                                             *)
LEMMA Outcomes ==
    /\ \A s : Items(s).err = "" /\ Items(s).items = s
    /\ \A e : Fails(e).err = e /\ Fails(e).items = {}
BY DEF Items, Fails

(* The reads: each returns what is there or an error.                      *)
LEMMA BlurredReads ==
    ASSUME NEW d, NEW h, Blurs(d, h), NEW k \in Kinds, NEW x
    PROVE  /\ ListResources(d, k) = ListResources(h, k) \/ ListResources(d, k) = Fails("conn")
           /\ ListOrNone(d, k) = ListOrNone(h, k) \/ ListOrNone(d, k) = Fails("conn")
           /\ ListOrNone(h, k).err = ""
           /\ Get(d, k, x) \in {Get(h, k, x), "conn"}
           /\ Get(h, k, x) \in {"found", "notfound"}
           /\ Singleton(d, k) \in {Singleton(h, k), "conn"}
           /\ Singleton(h, k) \in {"", "notfound", "error"}
<1>1. /\ d.has = h.has /\ h.fault[k] \in {"ok", "untyped"}
      /\ d.fault[k] \in {h.fault[k], "down"}
  BY DEF Blurs
<1>2. /\ ListResources(d, k) = ListResources(h, k) \/ ListResources(d, k) = Fails("conn")
      /\ ListResources(h, k) = Items(h.has[k]) \/ ListResources(h, k) = Fails("notfound")
  BY <1>1 DEF ListResources
<1>3. /\ ListOrNone(d, k) = ListOrNone(h, k) \/ ListOrNone(d, k) = Fails("conn")
      /\ ListOrNone(h, k) = Items(h.has[k]) \/ ListOrNone(h, k) = Items({})
  BY <1>2, Outcomes DEF ListOrNone
<1>4. ListOrNone(h, k).err = ""
  BY <1>3, Outcomes
<1>5. /\ Get(d, k, x) \in {Get(h, k, x), "conn"}
      /\ Get(h, k, x) \in {"found", "notfound"}
  BY <1>1 DEF Get
<1>6. /\ Singleton(d, k) \in {Singleton(h, k), "conn"}
      /\ Singleton(h, k) \in {"", "notfound", "error"}
  <2> DEFINE L(c) == IF c.disc \/ c.v1.served \/ c.fault[k] = "down" THEN ListOrNone(c, k)
                     ELSE Items({})
  <2>1. (d.disc \/ d.v1.served) = (h.disc \/ h.v1.served)
    BY DEF Blurs, V1TellsAll
  <2>2. h.fault[k] # "down" /\ (d.fault[k] = "down" => ListOrNone(d, k) = Fails("conn"))
    <3>1. d.fault[k] = "down" => ListResources(d, k) = Fails("conn")
      BY DEF ListResources
    <3> QED
      BY <1>1, <3>1, Outcomes DEF ListOrNone
  <2>3. L(d) = L(h) \/ L(d) = Fails("conn")
    BY <1>3, <2>1, <2>2
  <2>4. L(h).err = ""
    BY <1>4, Outcomes
  <2>5. CASE L(d) = L(h)
    BY <2>4, <2>5 DEF Singleton
  <2>6. CASE L(d) = Fails("conn")
    <3>1. L(d).err = "conn"
      BY <2>6, Outcomes
    <3>2. Singleton(d, k) = "conn"
      BY <3>1 DEF Singleton
    <3> QED
      BY <2>4, <3>2 DEF Singleton
  <2> QED
    BY <2>3, <2>5, <2>6
<1> QED
  BY <1>2, <1>3, <1>4, <1>5, <1>6

(* What is read of the DataScienceCluster does not depend on its version.  *)
LEMMA BlurredObject ==
    ASSUME NEW d, NEW h, Blurs(d, h)
    PROVE  /\ Hidden(d) = Hidden(h) /\ Fields(d) = Fields(h)
           /\ \A x : StateOf(d, x) = StateOf(h, x)
           /\ \A x, states : HasState(d, x, states) = HasState(h, x, states)
<1>1. Hidden(d) = Hidden(h)
  BY DEF Blurs, V1TellsAll, Hidden
<1>2. Fields(d) = Fields(h) /\ \A x : StateOf(d, x) = StateOf(h, x)
  BY <1>1 DEF Blurs, Fields, StateOf
<1> QED
  BY <1>1, <1>2 DEF HasState

(* And what is made of several reads.                                      *)
LEMMA BlurredLookups ==
    ASSUME NEW d, NEW h, Blurs(d, h)
    PROVE  /\ AppNamespace(d) \in {AppNamespace(h), "conn"}
           /\ AppNamespace(h) \in {"", "notfound", "error"}
           /\ FindOperator(d) = FindOperator(h) \/ FindOperator(d) = Fails("conn")
           /\ DetectOpenShiftVersion(d) \in {DetectOpenShiftVersion(h), "conn"}
           /\ DetectOpenShiftVersion(h) \in {"", "notfound"}
<1>0. {"DSCI", "Subscription", "ClusterVersion"} \subseteq Kinds
  BY DEF Kinds
<1>1. /\ AppNamespace(d) \in {AppNamespace(h), "conn"}
      /\ AppNamespace(h) \in {"", "notfound", "error"}
  <2>1. /\ Singleton(d, "DSCI") \in {Singleton(h, "DSCI"), "conn"}
        /\ Singleton(h, "DSCI") \in {"", "notfound", "error"}
    BY <1>0, BlurredReads
  <2> QED
    BY <2>1 DEF AppNamespace, Blurs
<1>2. FindOperator(d) = FindOperator(h) \/ FindOperator(d) = Fails("conn")
  <2>1. \/ ListResources(d, "Subscription") = ListResources(h, "Subscription")
        \/ ListResources(d, "Subscription") = Fails("conn")
    BY <1>0, BlurredReads
  <2> QED
    BY <1>0, <2>1 DEF FindOperator, Blurs
<1>3. /\ DetectOpenShiftVersion(d) \in {DetectOpenShiftVersion(h), "conn"}
      /\ DetectOpenShiftVersion(h) \in {"", "notfound"}
  <2>1. /\ Get(d, "ClusterVersion", "it") \in {Get(h, "ClusterVersion", "it"), "conn"}
        /\ Get(h, "ClusterVersion", "it") \in {"found", "notfound"}
    BY <1>0, BlurredReads
  <2> QED
    BY <2>1 DEF DetectOpenShiftVersion
<1> QED
  BY <1>1, <1>2, <1>3

(* The results: an error is never silent, a finding is when it is no       *)
(* alarm, and then it is clear.                                            *)
LEMMA Findings ==
    /\ \A e : Silent(Errs(e)) => e = ""
    /\ \A b \in BOOLEAN, i \in Alarms : /\ Silent(Found(b, i)) <=> ~b
                                        /\ Clear(Found(b, i)) <=> ~b
    /\ Clear(Finds({"none"})) /\ Clear(NilResult)
    /\ Clear(Errs("")) /\ \A b : Clear(Found(b, "none"))
    /\ \A i \in Alarms : ~Silent(Finds({i}))
    /\ \A b, i : i \in Alarms /\ Silent(Found(b, i)) => Clear(Found(b, i))
<1>1. \A s : Finds(s).err = "" /\ Finds(s).impacts = s
  BY DEF Finds
<1>2. \A e : Errs(e).err = e /\ Errs(e).impacts = {}
  BY DEF Errs
<1>3. ASSUME NEW b \in BOOLEAN, NEW i \in Alarms
      PROVE  (Silent(Found(b, i)) <=> ~b) /\ (Clear(Found(b, i)) <=> ~b)
  <2>1. CASE b
    <3>1. Found(b, i).err = "" /\ Found(b, i).impacts = {i}
      BY <1>1, <2>1 DEF Found
    <3>2. i \in {i} \cap Alarms /\ i # "none"
      BY DEF Alarms
    <3> QED
      BY <2>1, <3>1, <3>2 DEF Silent, Clear
  <2>2. CASE ~b
    <3>1. Found(b, i).err = "" /\ Found(b, i).impacts = {"none"}
      BY <1>1, <2>2 DEF Found
    <3>2. {"none"} \cap Alarms = {}
      BY DEF Alarms
    <3> QED
      BY <2>2, <3>1, <3>2 DEF Silent, Clear
  <2> QED
    BY <2>1, <2>2
<1>4. ASSUME NEW b, NEW i \in Alarms, Silent(Found(b, i))
      PROVE  Clear(Found(b, i))
  <2>1. Found(b, i) = Found(TRUE, i) \/ Found(b, i) = Found(FALSE, i)
    BY DEF Found
  <2> QED
    BY <1>3, <1>4, <2>1
<1>5. \A b, i : i \in Alarms /\ Silent(Found(b, i)) => Clear(Found(b, i))
  BY <1>4
<1>6. \A e : Silent(Errs(e)) => e = ""
  BY <1>2 DEF Silent
<1>7. Clear(Finds({"none"})) /\ Clear(NilResult) /\ \A b : Clear(Found(b, "none"))
  <2>1. Finds({"none"}).err = "" /\ Finds({"none"}).impacts = {"none"}
    BY DEF Finds
  <2>2. Clear(Finds({"none"}))
    BY <2>1 DEF Clear
  <2>3. NilResult.err = "" /\ NilResult.impacts = {}
    BY DEF NilResult, Finds
  <2>4. \A b : Found(b, "none") = Finds({"none"})
    BY DEF Found
  <2> QED
    BY <2>2, <2>3, <2>4 DEF Clear
<1>8. Clear(Errs(""))
  BY <1>2 DEF Clear
<1>9. ASSUME NEW i \in Alarms PROVE ~Silent(Finds({i}))
  <2>1. Finds({i}).impacts = {i}
    BY DEF Finds
  <2>2. i \in {i} \cap Alarms
    OBVIOUS
  <2> QED
    BY <2>1, <2>2 DEF Silent
<1> QED
  BY <1>3, <1>5, <1>6, <1>7, <1>8, <1>9

(* The builders: what a check makes of an object it reads first.           *)
LEMMA BuilderStands ==
    ASSUME NEW d, NEW h, Blurs(d, h), NEW r, NEW q, Silent(r) => Clear(q)
    PROVE  /\ \A k \in Kinds : Silent(OnSingleton(d, k, r)) => Clear(OnSingleton(h, k, q))
           /\ Silent(ComponentNS(d, r)) => Clear(ComponentNS(h, q))
           /\ \A x, states : Silent(Component(d, x, states, r)) => Clear(Component(h, x, states, q))
<1>1. ASSUME NEW k \in Kinds, NEW r1, NEW q1, Silent(r1) => Clear(q1)
      PROVE  Silent(OnSingleton(d, k, r1)) => Clear(OnSingleton(h, k, q1))
  <2>1. /\ Singleton(d, k) \in {Singleton(h, k), "conn"}
        /\ Singleton(h, k) \in {"", "notfound", "error"}
    BY BlurredReads
  <2>2. ~Silent(Finds({"advisory"}))
    BY Findings DEF Alarms
  <2> QED
    BY <1>1, <2>1, <2>2, Findings DEF OnSingleton
<1>2. "DSC" \in Kinds
  BY DEF Kinds
<1>3. Silent(ComponentNS(d, r)) => Clear(ComponentNS(h, q))
  <2> DEFINE R == IF AppNamespace(d) = "notfound" THEN Finds({"advisory"})
                  ELSE IF AppNamespace(d) # "" THEN Errs(AppNamespace(d)) ELSE r
             Q == IF AppNamespace(h) = "notfound" THEN Finds({"advisory"})
                  ELSE IF AppNamespace(h) # "" THEN Errs(AppNamespace(h)) ELSE q
  <2>1. /\ AppNamespace(d) \in {AppNamespace(h), "conn"}
        /\ AppNamespace(h) \in {"", "notfound", "error"}
    BY BlurredLookups
  <2>2. ~Silent(Finds({"advisory"}))
    BY Findings DEF Alarms
  <2>3. Silent(R) => Clear(Q)
    BY <2>1, <2>2, Findings
  <2>4. ComponentNS(d, r) = OnSingleton(d, "DSC", R) /\ ComponentNS(h, q) = OnSingleton(h, "DSC", Q)
    BY DEF ComponentNS
  <2> HIDE DEF R, Q
  <2> QED
    BY <1>1, <1>2, <2>3, <2>4
<1>4. ASSUME NEW x, NEW states
      PROVE  Silent(Component(d, x, states, r)) => Clear(Component(h, x, states, q))
  <2> DEFINE R == IF HasState(d, x, states) THEN r ELSE Finds({"none"})
             Q == IF HasState(h, x, states) THEN q ELSE Finds({"none"})
  <2>0. HasState(d, x, states) = HasState(h, x, states)
    BY BlurredObject
  <2>1. Silent(R) => Clear(Q)
    BY <2>0, Findings
  <2>2. /\ Component(d, x, states, r) = OnSingleton(d, "DSC", R)
        /\ Component(h, x, states, q) = OnSingleton(h, "DSC", Q)
    BY DEF Component
  <2> HIDE DEF R, Q
  <2> QED
    BY <1>1, <1>2, <2>1, <2>2
<1> QED
  BY <1>1, <1>3, <1>4

(* The guards: what CanApply answers.                                      *)
LEMMA GuardAnswers ==
    ASSUME NEW d, NEW h, Blurs(d, h)
    PROVE  /\ \A g, xs, states : Answers(When(g, d, xs, states), When(g, h, xs, states))
           /\ IsUpgradeFrom2xTo3x(d) = IsUpgradeFrom2xTo3x(h)
           /\ IsUpgradeFrom34To35(d) = IsUpgradeFrom34To35(h)
           /\ CrossesTo36(d) = CrossesTo36(h)
<1>1. /\ Singleton(d, "DSC") \in {Singleton(h, "DSC"), "conn"}
      /\ Singleton(h, "DSC") \in {"", "notfound", "error"}
  <2>1. "DSC" \in Kinds
    BY DEF Kinds
  <2> QED
    BY <2>1, BlurredReads
<1>2. ASSUME NEW xs, NEW states
      PROVE  (\E x \in xs : HasState(d, x, states)) = (\E x \in xs : HasState(h, x, states))
  BY BlurredObject
<1>3. ASSUME NEW g, NEW xs, NEW states
      PROVE  Answers(When(g, d, xs, states), When(g, h, xs, states))
  BY <1>1, <1>2 DEF When, Answers
<1> QED
  BY <1>3 DEF Blurs, IsUpgradeFrom2xTo3x, IsUpgradeFrom34To35, CrossesTo36

(* A check of every upgrade from 2.x to 3.x, and one that always applies.  *)
LEMMA PlainGuards ==
    ASSUME NEW d, NEW h, Blurs(d, h), NEW r, NEW q, Silent(r) => Clear(q)
    PROVE  /\ Stands(On2xTo3x(d, r), On2xTo3x(h, q))
           /\ Stands(Always(r), Always(q))
BY GuardAnswers DEF On2xTo3x, Always, Stands, Answers

(* A component that goes away or is renamed.                               *)
LEMMA DepartureStands ==
    ASSUME NEW d, NEW h, Blurs(d, h), NEW g, NEW x, NEW i \in Impacts
    PROVE  Stands(Departure(d, g, x, i), Departure(h, g, x, i))
<1>1. Silent(Finds({i})) => Clear(Finds({i}))
  BY Findings DEF Impacts, Alarms
<1>2. Silent(Component(d, x, Managed, Finds({i}))) => Clear(Component(h, x, Managed, Finds({i})))
  BY <1>1, BuilderStands
<1> QED
  BY <1>2, GuardAnswers DEF Departure, Stands

LEMMA DeparturesStand ==
    ASSUME NEW d, NEW h, Blurs(d, h)
    PROVE  /\ Stands(CodeFlareRemoval(d), CodeFlareRemoval(h))
           /\ Stands(PipelinesRenaming(d), PipelinesRenaming(h))
           /\ Stands(FeastRenaming(d), FeastRenaming(h))
           /\ Stands(ModelRegistryRenaming(d), ModelRegistryRenaming(h))
           /\ Stands(LlamaStackRemoval(d), LlamaStackRemoval(h))
           /\ Stands(ModelMeshRemoval(d), ModelMeshRemoval(h))
           /\ Stands(TrainingOperatorRemoval(d), TrainingOperatorRemoval(h))
           /\ Stands(TrainingOperatorDeprecation(d), TrainingOperatorDeprecation(h))
<1>1. d.to = h.to /\ IsUpgradeFrom2xTo3x(d) = IsUpgradeFrom2xTo3x(h)
  BY GuardAnswers DEF Blurs
<1>2. {"blocking", "advisory", "none"} \subseteq Impacts
  BY DEF Impacts
<1>3. /\ Stands(CodeFlareRemoval(d), CodeFlareRemoval(h))
      /\ Stands(PipelinesRenaming(d), PipelinesRenaming(h))
      /\ Stands(ModelMeshRemoval(d), ModelMeshRemoval(h))
  BY <1>1, <1>2, DepartureStands DEF CodeFlareRemoval, PipelinesRenaming, ModelMeshRemoval
<1>4. /\ Stands(FeastRenaming(d), FeastRenaming(h))
      /\ Stands(ModelRegistryRenaming(d), ModelRegistryRenaming(h))
  BY <1>1, <1>2, DepartureStands DEF FeastRenaming, ModelRegistryRenaming
<1>5. Stands(LlamaStackRemoval(d), LlamaStackRemoval(h))
  BY <1>1, <1>2, DepartureStands DEF LlamaStackRemoval
<1>6. /\ Stands(TrainingOperatorRemoval(d), TrainingOperatorRemoval(h))
      /\ Stands(TrainingOperatorDeprecation(d), TrainingOperatorDeprecation(h))
  BY <1>1, <1>2, DepartureStands DEF TrainingOperatorRemoval, TrainingOperatorDeprecation
<1> QED
  BY <1>3, <1>4, <1>5, <1>6

(* A list that breaks down is an error, any other one is the list itself.  *)
LEMMA ListsStand ==
    ASSUME NEW d, NEW h, Blurs(d, h), NEW k \in Kinds
    PROVE  /\ ListResources(d, k).err = "" => ListResources(d, k) = ListResources(h, k)
           /\ ListOrNone(d, k).err = "" => ListOrNone(d, k) = ListOrNone(h, k)
           /\ ListOrNone(h, k).err = ""
<1>1. /\ ListResources(d, k) = ListResources(h, k) \/ ListResources(d, k) = Fails("conn")
      /\ ListOrNone(d, k) = ListOrNone(h, k) \/ ListOrNone(d, k) = Fails("conn")
      /\ ListOrNone(h, k).err = ""
  BY BlurredReads
<1>2. Fails("conn").err # ""
  BY DEF Fails
<1> QED
  BY <1>1, <1>2

(* An operator that is looked for among the Subscriptions.                 *)
LEMMA OperatorStands ==
    ASSUME NEW d, NEW h, Blurs(d, h), NEW tag, NEW i \in Impacts, NEW j \in Impacts
    PROVE  Silent(Operator(d, tag, i, j)) => Clear(Operator(h, tag, i, j))
<1>1. /\ d.olm = h.olm
      /\ FindOperator(d) = FindOperator(h) \/ FindOperator(d) = Fails("conn")
  BY BlurredLookups DEF Blurs
<1>2. \A x \in Impacts : Silent(Finds({x})) => Clear(Finds({x}))
  BY Findings DEF Impacts, Alarms
<1>3. CASE FindOperator(d) = FindOperator(h)
  <2>1. Operator(d, tag, i, j) = Operator(h, tag, i, j)
    BY <1>1, <1>3 DEF Operator
  <2>2. \/ Operator(h, tag, i, j) = Finds({i}) \/ Operator(h, tag, i, j) = Finds({j})
        \/ \E e : Operator(h, tag, i, j) = Errs(e) /\ e # ""
    BY DEF Operator, With
  <2> QED
    BY <1>2, <2>1, <2>2, Findings
<1>4. CASE FindOperator(d) = Fails("conn")
  <2>1. CASE d.olm
    <3>1. FindOperator(d).err = "conn"
      BY <1>4, Outcomes
    <3> QED
      BY <2>1, <3>1, Findings DEF Operator, With
  <2>2. CASE ~d.olm
    BY <1>1, <1>2, <2>2 DEF Operator
  <2> QED
    BY <2>1, <2>2
<1> QED
  BY <1>1, <1>3, <1>4

(* The dashboard's checks.                                                 *)
LEMMA DashboardStands ==
    ASSUME NEW d, NEW h, Blurs(d, h)
    PROVE  /\ Stands(AcceleratorProfiles(d), AcceleratorProfiles(h))
           /\ Stands(HardwareProfiles(d), HardwareProfiles(h))
           /\ Stands(DashboardAuthModel(d), DashboardAuthModel(h))
           /\ Stands(DashboardConfig(d), DashboardConfig(h))
           /\ Stands(DashboardRoute(d), DashboardRoute(h))
           /\ Stands(RolloutStrategy(d), RolloutStrategy(h))
           /\ Stands(ResourceCapacity(d), ResourceCapacity(h))
<1>0. /\ {"AcceleratorProfile", "HardwareProfile", "Pod", "Route", "OdhDashboardConfig",
          "Deployment", "Node", "ClusterAutoscaler", "DSC"} \subseteq Kinds
      /\ "advisory" \in Alarms /\ "blocking" \in Alarms
  BY DEF Kinds, Alarms
<1>1. Stands(AcceleratorProfiles(d), AcceleratorProfiles(h))
  <2> DEFINE F(s) == Found(s # {}, "advisory")
  <2>1. Silent(WorkloadsRun(d, "AcceleratorProfile", F)) => Clear(WorkloadsRun(h, "AcceleratorProfile", F))
    BY <1>0, ListsStand, Findings DEF WorkloadsRun, With
  <2> QED
    BY <2>1, PlainGuards DEF AcceleratorProfiles
<1>2. Stands(HardwareProfiles(d), HardwareProfiles(h))
  <2> DEFINE F(s) == Found(s # {}, "advisory")
  <2>1. Silent(WorkloadsRun(d, "HardwareProfile", F)) => Clear(WorkloadsRun(h, "HardwareProfile", F))
    BY <1>0, ListsStand, Findings DEF WorkloadsRun, With
  <2> QED
    BY <2>1, PlainGuards DEF HardwareProfiles
<1>3. Stands(DashboardAuthModel(d), DashboardAuthModel(h))
  <2> DEFINE F(s) == Found("oauth" \in s, "advisory")
  <2>1. Silent(With(ListResources(d, "Pod"), F)) => Clear(With(ListResources(h, "Pod"), F))
    BY <1>0, ListsStand, Findings DEF With
  <2> QED
    BY <2>1, BuilderStands, PlainGuards DEF DashboardAuthModel
<1>4. Stands(DashboardConfig(d), DashboardConfig(h))
  <2> DEFINE R(g) == IF g = "conn" THEN Errs(g) ELSE Found(g # "found", "advisory")
             D == Get(d, "OdhDashboardConfig", "it")
             H == Get(h, "OdhDashboardConfig", "it")
  <2>1. D \in {H, "conn"} /\ H \in {"found", "notfound"}
    BY <1>0, BlurredReads
  <2>2. Silent(R(D)) => Clear(R(H))
    BY <1>0, <2>1, Findings
  <2> QED
    BY <2>2, BuilderStands, PlainGuards DEF DashboardConfig
<1>5. Stands(DashboardRoute(d), DashboardRoute(h))
  <2> DEFINE F(s) == Found("legacy" \in s, "advisory")
  <2>1. Silent(With(ListResources(d, "Route"), F)) => Clear(With(ListResources(h, "Route"), F))
    BY <1>0, ListsStand, Findings DEF With
  <2> QED
    BY <2>1, BuilderStands, PlainGuards DEF DashboardRoute
<1>6. Stands(RolloutStrategy(d), RolloutStrategy(h))
  <2> DEFINE R(c, g) == IF g = "conn" THEN Errs(g)
                        ELSE IF g # "found" \/ "recreate" \in c.has["Deployment"] THEN Finds({"none"})
                        ELSE Found(SurgeOnly(c.dash), "advisory")
             D == Get(d, "Deployment", "dashboard")
             H == Get(h, "Deployment", "dashboard")
  <2>1. D \in {H, "conn"} /\ H \in {"found", "notfound"} /\ d.has = h.has /\ d.dash = h.dash
    BY <1>0, BlurredReads DEF Blurs
  <2>2. Silent(R(d, D)) => Clear(R(h, H))
    BY <1>0, <2>1, Findings
  <2> QED
    BY <2>2, BuilderStands, PlainGuards DEF RolloutStrategy
<1>7. Stands(ResourceCapacity(d), ResourceCapacity(h))
  <2> DEFINE R(c, g, pods, nodes, scaler) ==
                 IF g = "conn" THEN Errs(g)
                 ELSE IF g # "found" /\ pods.err # "" THEN Errs(pods.err)
                 ELSE IF ~(g = "found" \/ "dashboard" \in pods.items) THEN Finds({"none"})
                 ELSE IF nodes.err # "" THEN Errs(nodes.err)
                 ELSE IF ~AnyNodeFits(c.dash, nodes.items) THEN Finds({"blocking"})
                 ELSE Found(scaler.err = "" /\ scaler.items = {}, "advisory")
             X(c) == R(c, Get(c, "Deployment", "dashboard"), ListResources(c, "Pod"),
                       ListResources(c, "Node"), ListResources(c, "ClusterAutoscaler"))
  <2>1. /\ Get(d, "Deployment", "dashboard") \in {Get(h, "Deployment", "dashboard"), "conn"}
        /\ d.dash = h.dash
    BY <1>0, BlurredReads DEF Blurs
  <2>0. /\ ListResources(d, "Pod").err = "" => ListResources(d, "Pod") = ListResources(h, "Pod")
        /\ ListResources(d, "Node").err = "" => ListResources(d, "Node") = ListResources(h, "Node")
    BY <1>0, ListsStand
  <2>2. CASE d.fault["ClusterAutoscaler"] # "down"
    <3>1. ListResources(d, "ClusterAutoscaler") = ListResources(h, "ClusterAutoscaler")
      BY <1>0, <2>2 DEF Blurs, ListResources
    <3>2. Silent(X(d)) => Clear(X(h))
      BY <1>0, <2>0, <2>1, <3>1, Findings
    <3> HIDE DEF X
    <3>3. Silent(ComponentNS(d, X(d))) => Clear(ComponentNS(h, X(h)))
      BY <3>2, BuilderStands
    <3> USE DEF X
    <3> QED
      BY <3>3, PlainGuards DEF ResourceCapacity
  <2>3. CASE d.fault["DSC"] = "down"
    <3>1. Singleton(d, "DSC") = "conn"
      <4>1. ListOrNone(d, "DSC").err = "conn"
        BY <2>3 DEF ListOrNone, ListResources, Fails
      <4> QED
        BY <2>3, <4>1 DEF Singleton
    <3>2. ~Silent(ComponentNS(d, X(d)))
      BY <3>1, Findings DEF ComponentNS, OnSingleton
    <3> QED
      BY <3>2, PlainGuards DEF ResourceCapacity
  <2> QED
    BY <2>2, <2>3 DEF Blurs
<1> QED
  BY <1>1, <1>2, <1>3, <1>4, <1>5, <1>6, <1>7

(* KServe's checks and the one of the field that moves.                    *)
LEMMA ServingStands ==
    ASSUME NEW d, NEW h, Blurs(d, h)
    PROVE  /\ Stands(MaaSFieldMigration(d), MaaSFieldMigration(h))
           /\ Stands(AuthorinoTLSReadiness(d), AuthorinoTLSReadiness(h))
           /\ Stands(KuadrantReadiness(d), KuadrantReadiness(h))
           /\ Stands(ServerlessRemoval(d), ServerlessRemoval(h))
           /\ Stands(ServiceMeshOperator(d), ServiceMeshOperator(h))
           /\ Stands(ServiceMeshRemoval(d), ServiceMeshRemoval(h))
           /\ Stands(WVARemoval(d), WVARemoval(h))
<1>0. /\ {"DSC", "DSCI", "LLMInferenceService", "Authorino", "Kuadrant", "Subscription", "Deployment",
          "CRD", "VariantAutoscaling", "ConfigMap"} \subseteq Kinds
      /\ "advisory" \in Alarms /\ "blocking" \in Alarms
  BY DEF Kinds, Alarms
<1>1. /\ d.from = h.from /\ d.to = h.to /\ d.has = h.has /\ d.olm = h.olm
      /\ Fields(d) = Fields(h)
      /\ Singleton(d, "DSC") \in {Singleton(h, "DSC"), "conn"}
      /\ Singleton(h, "DSC") \in {"", "notfound", "error"}
  <2>1. d.from = h.from /\ d.to = h.to /\ d.has = h.has /\ d.olm = h.olm
    BY DEF Blurs
  <2>2. Fields(d) = Fields(h)
    BY BlurredObject
  <2>3. /\ Singleton(d, "DSC") \in {Singleton(h, "DSC"), "conn"}
        /\ Singleton(h, "DSC") \in {"", "notfound", "error"}
    BY <1>0, BlurredReads
  <2> QED
    BY <2>1, <2>2, <2>3
<1>2. Stands(MaaSFieldMigration(d), MaaSFieldMigration(h))
  <2> DEFINE R(c) == Found("maas" \in Fields(c), "advisory")
  <2>1. Silent(R(d)) => Clear(R(h))
    BY <1>0, <1>1, Findings
  <2>2. Silent(OnSingleton(d, "DSC", R(d))) => Clear(OnSingleton(h, "DSC", R(h)))
    BY <1>0, <2>1, BuilderStands
  <2>3. Answers(MaaSFieldMigration(d).can, MaaSFieldMigration(h).can)
    BY <1>1 DEF MaaSFieldMigration, Answers
  <2> QED
    BY <2>2, <2>3 DEF MaaSFieldMigration, Stands
<1>3. Answers(WithLLMInferenceServices(d), WithLLMInferenceServices(h))
  <2>1. /\ \/ ListOrNone(d, "LLMInferenceService") = ListOrNone(h, "LLMInferenceService")
           \/ ListOrNone(d, "LLMInferenceService") = Fails("conn")
        /\ ListOrNone(h, "LLMInferenceService").err = ""
    BY <1>0, BlurredReads
  <2>2. Fails("conn").err = "conn"
    BY DEF Fails
  <2> QED
    BY <2>1, <2>2, GuardAnswers DEF WithLLMInferenceServices, Answers
<1>4. ASSUME NEW k \in Kinds, NEW more
      PROVE  Silent(ReadyObject(d, k, more)) => Clear(ReadyObject(h, k, more))
  <2>1. Get(d, k, "it") \in {Get(h, k, "it"), "conn"} /\ Get(h, k, "it") \in {"found", "notfound"}
    BY BlurredReads
  <2> QED
    BY <1>0, <1>1, <2>1, Findings DEF ReadyObject
<1>5. /\ Stands(AuthorinoTLSReadiness(d), AuthorinoTLSReadiness(h))
      /\ Stands(KuadrantReadiness(d), KuadrantReadiness(h))
  BY <1>0, <1>3, <1>4 DEF AuthorinoTLSReadiness, KuadrantReadiness, Stands
<1>6. Stands(ServerlessRemoval(d), ServerlessRemoval(h))
  <2> DEFINE R(c) == Found("serving" \in Fields(c), "blocking")
  <2>1. Silent(R(d)) => Clear(R(h))
    BY <1>0, <1>1, Findings
  <2>2. Silent(Component(d, "kserve", Managed, R(d))) => Clear(Component(h, "kserve", Managed, R(h)))
    BY <2>1, BuilderStands
  <2> QED
    BY <2>2, GuardAnswers DEF ServerlessRemoval, Stands
<1>7. Stands(ServiceMeshOperator(d), ServiceMeshOperator(h))
  <2>1. Silent(Operator(d, "sm2", "advisory", "none")) => Clear(Operator(h, "sm2", "advisory", "none"))
    BY OperatorStands DEF Impacts
  <2> QED
    BY <2>1, PlainGuards DEF ServiceMeshOperator
<1>8. Stands(ServiceMeshRemoval(d), ServiceMeshRemoval(h))
  <2> DEFINE R(c) == Finds({IF "mesh" \in c.has["DSCI"] THEN "blocking"
                            ELSE IF "nomesh" \in c.has["DSCI"] THEN "advisory"
                            ELSE "none"})
  <2>1. Silent(R(d)) => Clear(R(h))
    BY <1>0, <1>1, Findings
  <2>2. Silent(OnSingleton(d, "DSCI", R(d))) => Clear(OnSingleton(h, "DSCI", R(h)))
    BY <1>0, <2>1, BuilderStands
  <2> QED
    BY <2>2, PlainGuards DEF ServiceMeshRemoval
<1>9. Stands(WVARemoval(d), WVARemoval(h))
  <2> DEFINE R(c, deploy, crd, vas, cm) ==
                 IF "conn" \in {deploy, crd, cm} THEN Errs("conn")
                 ELSE IF crd = "found" /\ vas.err # "" THEN Errs(vas.err)
                 ELSE Finds({IF \/ "wva" \in Fields(c)
                                \/ deploy = "found"
                                \/ crd = "found" /\ vas.items # {} THEN "blocking"
                             ELSE IF crd = "found" \/ (cm = "found" /\ "wvakey" \in c.has["ConfigMap"])
                             THEN "advisory"
                             ELSE "none"})
             X(c) == R(c, Get(c, "Deployment", "wva"), Get(c, "CRD", "va"),
                       ListOrNone(c, "VariantAutoscaling"), Get(c, "ConfigMap", "isvcconfig"))
  <2>1. /\ Get(d, "Deployment", "wva") \in {Get(h, "Deployment", "wva"), "conn"}
        /\ Get(h, "Deployment", "wva") # "conn"
    BY <1>0, BlurredReads
  <2>2. /\ Get(d, "CRD", "va") \in {Get(h, "CRD", "va"), "conn"}
        /\ Get(h, "CRD", "va") # "conn"
    BY <1>0, BlurredReads
  <2>3. /\ Get(d, "ConfigMap", "isvcconfig") \in {Get(h, "ConfigMap", "isvcconfig"), "conn"}
        /\ Get(h, "ConfigMap", "isvcconfig") # "conn"
    BY <1>0, BlurredReads
  <2>4. /\ ListOrNone(h, "VariantAutoscaling").err = ""
        /\ ListOrNone(d, "VariantAutoscaling").err = "" =>
             ListOrNone(d, "VariantAutoscaling") = ListOrNone(h, "VariantAutoscaling")
    BY <1>0, ListsStand
  <2>5. Silent(X(d)) => Clear(X(h))
    BY <1>0, <1>1, <2>1, <2>2, <2>3, <2>4, Findings
  <2> HIDE DEF X
  <2>6. Silent(ComponentNS(d, X(d))) => Clear(ComponentNS(h, X(h)))
    BY <2>5, BuilderStands
  <2> USE DEF X
  <2>7. /\ WVARemoval(d).run = ComponentNS(d, X(d)) /\ WVARemoval(h).run = ComponentNS(h, X(h))
        /\ WVARemoval(d).can = Yes(CrossesTo36(d)) /\ WVARemoval(h).can = Yes(CrossesTo36(h))
    BY DEF WVARemoval
  <2> QED
    BY <2>6, <2>7, GuardAnswers DEF Stands, Answers
<1> QED
  BY <1>2, <1>5, <1>6, <1>7, <1>8, <1>9

(* Kueue: the lists of several kinds, of which one may break down.         *)
LEMMA FailuresStand ==
    ASSUME NEW d, NEW h, Blurs(d, h), NEW ks, ks \subseteq Kinds
    PROVE  /\ FirstFailure(h, ks) = ""
           /\ FirstFailure(d, ks) = "" => \A k \in ks : ListOrNone(d, k) = ListOrNone(h, k)
<1>1. \A k \in ks : /\ ListOrNone(h, k).err = ""
                    /\ ListOrNone(d, k).err = "" => ListOrNone(d, k) = ListOrNone(h, k)
  BY ListsStand
<1>2. FirstFailure(h, ks) = ""
  BY <1>1 DEF FirstFailure
<1>3. ASSUME FirstFailure(d, ks) = "", NEW k \in ks
      PROVE  ListOrNone(d, k).err = ""
  <2> DEFINE bad == {ListOrNone(d, j).err : j \in ks} \ {""}
  <2>1. FirstFailure(d, ks) = IF bad = {} THEN "" ELSE CHOOSE e \in bad : TRUE
    BY DEF FirstFailure
  <2>2. bad # {} => (CHOOSE e \in bad : TRUE) \in bad
    OBVIOUS
  <2>3. bad = {}
    BY <1>3, <2>1, <2>2
  <2> QED
    BY <2>3
<1> QED
  BY <1>1, <1>2, <1>3

(* Once no list of a monitored type broke down, the workloads are all      *)
(* there.                                                                  *)
LEMMA WorkloadsListed ==
    ASSUME NEW d, NEW h, Blurs(d, h), FirstFailure(d, MonitoredWorkloadTypes) = ""
    PROVE  Listed(d) = Listed(h) /\ LabeledNamespaces(d) = LabeledNamespaces(h)
<1>1. MonitoredWorkloadTypes \subseteq Kinds
  BY DEF MonitoredWorkloadTypes, Kinds
<1>2. ASSUME NEW k \in MonitoredWorkloadTypes PROVE d.fault[k] = h.fault[k]
  <2>1. /\ h.fault[k] \in {"ok", "untyped"} /\ d.fault[k] \in {h.fault[k], "down"}
    BY <1>1 DEF Blurs
  <2>2. ListOrNone(d, k).err = ""
    <3>1. ListOrNone(d, k) = ListOrNone(h, k)
      BY <1>1, FailuresStand
    <3>2. ListOrNone(h, k).err = ""
      BY <1>1, ListsStand
    <3> QED
      BY <3>1, <3>2
  <2>3. d.fault[k] = "down" => ListOrNone(d, k).err = "conn"
    BY DEF ListOrNone, ListResources, Fails
  <2> QED
    BY <2>1, <2>2, <2>3
<1>3. Listed(d) = Listed(h)
  BY <1>2 DEF Listed, Blurs
<1> QED
  BY <1>3 DEF LabeledNamespaces

LEMMA KueueStands ==
    ASSUME NEW d, NEW h, Blurs(d, h)
    PROVE  /\ Stands(KueueManagementState(d), KueueManagementState(h))
           /\ Stands(KueueOperatorInstalled(d), KueueOperatorInstalled(h))
           /\ Stands(KueueDataIntegrity(d), KueueDataIntegrity(h))
<1>0. /\ {"Namespace", "LocalQueue", "DSC"} \subseteq Kinds
      /\ MonitoredWorkloadTypes \subseteq Kinds /\ IntermediateTypes \subseteq Kinds
      /\ "advisory" \in Alarms /\ "blocking" \in Alarms /\ "prohibited" \in Alarms
  BY DEF Kinds, Alarms, MonitoredWorkloadTypes, IntermediateTypes
<1>1. /\ d.st = h.st /\ d.has = h.has /\ d.owned = h.owned
      /\ Fields(d) = Fields(h) /\ StateOf(d, "kueue") = StateOf(h, "kueue")
  BY BlurredObject DEF Blurs
<1>2. /\ ListResources(d, "Namespace").err = "" =>
           ListResources(d, "Namespace") = ListResources(h, "Namespace")
      /\ ListOrNone(d, "LocalQueue").err = "" => ListOrNone(d, "LocalQueue") = ListOrNone(h, "LocalQueue")
      /\ ListOrNone(h, "LocalQueue").err = ""
  BY <1>0, ListsStand
<1>3. /\ FirstFailure(h, MonitoredWorkloadTypes) = "" /\ FirstFailure(h, IntermediateTypes) = ""
      /\ FirstFailure(d, MonitoredWorkloadTypes) = "" =>
           Listed(d) = Listed(h) /\ LabeledNamespaces(d) = LabeledNamespaces(h)
  BY <1>0, FailuresStand, WorkloadsListed
<1>4. KueueInUse(d).err = "" => KueueInUse(d) = KueueInUse(h)
  BY <1>2, <1>3, Outcomes DEF KueueInUse
<1>5. ASSUME NEW i \in {"none", "prohibited"}
      PROVE  Silent(WithDefaultQueueWarning(d, i)) =>
               i = "none" /\ Clear(WithDefaultQueueWarning(h, i))
  <2> DEFINE F(c, s) == Finds({i} \cup (IF "defaultqueue" \in Fields(c) \/ "default" \in s
                                        THEN {"advisory"} ELSE {}))
             D == ListOrNone(d, "LocalQueue")
             H == ListOrNone(h, "LocalQueue")
  <2>1. /\ WithDefaultQueueWarning(d, i) = IF D.err # "" THEN Errs(D.err) ELSE F(d, D.items)
        /\ WithDefaultQueueWarning(h, i) = IF H.err # "" THEN Errs(H.err) ELSE F(h, H.items)
    BY DEF WithDefaultQueueWarning, With
  <2>2. ASSUME Silent(WithDefaultQueueWarning(d, i)) PROVE i = "none" /\ Clear(WithDefaultQueueWarning(h, i))
    <3>1. D.err = "" /\ D = H
      BY <1>2, <2>1, <2>2, Findings
    <3>2. Silent(F(h, H.items)) /\ WithDefaultQueueWarning(h, i) = F(h, H.items)
      BY <1>1, <2>1, <2>2, <3>1
    <3>3. F(h, H.items).impacts \cap Alarms = {} /\ i \in F(h, H.items).impacts
      BY <3>2 DEF Silent, Finds
    <3>4. i = "none"
      BY <1>0, <3>3
    <3>5. "advisory" \notin F(h, H.items).impacts
      BY <1>0, <3>3
    <3>6. F(h, H.items).err = "" /\ F(h, H.items).impacts \subseteq {i, "advisory"}
      BY DEF Finds
    <3> QED
      BY <3>2, <3>4, <3>5, <3>6 DEF Clear
  <2> QED
    BY <2>2
<1>6. Stands(KueueManagementState(d), KueueManagementState(h))
  <2> DEFINE F(c, used) == IF TRUE \in used THEN WithDefaultQueueWarning(c, "prohibited")
                           ELSE Finds({"blocking"})
             M(c) == IF KueueInUse(c).err # "" THEN Errs(KueueInUse(c).err)
                     ELSE F(c, KueueInUse(c).items)
             X(c) == CASE StateOf(c, "kueue") = "Managed" -> M(c)
                       [] StateOf(c, "kueue") = "Unmanaged" -> WithDefaultQueueWarning(c, "none")
                       [] OTHER -> Errs("error")
  <2>1. ~Silent(M(d))
    BY <1>0, <1>5, Findings
  <2>2. Silent(X(d)) => Clear(X(h))
    <3>1. CASE StateOf(d, "kueue") = "Managed"
      BY <2>1, <3>1
    <3>2. CASE StateOf(d, "kueue") = "Unmanaged"
      BY <1>1, <1>5, <3>2
    <3>3. CASE StateOf(d, "kueue") \notin {"Managed", "Unmanaged"}
      BY <3>3, Findings
    <3> QED
      BY <3>1, <3>2, <3>3
  <2>3. KueueManagementState(d).run = OnSingleton(d, "DSC", X(d))
    BY DEF KueueManagementState, With
  <2>4. KueueManagementState(h).run = OnSingleton(h, "DSC", X(h))
    BY DEF KueueManagementState, With
  <2>5. Answers(KueueManagementState(d).can, KueueManagementState(h).can)
    BY GuardAnswers DEF KueueManagementState
  <2> HIDE DEF X
  <2>6. Silent(OnSingleton(d, "DSC", X(d))) => Clear(OnSingleton(h, "DSC", X(h)))
    BY <1>0, <2>2, BuilderStands
  <2> QED
    BY <2>3, <2>4, <2>5, <2>6 DEF Stands
<1>7. Stands(KueueOperatorInstalled(d), KueueOperatorInstalled(h))
  <2> DEFINE F(s) == Found("kueue" \notin s, "blocking")
             X(c) == IF StateOf(c, "kueue") = "Managed" THEN Finds({"prohibited"})
                     ELSE With(FindOperator(c), F)
  <2>1. FindOperator(d) = FindOperator(h) \/ FindOperator(d) = Fails("conn")
    BY BlurredLookups
  <2>2. Silent(X(d)) => Clear(X(h))
    <3>1. Fails("conn").err # ""
      BY DEF Fails
    <3> QED
      BY <1>0, <1>1, <2>1, <3>1, Findings DEF With
  <2>3. /\ KueueOperatorInstalled(d).run = OnSingleton(d, "DSC", X(d))
        /\ KueueOperatorInstalled(h).run = OnSingleton(h, "DSC", X(h))
    BY DEF KueueOperatorInstalled
  <2>4. Answers(KueueOperatorInstalled(d).can, KueueOperatorInstalled(h).can)
    BY GuardAnswers DEF KueueOperatorInstalled
  <2> HIDE DEF X
  <2>5. Silent(OnSingleton(d, "DSC", X(d))) => Clear(OnSingleton(h, "DSC", X(h)))
    BY <1>0, <2>2, BuilderStands
  <2> QED
    BY <2>3, <2>4, <2>5 DEF Stands
<1>8. Stands(KueueDataIntegrity(d), KueueDataIntegrity(h))
  <2> DEFINE relevant(c) ==
                 {w \in Listed(c) : w.ns \in ListResources(c, "Namespace").items \cup LabeledNamespaces(c)}
             X(c) == IF ListResources(c, "Namespace").err # "" THEN Errs(ListResources(c, "Namespace").err)
                     ELSE IF FirstFailure(c, MonitoredWorkloadTypes) # ""
                          THEN Errs(FirstFailure(c, MonitoredWorkloadTypes))
                     ELSE IF relevant(c) = {} THEN Finds({"none"})
                     ELSE IF FirstFailure(c, IntermediateTypes) # ""
                          THEN Errs(FirstFailure(c, IntermediateTypes))
                     ELSE Found(\E w \in relevant(c) : Inconsistent(c, w), "advisory")
  <2>1. KueueDataIntegrity(d).run = X(d) /\ KueueDataIntegrity(h).run = X(h)
    BY DEF KueueDataIntegrity
  <2>2. Answers(KueueDataIntegrity(d).can, KueueDataIntegrity(h).can)
    BY GuardAnswers DEF KueueDataIntegrity
  <2>3. ASSUME Silent(X(d)) PROVE Clear(X(h))
    <3>1. /\ ListResources(d, "Namespace").err = ""
          /\ FirstFailure(d, MonitoredWorkloadTypes) = ""
      BY <2>3, Findings
    <3>2. relevant(d) = relevant(h) /\ ListResources(h, "Namespace").err = ""
      BY <1>2, <1>3, <3>1
    <3>3. \A w : Inconsistent(d, w) = Inconsistent(h, w)
      BY <1>1 DEF Inconsistent, Descendants
    <3>4. (\E w \in relevant(d) : Inconsistent(d, w)) = (\E w \in relevant(h) : Inconsistent(h, w))
      BY <3>2, <3>3
    <3> HIDE DEF relevant
    <3> QED
      BY <1>0, <1>3, <2>3, <3>1, <3>2, <3>4, Findings
  <2> HIDE DEF X
  <2> QED
    BY <2>1, <2>2, <2>3 DEF Stands
<1> QED
  BY <1>6, <1>7, <1>8

(* The checks of the platform and of the dependencies.                     *)
LEMMA PlatformChecksStand ==
    ASSUME NEW d, NEW h, Blurs(d, h), NEW id \in Platform
    PROVE  Stands(PlatformCheck(id, d), PlatformCheck(id, h))
<1>0. {"DSC", "DSCI", "CRD"} \subseteq Kinds /\ "blocking" \in Alarms
  BY DEF Kinds, Alarms
<1>1. /\ d.to = h.to /\ d.has = h.has /\ d.conds = h.conds /\ d.mon = h.mon
      /\ Fields(d) = Fields(h)
  BY BlurredObject DEF Blurs
<1>2. Stands(DSCIReadiness(d), DSCIReadiness(h))
  <2> DEFINE X(c) == Found("ready" \notin c.has["DSCI"] \/ \E x \in c.conds : Unhappy(c, x), "blocking")
  <2>1. \A x : Unhappy(d, x) = Unhappy(h, x)
    BY <1>1 DEF Unhappy, ExpectedMonitoringFalse
  <2>2. X(d) = X(h)
    BY <1>1, <2>1
  <2>3. Silent(X(d)) => Clear(X(h))
    BY <1>0, <2>2, Findings
  <2> HIDE DEF X
  <2>4. Silent(OnSingleton(d, "DSCI", X(d))) => Clear(OnSingleton(h, "DSCI", X(h)))
    BY <1>0, <2>3, BuilderStands
  <2> USE DEF X
  <2> QED
    BY <2>4, PlainGuards DEF DSCIReadiness
<1>3. Stands(DSCReadiness(d), DSCReadiness(h))
  <2> DEFINE X(c) == Found("ready" \notin Fields(c), "blocking")
  <2>1. Silent(X(d)) => Clear(X(h))
    BY <1>0, <1>1, Findings
  <2>2. Silent(OnSingleton(d, "DSC", X(d))) => Clear(OnSingleton(h, "DSC", X(h)))
    BY <1>0, <2>1, BuilderStands
  <2> QED
    BY <2>2, PlainGuards DEF DSCReadiness
<1>4. Stands(StorageVersion(d), StorageVersion(h))
  <2>1. Get(d, "CRD", "dsc") \in {Get(h, "CRD", "dsc"), "conn"}
    BY <1>0, BlurredReads
  <2> DEFINE X(c, g) == IF g \in {"conn", "notfound"} THEN Errs(g)
                        ELSE IF g = "nil" \/ "stored" \notin c.has["CRD"] THEN Errs("error")
                        ELSE Found("v1" \in c.has["CRD"], "blocking")
  <2>2. Silent(X(d, Get(d, "CRD", "dsc"))) => Clear(X(h, Get(h, "CRD", "dsc")))
    BY <1>0, <1>1, <2>1, Findings
  <2> QED
    BY <1>1, <2>2 DEF StorageVersion, Stands, Answers
<1> QED
  BY <1>2, <1>3, <1>4 DEF Platform, PlatformCheck

LEMMA DependencyChecksStand ==
    ASSUME NEW d, NEW h, Blurs(d, h), NEW id \in Dependency
    PROVE  Stands(DependencyCheck(id, d), DependencyCheck(id, h))
<1>0. /\ {"CRD", "Deployment", "PackageManifest", "ServiceMeshControlPlane", "ServiceMeshMemberRoll",
          "ServiceMeshMember", "KnativeService", "KnativeServing", "KnativeEventing"} \subseteq Kinds
      /\ "blocking" \in Alarms /\ "advisory" \in Alarms
  BY DEF Kinds, Alarms
<1>1. d.from = h.from /\ d.to = h.to /\ d.has = h.has /\ d.olm = h.olm
  BY DEF Blurs
<1>2. /\ FindOperator(d) = FindOperator(h) \/ FindOperator(d) = Fails("conn")
      /\ DetectOpenShiftVersion(d) \in {DetectOpenShiftVersion(h), "conn"}
      /\ DetectOpenShiftVersion(h) \in {"", "notfound"}
      /\ AppNamespace(d) \in {AppNamespace(h), "conn"}
  BY BlurredLookups
<1>3. Fails("conn").err = "conn" /\ Fails("conn").items = {}
  BY DEF Fails
<1>4. Stands(CertManager(d), CertManager(h))
  <2>1. Silent(Operator(d, "certmanager", "none", "blocking")) =>
          Clear(Operator(h, "certmanager", "none", "blocking"))
    BY OperatorStands DEF Impacts
  <2> QED
    BY <2>1, PlainGuards DEF CertManager
<1>5. Stands(OpenShift(d), OpenShift(h))
  <2> DEFINE X(c, v) == IF v = "panic" THEN Errs(v)
                        ELSE Found(v # "" \/ "min" \notin c.has["ClusterVersion"], "blocking")
  <2>1. Silent(X(d, DetectOpenShiftVersion(d))) => Clear(X(h, DetectOpenShiftVersion(h)))
    BY <1>0, <1>1, <1>2, Findings
  <2> QED
    BY <1>1, <2>1 DEF OpenShift, Stands, Answers
<1>6. Stands(OrphanedCRDs(d), OrphanedCRDs(h))
  <2>1. SM2Installed(d) = SM2Installed(h) \/ SM2Installed(d).err = "conn"
    BY <1>1, <1>2, <1>3 DEF SM2Installed
  <2> DEFINE Orphans(sm2) == Found(TRUE \notin sm2, "blocking")
             X(c) == With(SM2Installed(c), Orphans)
             OfCRDs(c, crds) == IF "maistra" \in crds THEN X(c) ELSE Finds({"none"})
             Y(c) == IF ListResources(c, "CRD").err # "" THEN Errs(ListResources(c, "CRD").err)
                     ELSE OfCRDs(c, ListResources(c, "CRD").items)
  <2>2. Silent(X(d)) => Clear(X(h))
    BY <1>0, <2>1, Findings DEF With
  <2>3. ListResources(d, "CRD").err = "" => ListResources(d, "CRD") = ListResources(h, "CRD")
    BY <1>0, ListsStand
  <2>4. OrphanedCRDs(d) = On2xTo3x(d, Y(d)) /\ OrphanedCRDs(h) = On2xTo3x(h, Y(h))
    BY DEF OrphanedCRDs, With
  <2> HIDE DEF X
  <2>5. Silent(Y(d)) => Clear(Y(h))
    BY <2>2, <2>3, Findings
  <2> HIDE DEF Y
  <2> QED
    BY <2>4, <2>5, PlainGuards
<1>7. Stands(OSSM34(d), OSSM34(h))
  <2> DEFINE OfSubs(c, v, s) ==
                 IF ~({"sm3", "sm3csv"} \subseteq s) THEN Finds({"none"})
                 ELSE IF "sm3odd" \in s THEN Finds({"advisory"})
                 ELSE IF "sm34" \notin s THEN Finds({"none"})
                 ELSE IF v = "panic" THEN Errs(v)
                 ELSE Found(v # "" \/ "fixed" \notin c.has["ClusterVersion"], "blocking")
             X(c) == IF c.olm THEN IF FindOperator(c).err # "" THEN Errs(FindOperator(c).err)
                                   ELSE OfSubs(c, DetectOpenShiftVersion(c), FindOperator(c).items)
                     ELSE Finds({"none"})
  <2>1. /\ OSSM34(d) = [can |-> Yes(d.to[1] = 3), run |-> X(d)]
        /\ OSSM34(h) = [can |-> Yes(h.to[1] = 3), run |-> X(h)]
    BY DEF OSSM34, With
  <2>2. \A s : Silent(OfSubs(d, DetectOpenShiftVersion(d), s)) =>
                 Clear(OfSubs(h, DetectOpenShiftVersion(h), s))
    BY <1>0, <1>1, <1>2, Findings
  <2> HIDE DEF OfSubs
  <2>3. Silent(X(d)) => Clear(X(h))
    BY <1>1, <1>2, <1>3, <2>2, Findings
  <2> HIDE DEF X
  <2> QED
    BY <1>1, <2>1, <2>3 DEF Stands, Answers
<1>8. Stands(ServiceMesh(d), ServiceMesh(h))
  <2> DEFINE OfManifests(s) == Found(~({"sm3", "sm3version"} \subseteq s), "blocking")
             M(c) == With(ListOrNone(c, "PackageManifest"), OfManifests)
             X(c, g) == IF g = "notfound" THEN Finds({"advisory"})
                        ELSE IF g = "conn" THEN Errs(g)
                        ELSE IF g = "nil" THEN Finds({"blocking"})
                        ELSE IF NoOLMMode(c) THEN Finds({"none"})
                        ELSE IF "gateway" \notin c.has["Deployment"] THEN Finds({"blocking"})
                        ELSE M(c)
  <2>1. Get(d, "Deployment", "ingress") \in {Get(h, "Deployment", "ingress"), "conn"}
    BY <1>0, BlurredReads
  <2>2. /\ ListOrNone(h, "PackageManifest").err = ""
        /\ ListOrNone(d, "PackageManifest").err = "" =>
             ListOrNone(d, "PackageManifest") = ListOrNone(h, "PackageManifest")
    BY <1>0, ListsStand
  <2>3. Silent(M(d)) => Clear(M(h))
    BY <1>0, <2>2, Findings DEF With
  <2>4. NoOLMMode(d) => NoOLMMode(h)
    BY <1>1, <1>2, <1>3 DEF NoOLMMode
  <2>5. /\ ServiceMesh(d) = On2xTo3x(d, X(d, Get(d, "Deployment", "ingress")))
        /\ ServiceMesh(h) = On2xTo3x(h, X(h, Get(h, "Deployment", "ingress")))
    BY DEF ServiceMesh
  <2> HIDE DEF M
  <2>6. Silent(X(d, Get(d, "Deployment", "ingress"))) => Clear(X(h, Get(h, "Deployment", "ingress")))
    BY <1>0, <1>1, <2>1, <2>3, <2>4, Findings
  <2> HIDE DEF X
  <2> QED
    BY <2>5, <2>6, PlainGuards
<1>9. ASSUME NEW ks, ks \subseteq Kinds
      PROVE  Stands(SharedUsage(d, ks), SharedUsage(h, ks))
  <2> DEFINE bad(c) == {ListOrNone(c, k).err : k \in ks} \ {""}
             X(c) == IF bad(c) # {} THEN Errs(CHOOSE e \in bad(c) : TRUE)
                     ELSE Found(\E k \in ks : OutsideRHOAI(c, ListOrNone(c, k).items), "advisory")
  <2>1. \A k \in ks : /\ ListOrNone(h, k).err = ""
                      /\ ListOrNone(d, k).err = "" => ListOrNone(d, k) = ListOrNone(h, k)
    BY <1>9, ListsStand
  <2>2. bad(h) = {}
    BY <2>1
  <2>3. SharedUsage(d, ks) = On2xTo3x(d, X(d)) /\ SharedUsage(h, ks) = On2xTo3x(h, X(h))
    BY DEF SharedUsage
  <2>4. ASSUME Silent(X(d)) PROVE Clear(X(h))
    <3>1. bad(d) = {}
      <4>1. bad(d) # {} => (CHOOSE e \in bad(d) : TRUE) \in bad(d)
        OBVIOUS
      <4> QED
        BY <2>4, <4>1, Findings
    <3>2. \A k \in ks : ListOrNone(d, k) = ListOrNone(h, k)
      BY <2>1, <3>1
    <3> DEFINE D == \E k \in ks : OutsideRHOAI(d, ListOrNone(d, k).items)
               H == \E k \in ks : OutsideRHOAI(h, ListOrNone(h, k).items)
    <3>3. H => D
      BY <1>2, <3>2 DEF OutsideRHOAI
    <3>4. X(d) = Found(D, "advisory") /\ X(h) = Found(H, "advisory") /\ D \in BOOLEAN /\ H \in BOOLEAN
      BY <2>2, <3>1
    <3> HIDE DEF D, H, X
    <3> QED
      BY <1>0, <2>4, <3>3, <3>4, Findings
  <2> HIDE DEF X
  <2> QED
    BY <2>3, <2>4, PlainGuards
<1>10. Stands(SharedOSSM(d), SharedOSSM(h)) /\ Stands(SharedServerless(d), SharedServerless(h))
  BY <1>0, <1>9 DEF SharedOSSM, SharedServerless
<1> QED
  BY <1>4, <1>5, <1>6, <1>7, <1>8, <1>10 DEF Dependency, DependencyCheck

(* The checks of the components.                                           *)
LEMMA ComponentChecksStand ==
    ASSUME NEW d, NEW h, Blurs(d, h), NEW id \in ComponentIds
    PROVE  Stands(ComponentCheck(id, d), ComponentCheck(id, h))
<1>1. CASE id \in {"codeflare", "pipelines", "feast", "modelregistry", "llamastack", "modelmesh",
                   "trainingremoval", "trainingdeprecation"}
  BY <1>1, DeparturesStand DEF ComponentCheck
<1>2. CASE id \in {"acceleratorprofiles", "hardwareprofiles", "dashboardauth", "dashboardconfig",
                   "route", "rollout", "capacity"}
  BY <1>2, DashboardStands DEF ComponentCheck
<1>3. CASE id \in {"maas", "authorino", "kuadrant", "serverless", "smoperator", "smremoval", "wva"}
  BY <1>3, ServingStands DEF ComponentCheck
<1>4. CASE id \in {"kueuestate", "kueueoperator"}
  BY <1>4, KueueStands DEF ComponentCheck
<1> QED
  BY <1>1, <1>2, <1>3, <1>4 DEF ComponentIds

(* What a check of the workloads of a component comes to.                  *)
OfComponent(c, x, r) ==
    IF Singleton(c, "DSC") = "notfound" THEN NilResult
    ELSE IF Singleton(c, "DSC") # "" THEN Errs(Singleton(c, "DSC"))
    ELSE IF HasState(c, x, {"Removed"}) THEN NilResult
    ELSE r

LEMMA OfComponentStands ==
    ASSUME NEW d, NEW h, Blurs(d, h), NEW x, NEW r, NEW q, Silent(r) => Clear(q)
    PROVE  Silent(OfComponent(d, x, r)) => Clear(OfComponent(h, x, q))
<1>1. /\ Singleton(d, "DSC") \in {Singleton(h, "DSC"), "conn"}
      /\ Singleton(h, "DSC") \in {"", "notfound", "error"}
  <2>1. "DSC" \in Kinds
    BY DEF Kinds
  <2> QED
    BY <2>1, BlurredReads
<1>2. HasState(d, x, {"Removed"}) = HasState(h, x, {"Removed"})
  BY BlurredObject
<1> QED
  BY <1>1, <1>2, Findings DEF OfComponent

(* The workloads: questions about the tags of the objects of a kind.       *)
LEMMA TagsStand ==
    ASSUME NEW d, NEW h, Blurs(d, h), NEW k \in Kinds, NEW i \in Alarms
    PROVE  /\ \A tags : Silent(Tagged(d, k, tags, i)) => Clear(Tagged(h, k, tags, i))
           /\ Silent(AnyOf(d, k, i)) => Clear(AnyOf(h, k, i))
           /\ \A x, tag : Silent(TaggedOf(d, x, k, tag, i)) => Clear(TaggedOf(h, x, k, tag, i))
<1>1. /\ ListOrNone(d, k).err = "" => ListOrNone(d, k) = ListOrNone(h, k)
      /\ ListOrNone(h, k).err = ""
  BY ListsStand
<1>2. ASSUME NEW tags PROVE Silent(Tagged(d, k, tags, i)) => Clear(Tagged(h, k, tags, i))
  BY <1>1, Findings DEF Tagged, WorkloadsRun, With
<1>3. Silent(AnyOf(d, k, i)) => Clear(AnyOf(h, k, i))
  BY <1>1, Findings DEF AnyOf, WorkloadsRun, With
<1>4. ASSUME NEW x, NEW tag PROVE Silent(TaggedOf(d, x, k, tag, i)) => Clear(TaggedOf(h, x, k, tag, i))
  <2> DEFINE F(s) == Found(tag \in s, i)
  <2>1. Silent(WorkloadsRun(d, k, F)) => Clear(WorkloadsRun(h, k, F))
    BY <1>1, Findings DEF WorkloadsRun, With
  <2> DEFINE D == WorkloadsRun(d, k, F)
             H == WorkloadsRun(h, k, F)
  <2>2. /\ TaggedOf(d, x, k, tag, i) = OfComponent(d, x, D)
        /\ TaggedOf(h, x, k, tag, i) = OfComponent(h, x, H)
    BY DEF TaggedOf, WorkloadsOf, OfComponent
  <2>3. Silent(D) => Clear(H)
    BY <2>1
  <2> HIDE DEF D, H
  <2> QED
    BY <2>2, <2>3, OfComponentStands
<1> QED
  BY <1>2, <1>3, <1>4

(* The checks of the workloads whose findings are tags.                    *)
LEMMA TaggedChecksStand ==
    ASSUME NEW d, NEW h, Blurs(d, h)
    PROVE  /\ Stands(AppWrapperCleanup(d), AppWrapperCleanup(h))
           /\ Stands(RayImpacted(d), RayImpacted(h))
           /\ Stands(LlamaStackConfig(d), LlamaStackConfig(h))
           /\ Stands(LlamaStackMigration(d), LlamaStackMigration(h))
           /\ Stands(ExternalAccessTLS(d), ExternalAccessTLS(h))
           /\ Stands(NumProcPerNode(d), NumProcPerNode(h))
           /\ Stands(PodTemplateOverrides(d), PodTemplateOverrides(h))
           /\ Stands(TrainingImpacted(d), TrainingImpacted(h))
           /\ Stands(GuardrailsOtel(d), GuardrailsOtel(h))
           /\ Stands(KServeHardwareProfile(d), KServeHardwareProfile(h))
           /\ Stands(NonStopped(d), NonStopped(h))
           /\ Stands(NotebookHardwareProfile(d), NotebookHardwareProfile(h))
           /\ Stands(ContainerName(d), ContainerName(h))
<1>0. /\ {"AppWrapper", "RayCluster", "LlamaStackDistribution", "OGXServer", "TrainJob", "PyTorchJob",
          "GuardrailsOrchestrator", "InferenceService", "Notebook"} \subseteq Kinds
      /\ "advisory" \in Alarms /\ "blocking" \in Alarms
  BY DEF Kinds, Alarms
<1>1. /\ \A x : Answers(For2xTo3x(d, x), For2xTo3x(h, x))
      /\ \A x : Answers(For36(d, x), For36(h, x))
  BY GuardAnswers DEF For2xTo3x, For36
<1>2. Stands(AppWrapperCleanup(d), AppWrapperCleanup(h))
  BY <1>0, <1>1, TagsStand DEF AppWrapperCleanup, Stands
<1>3. Stands(RayImpacted(d), RayImpacted(h))
  BY <1>0, <1>1, TagsStand DEF RayImpacted, Stands
<1>4. Stands(LlamaStackConfig(d), LlamaStackConfig(h))
  BY <1>0, <1>1, TagsStand DEF LlamaStackConfig, Stands
<1>5. Stands(LlamaStackMigration(d), LlamaStackMigration(h))
  BY <1>0, GuardAnswers, TagsStand DEF LlamaStackMigration, Stands
<1>6. Stands(ExternalAccessTLS(d), ExternalAccessTLS(h))
  BY <1>0, <1>1, TagsStand DEF ExternalAccessTLS, Stands
<1>7. Stands(NumProcPerNode(d), NumProcPerNode(h))
  BY <1>0, <1>1, TagsStand DEF NumProcPerNode, Stands
<1>8. Stands(PodTemplateOverrides(d), PodTemplateOverrides(h))
  BY <1>0, <1>1, TagsStand DEF PodTemplateOverrides, Stands
<1>9. Stands(TrainingImpacted(d), TrainingImpacted(h))
  <2> DEFINE i == IF IsVersionAtLeast(h.to, 3, 6) THEN "blocking" ELSE "advisory"
  <2>1. i \in Alarms /\ d.to = h.to
    BY <1>0 DEF Blurs
  <2>2. /\ TrainingImpacted(d).run = Tagged(d, "PyTorchJob", {"active"}, i)
        /\ TrainingImpacted(h).run = Tagged(h, "PyTorchJob", {"active"}, i)
    BY <2>1 DEF TrainingImpacted
  <2>3. Answers(TrainingImpacted(d).can, TrainingImpacted(h).can)
    BY <2>1, GuardAnswers DEF TrainingImpacted
  <2> HIDE DEF i
  <2> QED
    BY <1>0, <2>1, <2>2, <2>3, TagsStand DEF Stands
<1>10. Stands(GuardrailsOtel(d), GuardrailsOtel(h))
  BY <1>0, <1>1, TagsStand DEF GuardrailsOtel, Stands
<1>11. Stands(KServeHardwareProfile(d), KServeHardwareProfile(h))
  BY <1>0, <1>1, TagsStand DEF KServeHardwareProfile, Stands
<1>12. Stands(NonStopped(d), NonStopped(h))
  BY <1>0, TagsStand, PlainGuards DEF NonStopped
<1>13. Stands(NotebookHardwareProfile(d), NotebookHardwareProfile(h))
  BY <1>0, TagsStand, PlainGuards DEF NotebookHardwareProfile
<1>14. Stands(ContainerName(d), ContainerName(h))
  BY <1>0, TagsStand DEF ContainerName, Stands, Answers
<1> QED
  BY <1>2, <1>3, <1>4, <1>5, <1>6, <1>7, <1>8, <1>9, <1>10, <1>11, <1>12, <1>13, <1>14

(* The pipelines and the guardrails.                                       *)
LEMMA PipelinesStand ==
    ASSUME NEW d, NEW h, Blurs(d, h)
    PROVE  /\ Stands(CustomRBAC(d), CustomRBAC(h))
           /\ Stands(InstructLab(d), InstructLab(h))
           /\ Stands(StoredVersionRemoval(d), StoredVersionRemoval(h))
           /\ Stands(GuardrailsImpacted(d), GuardrailsImpacted(h))
<1>0. /\ {"DSC", "DSPA", "Role", "CRD", "ConfigMap", "GuardrailsOrchestrator"} \subseteq Kinds
      /\ "advisory" \in Alarms /\ "blocking" \in Alarms
  BY DEF Kinds, Alarms
<1>1. d.has = h.has /\ d.st = h.st /\ d.orch = h.orch
  BY DEF Blurs
<1>2. Answers(PipelinesInUse(d), PipelinesInUse(h))
  <2>1. /\ Singleton(d, "DSC") \in {Singleton(h, "DSC"), "conn"}
        /\ Singleton(h, "DSC") \in {"", "notfound", "error"}
    BY <1>0, BlurredReads
  <2>2. /\ ListOrNone(d, "DSPA") = ListOrNone(h, "DSPA") \/ ListOrNone(d, "DSPA") = Fails("conn")
        /\ ListOrNone(h, "DSPA").err = ""
    BY <1>0, BlurredReads
  <2>3. Fails("conn").err = "conn"
    BY DEF Fails
  <2>4. IsUpgradeFrom2xTo3x(d) = IsUpgradeFrom2xTo3x(h)
    BY GuardAnswers
  <2>5. HasState(d, "datasciencepipelines", Managed) = HasState(h, "datasciencepipelines", Managed)
    BY BlurredObject
  <2> QED
    BY <2>1, <2>2, <2>3, <2>4, <2>5 DEF PipelinesInUse, Answers
<1>3. Stands(CustomRBAC(d), CustomRBAC(h))
  <2> DEFINE F(s) == Found("routes" \in s, "blocking")
  <2>1. Silent(With(ListResources(d, "Role"), F)) => Clear(With(ListResources(h, "Role"), F))
    BY <1>0, ListsStand, Findings DEF With
  <2> QED
    BY <1>2, <2>1 DEF CustomRBAC, Stands
<1>4. Stands(InstructLab(d), InstructLab(h))
  BY <1>0, <1>2, TagsStand DEF InstructLab, Stands
<1>5. Stands(StoredVersionRemoval(d), StoredVersionRemoval(h))
  <2> DEFINE X(c, g) == CASE g = "notfound" -> Finds({"none"})
                          [] g = "conn"     -> Errs(g)
                          [] g = "nil"      -> Finds({"advisory"})
                          [] OTHER -> Found("v1alpha1" \in c.has["CRD"], "blocking")
  <2>1. /\ Get(d, "CRD", "dspa") \in {Get(h, "CRD", "dspa"), "conn"}
        /\ Get(h, "CRD", "dspa") \in {"found", "notfound"}
    BY <1>0, BlurredReads
  <2>2. Silent(X(d, Get(d, "CRD", "dspa"))) => Clear(X(h, Get(h, "CRD", "dspa")))
    <3>1. CASE Get(d, "CRD", "dspa") = "conn"
      BY <3>1, Findings
    <3>2. CASE Get(d, "CRD", "dspa") = "notfound"
      BY <2>1, <3>2, Findings
    <3>3. CASE Get(d, "CRD", "dspa") = "found"
      BY <1>0, <1>1, <2>1, <3>3, Findings
    <3> QED
      BY <2>1, <3>1, <3>2, <3>3
  <2>3. /\ StoredVersionRemoval(d) = On2xTo3x(d, X(d, Get(d, "CRD", "dspa")))
        /\ StoredVersionRemoval(h) = On2xTo3x(h, X(h, Get(h, "CRD", "dspa")))
    BY DEF StoredVersionRemoval
  <2> HIDE DEF X
  <2> QED
    BY <2>2, <2>3, PlainGuards
<1>6. Stands(GuardrailsImpacted(d), GuardrailsImpacted(h))
  <2> DEFINE B(c, s) == \E o \in c.orch : s # {} /\ ~OrchestratorInOrder(c, o)
             X(c, l) == IF l.err # "" THEN Errs(l.err) ELSE Found(B(c, l.items), "advisory")
  <2>1. \A x : Get(d, "ConfigMap", x) \in {Get(h, "ConfigMap", x), "conn"}
    BY <1>0, BlurredReads
  <2>2. \A o : OrchestratorInOrder(d, o) => OrchestratorInOrder(h, o)
    BY <2>1 DEF OrchestratorInOrder
  <2>3. \A s : B(h, s) => B(d, s)
    BY <1>1, <2>2
  <2>4. /\ ListOrNone(d, "GuardrailsOrchestrator").err = "" =>
             ListOrNone(d, "GuardrailsOrchestrator") = ListOrNone(h, "GuardrailsOrchestrator")
        /\ ListOrNone(h, "GuardrailsOrchestrator").err = ""
    BY <1>0, ListsStand
  <2>5. \A c, s : B(c, s) \in BOOLEAN
    OBVIOUS
  <2>6. /\ GuardrailsImpacted(d).run = X(d, ListOrNone(d, "GuardrailsOrchestrator"))
        /\ GuardrailsImpacted(h).run = X(h, ListOrNone(h, "GuardrailsOrchestrator"))
    BY DEF GuardrailsImpacted, WorkloadsRun, With
  <2> HIDE DEF B
  <2>7. Silent(GuardrailsImpacted(d).run) => Clear(GuardrailsImpacted(h).run)
    BY <1>0, <2>3, <2>4, <2>5, <2>6, Findings
  <2>8. Answers(GuardrailsImpacted(d).can, GuardrailsImpacted(h).can)
    BY GuardAnswers DEF GuardrailsImpacted, For2xTo3x
  <2> QED
    BY <2>7, <2>8 DEF Stands
<1> QED
  BY <1>3, <1>4, <1>5, <1>6

(* The accelerators, which are looked up for models and for notebooks.     *)
LEMMA AcceleratorsStand ==
    ASSUME NEW d, NEW h, Blurs(d, h), NEW s
    PROVE  Silent(AcceleratorRefs(d, s)) => Clear(AcceleratorRefs(h, s))
<1>0. "AcceleratorProfile" \in Kinds /\ "advisory" \in Alarms
  BY DEF Kinds, Alarms
<1>1. /\ ListOrNone(d, "AcceleratorProfile").err = "" =>
           ListOrNone(d, "AcceleratorProfile") = ListOrNone(h, "AcceleratorProfile")
      /\ ListOrNone(h, "AcceleratorProfile").err = ""
  BY <1>0, ListsStand
<1>2. AppNamespace(d) \in {AppNamespace(h), "conn"}
  BY BlurredLookups
<1> QED
  BY <1>0, <1>1, <1>2, Findings DEF AcceleratorRefs

(* The model servers and their configuration.                              *)
LEMMA ModelsStand ==
    ASSUME NEW d, NEW h, Blurs(d, h)
    PROVE  /\ Stands(KServeImpacted(d), KServeImpacted(h))
           /\ Stands(KServeAccelerator(d), KServeAccelerator(h))
           /\ Stands(InferenceServiceConfig(d), InferenceServiceConfig(h))
<1>0. /\ {"InferenceService", "ServingRuntime", "ConfigMap"} \subseteq Kinds /\ "advisory" \in Alarms
      /\ Alarms \subseteq Impacts
  BY DEF Kinds, Alarms, Impacts
<1>1. /\ ListOrNone(d, "InferenceService").err = "" =>
           ListOrNone(d, "InferenceService") = ListOrNone(h, "InferenceService")
      /\ ListOrNone(h, "InferenceService").err = ""
      /\ ListOrNone(d, "ServingRuntime").err = "" =>
           ListOrNone(d, "ServingRuntime") = ListOrNone(h, "ServingRuntime")
      /\ ListOrNone(h, "ServingRuntime").err = ""
  BY <1>0, ListsStand
<1>2. Answers(ForServing(d), ForServing(h)) /\ d.has = h.has
  BY GuardAnswers DEF ForServing, Blurs
<1>3. Stands(KServeImpacted(d), KServeImpacted(h))
  <2> DEFINE isvc(c) == ListOrNone(c, "InferenceService")
             sr(c) == ListOrNone(c, "ServingRuntime")
             bad(c) == {isvc(c).err, sr(c).err} \ {""}
             S(c) == ISVCConditions(isvc(c).items) \cup RuntimeConditions(isvc(c).items, sr(c).items)
             X(c) == IF bad(c) # {} THEN Errs(CHOOSE e \in bad(c) : TRUE) ELSE Finds(S(c))
  <2>1. /\ KServeImpacted(d) = [can |-> ForServing(d), run |-> X(d)]
        /\ KServeImpacted(h) = [can |-> ForServing(h), run |-> X(h)]
    BY DEF KServeImpacted
  <2>2. ASSUME Silent(X(d)) PROVE Clear(X(h))
    <3>1. bad(d) = {}
      <4>1. bad(d) # {} => (CHOOSE e \in bad(d) : TRUE) \in bad(d)
        OBVIOUS
      <4> QED
        BY <2>2, <4>1, Findings
    <3>2. isvc(d) = isvc(h) /\ sr(d) = sr(h) /\ bad(h) = {}
      BY <1>1, <3>1
    <3>3. X(d) = Finds(S(h)) /\ X(h) = Finds(S(h))
      BY <3>1, <3>2
    <3>4. S(h) \subseteq {"none", "advisory", "blocking"}
      BY DEF ISVCConditions, RuntimeConditions, Cond
    <3> HIDE DEF X, S, bad, isvc, sr
    <3>5. Finds(S(h)).err = "" /\ Finds(S(h)).impacts = S(h)
      BY DEF Finds
    <3>6. S(h) \cap Alarms = {}
      BY <2>2, <3>3, <3>5 DEF Silent
    <3>7. S(h) \subseteq {"none"}
      BY <3>4, <3>6 DEF Alarms
    <3> QED
      BY <3>3, <3>5, <3>7 DEF Clear
  <2> HIDE DEF X
  <2> QED
    BY <1>2, <2>1, <2>2 DEF Stands
<1>4. Stands(KServeAccelerator(d), KServeAccelerator(h))
  <2> DEFINE X(c) == IF ListOrNone(c, "InferenceService").err # ""
                     THEN Errs(ListOrNone(c, "InferenceService").err)
                     ELSE AcceleratorRefs(c, ListOrNone(c, "InferenceService").items)
  <2>1. Silent(X(d)) => Clear(X(h))
    BY <1>1, AcceleratorsStand, Findings
  <2>2. /\ KServeAccelerator(d).run = IF d.fault["InferenceService"] = "untyped" THEN Finds({"none"}) ELSE X(d)
        /\ KServeAccelerator(h).run = IF h.fault["InferenceService"] = "untyped" THEN Finds({"none"}) ELSE X(h)
        /\ KServeAccelerator(d).can = ForServing(d) /\ KServeAccelerator(h).can = ForServing(h)
    BY DEF KServeAccelerator, WorkloadsRun, With
  <2>3. d.fault["InferenceService"] = "untyped" => h.fault["InferenceService"] = "untyped"
    BY <1>0 DEF Blurs
  <2> HIDE DEF X
  <2> QED
    BY <1>2, <2>1, <2>2, <2>3, Findings DEF Stands
<1>5. Stands(InferenceServiceConfig(d), InferenceServiceConfig(h))
  <2> DEFINE X(g, has) == IF g = "notfound" THEN Finds({"none"})
                          ELSE IF g = "conn" THEN Errs(g)
                          ELSE IF g = "nil" THEN Errs("panic")
                          ELSE IF "unmanaged" \notin has THEN Finds({"advisory"})
                          ELSE IF "badjson" \in has THEN Errs("error")
                          ELSE Found("disallowed" \notin has, "advisory")
             D == X(Get(d, "ConfigMap", "isvcconfig"), d.has["ConfigMap"])
             H == X(Get(h, "ConfigMap", "isvcconfig"), h.has["ConfigMap"])
  <2>1. Get(d, "ConfigMap", "isvcconfig") \in {Get(h, "ConfigMap", "isvcconfig"), "conn"}
    BY <1>0, BlurredReads
  <2>2. Silent(D) => Clear(H)
    BY <1>0, <1>2, <2>1, Findings
  <2>3. /\ InferenceServiceConfig(d).run = ComponentNS(d, D)
        /\ InferenceServiceConfig(h).run = ComponentNS(h, H)
    BY DEF InferenceServiceConfig
  <2>4. Answers(InferenceServiceConfig(d).can, InferenceServiceConfig(h).can)
    BY GuardAnswers DEF InferenceServiceConfig, For2xTo3x
  <2> HIDE DEF D, H
  <2>5. Silent(ComponentNS(d, D)) => Clear(ComponentNS(h, H))
    BY <2>2, BuilderStands
  <2> QED
    BY <2>3, <2>4, <2>5 DEF Stands
<1> QED
  BY <1>3, <1>4, <1>5

(* What the notebooks refer to.                                            *)
LEMMA NotebookRefsStand ==
    ASSUME NEW d, NEW h, Blurs(d, h)
    PROVE  /\ Stands(ConnectionIntegrity(d), ConnectionIntegrity(h))
           /\ Stands(HardwareProfileIntegrity(d), HardwareProfileIntegrity(h))
           /\ Stands(NotebookAccelerator(d), NotebookAccelerator(h))
<1>0. /\ {"Notebook", "Secret", "CRD", "InfraHardwareProfile"} \subseteq Kinds
      /\ "blocking" \in Alarms
  BY DEF Kinds, Alarms
<1>1. /\ ListOrNone(d, "Notebook").err = "" => ListOrNone(d, "Notebook") = ListOrNone(h, "Notebook")
      /\ ListOrNone(h, "Notebook").err = ""
      /\ ListOrNone(d, "Secret").err = "" => ListOrNone(d, "Secret") = ListOrNone(h, "Secret")
      /\ ListOrNone(h, "Secret").err = ""
      /\ ListOrNone(d, "InfraHardwareProfile").err = "" =>
           ListOrNone(d, "InfraHardwareProfile") = ListOrNone(h, "InfraHardwareProfile")
      /\ ListOrNone(h, "InfraHardwareProfile").err = ""
  BY <1>0, ListsStand
<1>2. Stands(ConnectionIntegrity(d), ConnectionIntegrity(h))
  <2> DEFINE F(secrets, s) == IF "connected" \notin s THEN Finds({"none"})
                              ELSE IF secrets.err # "" THEN Errs(secrets.err)
                              ELSE Found("connection" \notin secrets.items, "blocking")
             X(c, l) == IF l.err # "" THEN Errs(l.err) ELSE F(ListOrNone(c, "Secret"), l.items)
             D == X(d, ListOrNone(d, "Notebook"))
             H == X(h, ListOrNone(h, "Notebook"))
  <2>1. \A s : Silent(F(ListOrNone(d, "Secret"), s)) => Clear(F(ListOrNone(h, "Secret"), s))
    BY <1>0, <1>1, Findings
  <2>2. /\ ConnectionIntegrity(d) = [can |-> "yes", run |-> OfComponent(d, "workbenches", D)]
        /\ ConnectionIntegrity(h) = [can |-> "yes", run |-> OfComponent(h, "workbenches", H)]
    BY DEF ConnectionIntegrity, WorkloadsOf, OfComponent, WorkloadsRun, With
  <2> HIDE DEF F
  <2>3. Silent(D) => Clear(H)
    BY <1>1, <2>1, Findings
  <2> HIDE DEF D, H
  <2> QED
    BY <2>2, <2>3, OfComponentStands DEF Stands, Answers
<1>3. Stands(HardwareProfileIntegrity(d), HardwareProfileIntegrity(h))
  <2> DEFINE F(crd, profiles, s) ==
                 IF "profiled" \notin s THEN Finds({"none"})
                 ELSE IF crd = "conn" THEN Errs(crd)
                 ELSE IF crd = "nil" THEN Errs("error")
                 ELSE IF crd = "notfound" THEN Finds({"blocking"})
                 ELSE IF profiles.err # "" THEN Errs(profiles.err)
                 ELSE Found("profile" \notin profiles.items, "blocking")
             P(c, s) == F(Get(c, "CRD", "hwp"), ListOrNone(c, "InfraHardwareProfile"), s)
             X(c, l) == IF l.err # "" THEN Errs(l.err) ELSE P(c, l.items)
             D == X(d, ListOrNone(d, "Notebook"))
             H == X(h, ListOrNone(h, "Notebook"))
  <2>0. Get(d, "CRD", "hwp") \in {Get(h, "CRD", "hwp"), "conn"}
    BY <1>0, BlurredReads
  <2>1. \A s : Silent(P(d, s)) => Clear(P(h, s))
    BY <1>0, <1>1, <2>0, Findings
  <2>2. /\ HardwareProfileIntegrity(d) = [can |-> "yes", run |-> OfComponent(d, "workbenches", D)]
        /\ HardwareProfileIntegrity(h) = [can |-> "yes", run |-> OfComponent(h, "workbenches", H)]
    BY DEF HardwareProfileIntegrity, WorkloadsOf, OfComponent, WorkloadsRun, With
  <2> HIDE DEF P
  <2>3. Silent(D) => Clear(H)
    BY <1>1, <2>1, Findings
  <2> HIDE DEF D, H
  <2> QED
    BY <2>2, <2>3, OfComponentStands DEF Stands, Answers
<1>4. Stands(NotebookAccelerator(d), NotebookAccelerator(h))
  <2> DEFINE X(c, l) == IF l.err # "" THEN Errs(l.err) ELSE AcceleratorRefs(c, l.items)
             D == X(d, ListOrNone(d, "Notebook"))
             H == X(h, ListOrNone(h, "Notebook"))
  <2>1. Silent(D) => Clear(H)
    BY <1>1, AcceleratorsStand, Findings
  <2>2. /\ NotebookAccelerator(d) = On2xTo3x(d, OfComponent(d, "workbenches", D))
        /\ NotebookAccelerator(h) = On2xTo3x(h, OfComponent(h, "workbenches", H))
    BY DEF NotebookAccelerator, WorkloadsOf, OfComponent, WorkloadsRun, With
  <2> HIDE DEF D, H
  <2> QED
    BY <2>1, <2>2, OfComponentStands, PlainGuards
<1> QED
  BY <1>2, <1>3, <1>4

(* An image is judged by the streams and by the tags that can be read.     *)
Verdicts == {"PRE", "POST", "VERIFY_FAILED", "CUSTOM", "GOOD"}

(* A notebook is good if it has images and all of them are.                *)
LEMMA GoodNotebooks ==
    ASSUME NEW s
    PROVE  /\ s \subseteq Verdicts /\ aggregateImageAnalyses(s) = "GOOD" => s = {"GOOD"}
           /\ s = {"GOOD"} => aggregateImageAnalyses(s) = "GOOD"
<1> DEFINE P(i) == /\ Severity[i] \in s
                   /\ \A j \in 1..(i - 1) : Severity[j] \notin s
           best == CHOOSE i \in 1..5 : P(i)
<1>0. /\ Severity[1] = "PRE" /\ Severity[2] = "POST" /\ Severity[3] = "VERIFY_FAILED"
      /\ Severity[4] = "CUSTOM" /\ Severity[5] = "GOOD"
  BY DEF Severity
<1>1. s # {} => aggregateImageAnalyses(s) = Severity[best]
  BY DEF aggregateImageAnalyses
<1>2. s = {} => aggregateImageAnalyses(s) = "VERIFY_FAILED"
  BY DEF aggregateImageAnalyses
<1>3. ASSUME s \subseteq Verdicts, s # {}
      PROVE  \E i \in 1..5 : P(i)
  <2>1. PICK v \in s : TRUE
    BY <1>3
  <2>2. v \in Verdicts
    BY <1>3, <2>1
  <2>3. CASE "PRE" \in s
    <3>1. P(1)
      BY <1>0, <2>3
    <3> QED
      BY <3>1
  <2>4. CASE "PRE" \notin s /\ "POST" \in s
    <3>1. P(2)
      BY <1>0, <2>4
    <3> QED
      BY <3>1
  <2>5. CASE {"PRE", "POST"} \cap s = {} /\ "VERIFY_FAILED" \in s
    <3>1. P(3)
      <4>1. \A j \in 1..2 : j = 1 \/ j = 2
        OBVIOUS
      <4> QED
        BY <1>0, <2>5, <4>1
    <3> QED
      BY <3>1
  <2>6. CASE {"PRE", "POST", "VERIFY_FAILED"} \cap s = {} /\ "CUSTOM" \in s
    <3>1. P(4)
      <4>1. \A j \in 1..3 : j = 1 \/ j = 2 \/ j = 3
        OBVIOUS
      <4> QED
        BY <1>0, <2>6, <4>1
    <3> QED
      BY <3>1
  <2>7. CASE {"PRE", "POST", "VERIFY_FAILED", "CUSTOM"} \cap s = {} /\ "GOOD" \in s
    <3>1. P(5)
      <4>1. \A j \in 1..4 : j = 1 \/ j = 2 \/ j = 3 \/ j = 4
        OBVIOUS
      <4> QED
        BY <1>0, <2>7, <4>1
    <3> QED
      BY <3>1
  <2> QED
    BY <2>1, <2>2, <2>3, <2>4, <2>5, <2>6, <2>7 DEF Verdicts
<1>4. ASSUME s \subseteq Verdicts, aggregateImageAnalyses(s) = "GOOD"
      PROVE  s = {"GOOD"}
  <2>1. s # {}
    BY <1>2, <1>4
  <2>2. best \in 1..5 /\ P(best)
    BY <1>3, <1>4, <2>1
  <2>3. best = 5
    BY <1>0, <1>1, <1>4, <2>1, <2>2
  <2>4. \A j \in 1..4 : Severity[j] \notin s
    BY <2>2, <2>3
  <2>5. "PRE" \notin s /\ "POST" \notin s /\ "VERIFY_FAILED" \notin s /\ "CUSTOM" \notin s
    BY <1>0, <2>4
  <2> QED
    BY <1>4, <2>1, <2>5 DEF Verdicts
<1>5. ASSUME s = {"GOOD"}
      PROVE  aggregateImageAnalyses(s) = "GOOD"
  <2>1. s # {} /\ s \subseteq Verdicts
    BY <1>5 DEF Verdicts
  <2>2. best \in 1..5 /\ P(best)
    BY <1>3, <2>1
  <2> QED
    BY <1>1, <1>5, <2>1, <2>2
<1> QED
  BY <1>4, <1>5

(* The verdicts, and those that a failed read of a tag withholds.          *)
LEMMA ImageVerdicts ==
    ASSUME NEW e, NEW f, NEW im, e.streams = f.streams, e.ootb = f.ootb, e.ists = f.ists,
           f.fault["ImageStreamTag"] # "ok" => e.fault["ImageStreamTag"] # "ok"
    PROVE  /\ analyzeImage(e, im) \subseteq Verdicts
           /\ analyzeImage(e, im) = {} => analyzeImage(f, im) = {}
           /\ analyzeImage(f, im) = {} => analyzeImage(e, im) = {}
           /\ analyzeImage(e, im) \subseteq {"GOOD"} => analyzeImage(f, im) \subseteq {"GOOD"}
<1>1. /\ findImageStreamByDockerImageRef(e, im) = findImageStreamByDockerImageRef(f, im)
      /\ findImageStreamForSHA(e, im) = findImageStreamForSHA(f, im)
      /\ findImageStreamByDockerRepo(e, im) = findImageStreamByDockerRepo(f, im)
      /\ findImageStreamBySpecRef(e, im) = findImageStreamBySpecRef(f, im)
  BY DEF findImageStreamByDockerImageRef, findImageStreamForSHA, findImageStreamByDockerRepo,
         findImageStreamBySpecRef, FirstTag
<1> DEFINE V(c, h) == analyzeOOTBImage(c, im, h, (CHOOSE o \in c.ootb : o.is = h.is).type)
<1>2. ASSUME NEW h
      PROVE  /\ V(e, h) \in Verdicts
             /\ V(e, h) = "GOOD" => V(f, h) = "GOOD"
  <2>1. \A is : findTagForSHA(e, im, is) = findTagForSHA(f, im, is)
    BY DEF findTagForSHA, FirstTag
  <2>2. findCompliantTagForSHA(e, im) = findCompliantTagForSHA(f, im)
    BY DEF findCompliantTagForSHA
  <2>3. analyzeTagBasedImageCompat(e, im, h) = analyzeTagBasedImageCompat(f, im, h)
    BY <2>1, <2>2 DEF analyzeTagBasedImageCompat
  <2>4. analyzeTagBasedImageCompat(e, im, h) \in Verdicts
    BY DEF analyzeTagBasedImageCompat, Verdicts
  <2>5. analyzeRStudioImageCompat(e, im, h) = "GOOD" => analyzeRStudioImageCompat(f, im, h) = "GOOD"
    BY DEF analyzeRStudioImageCompat
  <2>6. analyzeRStudioImageCompat(e, im, h) \in Verdicts
    BY DEF analyzeRStudioImageCompat, Verdicts
  <2> QED
    BY <2>3, <2>4, <2>5, <2>6 DEF analyzeOOTBImage, Verdicts
<1> DEFINE tries(c) == <<findImageStreamByDockerImageRef(c, im), findImageStreamForSHA(c, im),
                         findImageStreamByDockerRepo(c, im), findImageStreamBySpecRef(c, im)>>
           Known(c, hits) == {h \in hits : \E o \in c.ootb : o.is = h.is}
           good(c) == {i \in DOMAIN tries(c) : Known(c, tries(c)[i]) # {}}
           first(c) == {i \in good(c) : \A j \in good(c) : i <= j}
           H(c) == UNION {Known(c, tries(c)[i]) : i \in first(c)}
<1>3. /\ analyzeImage(e, im) = IF good(e) = {} THEN {"CUSTOM"} ELSE {V(e, h) : h \in H(e)}
      /\ analyzeImage(f, im) = IF good(f) = {} THEN {"CUSTOM"} ELSE {V(f, h) : h \in H(f)}
  BY DEF analyzeImage
<1>4. tries(e) = tries(f)
  BY <1>1
<1> HIDE DEF tries
<1>5. good(e) = good(f)
  BY <1>4
<1>6. H(e) = H(f)
  BY <1>4, <1>5
<1> HIDE DEF good, H, V
<1>7. CASE good(e) = {}
  <2>1. analyzeImage(e, im) = {"CUSTOM"} /\ analyzeImage(f, im) = {"CUSTOM"}
    BY <1>3, <1>5, <1>7
  <2> QED
    BY <2>1 DEF Verdicts
<1>8. CASE good(e) # {}
  <2>1. /\ analyzeImage(e, im) = {V(e, h) : h \in H(e)}
        /\ analyzeImage(f, im) = {V(f, h) : h \in H(e)}
    BY <1>3, <1>5, <1>6, <1>8
  <2>2. analyzeImage(e, im) \subseteq Verdicts
    BY <1>2, <2>1
  <2>3. (analyzeImage(e, im) = {}) = (analyzeImage(f, im) = {})
    BY <2>1
  <2>4. ASSUME analyzeImage(e, im) \subseteq {"GOOD"}, NEW v \in analyzeImage(f, im)
        PROVE  v = "GOOD"
    <3>1. PICK h \in H(e) : v = V(f, h)
      BY <2>1
    <3>2. V(e, h) \in analyzeImage(e, im)
      BY <2>1
    <3>3. V(e, h) = "GOOD"
      BY <2>4, <3>2
    <3> QED
      BY <1>2, <3>1, <3>3
  <2> QED
    BY <2>2, <2>3, <2>4
<1> QED
  BY <1>7, <1>8

(* The image check.                                                        *)
LEMMA ImagesStand ==
    ASSUME NEW d, NEW h, Blurs(d, h)
    PROVE  Stands(NotebookImpacted(d), NotebookImpacted(h))
<1>0. {"Notebook", "ImageStream", "ImageStreamTag"} \subseteq Kinds /\ "advisory" \in Alarms
  BY DEF Kinds, Alarms
<1> DEFINE seen(c) == IF c.fault["ImageStream"] = "ok" THEN c
                      ELSE [c EXCEPT !.streams = <<>>, !.ootb = {}]
           B(c) == \E b \in c.books : analyzeNotebook(seen(c), b) # "GOOD"
           F(c, s) == IF s = {} THEN Finds({"none"})
                      ELSE IF AppNamespace(c) # "" THEN Errs(AppNamespace(c))
                      ELSE IF ListOrNone(c, "ImageStream").err # ""
                           THEN Errs(ListOrNone(c, "ImageStream").err)
                      ELSE Found(B(c), "advisory")
           X(c, l) == IF l.err # "" THEN Errs(l.err) ELSE F(c, l.items)
           D == X(d, ListOrNone(d, "Notebook"))
           H == X(h, ListOrNone(h, "Notebook"))
<1>1. /\ NotebookImpacted(d) = On2xTo3x(d, OfComponent(d, "workbenches", D))
      /\ NotebookImpacted(h) = On2xTo3x(h, OfComponent(h, "workbenches", H))
  BY DEF NotebookImpacted, WorkloadsOf, OfComponent, WorkloadsRun, With, On2xTo3x
<1>2. /\ d.streams = h.streams /\ d.ootb = h.ootb /\ d.ists = h.ists /\ d.books = h.books
      /\ d.fault["ImageStream"] \in {h.fault["ImageStream"], "down"}
      /\ d.fault["ImageStreamTag"] \in {h.fault["ImageStreamTag"], "down"}
  BY <1>0 DEF Blurs
<1>3. /\ ListOrNone(d, "Notebook").err = "" => ListOrNone(d, "Notebook") = ListOrNone(h, "Notebook")
      /\ ListOrNone(h, "Notebook").err = ""
      /\ ListOrNone(h, "ImageStream").err = ""
  BY <1>0, ListsStand
<1>4. d.fault["ImageStream"] = "down" => ListOrNone(d, "ImageStream").err # ""
  BY DEF ListOrNone, ListResources, Fails
<1>5. AppNamespace(d) \in {AppNamespace(h), "conn"}
  BY BlurredLookups
<1>6. ASSUME d.fault["ImageStream"] # "down", B(h)
      PROVE  B(d)
  <2>1. PICK b \in h.books : analyzeNotebook(seen(h), b) # "GOOD"
    BY <1>6
  <2> DEFINE e == seen(d)
             f == seen(h)
             U(c) == UNION {analyzeImage(c, b[i]) : i \in DOMAIN b}
  <2>2. /\ e.streams = f.streams /\ e.ootb = f.ootb /\ e.ists = f.ists
        /\ f.fault["ImageStreamTag"] # "ok" => e.fault["ImageStreamTag"] # "ok"
    BY <1>2, <1>6
  <2> HIDE DEF e, f
  <2>3. ASSUME NEW im
        PROVE  /\ analyzeImage(e, im) \subseteq Verdicts
               /\ analyzeImage(f, im) = {} => analyzeImage(e, im) = {}
               /\ analyzeImage(e, im) \subseteq {"GOOD"} => analyzeImage(f, im) \subseteq {"GOOD"}
    BY <2>2, ImageVerdicts
  <2>4. U(e) \subseteq Verdicts
    BY <2>3
  <2>5. U(e) = {"GOOD"} => U(f) = {"GOOD"}
    <3> SUFFICES ASSUME U(e) = {"GOOD"} PROVE U(f) = {"GOOD"}
      OBVIOUS
    <3>1. PICK i \in DOMAIN b : "GOOD" \in analyzeImage(e, b[i])
      OBVIOUS
    <3>2. \A j \in DOMAIN b : analyzeImage(e, b[j]) \subseteq {"GOOD"}
      OBVIOUS
    <3>3. \A j \in DOMAIN b : analyzeImage(f, b[j]) \subseteq {"GOOD"}
      BY <2>3, <3>2
    <3>4. analyzeImage(f, b[i]) # {}
      BY <2>3, <3>1
    <3> QED
      BY <3>1, <3>3, <3>4
  <2>6. analyzeNotebook(e, b) = "GOOD" => analyzeNotebook(f, b) = "GOOD"
    BY <2>4, <2>5, GoodNotebooks DEF analyzeNotebook
  <2> QED
    BY <1>2, <2>1, <2>6 DEF e, f
<1>7. B(d) \in BOOLEAN /\ B(h) \in BOOLEAN
  OBVIOUS
<1> HIDE DEF B
<1>8. \A s : Silent(F(d, s)) => Clear(F(h, s))
  BY <1>0, <1>3, <1>4, <1>5, <1>6, <1>7, Findings
<1> HIDE DEF F
<1>9. Silent(D) => Clear(H)
  BY <1>3, <1>8, Findings
<1> HIDE DEF D, H
<1> QED
  BY <1>1, <1>9, OfComponentStands, PlainGuards

LEMMA WorkloadChecksStand ==
    ASSUME NEW d, NEW h, Blurs(d, h), NEW id \in WorkloadIds
    PROVE  Stands(WorkloadCheck(id, d), WorkloadCheck(id, h))
<1>1. CASE id \in {"appwrapper", "ray", "llamaconfig", "llamamigration", "ogx", "numproc", "overrides"}
  BY <1>1, TaggedChecksStand DEF WorkloadCheck
<1>2. CASE id \in {"training", "otel", "isvcprofile", "nonstopped", "nbprofile", "containername"}
  BY <1>2, TaggedChecksStand DEF WorkloadCheck
<1>3. CASE id \in {"customrbac", "instructlab", "storedversion", "guardrails"}
  BY <1>3, PipelinesStand DEF WorkloadCheck
<1>4. CASE id \in {"kserveimpacted", "isvcaccelerator", "isvcconfig"}
  BY <1>4, ModelsStand DEF WorkloadCheck
<1>5. CASE id \in {"connections", "profiles", "nbaccelerator"}
  BY <1>5, NotebookRefsStand DEF WorkloadCheck
<1>6. CASE id = "kueuedata"
  BY <1>6, KueueStands DEF WorkloadCheck
<1>7. CASE id = "nbimages"
  BY <1>7, ImagesStand DEF WorkloadCheck
<1> QED
  BY <1>1, <1>2, <1>3, <1>4, <1>5, <1>6, <1>7 DEF WorkloadIds

(* Every registered check: what it says in spite of a failed read it also  *)
(* says when every read succeeds.                                          *)
THEOREM CheckStands ==
    ASSUME NEW d, NEW h, Blurs(d, h), NEW id \in CheckIds
    PROVE  Stands(CheckOf(id, d), CheckOf(id, h))
<1>1. CASE id \in Dependency
  <2>1. \A c : CheckOf(id, c) = DependencyCheck(id, c)
    BY <1>1 DEF CheckOf, Dependency, Platform, ComponentIds, WorkloadIds
  <2> QED
    BY <1>1, <2>1, DependencyChecksStand
<1>2. CASE id \in Platform
  <2>1. \A c : CheckOf(id, c) = PlatformCheck(id, c)
    BY <1>2 DEF CheckOf, Dependency, Platform, ComponentIds, WorkloadIds
  <2> QED
    BY <1>2, <2>1, PlatformChecksStand
<1>3. CASE id \in ComponentIds
  <2>1. \A c : CheckOf(id, c) = ComponentCheck(id, c)
    BY <1>3 DEF CheckOf, Dependency, Platform, ComponentIds, WorkloadIds
  <2> QED
    BY <1>3, <2>1, ComponentChecksStand
<1>4. CASE id \in WorkloadIds
  <2>1. \A c : CheckOf(id, c) = WorkloadCheck(id, c)
    BY <1>4 DEF CheckOf, Dependency, Platform, ComponentIds, WorkloadIds
  <2> QED
    BY <1>4, <2>1, WorkloadChecksStand
<1> QED
  BY <1>1, <1>2, <1>3, <1>4 DEF CheckIds

(* What a command may see of a state of the cluster.                       *)
Views(c) == {c, Unreachable(c)}

LEMMA ViewsAreBlurred ==
    ASSUME NEW c, IsCluster(c), \A k \in DOMAIN c.fault : c.fault[k] # "forbidden",
           c.fault["ClusterAutoscaler"] = "ok", c.disc \/ V1TellsAll(c), NEW v \in Views(c)
    PROVE  Blurs(v, Healthy(c))
<1> DEFINE h == Healthy(c)
<1>0. /\ c.fault \in [Kinds -> Faults] /\ DOMAIN c.fault = Kinds
      /\ \A w \in c.wls : w.kind \in MonitoredWorkloadTypes
  BY DEF IsCluster
<1>1. h = [c EXCEPT !.disc = TRUE,
                    !.fault = [k \in Kinds |-> IF c.fault[k] = "down" THEN "ok" ELSE c.fault[k]]]
  BY <1>0 DEF Healthy
<1>2. /\ c.from = h.from /\ c.to = h.to /\ c.st = h.st /\ c.has = h.has /\ c.olm = h.olm
      /\ c.conds = h.conds /\ c.mon = h.mon /\ c.dash = h.dash /\ c.wls = h.wls
      /\ c.owned = h.owned /\ c.orch = h.orch /\ c.streams = h.streams /\ c.ootb = h.ootb
      /\ c.ists = h.ists /\ c.books = h.books /\ c.v1 = h.v1 /\ h.disc
      /\ h.fault = [k \in Kinds |-> IF c.fault[k] = "down" THEN "ok" ELSE c.fault[k]]
  BY <1>1 DEF IsCluster
<1> HIDE DEF h
<1>6. (c.disc = h.disc \/ V1TellsAll(h)) /\ c.disc \in BOOLEAN
  BY <1>2 DEF V1TellsAll, IsCluster
<1>3. \A k \in Kinds : h.fault[k] \in {"ok", "untyped"} /\ c.fault[k] \in {h.fault[k], "down"}
  BY <1>0, <1>2 DEF Faults
<1>4. CASE v = c
  BY <1>0, <1>2, <1>3, <1>4, <1>6 DEF Blurs, h
<1>5. CASE v = Unreachable(c)
  <2>1. v = [c EXCEPT !.fault = [k \in Kinds |-> "down"]]
    BY <1>0, <1>5 DEF Unreachable
  <2>2. /\ v.from = c.from /\ v.to = c.to /\ v.st = c.st /\ v.has = c.has /\ v.olm = c.olm
        /\ v.conds = c.conds /\ v.mon = c.mon /\ v.dash = c.dash /\ v.wls = c.wls
        /\ v.owned = c.owned /\ v.orch = c.orch /\ v.streams = c.streams /\ v.ootb = c.ootb
        /\ v.ists = c.ists /\ v.books = c.books /\ v.v1 = c.v1 /\ v.disc = c.disc
        /\ v.fault = [k \in Kinds |-> "down"]
    BY <2>1 DEF IsCluster
  <2>3. v.fault["DSC"] = "down"
    BY <2>2 DEF Kinds
  <2>4. \A k \in Kinds : h.fault[k] \in {"ok", "untyped"} /\ v.fault[k] \in {h.fault[k], "down"}
    BY <1>3, <2>2
  <2>5. v.disc = h.disc \/ V1TellsAll(h)
    BY <1>6, <2>2
  <2>6. \A w \in h.wls : w.kind \in MonitoredWorkloadTypes
    BY <1>0, <1>2
  <2>7. /\ v.from = h.from /\ v.to = h.to /\ v.st = h.st /\ v.has = h.has /\ v.olm = h.olm
        /\ v.conds = h.conds /\ v.mon = h.mon /\ v.dash = h.dash /\ v.wls = h.wls
        /\ v.owned = h.owned /\ v.orch = h.orch /\ v.streams = h.streams /\ v.ootb = h.ootb
        /\ v.ists = h.ists /\ v.books = h.books /\ v.v1 = h.v1
    BY <1>2, <2>2
  <2>8. Blurs(v, h)
    BY <2>3, <2>4, <2>5, <2>6, <2>7 DEF Blurs
  <2> QED
    BY <2>8 DEF h
<1> QED
  BY <1>4, <1>5 DEF Views
-----------------------------------------------------------------------------
(* Lint: the run.                                                          *)

(* One of the states that were, with nothing or everything out of reach.   *)
Met == UNION {Views(c) : c \in was}

(* A check that had nothing to say somewhere, or applied and was silent.   *)
Passed(id) ==
    \/ \E v \in Met : CheckOf(id, v).can = "no"
    \/ (\E v \in Met : CheckOf(id, v).can = "yes") /\ \E v \in Met : Silent(CheckOf(id, v).run)

(* All but the states of the components stays as it was.                   *)
Alike(c, e) ==
    /\ c.from = e.from /\ c.to = e.to /\ c.has = e.has /\ c.fault = e.fault
    /\ c.disc = e.disc /\ c.v1 = e.v1
    /\ c.streams = e.streams /\ c.ootb = e.ootb /\ c.ists = e.ists /\ c.books = e.books

(* The exit code is that of a report, and good.                            *)
Reported == Upgrade /\ exit = ExitSuccess

ClusterInv ==
    /\ cluster \in was
    /\ \A c \in was : IsCluster(c) /\ Alike(c, cluster)

CurrentInv == current # "" => \E v \in Met : CheckOf(current, v).can = "yes"

(* No selected check is lost: it is still to run, was cut off, raised an   *)
(* alarm that is not forgotten, or passed.                                 *)
LedgerInv ==
    pc = "execute" \/ Reported =>
      \A id \in Selected(in.patterns) :
        id \in todo \cup skipped \/ id = current \/ found \cap Alarms # {} \/ Passed(id)

ReportInv ==
    /\ pc \in {"validate", "detect"} => current = "" /\ skipped = {}
    /\ todo # {} => skipped = {}
    /\ Reported => todo = {} /\ current = "" /\ (in.severity = "info" => found \cap Alarms = {})

LintInv == ClusterInv /\ CurrentInv /\ LedgerInv /\ ReportInv

LEMMA SeenIsMet == ASSUME ClusterInv PROVE Seen \in Met
BY DEF ClusterInv, Seen, Met, Views

(* A verdict of a run can be good only without an alarm.                   *)
LEMMA GoodVerdicts ==
    ASSUME NEW code, NEW s, resolveExitError(code, evaluateVerdict(FilterBySeverity(s, "info"))) = ExitSuccess
    PROVE  s \cap Alarms = {}
<1> DEFINE f == FilterBySeverity(s, "info")
<1>1. f = s \cap Impacts
  BY DEF FilterBySeverity
<1> HIDE DEF f
<1>2. evaluateVerdict(f) = ExitSuccess
  BY DEF resolveExitError, f
<1>3. {"prohibited", "blocking"} \cap f = {} /\ "advisory" \notin f
  BY <1>2 DEF evaluateVerdict, ExitSuccess, ExitError, ExitWarning
<1> QED
  BY <1>1, <1>3 DEF Alarms, Impacts

LEMMA FailuresExit == \A e : ExitCodeFromError(e) # ExitSuccess
BY DEF ExitCodeFromError, ExitSuccess, ExitAuth, ExitConnection, ExitError, Panicked

(* Nothing that has passed is taken back.                                  *)
LEMMA PassedStays ==
    ASSUME was \subseteq was', NEW id, Passed(id) PROVE Passed(id)'
<1>1. Met \subseteq Met'
  BY DEF Met
<1> QED
  BY <1>1 DEF Passed

LEMMA LintInitially == LintInit => LintInv
<1> SUFFICES ASSUME LintInit PROVE LintInv
  OBVIOUS
<1>1. PICK s \in Scenarios : cluster = s.cluster /\ was = {s.cluster}
  BY DEF LintInit
<1>2. pc = "validate" /\ current = "" /\ skipped = {}
  BY DEF LintInit
<1>3. IsCluster(s.cluster)
  BY LintAssumption
<1>4. ClusterInv
  BY <1>1, <1>3 DEF ClusterInv, Alike
<1> QED
  BY <1>2, <1>4 DEF LintInv, CurrentInv, LedgerInv, ReportInv, Reported, Upgrade

(* What a step that leaves the cluster alone has to show.                  *)
LEMMA QuietSteps ==
    ASSUME LintInv, UNCHANGED <<cluster, was, in>>, CurrentInv', LedgerInv', ReportInv'
    PROVE  LintInv'
BY DEF LintInv, ClusterInv

LEMMA StartKeepsLedger ==
    ASSUME LintInv, Validate \/ Detect
    PROVE  LintInv'
<1>1. current = "" /\ skipped = {} /\ UNCHANGED <<cluster, was, in, current, found, skipped>>
  BY DEF LintInv, ReportInv, Validate, Detect
<1>2. CurrentInv'
  BY <1>1 DEF CurrentInv
<1>3. ~Reported'
  <2>1. CASE Validate
    <3>1. pc' = "done" /\ in.flags = "ok" => exit' # ExitSuccess
      BY <2>1 DEF Validate, End, ExitSuccess, ExitValidation, ExitError
    <3> QED
      BY <1>1, <3>1 DEF Reported, Upgrade
  <2>2. CASE Detect
    <3>1. OlderThan(cluster.from, cluster.to) => ~SameMajorMinor(cluster.from, cluster.to)
      <4>1. cluster.from \in Nat \X Nat /\ cluster.to \in Nat \X Nat
        BY DEF LintInv, ClusterInv, IsCluster
      <4> QED
        BY <4>1 DEF OlderThan, SameMajorMinor, IsVersionAtLeast
    <3>2. pc' = "done" => exit' # ExitSuccess \/ SameMajorMinor(cluster.from, cluster.to)
      <4>1. Panicked # ExitSuccess /\ ExitValidation # ExitSuccess /\ ExitError # ExitSuccess
        BY DEF Panicked, ExitSuccess, ExitValidation, ExitError
      <4> QED
        BY <2>2, <4>1, FailuresExit DEF Detect, End
    <3> QED
      BY <1>1, <3>1, <3>2 DEF Reported, Upgrade
  <2> QED
    BY <2>1, <2>2
<1>4. pc' = "execute" => todo' = Selected(in.patterns)
  BY DEF Validate, Detect, End
<1>5. LedgerInv'
  BY <1>1, <1>3, <1>4 DEF LedgerInv
<1>6. ReportInv'
  BY <1>1, <1>3 DEF ReportInv
<1> QED
  BY <1>1, <1>2, <1>5, <1>6, QuietSteps

(* A failed check ends the command in a panic or leaves an alarm.          *)
LEMMA FailuresAlarm ==
    ASSUME NEW e, pc = "execute", Failed(e)
    PROVE  /\ ~Reported'
           /\ pc' = "execute" => found' \cap Alarms # {}
           /\ pc' \in {"execute", "done"}
<1>1. CASE e = "panic"
  <2>1. pc' = "done" /\ exit' # ExitSuccess
    BY <1>1 DEF Failed, End, Panicked, ExitSuccess
  <2> QED
    BY <2>1 DEF Reported
<1>2. CASE e # "panic"
  <2>1. found' = found \cup {"advisory"} /\ pc' = "execute"
    BY <1>2 DEF Failed
  <2>2. "advisory" \in found' \cap Alarms
    BY <2>1 DEF Alarms
  <2> QED
    BY <2>1, <2>2 DEF Reported, Upgrade
<1> QED
  BY <1>1, <1>2

LEMMA CanApplyKeepsLedger ==
    ASSUME LintInv, CanApply
    PROVE  LintInv'
<1>0. /\ UNCHANGED <<cluster, was, in, skipped>> /\ pc = "execute" /\ current = ""
      /\ todo # {} /\ skipped = {}
  BY DEF CanApply, LintInv, ReportInv
<1>1. PICK id \in todo :
        /\ todo' = todo \ {id}
        /\ LET can == CheckOf(id, Seen).can
           IN  CASE can = "yes" -> current' = id /\ UNCHANGED <<found, errors, pc, exit>>
                 [] can = "no"  -> UNCHANGED <<current, found, errors, pc, exit>>
                 [] OTHER       -> Failed(can) /\ UNCHANGED current
  BY DEF CanApply
<1> DEFINE can == CheckOf(id, Seen).can
<1>2. Seen \in Met /\ Met' = Met
  BY <1>0, SeenIsMet DEF LintInv, Met
<1>3. \A x : Passed(x) => Passed(x)'
  BY <1>0, PassedStays
<1>4. \A x \in Selected(in.patterns) : x \in todo \cup skipped \/ found \cap Alarms # {} \/ Passed(x) \/ x = ""
  BY <1>0 DEF LintInv, LedgerInv
<1>5. "" \notin CheckIds
  BY DEF CheckIds, Dependency, Platform, ComponentIds, WorkloadIds
<1>6. \A x \in Selected(in.patterns) : x \in todo \cup skipped \/ found \cap Alarms # {} \/ Passed(x)
  BY <1>4, <1>5 DEF Selected
<1>7. CASE can = "yes"
  <2>1. current' = id /\ UNCHANGED <<found, errors, pc, exit>>
    BY <1>1, <1>7
  <2>2. ~Reported' /\ pc' = "execute"
    BY <1>0, <2>1 DEF Reported, Upgrade
  <2>3. CurrentInv'
    BY <1>2, <1>7, <2>1 DEF CurrentInv
  <2>4. LedgerInv'
    BY <1>0, <1>1, <1>3, <1>6, <2>1 DEF LedgerInv
  <2>5. ReportInv'
    BY <1>0, <2>2 DEF ReportInv
  <2> QED
    BY <1>0, <2>3, <2>4, <2>5, QuietSteps
<1>8. CASE can = "no"
  <2>1. current' = "" /\ UNCHANGED <<found, errors, pc, exit>>
    BY <1>0, <1>1, <1>8
  <2>2. ~Reported' /\ pc' = "execute"
    BY <1>0, <2>1 DEF Reported, Upgrade
  <2>3. CurrentInv'
    BY <2>1 DEF CurrentInv
  <2>4. Passed(id)'
    BY <1>2, <1>8 DEF Passed
  <2>5. LedgerInv'
    BY <1>0, <1>1, <1>3, <1>6, <2>1, <2>4 DEF LedgerInv
  <2>6. ReportInv'
    BY <1>0, <2>2 DEF ReportInv
  <2> QED
    BY <1>0, <2>3, <2>5, <2>6, QuietSteps
<1>9. CASE can \notin {"yes", "no"}
  <2>1. Failed(can) /\ current' = ""
    BY <1>0, <1>1, <1>9
  <2>2. /\ ~Reported'
        /\ pc' = "execute" => found' \cap Alarms # {}
        /\ pc' \in {"execute", "done"}
    BY <1>0, <2>1, FailuresAlarm
  <2>3. CurrentInv' /\ LedgerInv' /\ ReportInv'
    BY <1>0, <2>1, <2>2 DEF CurrentInv, LedgerInv, ReportInv
  <2> QED
    BY <1>0, <2>3, QuietSteps
<1> QED
  BY <1>7, <1>8, <1>9

LEMMA ExecuteKeepsLedger ==
    ASSUME LintInv, Execute
    PROVE  LintInv'
<1>0. /\ UNCHANGED <<cluster, was, in, todo, skipped>> /\ pc = "execute"
      /\ current # "" /\ current' = "" /\ (todo # {} => skipped = {})
  BY DEF Execute, LintInv, ReportInv
<1> DEFINE r == CheckOf(current, Seen).run
<1>1. IF r.err # "" THEN Failed(r.err) ELSE found' = found \cup r.impacts /\ UNCHANGED <<errors, pc, exit>>
  BY DEF Execute
<1>2. Seen \in Met /\ Met' = Met
  BY <1>0, SeenIsMet DEF LintInv, Met
<1>3. \A x : Passed(x) => Passed(x)'
  BY <1>0, PassedStays
<1>4. \A x \in Selected(in.patterns) :
        x \in todo \cup skipped \/ x = current \/ found \cap Alarms # {} \/ Passed(x)
  BY <1>0 DEF LintInv, LedgerInv
<1>5. CurrentInv'
  BY <1>0 DEF CurrentInv
<1>6. CASE r.err # ""
  <2>1. Failed(r.err)
    BY <1>1, <1>6
  <2>2. /\ ~Reported'
        /\ pc' = "execute" => found' \cap Alarms # {}
        /\ pc' \in {"execute", "done"}
    BY <1>0, <2>1, FailuresAlarm
  <2>3. LedgerInv' /\ ReportInv'
    BY <1>0, <2>2 DEF LedgerInv, ReportInv
  <2> QED
    BY <1>0, <1>5, <2>3, QuietSteps
<1>7. CASE r.err = ""
  <2>1. found' = found \cup r.impacts /\ pc' = "execute"
    BY <1>0, <1>1, <1>7
  <2>2. ~Reported'
    BY <2>1 DEF Reported, Upgrade
  <2>3. found' \cap Alarms # {} \/ Silent(r)
    BY <1>7, <2>1 DEF Silent
  <2>4. PICK y \in Met : CheckOf(current, y).can = "yes"
    BY <1>0 DEF LintInv, CurrentInv
  <2>5. Silent(r) => Passed(current)
    BY <1>2, <2>4 DEF Passed
  <2>6. LedgerInv'
    <3> SUFFICES ASSUME NEW id \in Selected(in.patterns)
                 PROVE  id \in todo \cup skipped \/ found' \cap Alarms # {} \/ Passed(id)'
      BY <1>0 DEF LedgerInv
    <3> QED
      BY <1>3, <1>4, <2>1, <2>3, <2>5
  <2>7. ReportInv'
    BY <1>0, <2>1, <2>2 DEF ReportInv
  <2> QED
    BY <1>0, <1>5, <2>6, <2>7, QuietSteps
<1> QED
  BY <1>6, <1>7

LEMMA EndKeepsLedger ==
    ASSUME LintInv, Break \/ Report
    PROVE  LintInv'
<1>0. /\ UNCHANGED <<cluster, was, in, current, found>> /\ pc = "execute" /\ current = "" /\ todo' = {}
  BY DEF Break, Report
<1>1. CurrentInv'
  BY <1>0 DEF CurrentInv
<1>2. \A x : Passed(x) => Passed(x)'
  BY <1>0, PassedStays
<1>3. CASE Report
  <2>1. skipped' = skipped /\ todo' = todo /\ todo = {} /\ pc' = "done"
    BY <1>3 DEF Report, End
  <2>2. LedgerInv'
    BY <1>0, <1>2, <2>1 DEF LedgerInv, LintInv
  <2>3. ASSUME exit' = ExitSuccess, in.severity = "info"
        PROVE  found \cap Alarms = {}
    BY <1>3, <2>3, GoodVerdicts DEF Report, End
  <2>4. ReportInv'
    BY <1>0, <2>1, <2>3 DEF ReportInv, Reported
  <2> QED
    BY <1>0, <1>1, <2>2, <2>4, QuietSteps
<1>4. CASE Break
  <2>1. pc' = "execute" /\ skipped' = todo /\ skipped = {}
    BY <1>0, <1>4 DEF Break, LintInv, ReportInv
  <2>2. LedgerInv'
    BY <1>0, <1>2, <2>1 DEF LedgerInv, LintInv
  <2>3. ReportInv'
    BY <1>0, <2>1 DEF ReportInv, Reported, Upgrade
  <2> QED
    BY <1>0, <1>1, <2>2, <2>3, QuietSteps
<1> QED
  BY <1>3, <1>4

(* An edit leaves a cluster that was, and one that differs in one state.   *)
LEMMA EditKeepsLedger ==
    ASSUME LintInv, Edit
    PROVE  LintInv'
<1>0. /\ UNCHANGED <<in, todo, current, found, skipped, pc, exit>> /\ pc = "execute"
      /\ was' = was \cup {cluster'}
  BY DEF Edit
<1>1. PICK e \in Edits : cluster' = [cluster EXCEPT !.st[e[1]] = e[2]]
  BY DEF Edit
<1>2. IsCluster(cluster) /\ cluster \in was
  BY DEF LintInv, ClusterInv
<1>3. \E st : cluster' = [cluster EXCEPT !.st = st]
  BY <1>1
<1>4. PICK st : cluster' = [cluster EXCEPT !.st = st]
  BY <1>3
<1>5. /\ cluster' = [from |-> cluster.from, to |-> cluster.to, st |-> st, has |-> cluster.has,
                     fault |-> cluster.fault, olm |-> cluster.olm, disc |-> cluster.disc,
                     v1 |-> cluster.v1, conds |-> cluster.conds,
                     mon |-> cluster.mon, dash |-> cluster.dash, wls |-> cluster.wls,
                     owned |-> cluster.owned, orch |-> cluster.orch, streams |-> cluster.streams,
                     ootb |-> cluster.ootb, ists |-> cluster.ists, books |-> cluster.books]
  BY <1>2, <1>4 DEF IsCluster
<1>6. IsCluster(cluster') /\ Alike(cluster', cluster)
  BY <1>2, <1>5 DEF IsCluster, V1TellsAll, Alike
<1>7. ClusterInv'
  <2>1. \A c \in was : IsCluster(c) /\ Alike(c, cluster')
    BY <1>6 DEF LintInv, ClusterInv, Alike
  <2>2. Alike(cluster', cluster')
    BY DEF Alike
  <2> QED
    BY <1>0, <1>6, <2>1, <2>2 DEF ClusterInv
<1>8. \A x : Passed(x) => Passed(x)'
  BY <1>0, PassedStays
<1>9. CurrentInv'
  <2>1. Met \subseteq Met'
    BY <1>0 DEF Met
  <2> QED
    BY <1>0, <2>1 DEF LintInv, CurrentInv
<1>10. LedgerInv'
  BY <1>0, <1>8 DEF LintInv, LedgerInv
<1>11. ReportInv'
  BY <1>0 DEF LintInv, ReportInv, Reported, Upgrade
<1> QED
  BY <1>7, <1>9, <1>10, <1>11 DEF LintInv

LEMMA LintStep == LintInv /\ [LintNext]_lintVars => LintInv'
<1> SUFFICES ASSUME LintInv, [LintNext]_lintVars PROVE LintInv'
  OBVIOUS
<1>1. CASE Validate \/ Detect
  BY <1>1, StartKeepsLedger
<1>2. CASE CanApply
  BY <1>2, CanApplyKeepsLedger
<1>3. CASE Execute
  BY <1>3, ExecuteKeepsLedger
<1>4. CASE Break \/ Report
  BY <1>4, EndKeepsLedger
<1>5. CASE LoseAPI \/ Done \/ UNCHANGED lintVars
  <2>1. UNCHANGED <<cluster, was, in, todo, current, found, skipped, pc, exit>>
    BY <1>5 DEF LoseAPI, Done, lintVars
  <2>2. \A x : Passed(x) => Passed(x)'
    BY <2>1, PassedStays
  <2>3. CurrentInv'
    BY <2>1 DEF LintInv, CurrentInv, Met
  <2>4. LedgerInv' /\ ReportInv'
    BY <2>1, <2>2 DEF LintInv, LedgerInv, ReportInv, Reported, Upgrade
  <2> QED
    BY <2>1, <2>3, <2>4, QuietSteps
<1>6. CASE Edit
  BY <1>6, EditKeepsLedger
<1> QED
  BY <1>1, <1>2, <1>3, <1>4, <1>5, <1>6 DEF LintNext, Step

(* The ledger of the checks is kept by every behaviour (runUpgradeMode,    *)
(* executeChecks, executeCheck): a selected check that has been taken up   *)
(* and that raised no alarm has passed on something the command read.      *)
THEOREM LintLedger == LintSpec => []LintInv
BY LintInitially, LintStep, PTL DEF LintSpec

(* A run that exits with success, whatever reads failed and whoever edited *)
(* the DataScienceCluster, has seen every selected check pass              *)
(* (runUpgradeMode, executeChecks and the 59 registered checks). Of the    *)
(* errors the code drops this leaves out the denied list, the list of      *)
(* autoscalers, and the discovery of a cluster where v1 does not tell all. *)
THEOREM CleanExits == LintSpec => []CleanExitIsEarned
<1>1. LintInv => CleanExitIsEarned
  <2> SUFFICES ASSUME LintInv, Reported, skipped = {}, in.severity = "info",
                      \A k \in DOMAIN cluster.fault : cluster.fault[k] # "forbidden",
                      cluster.fault["ClusterAutoscaler"] = "ok",
                      cluster.disc \/ V1TellsAll(cluster),
                      NEW id \in Selected(in.patterns)
               PROVE  Earned(id)
    BY DEF CleanExitIsEarned, CleanExit, Reported
  <2>1. id \in CheckIds /\ id # ""
    BY DEF Selected, CheckIds, Dependency, Platform, ComponentIds, WorkloadIds
  <2>2. Passed(id)
    BY <2>1 DEF LintInv, LedgerInv, ReportInv
  <2>3. ASSUME NEW v \in Met
        PROVE  \E c \in was : Stands(CheckOf(id, v), CheckOf(id, Healthy(c)))
    <3>1. PICK c \in was : v \in Views(c)
      BY DEF Met
    <3>2. IsCluster(c) /\ c.fault = cluster.fault /\ (c.disc \/ V1TellsAll(c))
      BY DEF LintInv, ClusterInv, Alike, V1TellsAll
    <3>3. Blurs(v, Healthy(c))
      BY <3>1, <3>2, ViewsAreBlurred
    <3> QED
      BY <2>1, <3>3, CheckStands
  <2>4. ASSUME NEW v \in Met, CheckOf(id, v).can = "no"
        PROVE  \E c \in was : Applies(id, c) = "no"
    BY <2>3, <2>4 DEF Stands, Answers, Applies
  <2>5. ASSUME NEW v \in Met, CheckOf(id, v).can = "yes"
        PROVE  \E c \in was : Applies(id, c) = "yes"
    BY <2>3, <2>5 DEF Stands, Answers, Applies
  <2>6. ASSUME NEW v \in Met, Silent(CheckOf(id, v).run)
        PROVE  \E c \in was : Clean(id, c)
    BY <2>3, <2>6 DEF Stands, Clear, Clean
  <2> QED
    BY <2>2, <2>4, <2>5, <2>6 DEF Passed, Earned
<1> QED
  BY <1>1, LintLedger, PTL

(* The first of a set of positions.                                        *)
LEMMA Earliest == ASSUME NEW S, S \subseteq Nat, S # {} PROVE \E m \in S : \A y \in S : m <= y
<1>1. PICK m \in S : \A y \in S : ~(<<y, m>> \in OpToRel(<, Nat))
  BY WFMin, NatLessThanWellFounded
<1>2. ASSUME NEW y \in S, y < m PROVE <<y, m>> \in OpToRel(<, Nat)
  <2>1. <<y, m>> \in Nat \X Nat /\ <<y, m>>[1] < <<y, m>>[2]
    BY <1>2
  <2> QED
    BY <2>1 DEF OpToRel
<1>3. \A y \in S : ~(y < m)
  BY <1>1, <1>2, Zenon
<1> QED
  BY <1>3

LEMMA VersionsAreTags == ASSUME NEW tag, isValidVersionTag(tag) PROVE tag # NoTag
<1>1. Len(NoTag) = 1 /\ Len(tag) = 2
  BY DEF NoTag, isValidVersionTag
<1> QED
  BY <1>1

LEMMA SecondTry == 2 \in 1..4 /\ \A S \in SUBSET (1..4) : 1 \notin S => \A j \in S : 2 <= j
OBVIOUS

(* The image of a notebook that is judged by an old tag is found by its    *)
(* reference or by its digest, and is judged to break.                     *)
LEMMA OldImages ==
    ASSUME NEW c, DOMAIN c.streams \subseteq Nat, NEW im, TagOnly(c, im)
    PROVE  "PRE" \in analyzeImage(c, im)
<1> DEFINE byRef == {i \in DOMAIN c.streams : im.ref \in c.streams[i].refs}
           bySha == {i \in DOMAIN c.streams : im.sha # "" /\ im.sha \in c.streams[i].shas}
           Hit(i) == [is |-> c.streams[i].is, tag |-> c.streams[i].tag]
           Type(h) == (CHOOSE o \in c.ootb : o.is = h.is).type
           tries == <<findImageStreamByDockerImageRef(c, im), findImageStreamForSHA(c, im),
                      findImageStreamByDockerRepo(c, im), findImageStreamBySpecRef(c, im)>>
           Known(hits) == {h \in hits : \E o \in c.ootb : o.is = h.is}
           good == {i \in DOMAIN tries : Known(tries[i]) # {}}
           first == {i \in good : \A j \in good : i <= j}
<1>0. /\ im.sha # "" /\ byRef \cup bySha # {}
      /\ \A i \in byRef \cup bySha :
           /\ \E o \in c.ootb : o.is = c.streams[i].is
           /\ \A o \in c.ootb : o.is = c.streams[i].is => o.type \notin {"jupyter", "rstudio"}
           /\ isValidVersionTag(c.streams[i].tag)
           /\ ~isGTE(c.streams[i].tag, NginxFixMinTag)
  BY DEF TagOnly
<1>1. ASSUME NEW i \in byRef \cup bySha
      PROVE  analyzeOOTBImage(c, im, Hit(i), Type(Hit(i))) = "PRE"
  <2>1. Type(Hit(i)) \notin {"jupyter", "rstudio"}
    BY <1>0
  <2>2. Hit(i).tag = c.streams[i].tag /\ isValidVersionTag(Hit(i).tag) /\ ~isGTE(Hit(i).tag, NginxFixMinTag)
    BY <1>0
  <2>3. Hit(i).tag # NoTag
    BY <2>2, VersionsAreTags
  <2>4. ~findCompliantTagForSHA(c, im)
    BY <1>0 DEF findCompliantTagForSHA
  <2>5. analyzeTagBasedImageCompat(c, im, Hit(i)) = "PRE"
    BY <2>2, <2>3, <2>4 DEF analyzeTagBasedImageCompat
  <2> QED
    BY <2>1, <2>5 DEF analyzeOOTBImage
<1>2. /\ findImageStreamByDockerImageRef(c, im) = {Hit(i) : i \in {h \in byRef : \A j \in byRef : h <= j}}
      /\ findImageStreamForSHA(c, im) = {Hit(i) : i \in {h \in bySha : \A j \in bySha : h <= j}}
  BY DEF findImageStreamByDockerImageRef, findImageStreamForSHA, FirstTag
<1>3. ASSUME NEW S \in {byRef, bySha}, S # {}
      PROVE  \E i \in S : Hit(i) \in Known({Hit(k) : k \in {h \in S : \A j \in S : h <= j}})
  <2>1. S = byRef \/ S = bySha
    BY <1>3
  <2>2. S \subseteq byRef \cup bySha
    BY <2>1
  <2>3. S \subseteq Nat
    <3>1. byRef \subseteq DOMAIN c.streams /\ bySha \subseteq DOMAIN c.streams
      OBVIOUS
    <3> QED
      BY <2>1, <3>1
  <2>4. PICK i \in S : \A j \in S : i <= j
    BY <1>3, <2>3, Earliest
  <2>5. Hit(i).is = c.streams[i].is
    OBVIOUS
  <2>6. \E o \in c.ootb : o.is = Hit(i).is
    BY <1>0, <2>2, <2>5
  <2> QED
    BY <2>4, <2>6
<1>4. DOMAIN tries = 1..4 /\ tries[1] = findImageStreamByDockerImageRef(c, im)
      /\ tries[2] = findImageStreamForSHA(c, im)
  OBVIOUS
<1>5. analyzeImage(c, im) = IF good = {} THEN {"CUSTOM"}
                            ELSE {analyzeOOTBImage(c, im, h, Type(h)) : h \in UNION {Known(tries[i]) : i \in first}}
  BY DEF analyzeImage
<1> HIDE DEF Hit, tries, Known
<1>6. \E n \in first : \E i \in byRef \cup bySha : Hit(i) \in Known(tries[n])
  <2>1. CASE byRef # {}
    <3>1. PICK i \in byRef : Hit(i) \in Known(tries[1])
      BY <1>2, <1>3, <1>4, <2>1
    <3>2. 1 \in first
      BY <1>4, <3>1
    <3> QED
      BY <3>1, <3>2
  <2>2. CASE byRef = {}
    <3>1. tries[1] = {}
      BY <1>2, <1>4, <2>2
    <3>2. 1 \notin good
      BY <3>1 DEF Known
    <3>3. PICK i \in bySha : Hit(i) \in Known(tries[2])
      BY <1>0, <1>2, <1>3, <1>4, <2>2
    <3>4. 2 \in good /\ good \subseteq 1..4
      <4>1. 2 \in 1..4
        BY SecondTry
      <4>2. Known(tries[2]) # {}
        BY <3>3
      <4> QED
        BY <1>4, <4>1, <4>2
    <3>5. \A j \in good : 2 <= j
      BY <3>2, <3>4, SecondTry
    <3>6. 2 \in first
      BY <3>4, <3>5
    <3> QED
      BY <3>3, <3>6
  <2> QED
    BY <2>1, <2>2
<1>7. PICK n \in first, i \in byRef \cup bySha : Hit(i) \in Known(tries[n])
  BY <1>6
<1>8. good # {}
  BY <1>7
<1>9. Hit(i) \in UNION {Known(tries[k]) : k \in first}
  BY <1>7
<1> HIDE DEF good, first, Type
<1>10. analyzeOOTBImage(c, im, Hit(i), Type(Hit(i))) \in analyzeImage(c, im)
  BY <1>5, <1>8, <1>9
<1> QED
  BY <1>1, <1>7, <1>10

(* A notebook with such an image never gets through an assessment with a   *)
(* clean exit (analyzeNotebook, analyzeImage, runUpgradeMode).             *)
THEOREM OldImagesAreFlagged == LintSpec => []OldImageFlagged
<1>1. LintInv => OldImageFlagged
  <2> SUFFICES ASSUME LintInv, Reported, skipped = {}, in.severity = "info",
                      "nbimages" \in Selected(in.patterns), IsUpgradeFrom2xTo3x(cluster),
                      \A c \in was : c.st["workbenches"] # "Removed",
                      Singleton(cluster, "DSC") # "notfound", cluster.fault["Notebook"] = "ok",
                      NEW b \in cluster.books, NEW i \in DOMAIN b, TagOnly(cluster, b[i])
               PROVE  FALSE
    BY DEF OldImageFlagged, Reported
  <2>0. \A c : CheckOf("nbimages", c) = NotebookImpacted(c)
    BY DEF CheckOf, WorkloadCheck, Dependency, Platform, ComponentIds, WorkloadIds
  <2>1. Passed("nbimages")
    BY DEF LintInv, LedgerInv, ReportInv
  <2>2. ASSUME NEW c \in was, NEW v \in Views(c)
        PROVE  /\ NotebookImpacted(v).can = "yes"
               /\ v = c \/ v.fault["DSC"] = "down"
    <3>1. IsCluster(c) /\ Alike(c, cluster)
      BY DEF LintInv, ClusterInv
    <3>2. v.from = c.from /\ v.to = c.to /\ (v = c \/ v.fault = [k \in Kinds |-> "down"])
      BY <3>1 DEF Views, Unreachable, IsCluster
    <3>3. IsUpgradeFrom2xTo3x(v)
      BY <3>1, <3>2 DEF IsUpgradeFrom2xTo3x, Alike
    <3>4. "DSC" \in Kinds
      BY DEF Kinds
    <3> QED
      BY <3>2, <3>3, <3>4 DEF NotebookImpacted, Yes
  <2>3. PICK v \in Met : Silent(NotebookImpacted(v).run)
    BY <2>0, <2>1, <2>2 DEF Passed, Met
  <2>4. PICK c \in was : v \in Views(c)
    BY DEF Met
  <2>5. IsCluster(c) /\ Alike(c, cluster) /\ c.st["workbenches"] # "Removed"
    BY DEF LintInv, ClusterInv
  <2>6. "DSC" \in Kinds /\ "Notebook" \in Kinds /\ "advisory" \in Alarms
    BY DEF Kinds, Alarms
  <2> DEFINE seen == IF c.fault["ImageStream"] = "ok" THEN c
                     ELSE [c EXCEPT !.streams = <<>>, !.ootb = {}]
             B == \E x \in c.books : analyzeNotebook(seen, x) # "GOOD"
             l == ListOrNone(c, "Notebook")
             F(s) == IF s = {} THEN Finds({"none"})
                     ELSE IF AppNamespace(c) # "" THEN Errs(AppNamespace(c))
                     ELSE IF ListOrNone(c, "ImageStream").err # ""
                          THEN Errs(ListOrNone(c, "ImageStream").err)
                     ELSE Found(B, "advisory")
             X == IF l.err # "" THEN Errs(l.err) ELSE F(l.items)
  <2>7. v = c
    <3>1. ASSUME v.fault["DSC"] = "down" PROVE FALSE
      <4>1. Singleton(v, "DSC") = "conn"
        BY <3>1 DEF Singleton, ListOrNone, ListResources, Fails, Items
      <4>2. NotebookImpacted(v).run = Errs("conn")
        BY <4>1 DEF NotebookImpacted, WorkloadsOf
      <4> QED
        BY <2>3, <4>2, Findings
    <3> QED
      BY <2>2, <2>4, <3>1
  <2>8. NotebookImpacted(c).run = OfComponent(c, "workbenches", X)
    BY DEF NotebookImpacted, WorkloadsOf, OfComponent, WorkloadsRun, With
  <2>9. Singleton(c, "DSC") = Singleton(cluster, "DSC")
    <3>1. ListResources(c, "DSC") = ListResources(cluster, "DSC")
      BY <2>5 DEF Alike, ListResources
    <3> QED
      BY <2>5, <3>1 DEF Singleton, ListOrNone, Alike
  <2>10. l.err = "" /\ l.items = c.has["Notebook"]
    BY <2>5 DEF Alike, ListOrNone, ListResources, Items
  <2>11. b \in c.books /\ c.has["Notebook"] # {}
    BY <2>5 DEF Alike, IsCluster
  <2> HIDE DEF B
  <2>12. X = F(c.has["Notebook"])
    BY <2>10
  <2> HIDE DEF X, l
  <2>13. Silent(X)
    <3>1. Singleton(c, "DSC") # "notfound" /\ ~HasState(c, "workbenches", {"Removed"})
      <4>1. c.from[1] = 2
        BY <2>5 DEF Alike, IsUpgradeFrom2xTo3x
      <4>2. Hidden(c) = {}
        BY <2>5, <4>1 DEF IsCluster, V1TellsAll, Hidden
      <4> QED
        BY <2>5, <2>9, <4>2 DEF HasState, StateOf
    <3>2. \/ OfComponent(c, "workbenches", X) = Errs(Singleton(c, "DSC")) /\ Singleton(c, "DSC") # ""
          \/ OfComponent(c, "workbenches", X) = X
      BY <3>1 DEF OfComponent
    <3> QED
      BY <2>3, <2>7, <2>8, <3>2, Findings
  <2>14. Silent(Found(B, "advisory"))
    BY <2>11, <2>12, <2>13, Findings
  <2>15. B \in BOOLEAN
    BY DEF B
  <2>16. ~B
    BY <2>6, <2>14, <2>15, Findings
  <2> DEFINE U == UNION {analyzeImage(seen, b[j]) : j \in DOMAIN b}
  <2>17. aggregateImageAnalyses(U) = "GOOD"
    BY <2>11, <2>16 DEF B, analyzeNotebook
  <2>18. U \subseteq Verdicts
    BY ImageVerdicts
  <2>19. U = {"GOOD"}
    BY <2>17, <2>18, GoodNotebooks
  <2>20. analyzeImage(seen, b[i]) \subseteq {"GOOD"}
    BY <2>19
  <2>21. CASE c.fault["ImageStream"] = "ok"
    <3>0. c.streams = cluster.streams /\ c.ootb = cluster.ootb
      BY <2>5 DEF Alike
    <3>1. seen = c /\ TagOnly(c, b[i])
      BY <2>21, <3>0 DEF TagOnly
    <3>2. "PRE" \in analyzeImage(c, b[i])
      <4>1. DOMAIN c.streams = 1..Len(c.streams) /\ Len(c.streams) \in Nat
        BY <2>5 DEF IsCluster
      <4>2. \A n \in Nat : 1..n \subseteq Nat
        OBVIOUS
      <4> QED
        BY <3>1, <4>1, <4>2, OldImages
    <3> QED
      BY <2>20, <3>1, <3>2
  <2>22. CASE c.fault["ImageStream"] # "ok"
    <3>1. seen.ootb = {}
      BY <2>5, <2>22 DEF IsCluster
    <3> HIDE DEF seen
    <3>2. analyzeImage(seen, b[i]) = {"CUSTOM"}
      BY <3>1 DEF analyzeImage
    <3> QED
      BY <2>20, <3>2
  <2> QED
    BY <2>21, <2>22
<1> QED
  BY <1>1, LintLedger, PTL

(* The exit codes: of the errors of checks, of their worst, of the run.    *)
LEMMA ErrorCodes == \A e : ExitCodeFromError(e) \in {1, 4, 5, 99}
BY DEF ExitCodeFromError, ExitAuth, ExitConnection, ExitError, Panicked

LEMMA Priorities ==
    /\ priority(0) = 0 /\ priority(1) = 2 /\ priority(2) = 1
    /\ priority(4) = 4 /\ priority(5) = 5 /\ priority(99) = 99
BY DEF priority, ExitSuccess, ExitWarning, ExitError

LEMMA WorstErrors == ASSUME NEW es, es # {} PROVE HighestPriority(es) \in {1, 4, 5, 99}
<1> DEFINE codes == {ExitSuccess} \cup {ExitCodeFromError(e) : e \in es}
           Top(x) == \A y \in codes : ~IsHigherPriority(y, x)
           worst == CHOOSE x \in codes : Top(x)
<1>1. codes \subseteq {0, 1, 4, 5, 99} /\ 0 \in codes
  BY ErrorCodes DEF ExitSuccess
<1>2. PICK y \in codes : y \in {1, 4, 5, 99}
  BY ErrorCodes
<1>3. HighestPriority(es) = worst
  BY DEF HighestPriority
<1> HIDE DEF codes
<1>4. \E x \in codes : Top(x)
  <2>1. CASE 99 \in codes
    BY <1>1, <2>1, Priorities DEF IsHigherPriority
  <2>2. CASE 99 \notin codes /\ 5 \in codes
    BY <1>1, <2>2, Priorities DEF IsHigherPriority
  <2>3. CASE 99 \notin codes /\ 5 \notin codes /\ 4 \in codes
    BY <1>1, <2>3, Priorities DEF IsHigherPriority
  <2>4. CASE 99 \notin codes /\ 5 \notin codes /\ 4 \notin codes
    BY <1>1, <1>2, <2>4, Priorities DEF IsHigherPriority
  <2> QED
    BY <2>1, <2>2, <2>3, <2>4
<1>5. worst \in codes /\ Top(worst)
  BY <1>4
<1>6. worst # 0
  <2>1. IsHigherPriority(y, 0)
    BY <1>2, Priorities DEF IsHigherPriority
  <2> QED
    BY <1>5, <2>1
<1> QED
  BY <1>1, <1>3, <1>5, <1>6

LEMMA ErrorsDecide ==
    ASSUME NEW code \in {1, 4, 5, 99}, NEW s
    PROVE  resolveExitError(code, evaluateVerdict(s)) # ExitSuccess
<1>1. evaluateVerdict(s) \in {0, 1, 2}
  BY DEF evaluateVerdict, ExitSuccess, ExitWarning, ExitError
<1>2. code # 0 /\ priority(code) > priority(0)
  BY Priorities
<1> QED
  BY <1>1, <1>2 DEF resolveExitError, IsHigherPriority, ExitSuccess

(* Errors come with the checks, and decide the exit code at the end.       *)
ErrorsInv ==
    /\ pc \in {"validate", "detect"} => errors = {}
    /\ pc = "done" /\ errors # {} => exit # ExitSuccess

(* A check that failed is never forgotten by the exit code, whatever       *)
(* --severity hides of the findings: its error outlives the filter that    *)
(* may drop its advisory (executeCheck, highestPriorityExecError,          *)
(* FilterBySeverity, resolveExitError).                                    *)
THEOREM FailedChecksReachTheExit == LintSpec => [](pc = "done" /\ errors # {} => exit # ExitSuccess)
<1>1. LintInit => ErrorsInv
  BY DEF LintInit, ErrorsInv
<1>2. ErrorsInv /\ [LintNext]_lintVars => ErrorsInv'
  <2> SUFFICES ASSUME ErrorsInv, [LintNext]_lintVars PROVE ErrorsInv'
    OBVIOUS
  <2>1. CASE Validate \/ Detect
    <3>1. errors = {} /\ errors' = errors
      BY <2>1 DEF Validate, Detect, ErrorsInv
    <3> QED
      BY <3>1 DEF ErrorsInv
  <2>2. ASSUME NEW e, pc = "execute", Failed(e) PROVE ErrorsInv'
    BY <2>2 DEF Failed, End, ErrorsInv, Panicked, ExitSuccess
  <2>3. CASE CanApply
    <3>1. pc = "execute"
      BY <2>3 DEF CanApply
    <3>2. PICK id \in todo :
             LET can == CheckOf(id, Seen).can
             IN  CASE can = "yes" -> current' = id /\ UNCHANGED <<found, errors, pc, exit>>
                   [] can = "no"  -> UNCHANGED <<current, found, errors, pc, exit>>
                   [] OTHER       -> Failed(can) /\ UNCHANGED current
      BY <2>3 DEF CanApply
    <3>3. UNCHANGED pc \/ Failed(CheckOf(id, Seen).can)
      BY <3>2
    <3> QED
      BY <2>2, <3>1, <3>3 DEF ErrorsInv
  <2>4. CASE Execute
    <3>1. pc = "execute"
      BY <2>4 DEF Execute
    <3>2. UNCHANGED pc \/ Failed(CheckOf(current, Seen).run.err)
      BY <2>4 DEF Execute
    <3> QED
      BY <2>2, <3>1, <3>2 DEF ErrorsInv
  <2>5. CASE Report
    <3>1. /\ errors' = errors /\ pc' = "done"
          /\ exit' = resolveExitError(HighestPriority(errors),
                                      evaluateVerdict(FilterBySeverity(found, in.severity)))
      BY <2>5 DEF Report, End
    <3>2. errors # {} => exit' # ExitSuccess
      BY <3>1, WorstErrors, ErrorsDecide
    <3> QED
      BY <3>1, <3>2 DEF ErrorsInv
  <2>6. CASE Break \/ LoseAPI \/ Edit \/ Done \/ UNCHANGED lintVars
    <3>1. UNCHANGED <<errors, pc, exit>>
      BY <2>6 DEF Break, LoseAPI, Edit, Done, lintVars
    <3> QED
      BY <3>1 DEF ErrorsInv
  <2> QED
    BY <2>1, <2>3, <2>4, <2>5, <2>6 DEF LintNext, Step
<1>3. ErrorsInv => (pc = "done" /\ errors # {} => exit # ExitSuccess)
  BY DEF ErrorsInv
<1> QED
  BY <1>1, <1>2, <1>3, PTL DEF LintSpec

-----------------------------------------------------------------------------
(* Backup: the pipeline.                                                   *)

USE DEF contexts, discovery, channels, resolvers, writes, outputs, outcome,
        Ended

-----------------------------------------------------------------------------
(* Sequences: what sending to and receiving from a channel do to its       *)
(* elements.                                                               *)

(* A send adds its element to those of the channel, and one to its length. *)
LEMMA Sending ==
    ASSUME NEW S, NEW s \in Seq(S), NEW x \in S
    PROVE  /\ Append(s, x) \in Seq(S)
           /\ Len(Append(s, x)) = Len(s) + 1
           /\ Range(Append(s, x)) = Range(s) \cup {x}
<1>1. Append(s, x) \in Seq(S) /\ Len(Append(s, x)) = Len(s) + 1
  OBVIOUS
<1>2. \A k \in DOMAIN s : k \in DOMAIN Append(s, x) /\ Append(s, x)[k] = s[k]
  OBVIOUS
<1>3. Len(s) + 1 \in DOMAIN Append(s, x) /\ Append(s, x)[Len(s) + 1] = x
  OBVIOUS
<1>4. \A k \in DOMAIN Append(s, x) : k \in DOMAIN s \/ k = Len(s) + 1
  OBVIOUS
<1>5. Range(s) \cup {x} \subseteq Range(Append(s, x))
  BY <1>2, <1>3 DEF Range
<1>6. Range(Append(s, x)) \subseteq Range(s) \cup {x}
  BY <1>2, <1>3, <1>4 DEF Range
<1> QED
  BY <1>1, <1>5, <1>6

(* A receive takes the first element and leaves the others.                *)
LEMMA Receiving ==
    ASSUME NEW S, NEW s \in Seq(S), s # <<>>
    PROVE  /\ Head(s) \in S
           /\ Tail(s) \in Seq(S)
           /\ Len(Tail(s)) = Len(s) - 1
           /\ Range(s) = {Head(s)} \cup Range(Tail(s))
<1>1. Head(s) \in S /\ Tail(s) \in Seq(S) /\ Len(Tail(s)) = Len(s) - 1
  OBVIOUS
<1>2. \A k \in DOMAIN s : k = 1 \/ k - 1 \in DOMAIN Tail(s)
  OBVIOUS
<1>3. \A k \in DOMAIN Tail(s) : k + 1 \in DOMAIN s /\ Tail(s)[k] = s[k + 1]
  OBVIOUS
<1>4. Range(s) \subseteq {Head(s)} \cup Range(Tail(s))
  BY <1>2, <1>3 DEF Range
<1>5. {Head(s)} \cup Range(Tail(s)) \subseteq Range(s)
  BY <1>3 DEF Range
<1> QED
  BY <1>1, <1>4, <1>5

(* The elements of a channel are of its element type. *)
LEMMA Elements ==
    ASSUME NEW S, NEW s \in Seq(S)
    PROVE  Range(s) \subseteq S
BY DEF Range

-----------------------------------------------------------------------------

(* The elements a goroutine may hold. *)
LEMMA JobTypes ==
    /\ \A u \in Workloads : Unresolved(u) \in Resolved /\ Unresolved(u).item = u
    /\ \A r \in Resolved : r.item \in Workloads /\ r.found \subseteq Deps
    /\ Unresolved(Nobody).item = Nobody
BY DEF Unresolved, Resolved

(* The type at work is one of those included, and its listing is a         *)
(* sequence of instances.                                                  *)
LEMMA TurnType ==
    TypeOK /\ running => /\ turn \in Turns
                         /\ Includes[turn] \in Types
                         /\ Instances[Includes[turn]] \in Seq(Workloads)
BY InputAssumption DEF TypeOK, Turns

(* What a resolver returns is the instance with dependencies of its own.   *)
LEMMA ResolveType ==
    ASSUME NEW u \in Workloads, NEW answered
    PROVE  /\ Resolve(u, answered) \in Resolved
           /\ Resolve(u, answered).item = u
           /\ Resolve(u, answered).found \subseteq Refs[u]
           /\ Resolve(u, answered).errors \subseteq Deps
<1>1. Refs[u] \subseteq Deps
  BY InputAssumption
<1>2. Resolve(u, answered) =
        [item |-> u,
         found |-> ((Refs[u] \cap ConfigMaps) \cap answered)
                     \cup ((Refs[u] \cap Secrets) \cap answered)
                     \cup ((Refs[u] \cap PVCs) \cap answered),
         errors |-> (Refs[u] \cap Secrets) \ answered]
  BY DEF Resolve, ResolveConfigMaps, ResolvePVCs, ResolveSecrets, Names,
         FetchResourcesByName, FetchResourcesByNameWithErrors
<1> QED
  BY <1>1, <1>2 DEF Resolved


(* Every step keeps the types. *)
LEMMA TypeStep ==
    TypeOK /\ [Next]_vars => TypeOK'
<1> SUFFICES ASSUME TypeOK, [Next]_vars PROVE TypeOK'
  OBVIOUS
<1>1. CASE Start
  <2>1. turn' \in 0 .. Len(Includes) /\ turn' # 0
    BY <1>1, InputAssumption DEF Start, TypeOK
  <2>2. workers' \in [Workers -> [pc : WorkerStates,
                                 job : Resolved \cup {Unresolved(Nobody)}]]
    BY <1>1 DEF Start, Idle, WorkerStates
  <2>3. \A q \in Workers : workers'[q].pc = "recv"
    BY <1>1 DEF Start, Idle
  <2>4. /\ workloadCh' \in Seq(Workloads) /\ Len(workloadCh') <= MaxWorkers
        /\ resolvedCh' \in Seq(Resolved) /\ Len(resolvedCh') <= MaxWorkers
        /\ instances' \in Seq(Workloads)
    BY <1>1, PipelineAssumption DEF Start
  <2> QED
    BY <1>1, <2>1, <2>2, <2>3, <2>4 DEF Start, TypeOK, Listings
<1>2. CASE Wait
  <2>1. turn \in Turns
    BY <1>2, TurnType DEF Wait
  <2>2. result' \in [Turns -> Results]
    BY <1>2, <2>1 DEF Wait, TypeOK, Results
  <2>3. /\ ~running' /\ running' \in BOOLEAN
        /\ UNCHANGED <<turn, contexts, discovery, channels, resolvers, writes,
                       outputs, listing>>
    BY <1>2 DEF Wait
  <2> QED
    BY <2>2, <2>3 DEF TypeOK
<1>3. CASE Deadline
  BY <1>3, PipelineAssumption
     DEF Deadline, TypeOK, WorkerStates, Listings, Results
<1>4. CASE CancelPipeline
  BY <1>4, PipelineAssumption
     DEF CancelPipeline, TypeOK, WorkerStates, Listings, Results
<1>5. CASE CancelPool
  BY <1>5, PipelineAssumption
     DEF CancelPool, TypeOK, WorkerStates, Listings, Results
<1>6. CASE List
  <2>1. /\ turn \in Turns
        /\ Instances[Includes[turn]] \in Seq(Workloads)
    BY <1>6, TurnType DEF List, DiscoveryStep
  <2>2. instances' \in Seq(Workloads)
    <3>1. <<>> \in Seq(Workloads)
      OBVIOUS
    <3> QED
      BY <1>6, <2>1, <3>1 DEF List
  <2>3. \/ listing' = [listing EXCEPT ![turn] = "ok"]
        \/ listing' = [listing EXCEPT ![turn] = "denied"]
    BY <1>6 DEF List
  <2>4. listing' \in [Turns -> Listings]
    BY <2>1, <2>3 DEF TypeOK, Listings
  <2> QED
    BY <1>6, <2>2, <2>4 DEF List, DiscoveryStep, TypeOK
<1>7. CASE ListFails
  BY <1>7, PipelineAssumption, TurnType
     DEF ListFails, DiscoveryStep, TypeOK, WorkerStates, Listings, Results
<1>8. CASE SendWorkload
  <2>1. /\ Head(instances) \in Workloads /\ Tail(instances) \in Seq(Workloads)
        /\ Append(workloadCh, Head(instances)) \in Seq(Workloads)
        /\ Len(workloadCh') = Len(workloadCh) + 1
    BY <1>8, Sending, Receiving DEF SendWorkload, TypeOK
  <2>2. Len(workloadCh') <= MaxWorkers
    BY <1>8, <2>1, PipelineAssumption DEF SendWorkload, TypeOK
  <2> QED
    BY <1>8, <2>1, <2>2 DEF SendWorkload, DiscoveryStep, TypeOK
<1>9. CASE DiscoveryReturns
  BY <1>9, PipelineAssumption
     DEF DiscoveryReturns, DiscoveryStep, TypeOK, WorkerStates, Listings,
        Results
<1>10. ASSUME NEW p \in Workers, Receive(p) PROVE TypeOK'
  <2>1. /\ Head(workloadCh) \in Workloads /\ Tail(workloadCh) \in Seq(Workloads)
        /\ Len(Tail(workloadCh)) <= MaxWorkers
    BY <1>10, Receiving, PipelineAssumption DEF Receive, TypeOK
  <2>2. Unresolved(Head(workloadCh)) \in Resolved
    BY <2>1, JobTypes
  <2> QED
    BY <1>10, <2>1, <2>2 DEF Receive, WorkerStep, TypeOK, WorkerStates
<1>11. ASSUME NEW p \in Workers, ResolveWorkload(p) PROVE TypeOK'
  <2>1. workers[p].job \in Resolved /\ workers[p].job.item \in Workloads
    BY <1>11, JobTypes DEF ResolveWorkload, TypeOK
  <2>2. PICK job \in Resolved :
          /\ workers' = [workers EXCEPT ![p] = [pc |-> "send", job |-> job]]
          /\ logged' \in {logged, logged \cup job.errors}
    BY <1>11, <2>1, ResolveType DEF ResolveWorkload
  <2>3. logged' \subseteq Deps
    BY <2>2 DEF Resolved, TypeOK
  <2> QED
    BY <1>11, <2>2, <2>3 DEF ResolveWorkload, WorkerStep, TypeOK, WorkerStates
<1>12. ASSUME NEW p \in Workers, ResolveFails(p) PROVE TypeOK'
  BY <1>12, PipelineAssumption, JobTypes
     DEF ResolveFails, WorkerStep, TypeOK, WorkerStates, Listings, Results,
        Idle
<1>13. ASSUME NEW p \in Workers, SendResolved(p) PROVE TypeOK'
  BY <1>13, PipelineAssumption, Sending
     DEF SendResolved, WorkerStep, TypeOK, WorkerStates, Listings, Results,
        Idle
<1>14. ASSUME NEW p \in Workers, WorkerReturns(p) PROVE TypeOK'
  <2>1. PICK e \in Ended : workers' = [workers EXCEPT ![p].pc = e]
    BY <1>14 DEF WorkerReturns
  <2> QED
    BY <1>14, <2>1 DEF WorkerReturns, WorkerStep, TypeOK, WorkerStates
<1>15. CASE PoolReturns
  BY <1>15, PipelineAssumption
     DEF PoolReturns, TypeOK, WorkerStates, Listings, Results
<1>16. CASE ReceiveResolved
  BY <1>16, PipelineAssumption, Receiving
     DEF ReceiveResolved, WriterStep, TypeOK, WorkerStates, Listings, Results
<1>17. CASE WriteWorkloadWithDeps
  <2>1. writing.item \in Workloads /\ writing.found \subseteq Deps
    BY <1>17, JobTypes DEF WriteWorkloadWithDeps, TypeOK
  <2>2. files' \subseteq Workloads \cup Deps /\ warned' \subseteq Workloads \cup Deps
    BY <1>17, <2>1 DEF WriteWorkloadWithDeps, TypeOK
  <2> QED
    BY <1>17, <2>2 DEF WriteWorkloadWithDeps, WriterStep, TypeOK
<1>18. CASE WriterReturns
  BY <1>18, PipelineAssumption
     DEF WriterReturns, WriterStep, TypeOK, WorkerStates, Listings, Results
<1>19. CASE UNCHANGED vars
  BY <1>19, PipelineAssumption
     DEF vars, TypeOK, WorkerStates, Listings, Results
<1> QED
  BY <1>1, <1>2, <1>3, <1>4, <1>5, <1>6, <1>7, <1>8, <1>9, <1>10, <1>11,
        <1>12, <1>13, <1>14, <1>15, <1>16, <1>17, <1>18, <1>19
     DEF Next, Discovery, Worker, Writer

(* A channel is closed once its senders are gone, at every step. *)
LEMMA ClosingStep ==
    IndInv /\ [Next]_vars => Closing'
<1> SUFFICES ASSUME IndInv, [Next]_vars PROVE Closing'
  OBVIOUS
<1> USE DEF IndInv
<1>1. CASE Start
  BY <1>1
     DEF Start, Closing, TypeOK, Idle
<1>2. CASE Wait
  BY <1>2
     DEF Wait, Closing, TypeOK
<1>3. CASE Deadline
  BY <1>3
     DEF Deadline, Closing, TypeOK
<1>4. CASE CancelPipeline
  BY <1>4
     DEF CancelPipeline, Closing, TypeOK
<1>5. CASE CancelPool
  BY <1>5
     DEF CancelPool, Closing, TypeOK
<1>6. CASE List
  BY <1>6
     DEF List, DiscoveryStep, Closing, TypeOK
<1>7. CASE ListFails
  BY <1>7
     DEF ListFails, DiscoveryStep, Closing, TypeOK
<1>8. CASE SendWorkload
  BY <1>8
     DEF SendWorkload, DiscoveryStep, Closing, TypeOK
<1>9. CASE DiscoveryReturns
  BY <1>9
     DEF DiscoveryReturns, DiscoveryStep, Closing, TypeOK
<1>10. ASSUME NEW p \in Workers, Receive(p) PROVE Closing'
  BY <1>10
     DEF Receive, WorkerStep, Closing, TypeOK
<1>11. ASSUME NEW p \in Workers, ResolveWorkload(p) PROVE Closing'
  BY <1>11
     DEF ResolveWorkload, WorkerStep, Closing, TypeOK
<1>12. ASSUME NEW p \in Workers, ResolveFails(p) PROVE Closing'
  BY <1>12
     DEF ResolveFails, WorkerStep, Closing, TypeOK, Idle
<1>13. ASSUME NEW p \in Workers, SendResolved(p) PROVE Closing'
  BY <1>13
     DEF SendResolved, WorkerStep, Closing, TypeOK, Idle
<1>14. ASSUME NEW p \in Workers, WorkerReturns(p) PROVE Closing'
  BY <1>14
     DEF WorkerReturns, WorkerStep, Closing, TypeOK
<1>15. CASE PoolReturns
  BY <1>15
     DEF PoolReturns, Closing, TypeOK
<1>16. CASE ReceiveResolved
  BY <1>16
     DEF ReceiveResolved, WriterStep, Closing, TypeOK
<1>17. CASE WriteWorkloadWithDeps
  BY <1>17
     DEF WriteWorkloadWithDeps, WriterStep, Closing, TypeOK
<1>18. CASE WriterReturns
  BY <1>18
     DEF WriterReturns, WriterStep, Closing, TypeOK
<1>19. CASE UNCHANGED vars
  BY <1>19
     DEF vars, Closing, TypeOK
<1> QED
  BY <1>1, <1>2, <1>3, <1>4, <1>5, <1>6, <1>7, <1>8, <1>9, <1>10, <1>11,
        <1>12, <1>13, <1>14, <1>15, <1>16, <1>17, <1>18, <1>19
     DEF Next, Discovery, Worker, Writer

(* A goroutine that ends well leaves nothing, at every step. *)
LEMMA DrainedStep ==
    IndInv /\ [Next]_vars => Drained'
<1> SUFFICES ASSUME IndInv, [Next]_vars PROVE Drained'
  OBVIOUS
<1> USE DEF IndInv
<1>1. CASE Start
  BY <1>1
     DEF Start, Drained, Closing, TypeOK, Idle
<1>2. CASE Wait
  BY <1>2
     DEF Wait, Drained, Closing, TypeOK
<1>3. CASE Deadline
  BY <1>3
     DEF Deadline, Drained, Closing, TypeOK
<1>4. CASE CancelPipeline
  BY <1>4
     DEF CancelPipeline, Drained, Closing, TypeOK
<1>5. CASE CancelPool
  BY <1>5
     DEF CancelPool, Drained, Closing, TypeOK
<1>6. CASE List
  BY <1>6
     DEF List, DiscoveryStep, Drained, Closing, TypeOK
<1>7. CASE ListFails
  BY <1>7
     DEF ListFails, DiscoveryStep, Drained, Closing, TypeOK
<1>8. CASE SendWorkload
  BY <1>8
     DEF SendWorkload, DiscoveryStep, Drained, Closing, TypeOK
<1>9. CASE DiscoveryReturns
  BY <1>9
     DEF DiscoveryReturns, DiscoveryStep, Drained, Closing, TypeOK
<1>10. ASSUME NEW p \in Workers, Receive(p) PROVE Drained'
  BY <1>10
     DEF Receive, WorkerStep, Drained, Closing, TypeOK
<1>11. ASSUME NEW p \in Workers, ResolveWorkload(p) PROVE Drained'
  BY <1>11
     DEF ResolveWorkload, WorkerStep, Drained, Closing, TypeOK
<1>12. ASSUME NEW p \in Workers, ResolveFails(p) PROVE Drained'
  BY <1>12
     DEF ResolveFails, WorkerStep, Drained, Closing, TypeOK, Idle
<1>13. ASSUME NEW p \in Workers, SendResolved(p) PROVE Drained'
  BY <1>13
     DEF SendResolved, WorkerStep, Drained, Closing, TypeOK, Idle
<1>14. ASSUME NEW p \in Workers, WorkerReturns(p) PROVE Drained'
  BY <1>14
     DEF WorkerReturns, WorkerStep, Drained, Closing, TypeOK
<1>15. CASE PoolReturns
  BY <1>15
     DEF PoolReturns, Drained, Closing, TypeOK
<1>16. CASE ReceiveResolved
  BY <1>16
     DEF ReceiveResolved, WriterStep, Drained, Closing, TypeOK
<1>17. CASE WriteWorkloadWithDeps
  BY <1>17
     DEF WriteWorkloadWithDeps, WriterStep, Drained, Closing, TypeOK
<1>18. CASE WriterReturns
  BY <1>18
     DEF WriterReturns, WriterStep, Drained, Closing, TypeOK
<1>19. CASE UNCHANGED vars
  BY <1>19
     DEF vars, Drained, Closing, TypeOK
<1> QED
  BY <1>1, <1>2, <1>3, <1>4, <1>5, <1>6, <1>7, <1>8, <1>9, <1>10, <1>11,
        <1>12, <1>13, <1>14, <1>15, <1>16, <1>17, <1>18, <1>19
     DEF Next, Discovery, Worker, Writer

(* The types are taken in order, at every step. *)
LEMMA InOrderStep ==
    IndInv /\ [Next]_vars => InOrder'
<1> SUFFICES ASSUME IndInv, [Next]_vars PROVE InOrder'
  OBVIOUS
<1> USE DEF IndInv
<1>1. CASE Start
  BY <1>1, TurnType, InputAssumption
     DEF Start, InOrder, TypeOK, Turns
<1>2. CASE Wait
  BY <1>2, TurnType
     DEF Wait, InOrder, TypeOK
<1>3. CASE Deadline
  BY <1>3, TurnType
     DEF Deadline, InOrder, TypeOK
<1>4. CASE CancelPipeline
  BY <1>4, TurnType
     DEF CancelPipeline, InOrder, TypeOK
<1>5. CASE CancelPool
  BY <1>5, TurnType
     DEF CancelPool, InOrder, TypeOK
<1>6. CASE List
  BY <1>6, TurnType
     DEF List, DiscoveryStep, InOrder, TypeOK
<1>7. CASE ListFails
  BY <1>7, TurnType
     DEF ListFails, DiscoveryStep, InOrder, TypeOK
<1>8. CASE SendWorkload
  BY <1>8, TurnType
     DEF SendWorkload, DiscoveryStep, InOrder, TypeOK
<1>9. CASE DiscoveryReturns
  BY <1>9, TurnType
     DEF DiscoveryReturns, DiscoveryStep, InOrder, TypeOK
<1>10. ASSUME NEW p \in Workers, Receive(p) PROVE InOrder'
  BY <1>10, TurnType
     DEF Receive, WorkerStep, InOrder, TypeOK
<1>11. ASSUME NEW p \in Workers, ResolveWorkload(p) PROVE InOrder'
  BY <1>11, TurnType
     DEF ResolveWorkload, WorkerStep, InOrder, TypeOK
<1>12. ASSUME NEW p \in Workers, ResolveFails(p) PROVE InOrder'
  BY <1>12, TurnType
     DEF ResolveFails, WorkerStep, InOrder, TypeOK
<1>13. ASSUME NEW p \in Workers, SendResolved(p) PROVE InOrder'
  BY <1>13, TurnType
     DEF SendResolved, WorkerStep, InOrder, TypeOK
<1>14. ASSUME NEW p \in Workers, WorkerReturns(p) PROVE InOrder'
  BY <1>14, TurnType
     DEF WorkerReturns, WorkerStep, InOrder, TypeOK
<1>15. CASE PoolReturns
  BY <1>15, TurnType
     DEF PoolReturns, InOrder, TypeOK
<1>16. CASE ReceiveResolved
  BY <1>16, TurnType
     DEF ReceiveResolved, WriterStep, InOrder, TypeOK
<1>17. CASE WriteWorkloadWithDeps
  BY <1>17, TurnType
     DEF WriteWorkloadWithDeps, WriterStep, InOrder, TypeOK
<1>18. CASE WriterReturns
  BY <1>18, TurnType
     DEF WriterReturns, WriterStep, InOrder, TypeOK
<1>19. CASE UNCHANGED vars
  BY <1>19, TurnType
     DEF vars, InOrder, TypeOK
<1> QED
  BY <1>1, <1>2, <1>3, <1>4, <1>5, <1>6, <1>7, <1>8, <1>9, <1>10, <1>11,
        <1>12, <1>13, <1>14, <1>15, <1>16, <1>17, <1>18, <1>19
     DEF Next, Discovery, Worker, Writer

(* Every cancellation before the deadline has its cause, at every step. *)
LEMMA IsolatedStep ==
    IndInv /\ [Next]_vars => Isolated'
<1> SUFFICES ASSUME IndInv, [Next]_vars PROVE Isolated'
  OBVIOUS
<1> USE DEF IndInv
<1>1. CASE Start
  BY <1>1, TurnType
     DEF Start, Isolated, TypeOK, InOrder, Closing, Idle
<1>2. CASE Wait
  BY <1>2, TurnType
     DEF Wait, Isolated, TypeOK, InOrder, Closing
<1>3. CASE Deadline
  BY <1>3, TurnType
     DEF Deadline, Isolated, TypeOK, InOrder, Closing
<1>4. CASE CancelPipeline
  BY <1>4, TurnType
     DEF CancelPipeline, Isolated, TypeOK, InOrder, Closing
<1>5. CASE CancelPool
  BY <1>5, TurnType
     DEF CancelPool, Isolated, TypeOK, InOrder, Closing
<1>6. CASE List
  BY <1>6, TurnType
     DEF List, DiscoveryStep, Isolated, TypeOK, InOrder, Closing
<1>7. CASE ListFails
  BY <1>7, TurnType
     DEF ListFails, DiscoveryStep, Isolated, TypeOK, InOrder, Closing
<1>8. CASE SendWorkload
  BY <1>8, TurnType
     DEF SendWorkload, DiscoveryStep, Isolated, TypeOK, InOrder, Closing
<1>9. CASE DiscoveryReturns
  BY <1>9, TurnType
     DEF DiscoveryReturns, DiscoveryStep, Isolated, TypeOK, InOrder, Closing
<1>10. ASSUME NEW p \in Workers, Receive(p) PROVE Isolated'
  BY <1>10, TurnType
     DEF Receive, WorkerStep, Isolated, TypeOK, InOrder, Closing
<1>11. ASSUME NEW p \in Workers, ResolveWorkload(p) PROVE Isolated'
  BY <1>11, TurnType
     DEF ResolveWorkload, WorkerStep, Isolated, TypeOK, InOrder, Closing
<1>12. ASSUME NEW p \in Workers, ResolveFails(p) PROVE Isolated'
  BY <1>12, TurnType
     DEF ResolveFails, WorkerStep, Isolated, TypeOK, InOrder, Closing, Idle
<1>13. ASSUME NEW p \in Workers, SendResolved(p) PROVE Isolated'
  BY <1>13, TurnType
     DEF SendResolved, WorkerStep, Isolated, TypeOK, InOrder, Closing, Idle
<1>14. ASSUME NEW p \in Workers, WorkerReturns(p) PROVE Isolated'
  BY <1>14, TurnType
     DEF WorkerReturns, WorkerStep, Isolated, TypeOK, InOrder, Closing
<1>15. CASE PoolReturns
  BY <1>15, TurnType
     DEF PoolReturns, Isolated, TypeOK, InOrder, Closing
<1>16. CASE ReceiveResolved
  BY <1>16, TurnType
     DEF ReceiveResolved, WriterStep, Isolated, TypeOK, InOrder, Closing
<1>17. CASE WriteWorkloadWithDeps
  BY <1>17, TurnType
     DEF WriteWorkloadWithDeps, WriterStep, Isolated, TypeOK, InOrder, Closing
<1>18. CASE WriterReturns
  BY <1>18, TurnType
     DEF WriterReturns, WriterStep, Isolated, TypeOK, InOrder, Closing
<1>19. CASE UNCHANGED vars
  BY <1>19, TurnType
     DEF vars, Isolated, TypeOK, InOrder, Closing
<1> QED
  BY <1>1, <1>2, <1>3, <1>4, <1>5, <1>6, <1>7, <1>8, <1>9, <1>10, <1>11,
        <1>12, <1>13, <1>14, <1>15, <1>16, <1>17, <1>18, <1>19
     DEF Next, Discovery, Worker, Writer

(* Failed types keep their failed listings, at every step. *)
LEMMA FailureIsolatedStep ==
    IndInv /\ [Next]_vars => FailureIsolated'
<1> SUFFICES ASSUME IndInv, [Next]_vars PROVE FailureIsolated'
  OBVIOUS
<1> USE DEF IndInv
<1>1. CASE Start
  BY <1>1, TurnType
     DEF Start, FailureIsolated, Isolated, TypeOK, InOrder
<1>2. CASE Wait
  BY <1>2, TurnType
     DEF Wait, FailureIsolated, Isolated, TypeOK, InOrder
<1>3. CASE Deadline
  BY <1>3, TurnType
     DEF Deadline, FailureIsolated, Isolated, TypeOK, InOrder
<1>4. CASE CancelPipeline
  BY <1>4, TurnType
     DEF CancelPipeline, FailureIsolated, Isolated, TypeOK, InOrder
<1>5. CASE CancelPool
  BY <1>5, TurnType
     DEF CancelPool, FailureIsolated, Isolated, TypeOK, InOrder
<1>6. CASE List
  BY <1>6, TurnType
     DEF List, DiscoveryStep, FailureIsolated, Isolated, TypeOK, InOrder
<1>7. CASE ListFails
  BY <1>7, TurnType
     DEF ListFails, DiscoveryStep, FailureIsolated, Isolated, TypeOK, InOrder
<1>8. CASE SendWorkload
  BY <1>8, TurnType
     DEF SendWorkload, DiscoveryStep, FailureIsolated, Isolated, TypeOK,
        InOrder
<1>9. CASE DiscoveryReturns
  BY <1>9, TurnType
     DEF DiscoveryReturns, DiscoveryStep, FailureIsolated, Isolated, TypeOK,
        InOrder
<1>10. ASSUME NEW p \in Workers, Receive(p) PROVE FailureIsolated'
  BY <1>10, TurnType
     DEF Receive, WorkerStep, FailureIsolated, Isolated, TypeOK, InOrder
<1>11. ASSUME NEW p \in Workers, ResolveWorkload(p) PROVE FailureIsolated'
  BY <1>11, TurnType
     DEF ResolveWorkload, WorkerStep, FailureIsolated, Isolated, TypeOK,
        InOrder
<1>12. ASSUME NEW p \in Workers, ResolveFails(p) PROVE FailureIsolated'
  BY <1>12, TurnType
     DEF ResolveFails, WorkerStep, FailureIsolated, Isolated, TypeOK, InOrder
<1>13. ASSUME NEW p \in Workers, SendResolved(p) PROVE FailureIsolated'
  BY <1>13, TurnType
     DEF SendResolved, WorkerStep, FailureIsolated, Isolated, TypeOK, InOrder
<1>14. ASSUME NEW p \in Workers, WorkerReturns(p) PROVE FailureIsolated'
  BY <1>14, TurnType
     DEF WorkerReturns, WorkerStep, FailureIsolated, Isolated, TypeOK, InOrder
<1>15. CASE PoolReturns
  BY <1>15, TurnType
     DEF PoolReturns, FailureIsolated, Isolated, TypeOK, InOrder
<1>16. CASE ReceiveResolved
  BY <1>16, TurnType
     DEF ReceiveResolved, WriterStep, FailureIsolated, Isolated, TypeOK,
        InOrder
<1>17. CASE WriteWorkloadWithDeps
  BY <1>17, TurnType
     DEF WriteWorkloadWithDeps, WriterStep, FailureIsolated, Isolated, TypeOK,
        InOrder
<1>18. CASE WriterReturns
  BY <1>18, TurnType
     DEF WriterReturns, WriterStep, FailureIsolated, Isolated, TypeOK, InOrder
<1>19. CASE UNCHANGED vars
  BY <1>19, TurnType
     DEF vars, FailureIsolated, Isolated, TypeOK, InOrder
<1> QED
  BY <1>1, <1>2, <1>3, <1>4, <1>5, <1>6, <1>7, <1>8, <1>9, <1>10, <1>11,
        <1>12, <1>13, <1>14, <1>15, <1>16, <1>17, <1>18, <1>19
     DEF Next, Discovery, Worker, Writer

(* What one worker's step does to what the workers hold. *)
LEMMA HeldStep ==
    ASSUME TypeOK, NEW p \in Workers, NEW job, NEW st,
           workers' = [workers EXCEPT ![p] = [pc |-> st, job |-> job]]
    PROVE  /\ Held \ {workers[p].job.item} \subseteq Held'
           /\ job.item # Nobody => job.item \in Held'
<1>1. workers'[p].job = job
  BY DEF TypeOK
<1>2. \A q \in Workers : q # p => workers'[q] = workers[q]
  BY DEF TypeOK
<1> QED
  BY <1>1, <1>2 DEF Held

(* A step that settles or passes on what is in flight conserves it. *)
LEMMA Kept ==
    ASSUME Conserved, running, turn' = turn, listing'[turn] = listing[turn],
           InFlight \cup files \cup warned
               \subseteq InFlight' \cup files' \cup warned'
    PROVE  Conserved'
BY DEF Conserved


(* No step loses a listed instance: what leaves one place enters the next, *)
(* or is settled.                                                          *)
LEMMA ConservedStep ==
    IndInv /\ [Next]_vars => Conserved'
<1> SUFFICES ASSUME IndInv, [Next]_vars PROVE Conserved'
  OBVIOUS
<1> USE DEF IndInv
<1>1. CASE Start
  <2>1. turn' \in Turns /\ turn' > turn
    BY <1>1, InputAssumption DEF Start, TypeOK, Turns
  <2>2. listing'[turn'] = "none"
    BY <1>1, <2>1 DEF Start, InOrder
  <2> QED
    BY <2>2 DEF Conserved
<1>2. CASE Wait
  BY <1>2
     DEF Wait, Conserved, TypeOK, InFlight, Held, Buffered
<1>3. CASE Deadline
  BY <1>3
     DEF Deadline, Conserved, TypeOK, InFlight, Held, Buffered
<1>4. CASE CancelPipeline
  BY <1>4
     DEF CancelPipeline, Conserved, TypeOK, InFlight, Held, Buffered
<1>5. CASE CancelPool
  BY <1>5
     DEF CancelPool, Conserved, TypeOK, InFlight, Held, Buffered
<1>6. CASE List
  <2>1. turn \in Turns
    BY <1>6, TurnType DEF List, DiscoveryStep
  <2>2. listing'[turn'] = "ok" => instances' = Instances[Includes[turn]]
    BY <1>6, <2>1 DEF List, DiscoveryStep, TypeOK
  <2> QED
    BY <1>6, <2>2 DEF List, DiscoveryStep, Conserved, InFlight
<1>7. CASE ListFails
  <2>1. turn \in Turns
    BY <1>7, TurnType DEF ListFails, DiscoveryStep
  <2>2. listing'[turn'] # "ok"
    BY <1>7, <2>1 DEF ListFails, DiscoveryStep, TypeOK
  <2> QED
    BY <2>2 DEF Conserved
<1>8. CASE SendWorkload
  <2>1. /\ Range(instances) = {Head(instances)} \cup Range(instances')
        /\ Range(workloadCh') = Range(workloadCh) \cup {Head(instances)}
    BY <1>8, Sending, Receiving DEF SendWorkload, TypeOK
  <2>2. InFlight \subseteq InFlight'
    BY <1>8, <2>1 DEF SendWorkload, DiscoveryStep, InFlight, Held, Buffered
  <2> QED
    BY <1>8, <2>2, Kept DEF SendWorkload, DiscoveryStep
<1>9. CASE DiscoveryReturns
  BY <1>9
     DEF DiscoveryReturns, DiscoveryStep, Conserved, TypeOK, InFlight, Held,
        Buffered
<1>10. ASSUME NEW p \in Workers, Receive(p) PROVE Conserved'
  <2> DEFINE x == Head(workloadCh)
  <2>1. Range(workloadCh) = {x} \cup Range(workloadCh') /\ x \in Workloads
    BY <1>10, Receiving DEF Receive, TypeOK
  <2>2. workers[p].job.item = Nobody /\ Nobody \notin Held
    BY <1>10, JobTypes DEF Receive, WorkerStep, Drained, Held
  <2>3. Held \subseteq Held' /\ x \in Held'
    <3>1. Unresolved(x).item = x /\ x # Nobody
      BY <2>1, JobTypes, PipelineAssumption
    <3>2. workers' = [workers EXCEPT ![p] =
                        [pc |-> "resolve", job |-> Unresolved(x)]]
      BY <1>10 DEF Receive
    <3> HIDE DEF x
    <3>3. Held \ {workers[p].job.item} \subseteq Held' /\ x \in Held'
      BY <3>1, <3>2, HeldStep
    <3> QED
      BY <2>2, <3>3
  <2>4. InFlight \subseteq InFlight'
    BY <1>10, <2>1, <2>3 DEF Receive, WorkerStep, InFlight, Buffered
  <2> QED
    BY <1>10, <2>4, Kept DEF Receive, WorkerStep
<1>11. ASSUME NEW p \in Workers, ResolveWorkload(p) PROVE Conserved'
  <2> DEFINE x == workers[p].job.item
  <2>1. x \in Workloads
    BY <1>11, JobTypes DEF ResolveWorkload, TypeOK
  <2>2. PICK job : /\ workers' = [workers EXCEPT ![p] =
                                  [pc |-> "send", job |-> job]]
                   /\ job.item = x
    <3>1. PICK answered : workers' = [workers EXCEPT ![p] =
             [pc |-> "send", job |-> IF HasResolver(Includes[turn])
                                     THEN Resolve(x, answered)
                                     ELSE workers[p].job]]
      BY <1>11 DEF ResolveWorkload
    <3>2. Resolve(x, answered).item = x
      BY <2>1, ResolveType
    <3> QED
      BY <3>1, <3>2
  <2>3. Held \subseteq Held'
    BY <2>1, <2>2, HeldStep, PipelineAssumption
  <2>4. InFlight \subseteq InFlight'
    BY <1>11, <2>3 DEF ResolveWorkload, WorkerStep, InFlight, Buffered
  <2> QED
    BY <1>11, <2>4, Kept DEF ResolveWorkload, WorkerStep
<1>12. ASSUME NEW p \in Workers, ResolveFails(p) PROVE Conserved'
  <2>1. Held \ {workers[p].job.item} \subseteq Held'
    BY <1>12, HeldStep DEF ResolveFails, Idle
  <2>2. InFlight \subseteq InFlight' \cup warned'
    BY <1>12, <2>1 DEF ResolveFails, WorkerStep, InFlight, Buffered
  <2> QED
    BY <1>12, <2>2, Kept DEF ResolveFails, WorkerStep
<1>13. ASSUME NEW p \in Workers, SendResolved(p) PROVE Conserved'
  <2>1. Held \ {workers[p].job.item} \subseteq Held'
    BY <1>13, HeldStep DEF SendResolved, Idle
  <2>2. Range(resolvedCh') = Range(resolvedCh) \cup {workers[p].job}
    BY <1>13, Sending DEF SendResolved, TypeOK
  <2>3. InFlight \subseteq InFlight'
    BY <1>13, <2>1, <2>2 DEF SendResolved, WorkerStep, InFlight, Buffered
  <2> QED
    BY <1>13, <2>3, Kept DEF SendResolved, WorkerStep
<1>14. ASSUME NEW p \in Workers, WorkerReturns(p) PROVE Conserved'
  <2>1. PICK e \in Ended : workers' = [workers EXCEPT ![p].pc = e]
    BY <1>14 DEF WorkerReturns
  <2>2. \A q \in Workers : workers'[q].job = workers[q].job
    BY <2>1 DEF TypeOK
  <2>3. InFlight' = InFlight
    BY <1>14, <2>2 DEF WorkerReturns, WorkerStep, InFlight, Held, Buffered
  <2> QED
    BY <1>14, <2>3, Kept DEF WorkerReturns, WorkerStep
<1>15. CASE PoolReturns
  BY <1>15
     DEF PoolReturns, Conserved, TypeOK, InFlight, Held, Buffered
<1>16. CASE ReceiveResolved
  <2>1. Range(resolvedCh) = {Head(resolvedCh)} \cup Range(resolvedCh')
    BY <1>16, Receiving DEF ReceiveResolved, TypeOK
  <2>2. writing.item = Nobody
    BY <1>16, JobTypes DEF ReceiveResolved, WriterStep, Drained
  <2>3. Head(resolvedCh).item # Nobody
    BY <1>16, Receiving, JobTypes, PipelineAssumption DEF ReceiveResolved, TypeOK
  <2>4. InFlight \subseteq InFlight'
    BY <1>16, <2>1, <2>2, <2>3
       DEF ReceiveResolved, WriterStep, InFlight, Held, Buffered
  <2> QED
    BY <1>16, <2>4, Kept DEF ReceiveResolved, WriterStep
<1>17. CASE WriteWorkloadWithDeps
  <2>1. /\ files \cup warned \subseteq files' \cup warned'
        /\ writing.item \in files' \cup warned'
    BY <1>17 DEF WriteWorkloadWithDeps
  <2>2. InFlight \subseteq InFlight' \cup {writing.item}
    BY <1>17 DEF WriteWorkloadWithDeps, WriterStep, InFlight, Held, Buffered
  <2> QED
    BY <1>17, <2>1, <2>2, Kept DEF WriteWorkloadWithDeps, WriterStep
<1>18. CASE WriterReturns
  BY <1>18
     DEF WriterReturns, WriterStep, Conserved, TypeOK, InFlight, Held,
        Buffered
<1>19. CASE UNCHANGED vars
  BY <1>19
     DEF vars, Conserved, TypeOK, InFlight, Held, Buffered
<1> QED
  BY <1>1, <1>2, <1>3, <1>4, <1>5, <1>6, <1>7, <1>8, <1>9, <1>10, <1>11,
        <1>12, <1>13, <1>14, <1>15, <1>16, <1>17, <1>18, <1>19
     DEF Next, Discovery, Worker, Writer

(* Once the three stages have returned nil nothing is in flight.           *)
LEMMA NothingInFlight ==
    ASSUME IndInv, running, disc = "nil", pool = "nil", writer = "nil"
    PROVE  InFlight = {}
<1>1. instances = <<>> /\ resolvedCh = <<>> /\ writing.item = Nobody
  BY JobTypes DEF IndInv, Drained
<1>2. \A q \in Workers : workers[q].pc = "nil"
  BY DEF IndInv, Closing
<1>3. 1 \in Workers
  BY PipelineAssumption DEF Workers
<1>4. workloadCh = <<>> /\ \A q \in Workers : workers[q].job.item = Nobody
  BY <1>2, <1>3, JobTypes DEF IndInv, Drained
<1> QED
  BY <1>1, <1>4 DEF InFlight, Held, Buffered, Range

(* A type that ends well has lost nothing, at every step. *)
LEMMA NoSilentLossStep ==
    IndInv /\ [Next]_vars => NoSilentLoss'
<1> SUFFICES ASSUME IndInv, [Next]_vars PROVE NoSilentLoss'
  OBVIOUS
<1> USE DEF IndInv
<1>1. CASE Start
  BY <1>1
     DEF Start, NoSilentLoss, TypeOK
<1>2. CASE Wait
  <2>1. turn \in Turns
    BY <1>2, TurnType DEF Wait
  <2>2. ASSUME result'[turn] = "ok", listing[turn] = "ok"
        PROVE  Range(Instances[Includes[turn]]) \subseteq files \cup warned
    <3>1. disc = "nil" /\ pool = "nil" /\ writer = "nil"
      BY <1>2, <2>1, <2>2 DEF Wait, TypeOK
    <3>2. InFlight = {}
      BY <1>2, <3>1, NothingInFlight DEF Wait
    <3> QED
      BY <1>2, <2>2, <3>2 DEF Wait, Conserved
  <2> QED
    BY <1>2, <2>1, <2>2 DEF Wait, NoSilentLoss, TypeOK
<1>3. CASE Deadline
  BY <1>3
     DEF Deadline, NoSilentLoss, TypeOK
<1>4. CASE CancelPipeline
  BY <1>4
     DEF CancelPipeline, NoSilentLoss, TypeOK
<1>5. CASE CancelPool
  BY <1>5
     DEF CancelPool, NoSilentLoss, TypeOK
<1>6. CASE List
  BY <1>6, TurnType
     DEF List, DiscoveryStep, NoSilentLoss, TypeOK, InOrder
<1>7. CASE ListFails
  BY <1>7, TurnType
     DEF ListFails, DiscoveryStep, NoSilentLoss, TypeOK, InOrder
<1>8. CASE SendWorkload
  BY <1>8
     DEF SendWorkload, DiscoveryStep, NoSilentLoss, TypeOK
<1>9. CASE DiscoveryReturns
  BY <1>9
     DEF DiscoveryReturns, DiscoveryStep, NoSilentLoss, TypeOK
<1>10. ASSUME NEW p \in Workers, Receive(p) PROVE NoSilentLoss'
  BY <1>10
     DEF Receive, WorkerStep, NoSilentLoss, TypeOK
<1>11. ASSUME NEW p \in Workers, ResolveWorkload(p) PROVE NoSilentLoss'
  BY <1>11
     DEF ResolveWorkload, WorkerStep, NoSilentLoss, TypeOK
<1>12. ASSUME NEW p \in Workers, ResolveFails(p) PROVE NoSilentLoss'
  BY <1>12
     DEF ResolveFails, WorkerStep, NoSilentLoss, TypeOK
<1>13. ASSUME NEW p \in Workers, SendResolved(p) PROVE NoSilentLoss'
  BY <1>13
     DEF SendResolved, WorkerStep, NoSilentLoss, TypeOK
<1>14. ASSUME NEW p \in Workers, WorkerReturns(p) PROVE NoSilentLoss'
  BY <1>14
     DEF WorkerReturns, WorkerStep, NoSilentLoss, TypeOK
<1>15. CASE PoolReturns
  BY <1>15
     DEF PoolReturns, NoSilentLoss, TypeOK
<1>16. CASE ReceiveResolved
  BY <1>16
     DEF ReceiveResolved, WriterStep, NoSilentLoss, TypeOK
<1>17. CASE WriteWorkloadWithDeps
  BY <1>17
     DEF WriteWorkloadWithDeps, WriterStep, NoSilentLoss, TypeOK
<1>18. CASE WriterReturns
  BY <1>18
     DEF WriterReturns, WriterStep, NoSilentLoss, TypeOK
<1>19. CASE UNCHANGED vars
  BY <1>19
     DEF vars, NoSilentLoss, TypeOK
<1> QED
  BY <1>1, <1>2, <1>3, <1>4, <1>5, <1>6, <1>7, <1>8, <1>9, <1>10, <1>11,
        <1>12, <1>13, <1>14, <1>15, <1>16, <1>17, <1>18, <1>19
     DEF Next, Discovery, Worker, Writer

-----------------------------------------------------------------------------
(* Before the first type nothing is in flight and nothing has an outcome. *)
LEMMA Initially == Init => IndInv
<1> SUFFICES ASSUME Init PROVE IndInv
  OBVIOUS
<1>1. TypeOK
  <2>1. workers \in [Workers -> [pc : WorkerStates,
                                job : Resolved \cup {Unresolved(Nobody)}]]
    BY DEF Init, Idle, WorkerStates
  <2>2. \A p \in Workers : workers[p].pc = "recv"
    BY DEF Init, Idle
  <2>3. 0 \in 0 .. Len(Includes)
    BY InputAssumption
  <2>4. /\ workloadCh \in Seq(Workloads) /\ Len(workloadCh) <= MaxWorkers
        /\ resolvedCh \in Seq(Resolved) /\ Len(resolvedCh) <= MaxWorkers
        /\ instances \in Seq(Workloads)
    BY PipelineAssumption DEF Init
  <2>5. ~running /\ running \in BOOLEAN
    BY DEF Init
  <2>6. result \in [Turns -> Results] /\ listing \in [Turns -> Listings]
    BY DEF Init, Results, Listings
  <2> QED
    BY <2>1, <2>2, <2>3, <2>4, <2>5, <2>6 DEF Init, TypeOK
<1>2. InOrder /\ NoSilentLoss /\ FailureIsolated
  BY DEF Init, InOrder, NoSilentLoss, FailureIsolated
<1>3. Closing /\ Drained /\ Conserved /\ Isolated
  BY DEF Init, Closing, Drained, Conserved, Isolated
<1> QED
  BY <1>1, <1>2, <1>3 DEF IndInv

(* The inductive invariant holds throughout. *)
THEOREM Invariance == Spec => []IndInv
<1>1. IndInv /\ [Next]_vars => IndInv'
  <2> SUFFICES ASSUME IndInv, [Next]_vars PROVE IndInv'
    OBVIOUS
  <2>1. TypeOK' /\ Closing' /\ Drained' /\ Conserved'
    BY TypeStep, ClosingStep, DrainedStep, ConservedStep DEF IndInv
  <2>2. InOrder' /\ Isolated' /\ NoSilentLoss' /\ FailureIsolated'
    BY InOrderStep, IsolatedStep, NoSilentLossStep, FailureIsolatedStep
  <2> QED
    BY <2>1, <2>2 DEF IndInv
<1> QED
  BY <1>1, Initially, PTL DEF Spec

(* The types hold: among them, that neither buffer outgrows its capacity,  *)
(* whatever the number of workers and instances.                           *)
THEOREM TypeCorrect == Spec => []TypeOK
<1>1. IndInv => TypeOK
  BY DEF IndInv
<1> QED
  BY <1>1, Invariance, PTL

(* No goroutine of resolver.go or discovery.go can send on a channel that  *)
(* has been closed.                                                        *)
THEOREM NeverSendsOnClosed == Spec => []NoSendOnClosed
<1>1. IndInv => NoSendOnClosed
  BY DEF IndInv, Closing, NoSendOnClosed
<1> QED
  BY <1>1, Invariance, PTL

(* A type whose pipeline returns nil has lost none of the instances its    *)
(* listing returned.                                                       *)
THEOREM LosesNothing == Spec => []NoSilentLoss
<1>1. IndInv => NoSilentLoss
  BY DEF IndInv
<1> QED
  BY <1>1, Invariance, PTL

(* Before the deadline a type fails only with its own listing.             *)
THEOREM FailuresAreOwn == Spec => []FailureIsolated
<1>1. IndInv => FailureIsolated
  BY DEF IndInv
<1> QED
  BY <1>1, Invariance, PTL

-----------------------------------------------------------------------------
(* The refinement: the pipeline implements BackupCommand.                  *)

(* What is received from a channel without duplicates is not left in it.   *)
LEMMA ReceivingOnce ==
    ASSUME NEW S, NEW s \in Seq(S), s # <<>>, IsInjective(s)
    PROVE  IsInjective(Tail(s)) /\ Head(s) \notin Range(Tail(s))
<1>1. \A k \in DOMAIN Tail(s) :
        k \in Nat /\ k >= 1 /\ k + 1 \in DOMAIN s /\ Tail(s)[k] = s[k + 1]
  OBVIOUS
<1>2. 1 \in DOMAIN s /\ Head(s) = s[1]
  OBVIOUS
<1>3. IsInjective(Tail(s))
  BY <1>1 DEF IsInjective
<1>4. \A k \in DOMAIN Tail(s) : Tail(s)[k] # Head(s)
  BY <1>1, <1>2 DEF IsInjective
<1> QED
  BY <1>3, <1>4 DEF Range

(* An element that a channel does not hold is sent to it.                  *)
LEMMA SendingOnce ==
    ASSUME NEW S, NEW s \in Seq(S), NEW x \in S, IsInjective(s), x \notin Range(s)
    PROVE  IsInjective(Append(s, x))
<1>1. \A k \in DOMAIN Append(s, x) :
        \/ k \in DOMAIN s /\ Append(s, x)[k] = s[k]
        \/ k = Len(s) + 1 /\ Append(s, x)[k] = x
  OBVIOUS
<1>2. \A k \in DOMAIN s : s[k] # x
  BY DEF Range
<1> QED
  BY <1>1, <1>2 DEF IsInjective

(* The same of the channel to the writer, whose elements are told apart by *)
(* their instances.                                                        *)
LEMMA ReceivingItem ==
    ASSUME NEW S, NEW s \in Seq(S), s # <<>>, ItemsOnce(s)
    PROVE  /\ ItemsOnce(Tail(s))
           /\ Head(s).item \notin {r.item : r \in Range(Tail(s))}
<1>1. \A k \in DOMAIN Tail(s) :
        k \in Nat /\ k >= 1 /\ k + 1 \in DOMAIN s /\ Tail(s)[k] = s[k + 1]
  OBVIOUS
<1>2. 1 \in DOMAIN s /\ Head(s) = s[1]
  OBVIOUS
<1>3. ItemsOnce(Tail(s))
  BY <1>1 DEF ItemsOnce
<1>4. \A k \in DOMAIN Tail(s) : Tail(s)[k].item # Head(s).item
  BY <1>1, <1>2 DEF ItemsOnce
<1> QED
  BY <1>3, <1>4 DEF Range

LEMMA SendingItem ==
    ASSUME NEW S, NEW s \in Seq(S), NEW x \in S, ItemsOnce(s),
           x.item \notin {r.item : r \in Range(s)}
    PROVE  ItemsOnce(Append(s, x))
<1>1. \A k \in DOMAIN Append(s, x) :
        \/ k \in DOMAIN s /\ Append(s, x)[k] = s[k]
        \/ k = Len(s) + 1 /\ Append(s, x)[k] = x
  OBVIOUS
<1>2. \A k \in DOMAIN s : s[k].item # x.item
  BY DEF Range
<1> QED
  BY <1>1, <1>2 DEF ItemsOnce

(* What one worker's step does to what the workers hold, exactly.          *)
LEMMA HeldExactly ==
    ASSUME TypeOK, HeldOnce, NEW p \in Workers, NEW job, NEW st,
           workers' = [workers EXCEPT ![p] = [pc |-> st, job |-> job]],
           job.item \notin Held \ {workers[p].job.item}
    PROVE  /\ Held' = (Held \ {workers[p].job.item}) \cup ({job.item} \ {Nobody})
           /\ HeldOnce'
           /\ workers'[p].job = job
           /\ \A q \in Workers : q # p => workers'[q].job = workers[q].job
<1>1. workers'[p].job = job
  BY DEF TypeOK
<1>2. \A q \in Workers : q # p => workers'[q] = workers[q]
  BY DEF TypeOK
<1>3. \A q \in Workers : q # p => \/ workers[q].job.item = Nobody
                                  \/ workers[q].job.item # workers[p].job.item
  BY DEF HeldOnce
<1>4. \A q \in Workers : q # p => \/ workers[q].job.item = Nobody
                                  \/ workers[q].job.item # job.item
  BY <1>3 DEF Held
<1>5. HeldOnce'
  BY <1>1, <1>2, <1>4 DEF HeldOnce
<1>6. Held' \subseteq (Held \ {workers[p].job.item}) \cup ({job.item} \ {Nobody})
  BY <1>1, <1>2, <1>3 DEF Held
<1>7. (Held \ {workers[p].job.item}) \cup ({job.item} \ {Nobody}) \subseteq Held'
  BY <1>1, <1>2 DEF Held
<1> QED
  BY <1>1, <1>2, <1>5, <1>6, <1>7

(* An instance is never Nobody, nor is an element of a channel without one.*)
LEMMA Somebody ==
    ASSUME TypeOK
    PROVE  /\ Range(instances) \subseteq Workloads
           /\ Range(workloadCh) \subseteq Workloads
           /\ Held \subseteq Workloads
           /\ Buffered \subseteq Workloads
           /\ Nobody \notin Workloads
<1>1. Range(instances) \subseteq Workloads /\ Range(workloadCh) \subseteq Workloads
  BY Elements DEF TypeOK
<1>2. Buffered \subseteq Workloads
  <2>1. Range(resolvedCh) \subseteq Resolved
    BY Elements DEF TypeOK
  <2> QED
    BY <2>1, JobTypes DEF Buffered
<1>3. Held \subseteq Workloads
  <2>1. \A q \in Workers : workers[q].job.item \in Workloads \cup {Nobody}
    <3> SUFFICES ASSUME NEW q \in Workers
                 PROVE  workers[q].job.item \in Workloads \cup {Nobody}
      OBVIOUS
    <3>1. workers[q].job \in Resolved \cup {Unresolved(Nobody)}
      BY DEF TypeOK
    <3> QED
      BY <3>1, JobTypes
  <2> QED
    BY <2>1 DEF Held
<1> QED
  BY <1>1, <1>2, <1>3, PipelineAssumption

(* Discovery passes the next instance to the workers' channel.             *)
LEMMA SendsWorkload ==
    ASSUME RefInv, SendWorkload
    PROVE  Once' /\ FoundAreOwn' /\ InFlight' = InFlight
<1> DEFINE x == Head(instances)
<1>1. running /\ TypeOK /\ Once /\ FoundAreOwn
  BY DEF RefInv, IndInv, SendWorkload, DiscoveryStep
<1>2. /\ Range(instances) = {x} \cup Range(instances')
      /\ Range(workloadCh') = Range(workloadCh) \cup {x}
      /\ x \in Workloads
  BY <1>1, Sending, Receiving DEF SendWorkload, TypeOK
<1>3. x \notin Range(instances') /\ IsInjective(instances')
  BY <1>1, ReceivingOnce DEF SendWorkload, TypeOK, Once
<1>4. x \notin Range(workloadCh) /\ x \notin Held /\ x \notin Buffered /\ writing.item # x
  BY <1>1, <1>2 DEF Once
<1>5. IsInjective(workloadCh')
  BY <1>1, <1>2, <1>4, SendingOnce DEF SendWorkload, TypeOK, Once
<1>6. /\ UNCHANGED <<workers, resolvedCh, writing, running>>
      /\ Held' = Held /\ Buffered' = Buffered
  BY DEF SendWorkload, DiscoveryStep, Held, Buffered
<1> HIDE DEF x
<1>7. HeldOnce' /\ ItemsOnce(resolvedCh')
  BY <1>1, <1>6 DEF Once, HeldOnce
<1>8. Once'
  BY <1>1, <1>2, <1>3, <1>4, <1>5, <1>6, <1>7 DEF Once
<1>9. FoundAreOwn'
  BY <1>1, <1>6 DEF FoundAreOwn
<1>10. InFlight' = InFlight
  BY <1>2, <1>6 DEF InFlight
<1> QED
  BY <1>8, <1>9, <1>10

(* A worker takes an instance from its channel.                            *)
LEMMA Receives ==
    ASSUME RefInv, NEW p \in Workers, Receive(p)
    PROVE  Once' /\ FoundAreOwn' /\ InFlight' = InFlight
<1> DEFINE x == Head(workloadCh)
<1>1. running /\ TypeOK /\ Once /\ FoundAreOwn /\ Drained
  BY DEF RefInv, IndInv, Receive, WorkerStep
<1>2. Range(workloadCh) = {x} \cup Range(workloadCh') /\ x \in Workloads
  BY <1>1, Receiving DEF Receive, TypeOK
<1>3. x \notin Range(workloadCh') /\ IsInjective(workloadCh')
  BY <1>1, ReceivingOnce DEF Receive, TypeOK, Once
<1>4. x \notin Range(instances) /\ x \notin Held /\ x \notin Buffered /\ writing.item # x
  BY <1>1, <1>2 DEF Once
<1>5. workers[p].job.item = Nobody
  BY <1>1, JobTypes DEF Receive, Drained
<1>6. /\ UNCHANGED <<instances, resolvedCh, writing, running>>
      /\ Buffered' = Buffered
  BY DEF Receive, WorkerStep, Buffered
<1>7. /\ workers' = [workers EXCEPT ![p] = [pc |-> "resolve", job |-> Unresolved(x)]]
      /\ Unresolved(x).item = x /\ Unresolved(x).found = {}
  BY DEF Receive, Unresolved
<1> HIDE DEF x
<1>8. HeldOnce /\ Nobody \notin Held /\ x # Nobody
  BY <1>1, <1>2, Somebody DEF Once
<1>9. /\ Held' = Held \cup {x} /\ HeldOnce'
      /\ workers'[p].job = Unresolved(x)
      /\ \A q \in Workers : q # p => workers'[q].job = workers[q].job
  <2>1. Unresolved(x).item \notin Held \ {workers[p].job.item}
    BY <1>4, <1>7
  <2>2. /\ Held' = (Held \ {workers[p].job.item})
                      \cup ({Unresolved(x).item} \ {Nobody})
        /\ HeldOnce'
        /\ workers'[p].job = Unresolved(x)
        /\ \A q \in Workers : q # p => workers'[q].job = workers[q].job
    BY <1>1, <1>7, <1>8, <2>1, HeldExactly
  <2> QED
    BY <1>5, <1>7, <1>8, <2>2
<1>10. Once'
  BY <1>1, <1>2, <1>3, <1>4, <1>6, <1>9 DEF Once
<1>11. FoundAreOwn'
  BY <1>1, <1>6, <1>7, <1>9 DEF FoundAreOwn, OwnRefs
<1>12. InFlight' = InFlight
  BY <1>2, <1>6, <1>9 DEF InFlight
<1> QED
  BY <1>10, <1>11, <1>12

(* A worker looks for the dependencies of its instance.                    *)
LEMMA Resolves ==
    ASSUME RefInv, NEW p \in Workers, ResolveWorkload(p)
    PROVE  Once' /\ FoundAreOwn' /\ InFlight' = InFlight
<1> DEFINE x == workers[p].job.item
<1>1. running /\ TypeOK /\ Once /\ FoundAreOwn
  BY DEF RefInv, IndInv, ResolveWorkload, WorkerStep
<1>2. x \in Workloads
  BY <1>1, JobTypes DEF ResolveWorkload, TypeOK
<1>3. PICK job : /\ workers' = [workers EXCEPT ![p] = [pc |-> "send", job |-> job]]
                 /\ job.item = x /\ job.found \subseteq Refs[x]
  <2>1. PICK answered : workers' = [workers EXCEPT ![p] =
           [pc |-> "send", job |-> IF HasResolver(Includes[turn])
                                   THEN Resolve(x, answered)
                                   ELSE workers[p].job]]
    BY DEF ResolveWorkload
  <2>2. Resolve(x, answered).item = x /\ Resolve(x, answered).found \subseteq Refs[x]
    BY <1>2, ResolveType
  <2>3. workers[p].job.found \subseteq Refs[x]
    BY <1>1, <1>2, PipelineAssumption DEF FoundAreOwn, OwnRefs
  <2> HIDE DEF x
  <2> QED
    BY <2>1, <2>2, <2>3 DEF x
<1>4. /\ UNCHANGED <<instances, workloadCh, resolvedCh, writing, running>>
      /\ Buffered' = Buffered
  BY DEF ResolveWorkload, WorkerStep, Buffered
<1>5. HeldOnce /\ x \in Held /\ x # Nobody
  BY <1>1, <1>2, PipelineAssumption DEF Once, Held
<1>6. /\ Held' = (Held \ {x}) \cup ({x} \ {Nobody}) /\ HeldOnce'
      /\ workers'[p].job = job
      /\ \A q \in Workers : q # p => workers'[q].job = workers[q].job
  BY <1>1, <1>3, <1>5, HeldExactly
<1> HIDE DEF x
<1>7. Held' = Held
  BY <1>5, <1>6
<1>8. Once'
  BY <1>1, <1>4, <1>6, <1>7 DEF Once
<1>9. FoundAreOwn'
  BY <1>1, <1>3, <1>4, <1>6 DEF FoundAreOwn, OwnRefs
<1>10. InFlight' = InFlight
  BY <1>4, <1>7 DEF InFlight
<1> QED
  BY <1>8, <1>9, <1>10

(* A worker warns of the instance it cannot read, and holds it no longer.  *)
LEMMA FailsToResolve ==
    ASSUME RefInv, NEW p \in Workers, ResolveFails(p)
    PROVE  /\ Once' /\ FoundAreOwn'
           /\ workers[p].job.item \in InFlight \cap Workloads
           /\ InFlight' = InFlight \ {workers[p].job.item}
<1> DEFINE x == workers[p].job.item
<1>1. running /\ TypeOK /\ Once /\ FoundAreOwn
  BY DEF RefInv, IndInv, ResolveFails, WorkerStep
<1>2. x \in Workloads
  BY <1>1, JobTypes DEF ResolveFails, TypeOK
<1>3. /\ UNCHANGED <<instances, workloadCh, resolvedCh, writing, running>>
      /\ Buffered' = Buffered
  BY DEF ResolveFails, WorkerStep, Buffered
<1>4. HeldOnce /\ x \in Held /\ x # Nobody
  BY <1>1, <1>2, PipelineAssumption DEF Once, Held
<1>5. Unresolved(Nobody).item = Nobody
  BY JobTypes
<1>6. Nobody \notin Held
  BY DEF Held
<1>7. workers' = [workers EXCEPT ![p] = [pc |-> "recv", job |-> Unresolved(Nobody)]]
  BY DEF ResolveFails, Idle
<1>8. /\ Held' = (Held \ {x}) \cup ({Unresolved(Nobody).item} \ {Nobody})
      /\ HeldOnce'
      /\ workers'[p].job = Unresolved(Nobody)
      /\ \A q \in Workers : q # p => workers'[q].job = workers[q].job
  BY <1>1, <1>4, <1>5, <1>6, <1>7, HeldExactly
<1>9. /\ x \notin Range(instances) /\ x \notin Range(workloadCh)
      /\ x \notin Buffered /\ x # writing.item
  BY <1>1, <1>4 DEF Once
<1> HIDE DEF x
<1>10. Held' = Held \ {x}
  BY <1>5, <1>8
<1>11. Once'
  BY <1>1, <1>3, <1>8, <1>10 DEF Once
<1>12. FoundAreOwn'
  BY <1>1, <1>3, <1>5, <1>8 DEF FoundAreOwn, OwnRefs
<1>13. InFlight' = InFlight \ {x} /\ x \in InFlight
  BY <1>3, <1>4, <1>9, <1>10 DEF InFlight
<1> QED
  BY <1>2, <1>11, <1>12, <1>13 DEF x

(* A worker passes its instance on to the writer's channel.                *)
LEMMA SendsResolved ==
    ASSUME RefInv, NEW p \in Workers, SendResolved(p)
    PROVE  Once' /\ FoundAreOwn' /\ InFlight' = InFlight
<1> DEFINE x == workers[p].job.item
<1>1. running /\ TypeOK /\ Once /\ FoundAreOwn
  BY DEF RefInv, IndInv, SendResolved, WorkerStep
<1>2. x \in Workloads /\ workers[p].job \in Resolved
  BY <1>1, JobTypes DEF SendResolved, TypeOK
<1>3. UNCHANGED <<instances, workloadCh, writing, running>>
  BY DEF SendResolved, WorkerStep
<1>4. HeldOnce /\ x \in Held /\ x # Nobody
  BY <1>1, <1>2, PipelineAssumption DEF Once, Held
<1>5. Unresolved(Nobody).item = Nobody
  BY JobTypes
<1>6. Nobody \notin Held
  BY DEF Held
<1>7. workers' = [workers EXCEPT ![p] = [pc |-> "recv", job |-> Unresolved(Nobody)]]
  BY DEF SendResolved, Idle
<1>8. /\ Held' = (Held \ {x}) \cup ({Unresolved(Nobody).item} \ {Nobody})
      /\ HeldOnce'
      /\ workers'[p].job = Unresolved(Nobody)
      /\ \A q \in Workers : q # p => workers'[q].job = workers[q].job
  BY <1>1, <1>4, <1>5, <1>6, <1>7, HeldExactly
<1>9. /\ x \notin Range(instances) /\ x \notin Range(workloadCh)
      /\ x \notin Buffered /\ x # writing.item
  BY <1>1, <1>4 DEF Once
<1>10. /\ resolvedCh' = Append(resolvedCh, workers[p].job)
       /\ resolvedCh \in Seq(Resolved)
  BY <1>1 DEF SendResolved, TypeOK
<1>11. Range(resolvedCh') = Range(resolvedCh) \cup {workers[p].job}
  BY <1>2, <1>10, Sending
<1>12. ItemsOnce(resolvedCh')
  BY <1>1, <1>2, <1>9, <1>10, SendingItem DEF Once, Buffered
<1>13. Buffered' = Buffered \cup {x}
  BY <1>11 DEF Buffered
<1>14. FoundAreOwn'
  BY <1>1, <1>3, <1>5, <1>8, <1>11 DEF FoundAreOwn, OwnRefs
<1> HIDE DEF x
<1>15. Held' = Held \ {x}
  BY <1>5, <1>8
<1>16. Once'
  BY <1>1, <1>3, <1>8, <1>9, <1>12, <1>13, <1>15 DEF Once
<1>17. InFlight' = InFlight
  BY <1>3, <1>4, <1>13, <1>15 DEF InFlight
<1> QED
  BY <1>14, <1>16, <1>17

(* The writer takes an instance from its channel.                          *)
LEMMA ReceivesResolved ==
    ASSUME RefInv, ReceiveResolved
    PROVE  Once' /\ FoundAreOwn' /\ InFlight' = InFlight
<1> DEFINE r == Head(resolvedCh)
<1>1. running /\ TypeOK /\ Once /\ FoundAreOwn /\ Drained
  BY DEF RefInv, IndInv, ReceiveResolved, WriterStep
<1>2. /\ UNCHANGED <<instances, workloadCh, workers, running>>
      /\ writing' = r /\ resolvedCh' = Tail(resolvedCh)
      /\ resolvedCh # <<>> /\ resolvedCh \in Seq(Resolved)
      /\ Held' = Held
  BY <1>1 DEF ReceiveResolved, WriterStep, TypeOK, Held
<1>3. Range(resolvedCh) = {r} \cup Range(resolvedCh') /\ r \in Resolved
  BY <1>2, Receiving
<1>4. ItemsOnce(resolvedCh') /\ r.item \notin Buffered'
  BY <1>1, <1>2, ReceivingItem DEF Once, Buffered
<1>5. writing.item = Nobody /\ r.item # Nobody
  BY <1>1, <1>3, JobTypes, PipelineAssumption DEF ReceiveResolved, Drained
<1> HIDE DEF r
<1>6. Buffered = {r.item} \cup Buffered'
  BY <1>3 DEF Buffered
<1>7. HeldOnce'
  BY <1>1, <1>2 DEF Once, HeldOnce
<1>8. Once'
  BY <1>1, <1>2, <1>4, <1>6, <1>7 DEF Once
<1>9. FoundAreOwn'
  BY <1>1, <1>2, <1>3 DEF FoundAreOwn
<1>10. InFlight' = InFlight
  BY <1>2, <1>5, <1>6 DEF InFlight
<1> QED
  BY <1>8, <1>9, <1>10

(* The writer has written its instance, or warned of it.                   *)
LEMMA Writes ==
    ASSUME RefInv, WriteWorkloadWithDeps
    PROVE  /\ Once' /\ FoundAreOwn'
           /\ writing.item \in InFlight \cap Workloads
           /\ writing.found \subseteq Refs[writing.item]
           /\ InFlight' = InFlight \ {writing.item}
<1>1. running /\ TypeOK /\ Once /\ FoundAreOwn
  BY DEF RefInv, IndInv, WriteWorkloadWithDeps, WriterStep
<1>2. /\ UNCHANGED <<instances, workloadCh, workers, resolvedCh, running>>
      /\ writing' = Unresolved(Nobody)
      /\ Held' = Held /\ Buffered' = Buffered
  BY DEF WriteWorkloadWithDeps, WriterStep, Held, Buffered
<1>3. writing.item \in Workloads /\ writing.item # Nobody
  BY <1>1, JobTypes, PipelineAssumption DEF WriteWorkloadWithDeps, TypeOK
<1>4. writing'.item = Nobody
  BY <1>2, JobTypes
<1>5. /\ Nobody \notin Range(instances) /\ Nobody \notin Range(workloadCh)
      /\ Nobody \notin Held /\ Nobody \notin Buffered
  BY <1>1, Somebody
<1>6. HeldOnce'
  BY <1>1, <1>2 DEF Once, HeldOnce
<1>7. Once'
  BY <1>1, <1>2, <1>4, <1>5, <1>6 DEF Once
<1>8. FoundAreOwn' /\ writing.found \subseteq Refs[writing.item]
  BY <1>1, <1>2, <1>3, <1>4 DEF FoundAreOwn, OwnRefs
<1>9. InFlight' = InFlight \ {writing.item} /\ writing.item \in InFlight
  BY <1>1, <1>2, <1>3, <1>4 DEF InFlight, Once
<1> QED
  BY <1>3, <1>7, <1>8, <1>9

(* The listing puts its instances, if any, in flight.                      *)
LEMMA Lists ==
    ASSUME RefInv, List
    PROVE  /\ Once' /\ FoundAreOwn'
           /\ InFlight' \in {{}, Range(Instances[Includes[turn]])}
<1>1. running /\ TypeOK /\ Once /\ FoundAreOwn /\ InFlight = {}
  BY DEF RefInv, IndInv, List, DiscoveryStep, ListedFirst
<1>2. /\ UNCHANGED <<workloadCh, workers, resolvedCh, writing, running>>
      /\ Held' = Held /\ Buffered' = Buffered
      /\ instances' \in {<<>>, Instances[Includes[turn]]}
  BY DEF List, DiscoveryStep, Held, Buffered
<1>3. Range(<<>>) = {} /\ IsInjective(<<>>)
  BY DEF Range, IsInjective
<1>4. IsInjective(instances') /\ Range(instances') \subseteq Workloads
  BY <1>1, <1>2, <1>3, TurnType, Elements, InputAssumption
<1>5. /\ Range(workloadCh) = {} /\ Held = {} /\ Buffered = {}
      /\ {writing.item} \ {Nobody} = {}
  BY <1>1 DEF InFlight
<1>6. Once'
  <2>1. HeldOnce' /\ ItemsOnce(resolvedCh')
    BY <1>1, <1>2 DEF Once, HeldOnce
  <2>2. writing'.item \notin Range(instances')
    BY <1>2, <1>4, <1>5, PipelineAssumption
  <2> QED
    BY <1>1, <1>2, <1>4, <1>5, <2>1, <2>2 DEF Once
<1>7. FoundAreOwn'
  BY <1>1, <1>2 DEF FoundAreOwn
<1>8. InFlight' = Range(instances')
  BY <1>2, <1>5 DEF InFlight
<1> QED
  BY <1>2, <1>3, <1>6, <1>7, <1>8

(* A type begins with nothing in flight.                                   *)
LEMMA Starts ==
    ASSUME RefInv, Start
    PROVE  Once' /\ FoundAreOwn' /\ InFlight' = {}
<1>1. /\ instances' = <<>> /\ workloadCh' = <<>> /\ resolvedCh' = <<>>
      /\ writing' = Unresolved(Nobody)
      /\ \A q \in Workers : workers'[q].job = Unresolved(Nobody)
  BY DEF Start, Idle
<1>2. Unresolved(Nobody).item = Nobody
  BY JobTypes
<1>3. Range(<<>>) = {} /\ IsInjective(<<>>) /\ ItemsOnce(<<>>)
  BY DEF Range, IsInjective, ItemsOnce
<1>4. Held' = {} /\ Buffered' = {}
  BY <1>1, <1>2, <1>3 DEF Held, Buffered
<1>5. HeldOnce'
  BY <1>1, <1>2 DEF HeldOnce
<1>6. Once'
  BY <1>1, <1>3, <1>4, <1>5 DEF Once
<1>7. FoundAreOwn'
  BY <1>1, <1>2, <1>3 DEF FoundAreOwn, OwnRefs
<1>8. InFlight' = {}
  BY <1>1, <1>2, <1>3, <1>4 DEF InFlight
<1> QED
  BY <1>6, <1>7, <1>8

(* The other steps move no instance.                                       *)
LEMMA MovesNothing ==
    ASSUME RefInv, running' => running,
           UNCHANGED <<instances, workloadCh, resolvedCh, writing>>,
           \A q \in Workers : workers'[q].job = workers[q].job
    PROVE  Once' /\ FoundAreOwn' /\ InFlight' = InFlight
<1>1. Once /\ FoundAreOwn
  BY DEF RefInv
<1>2. Held' = Held /\ Buffered' = Buffered
  BY DEF Held, Buffered
<1>3. HeldOnce' <=> HeldOnce
  BY DEF HeldOnce
<1>4. Once'
  BY <1>1, <1>2, <1>3 DEF Once
<1>5. FoundAreOwn'
  BY <1>1 DEF FoundAreOwn
<1>6. InFlight' = InFlight
  BY <1>2 DEF InFlight
<1> QED
  BY <1>4, <1>5, <1>6

(* Steps that move no instance and are no step of the command.             *)
LEMMA Stutters ==
    ASSUME RefInv, UNCHANGED <<running, turn, files, warned, result>>,
           disc' = "list" <=> disc = "list", InFlight' = InFlight
    PROVE  UNCHANGED Sequential!vars /\ ListedFirst'
<1>1. ListedFirst'
  BY DEF RefInv, ListedFirst
<1> QED
  BY <1>1 DEF Sequential!vars

(* Every step of the pipeline is a step of the command, or none of its,    *)
(* and keeps each instance in one place.                                   *)
LEMMA RefinesStep ==
    ASSUME RefInv, [Next]_vars
    PROVE  /\ [Sequential!Next]_(Sequential!vars)
           /\ Once' /\ FoundAreOwn' /\ ListedFirst'
<1>0. TypeOK
  BY DEF RefInv, IndInv
<1>1. CASE Start
  <2>1. Once' /\ FoundAreOwn' /\ InFlight' = {}
    BY <1>1, Starts
  <2>2. Sequential!Begin
    BY <1>1, <2>1 DEF Start, Sequential!Begin
  <2>3. ListedFirst'
    BY <2>1 DEF ListedFirst
  <2> QED
    BY <2>1, <2>2, <2>3 DEF Sequential!Next
<1>2. CASE Wait
  <2>1. Once' /\ FoundAreOwn'
    BY <1>2, MovesNothing DEF Wait
  <2>2. ListedFirst'
    BY <1>2 DEF Wait, ListedFirst
  <2>3. CASE "err" \in {disc, pool, writer}
    <3>1. Sequential!Fail
      BY <1>2, <2>3 DEF Wait, Sequential!Fail
    <3> QED
      BY <2>1, <2>2, <3>1 DEF Sequential!Next
  <2>4. CASE "err" \notin {disc, pool, writer}
    <3>1. disc = "nil" /\ pool = "nil" /\ writer = "nil"
      BY <1>2, <2>4 DEF Wait
    <3>2. InFlight = {}
      BY <1>2, <3>1, NothingInFlight DEF Wait, RefInv
    <3>3. Sequential!Succeed
      BY <1>2, <2>4, <3>1, <3>2 DEF Wait, Sequential!Succeed
    <3> QED
      BY <2>1, <2>2, <3>3 DEF Sequential!Next
  <2> QED
    BY <2>3, <2>4
<1>3. CASE Deadline
  <2>1. Once' /\ FoundAreOwn' /\ InFlight' = InFlight
    BY <1>3, MovesNothing DEF Deadline
  <2> QED
    BY <1>3, <2>1, Stutters DEF Deadline
<1>4. CASE CancelPipeline
  <2>1. Once' /\ FoundAreOwn' /\ InFlight' = InFlight
    BY <1>4, MovesNothing DEF CancelPipeline
  <2> QED
    BY <1>4, <2>1, Stutters DEF CancelPipeline
<1>5. CASE CancelPool
  <2>1. Once' /\ FoundAreOwn' /\ InFlight' = InFlight
    BY <1>5, MovesNothing DEF CancelPool
  <2> QED
    BY <1>5, <2>1, Stutters DEF CancelPool
<1>6. CASE List
  <2>1. /\ Once' /\ FoundAreOwn'
        /\ InFlight' \in {{}, Range(Instances[Includes[turn]])}
    BY <1>6, Lists
  <2>2. Sequential!Discover
    BY <1>6, <2>1
       DEF List, DiscoveryStep, Sequential!Discover, Range, Sequential!Range
  <2>3. ListedFirst'
    BY <1>6 DEF List, ListedFirst
  <2> QED
    BY <2>1, <2>2, <2>3 DEF Sequential!Next
<1>7. CASE ListFails
  <2>1. Once' /\ FoundAreOwn' /\ InFlight' = InFlight
    BY <1>7, MovesNothing DEF ListFails, DiscoveryStep
  <2>2. InFlight = {}
    BY <1>7 DEF ListFails, DiscoveryStep, RefInv, ListedFirst
  <2>3. Sequential!Discover
    BY <1>7, <2>1, <2>2 DEF ListFails, DiscoveryStep, Sequential!Discover
  <2>4. ListedFirst'
    BY <1>7 DEF ListFails, ListedFirst
  <2> QED
    BY <2>1, <2>3, <2>4 DEF Sequential!Next
<1>8. CASE SendWorkload
  <2>1. Once' /\ FoundAreOwn' /\ InFlight' = InFlight
    BY <1>8, SendsWorkload
  <2> QED
    BY <1>8, <2>1, Stutters DEF SendWorkload, DiscoveryStep
<1>9. CASE DiscoveryReturns
  <2>1. Once' /\ FoundAreOwn' /\ InFlight' = InFlight
    BY <1>9, MovesNothing DEF DiscoveryReturns, DiscoveryStep
  <2> QED
    BY <1>9, <2>1, Stutters DEF DiscoveryReturns, DiscoveryStep
<1>10. ASSUME NEW p \in Workers, Receive(p)
       PROVE  /\ [Sequential!Next]_(Sequential!vars)
              /\ Once' /\ FoundAreOwn' /\ ListedFirst'
  <2>1. Once' /\ FoundAreOwn' /\ InFlight' = InFlight
    BY <1>10, Receives
  <2> QED
    BY <1>10, <2>1, Stutters DEF Receive, WorkerStep
<1>11. ASSUME NEW p \in Workers, ResolveWorkload(p)
       PROVE  /\ [Sequential!Next]_(Sequential!vars)
              /\ Once' /\ FoundAreOwn' /\ ListedFirst'
  <2>1. Once' /\ FoundAreOwn' /\ InFlight' = InFlight
    BY <1>11, Resolves
  <2> QED
    BY <1>11, <2>1, Stutters DEF ResolveWorkload, WorkerStep
<1>12. ASSUME NEW p \in Workers, ResolveFails(p)
       PROVE  /\ [Sequential!Next]_(Sequential!vars)
              /\ Once' /\ FoundAreOwn' /\ ListedFirst'
  <2> DEFINE x == workers[p].job.item
  <2>1. /\ Once' /\ FoundAreOwn'
        /\ x \in InFlight \cap Workloads /\ InFlight' = InFlight \ {x}
    BY <1>12, FailsToResolve
  <2>2. /\ running /\ warned' = warned \cup {x}
        /\ UNCHANGED <<running, disc, turn, files, result>>
    BY <1>12 DEF ResolveFails, WorkerStep
  <2> HIDE DEF x
  <2>3. disc # "list"
    BY <2>1, <2>2 DEF RefInv, ListedFirst
  <2>4. Sequential!Settle(x)
    BY <2>1, <2>2, <2>3 DEF Sequential!Settle
  <2>5. ListedFirst'
    BY <2>2, <2>3 DEF ListedFirst
  <2> QED
    BY <2>1, <2>4, <2>5 DEF Sequential!Next
<1>13. ASSUME NEW p \in Workers, SendResolved(p)
       PROVE  /\ [Sequential!Next]_(Sequential!vars)
              /\ Once' /\ FoundAreOwn' /\ ListedFirst'
  <2>1. Once' /\ FoundAreOwn' /\ InFlight' = InFlight
    BY <1>13, SendsResolved
  <2> QED
    BY <1>13, <2>1, Stutters DEF SendResolved, WorkerStep
<1>14. ASSUME NEW p \in Workers, WorkerReturns(p)
       PROVE  /\ [Sequential!Next]_(Sequential!vars)
              /\ Once' /\ FoundAreOwn' /\ ListedFirst'
  <2>1. PICK e \in Ended : workers' = [workers EXCEPT ![p].pc = e]
    BY <1>14 DEF WorkerReturns
  <2>2. \A q \in Workers : workers'[q].job = workers[q].job
    BY <1>0, <2>1 DEF TypeOK
  <2>3. Once' /\ FoundAreOwn' /\ InFlight' = InFlight
    BY <1>14, <2>2, MovesNothing DEF WorkerReturns, WorkerStep
  <2> QED
    BY <1>14, <2>3, Stutters DEF WorkerReturns, WorkerStep
<1>15. CASE PoolReturns
  <2>1. Once' /\ FoundAreOwn' /\ InFlight' = InFlight
    BY <1>15, MovesNothing DEF PoolReturns
  <2> QED
    BY <1>15, <2>1, Stutters DEF PoolReturns
<1>16. CASE ReceiveResolved
  <2>1. Once' /\ FoundAreOwn' /\ InFlight' = InFlight
    BY <1>16, ReceivesResolved
  <2> QED
    BY <1>16, <2>1, Stutters DEF ReceiveResolved, WriterStep
<1>17. CASE WriteWorkloadWithDeps
  <2> DEFINE x == writing.item
  <2>1. /\ Once' /\ FoundAreOwn'
        /\ x \in InFlight \cap Workloads /\ InFlight' = InFlight \ {x}
        /\ writing.found \subseteq Refs[x]
    BY <1>17, Writes
  <2>2. running /\ UNCHANGED <<running, disc, turn, result>>
    BY <1>17 DEF WriteWorkloadWithDeps, WriterStep
  <2>3. \/ /\ \E saved \in SUBSET Refs[x] : files' = files \cup {x} \cup saved
           /\ \E lost \in SUBSET Refs[x] : warned' = warned \cup lost
        \/ /\ warned' = warned \cup {x}
           /\ files' = files
    <3>1. CASE warned' = warned \cup {x} /\ files' = files
      BY <3>1
    <3>2. CASE ~(warned' = warned \cup {x} /\ files' = files)
      <4>1. PICK failing \in SUBSET writing.found :
              /\ files' = files \cup {x} \cup (writing.found \ failing)
              /\ warned' = warned \cup failing
        BY <1>17, <3>2 DEF WriteWorkloadWithDeps
      <4>2. failing \in SUBSET Refs[x] /\ writing.found \ failing \in SUBSET Refs[x]
        BY <2>1
      <4> QED
        BY <4>1, <4>2
    <3> QED
      BY <3>1, <3>2
  <2> HIDE DEF x
  <2>4. disc # "list"
    BY <2>1, <2>2 DEF RefInv, ListedFirst
  <2>5. Sequential!Settle(x)
    BY <2>1, <2>2, <2>3, <2>4 DEF Sequential!Settle
  <2>6. ListedFirst'
    BY <2>2, <2>4 DEF ListedFirst
  <2> QED
    BY <2>1, <2>5, <2>6 DEF Sequential!Next
<1>18. CASE WriterReturns
  <2>1. Once' /\ FoundAreOwn' /\ InFlight' = InFlight
    BY <1>18, MovesNothing DEF WriterReturns, WriterStep
  <2> QED
    BY <1>18, <2>1, Stutters DEF WriterReturns, WriterStep
<1>19. CASE UNCHANGED vars
  <2>1. Once' /\ FoundAreOwn' /\ InFlight' = InFlight
    BY <1>19, MovesNothing DEF vars
  <2> QED
    BY <1>19, <2>1, Stutters DEF vars
<1> QED
  BY <1>1, <1>2, <1>3, <1>4, <1>5, <1>6, <1>7, <1>8, <1>9, <1>10, <1>11,
        <1>12, <1>13, <1>14, <1>15, <1>16, <1>17, <1>18, <1>19
     DEF Next, Discovery, Worker, Writer

(* The pipeline implements the sequential command: whatever the number of  *)
(* workers and instances, and wherever cancellation strikes, every listed  *)
(* instance is settled once, and runPipeline returns nil only when none is *)
(* left open.                                                              *)
THEOREM PipelineImplementsCommand == Spec => ImplementsSequential
<1>1. Init => Sequential!Init
  BY DEF Init, Sequential!Init, Turns, Sequential!Turns
<1>2. Init => Once /\ FoundAreOwn /\ ListedFirst
  <2> SUFFICES ASSUME Init PROVE Once /\ FoundAreOwn /\ ListedFirst
    OBVIOUS
  <2>1. Once /\ ListedFirst
    BY DEF Init, Once, ListedFirst
  <2>2. FoundAreOwn
    BY JobTypes DEF Init, FoundAreOwn, OwnRefs, Idle, Range
  <2> QED
    BY <2>1, <2>2
<1>3. IndInv /\ Once /\ FoundAreOwn /\ ListedFirst /\ [Next]_vars =>
        /\ [Sequential!Next]_(Sequential!vars)
        /\ Once' /\ FoundAreOwn' /\ ListedFirst'
  BY RefinesStep DEF RefInv
<1> QED
  BY <1>1, <1>2, <1>3, Invariance, PTL
     DEF Spec, ImplementsSequential, Sequential!Spec

=============================================================================

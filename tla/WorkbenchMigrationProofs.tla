----------------------- MODULE WorkbenchMigrationProofs -----------------------
(***************************************************************************)
(* Theorems about WorkbenchMigration, for any workbenches, commands,       *)
(* failing requests, kills and edits.                                      *)
(***************************************************************************)
EXTENDS WorkbenchMigration, FiniteSetTheorems, TLAPS

Between == {"next", "list", "idle"}
PatchPCs == {"stop", "wait", "refetch", "gate", "patch", "delete", "restart", "pods"}
Owning == {"stop", "wait", "refetch", "gate", "patch", "delete", "confirm", "clean"}

-----------------------------------------------------------------------------
(* The inductive invariant, part by part.                                  *)

(* Which migration is where; the last one of the plan stays the last one.  *)
Stage ==
    /\ cli.pc \notin {"next", "idle"} => cli.plan # <<>>
    /\ cli.pc \in PatchPCs => Now = "patch"
    /\ cli.pc \in {"confirm", "clean", "fix", "auth", "label", "write"} => Now # "verify"
    /\ cli.pc = "verify" => Now = "verify"
    /\ cli.plan # <<>> => cli.plan[Len(cli.plan)] = cmd.plan[Len(cmd.plan)]

(* A copy is what the Notebook was: the Notebook may have got further on   *)
(* the way to the new model since, but not back.                           *)
Copied(n) ==
    /\ n \in fresh => cli.copy[n] = nb[n]
    /\ CheckMigrationState(Has(n)) => CheckMigrationState(nb[n].has)
    /\ "oauth-proxy" \in nb[n].has => "oauth-proxy" \in Has(n)

Copies == cli.pc \notin Between => \A n \in Notebooks : Copied(n)

(* What was patched has no oauth-proxy, and only that is cleaned up then.  *)
Patched ==
    /\ \A n \in cli.patched : "oauth-proxy" \notin nb[n].has
    /\ cli.pc = "delete" => \A n \in cli.cur : "oauth-proxy" \notin nb[n].has
    /\ cli.pc = "confirm" /\ Now = "patch" => cli.work \subseteq cli.patched
    /\ cli.pc = "clean" /\ Now = "patch" => cli.todo \subseteq cli.patched

(* What the run has stopped is remembered, until it is started again, or a *)
(* failure is.                                                             *)
Remembered(n) ==
    \/ cli.failed
    \/ cli.pc \in Owning /\ Now = "patch" /\ n \in cli.mine
    \/ cli.pc \in {"wait", "refetch"} /\ n \in cli.cur
    \/ cli.pc = "restart" /\ n \in cli.todo
    \/ cli.pc = "idle" /\ exit # "ok"

Stops ==
    /\ \A n \in Notebooks : nb[n].stop \in 0 .. run \cup {User}
    /\ \A n \in Notebooks : nb[n].stop = run => Remembered(n)
    /\ Flag("dry-run") => cli.mine = {} /\ cli.pc \notin {"wait", "refetch"}
    /\ cli.pc \in {"wait", "refetch"} => \A m, n \in cli.cur : m = n
    /\ cli.pc = "idle" => ~cli.failed

(* What the last verify-migration has looked at is as it should be. *)
Fine(n) ==
    /\ cmd.phase \in {"migration", "all"} => CheckMigrationState(nb[n].has)
    /\ cmd.phase \in {"cleanup", "all"} => res[n] = {}
EndsVerified ==
    "verify" \notin denied /\ cmd.plan # <<>> /\ cmd.plan[Len(cmd.plan)] = "verify"

Verified ==
    /\ cli.pc = "verify" => \A n \in cmd.scope \ cli.todo : cli.failed \/ Fine(n)
    /\ EndsVerified /\ cli.pc = "next" /\ cli.plan = <<>> =>
         \A n \in cmd.scope : cli.failed \/ Fine(n)
    /\ EndsVerified /\ cli.pc = "idle" /\ exit = "ok" => \A n \in cmd.scope : Fine(n)

IndInv == TypeOK /\ Stage /\ Copies /\ Patched /\ Stops /\ Verified
-----------------------------------------------------------------------------
(* What the steps do to the process.                                       *)

(* The same migration goes on at l. *)
Goes(l) ==
    cli' \in Process /\ cli'.pc = l /\ cli'.plan = cli.plan
Kept == cli'.mine = cli.mine /\ cli'.patched = cli.patched
Moved(l, over, work) ==
    /\ Goes(l) /\ Kept /\ cli'.todo = over /\ cli'.work = work
    /\ cli'.cur = cli.cur /\ cli'.copy = cli.copy /\ cli'.failed = cli.failed
Left(b) ==
    /\ cli' \in Process /\ cli'.pc = "next" /\ cli'.plan = Tail(cli.plan)
    /\ Kept /\ cli'.failed = (cli.failed \/ b)

LEMMA GotoShape ==
    ASSUME cli \in Process, NEW l \in PCs, Goto(l)
    PROVE  Moved(l, cli.todo, cli.work)
BY DEF Goto, Process, Moved, Goes, Kept

LEMMA LoopShape ==
    ASSUME cli \in Process, NEW l \in PCs, NEW S \in SUBSET Notebooks, Loop(l, S)
    PROVE  Moved(l, S, cli.work)
BY DEF Loop, Process, Moved, Goes, Kept

LEMMA TailShape ==
    ASSUME NEW s \in Seq(Migrations), s # <<>>
    PROVE  /\ Tail(s) \in Seq(Migrations) /\ Head(s) \in Migrations
           /\ Tail(s) # <<>> => Tail(s)[Len(Tail(s))] = s[Len(s)]
           /\ Tail(s) = <<>> => Head(s) = s[Len(s)]
<1>1. Len(s) \in Nat /\ Len(s) # 0 /\ Tail(s) \in Seq(Migrations) /\ Head(s) \in Migrations
  OBVIOUS
<1>2. Len(Tail(s)) = Len(s) - 1 /\ \A i \in 1 .. Len(s) - 1 : Tail(s)[i] = s[i + 1]
  OBVIOUS
<1>3. Tail(s) # <<>> => Len(s) - 1 \in 1 .. Len(s) - 1
  BY <1>1, <1>2
<1>4. Tail(s) = <<>> => Len(s) = 1
  BY <1>1, <1>2
<1> QED
  BY <1>1, <1>2, <1>3, <1>4

LEMMA LeaveShape ==
    ASSUME cli \in Process, cli.plan # <<>>, NEW b \in BOOLEAN, Leave(b)
    PROVE  Left(b)
<1>1. Tail(cli.plan) \in Seq(Migrations)
  BY TailShape DEF Process
<1> QED
  BY <1>1 DEF Leave, Process, Left, Kept, PCs

(* The loop is through with n. *)
Counted(n, b) ==
    /\ Goes(cli.pc) /\ Kept /\ cli'.todo = cli.todo \ {n} /\ cli'.work = cli.work
    /\ cli'.cur = cli.cur /\ cli'.copy = cli.copy /\ cli'.failed = (cli.failed \/ b)

LEMMA DoneShape ==
    ASSUME cli \in Process, NEW n \in Notebooks, NEW b \in BOOLEAN, Done(n, b)
    PROVE  Counted(n, b)
BY DEF Done, Process, Counted, Goes, Kept

LEMMA ReadShape ==
    ASSUME TypeOK, NEW l \in PCs, NEW S \in SUBSET Notebooks, NEW W \in SUBSET Notebooks,
           Read(l, S, W)
    PROVE  /\ Goes(l) /\ Kept /\ cli'.todo = S /\ cli'.work = W /\ cli'.copy = nb
           /\ cli'.failed = cli.failed
BY DEF Read, TypeOK, Process, Goes, Kept

LEMMA StartedShape ==
    ASSUME nb \in [Notebooks -> Notebook], NEW c \in Commands
    PROVE  /\ Started(c) \in Process /\ Started(c).pc = "next" /\ Started(c).plan = c.plan
           /\ Started(c).mine = {} /\ Started(c).patched = {} /\ Started(c).failed = FALSE
           /\ [Started(c) EXCEPT !.pc = "idle"] \in Process
<1>1. c.plan \in Seq(Migrations)
  BY WorkbenchAssumption DEF Command
<1> QED
  BY <1>1 DEF Started, Process, PCs

LEMMA IdleShape ==
    ASSUME TypeOK, cli' = [Started(cmd) EXCEPT !.pc = "idle"]
    PROVE  /\ cli' \in Process /\ cli'.pc = "idle" /\ cli'.plan = cmd.plan
           /\ cli'.mine = {} /\ cli'.patched = {} /\ cli'.failed = FALSE
<1>1. Started(cmd) \in Process /\ cmd \in Commands /\ nb \in [Notebooks -> Notebook]
  BY StartedShape DEF TypeOK
<1> QED
  BY <1>1, StartedShape DEF Process

LEMMA LimitsType ==
    ASSUME TypeOK, Works \/ Fails \/ UNCHANGED limits
    PROVE  events' \in 0 .. MaxEvents /\ expired' \in BOOLEAN
BY WorkbenchAssumption DEF TypeOK, Works, Fails, Hit, Event, limits

(* What is written to a Notebook, by the command or by others, does not go *)
(* back to the old model.                                                  *)
Forward(old, new) ==
    /\ CheckMigrationState(old) => CheckMigrationState(new)
    /\ "oauth-proxy" \in new => "oauth-proxy" \in old

LEMMA ForwardCases ==
    ASSUME NEW has \in SUBSET Features
    PROVE  /\ Forward(has, has) /\ Forward(has, applyAllPatches(has))
           /\ Forward(has, fixContainerName(has)) /\ Forward(has, has \cup {"queue-name"})
           /\ Forward(has, has \cup {"edited"}) /\ Forward(has, has \cup {"kube-rbac-proxy"})
           /\ applyAllPatches(has) \in SUBSET Features /\ "oauth-proxy" \notin applyAllPatches(has)
           /\ fixContainerName(has) \in SUBSET Features
BY DEF Forward, CheckMigrationState, applyAllPatches, fixContainerName, Legacy, Features

LEMMA ResourcesFinite ==
    ASSUME NEW bad \in SUBSET OAuthResources
    PROVE  Cardinality(bad) \in Nat
<1>1. IsFiniteSet({}) /\ \A S, x : IsFiniteSet(S) => IsFiniteSet(S \cup {x})
  BY FS_EmptySet, FS_AddElement
<1> DEFINE one == {} \cup {"Route"}
           two == one \cup {"Service -tls"}
           three == two \cup {"Secret -oauth-client"}
           four == three \cup {"Secret -oauth-config"}
           five == four \cup {"Secret -tls"}
           six == five \cup {"OAuthClient"}
<1>2. IsFiniteSet(one) /\ IsFiniteSet(two) /\ IsFiniteSet(three)
  BY <1>1
<1>3. IsFiniteSet(four) /\ IsFiniteSet(five) /\ IsFiniteSet(six)
  BY <1>1, <1>2
<1>4. OAuthResources = six
  BY DEF OAuthResources
<1>5. IsFiniteSet(OAuthResources)
  BY <1>3, <1>4
<1> QED
  BY <1>5, FS_Subset, FS_CardinalityType

-----------------------------------------------------------------------------
(* What the steps do to the cluster: nothing is turned back, no resource   *)
(* is made, and what is still fresh was not written.                       *)
Soft ==
    /\ nb' \in [Notebooks -> Notebook] /\ sts' \in [Notebooks -> StatefulSet]
    /\ res' \in [Notebooks -> SUBSET OAuthResources]
    /\ saved' \subseteq Notebooks /\ fresh' \subseteq Notebooks
    /\ UNCHANGED <<denied, cmd, run, exit>>
    /\ events' \in 0 .. MaxEvents /\ expired' \in BOOLEAN
    /\ \A n \in Notebooks :
         /\ Forward(nb[n].has, nb'[n].has)
         /\ res'[n] \subseteq res[n]
         /\ n \in fresh' => n \in fresh /\ nb'[n] = nb[n]

(* Nothing is written, or only n. *)
Unwritten == nb' = nb
Written(n, has, stop) ==
    /\ nb'[n] = [has |-> has, stop |-> stop]
    /\ \A m \in Notebooks : m # n => nb'[m] = nb[m]

LEMMA KeepsSoft ==
    ASSUME TypeOK, Keeps, Same, Works \/ Fails \/ UNCHANGED limits
    PROVE  Soft /\ Unwritten
<1>1. events' \in 0 .. MaxEvents /\ expired' \in BOOLEAN
  BY LimitsType
<1>2. \A n \in Notebooks : Forward(nb[n].has, nb[n].has)
  BY DEF Forward
<1> QED
  BY <1>1, <1>2 DEF TypeOK, Keeps, Same, cluster, Soft, Unwritten

LEMMA WriteSoftly ==
    ASSUME TypeOK, Same, events' \in 0 .. MaxEvents, expired' \in BOOLEAN, NEW n \in Notebooks,
           NEW has \in SUBSET Features, NEW stop \in 0 .. MaxRuns + 1, Write(n, has, stop),
           Forward(nb[n].has, has)
    PROVE  Soft /\ Written(n, has, stop)
<1>1. [has |-> has, stop |-> stop] \in Notebook
  BY DEF Notebook
<1>2. nb' \in [Notebooks -> Notebook] /\ Written(n, has, stop)
  BY <1>1 DEF Write, TypeOK, Written
<1>3. fresh' = fresh \ {n} /\ UNCHANGED <<sts, res, saved, denied, cmd, run, exit>>
  BY DEF Write, Same
<1>4. \A m \in Notebooks : Forward(nb[m].has, nb'[m].has)
  <2>1. Forward(nb[n].has, nb'[n].has)
    BY <1>2 DEF Written
  <2>2. \A m \in Notebooks : m # n => Forward(nb[m].has, nb'[m].has)
    BY <1>2 DEF Written, Forward
  <2> QED
    BY <2>1, <2>2
<1> QED
  BY <1>2, <1>3, <1>4 DEF TypeOK, Soft, Written

LEMMA WriteSoft ==
    ASSUME TypeOK, Same, Works \/ Fails \/ UNCHANGED limits, NEW n \in Notebooks,
           NEW has \in SUBSET Features, NEW stop \in 0 .. MaxRuns + 1, Write(n, has, stop),
           Forward(nb[n].has, has)
    PROVE  Soft /\ Written(n, has, stop)
BY LimitsType, WriteSoftly

LEMMA SoftKeeps ==
    ASSUME IndInv, Soft
    PROVE  /\ \A n \in Notebooks : Fine(n) => Fine(n)'
           /\ \A n \in Notebooks : "oauth-proxy" \notin nb[n].has => "oauth-proxy" \notin nb'[n].has
           /\ cmd.scope \subseteq Notebooks
           /\ EndsVerified' = EndsVerified
<1>1. ASSUME NEW n \in Notebooks, Fine(n) PROVE Fine(n)'
  <2>1. /\ cmd' = cmd /\ res'[n] \subseteq res[n]
        /\ CheckMigrationState(nb[n].has) => CheckMigrationState(nb'[n].has)
    BY DEF Soft, Forward
  <2> QED
    BY <1>1, <2>1 DEF Fine
<1>2. cmd.scope \subseteq Notebooks
  BY WorkbenchAssumption DEF IndInv, TypeOK, Command
<1> QED
  BY <1>1, <1>2 DEF Soft, Forward, EndsVerified

(* The copies are as good as before, those that are read again too. *)
LEMMA SoftCopies ==
    ASSUME IndInv, Soft, cli.pc \notin Between,
           \A n \in Notebooks : cli'.copy[n] = cli.copy[n]
    PROVE  Copies'
<1> SUFFICES ASSUME NEW n \in Notebooks PROVE Copied(n)'
  BY DEF Copies
<1>1. Copied(n) /\ cli'.copy[n] = cli.copy[n]
  BY DEF IndInv, Copies
<1>2. /\ CheckMigrationState(nb[n].has) => CheckMigrationState(nb'[n].has)
      /\ "oauth-proxy" \in nb'[n].has => "oauth-proxy" \in nb[n].has
      /\ n \in fresh' => n \in fresh /\ nb'[n] = nb[n]
  BY DEF Soft, Forward
<1> QED
  BY <1>1, <1>2 DEF Copied, Has

(* A loop is through with one more Notebook.                               *)
LEMMA ItemKeeps ==
    ASSUME IndInv, Soft, NEW n \in Notebooks, NEW b \in BOOLEAN,
           cli.pc \notin Between \cup {"confirm"}, Goes(cli.pc), Kept,
           cli'.todo = cli.todo \ {n}, cli'.cur = cli.cur, cli'.copy = cli.copy,
           cli'.failed = (cli.failed \/ b),
           \A m \in Notebooks : nb'[m].stop \in 0 .. run \cup {User},
           \A m \in Notebooks : nb'[m].stop = run => nb[m].stop = run \/ b,
           cli.pc = "restart" => b \/ nb'[n].stop # run,
           cli.pc = "verify" => b \/ Fine(n)'
    PROVE  IndInv'
<1>0. TypeOK /\ Stage /\ Patched /\ Stops /\ Verified
  BY DEF IndInv
<1>1. TypeOK'
  BY <1>0 DEF TypeOK, Soft, Goes
<1>2. /\ cli'.pc = cli.pc /\ Now' = Now /\ cmd' = cmd /\ run' = run /\ exit' = exit
      /\ cli'.plan = cli.plan /\ cli'.mine = cli.mine /\ cli'.patched = cli.patched
  BY DEF Goes, Kept, Now, Soft
<1>3. Stage'
  BY <1>0, <1>2 DEF Stage
<1>4. Copies'
  BY SoftCopies
<1>5. Patched'
  BY <1>0, <1>1, <1>2, SoftKeeps DEF Patched, TypeOK, Process
<1>6. Stops'
  <2>1. ASSUME NEW m \in Notebooks, nb'[m].stop = run PROVE Remembered(m)'
    <3>1. b \/ Remembered(m)
      BY <1>0, <2>1 DEF Stops
    <3>2. b => cli'.failed
      OBVIOUS
    <3>3. cli.failed => cli'.failed
      OBVIOUS
    <3>4. CASE Remembered(m) /\ ~b
      <4>1. cli.pc = "restart" => m # n
        BY <2>1, <3>4
      <4> QED
        BY <1>2, <3>3, <3>4, <4>1 DEF Remembered
    <3> QED
      BY <3>1, <3>2, <3>4 DEF Remembered
  <2> QED
    BY <1>0, <1>2, <2>1 DEF Stops, Flag, Between
<1>7. Verified'
  <2>1. ASSUME cli.pc = "verify", NEW m \in cmd.scope \ cli'.todo PROVE cli'.failed \/ Fine(m)'
    <3>1. m = n \/ (m \in cmd.scope \ cli.todo /\ m \in Notebooks)
      BY <2>1, SoftKeeps
    <3>2. b => cli'.failed
      OBVIOUS
    <3>3. cli.failed => cli'.failed
      OBVIOUS
    <3>4. CASE m = n
      BY <2>1, <3>2, <3>4
    <3>5. CASE m \in cmd.scope \ cli.todo /\ m \in Notebooks
      BY <1>0, <2>1, <3>3, <3>5, SoftKeeps DEF Verified
    <3> QED
      BY <3>1, <3>4, <3>5
  <2> QED
    BY <1>2, <2>1 DEF Verified, Between
<1> QED
  BY <1>1, <1>3, <1>4, <1>5, <1>6, <1>7 DEF IndInv

(* From one loop of a migration to the next one. *)
Arrow(l, S, W) ==
    \/ cli.pc = "wait" /\ l = "refetch"
    \/ cli.pc = "stop" /\ l = "gate"
    \/ cli.pc = "gate" /\ l = "patch"
    \/ /\ cli.pc \in {"gate", "patch", "confirm", "clean"} /\ Now = "patch"
       /\ l = "restart" /\ S = cli.mine
    \/ cli.pc = "patch" /\ l = "confirm" /\ W = cli.patched
    \/ cli.pc = "confirm" /\ l = "clean" /\ S = cli.work
    \/ cli.pc = "restart" /\ l = "pods" /\ cli.todo = {}
    \/ cli.pc = "confirm" /\ Now \in {"upgrade", "kueue"} /\ l \in {"fix", "label", "auth"}
    \/ cli.pc = "fix" /\ l = "auth"

LEMMA MovedKeeps ==
    ASSUME IndInv, Soft, Unwritten, NEW l \in PCs, NEW S, NEW W, Moved(l, S, W), Arrow(l, S, W)
    PROVE  IndInv'
<1>0. TypeOK /\ Stage /\ Patched /\ Stops /\ Verified
  BY DEF IndInv
<1>1. TypeOK'
  BY <1>0 DEF TypeOK, Soft, Moved, Goes
<1>2. /\ cli'.pc = l /\ Now' = Now /\ cmd' = cmd /\ run' = run /\ exit' = exit /\ nb' = nb
      /\ cli'.plan = cli.plan /\ cli'.mine = cli.mine /\ cli'.patched = cli.patched
      /\ cli'.todo = S /\ cli'.work = W /\ cli'.cur = cli.cur /\ cli'.copy = cli.copy
      /\ cli'.failed = cli.failed
  BY DEF Moved, Goes, Kept, Now, Soft, Unwritten
<1>3. Stage'
  BY <1>0, <1>2 DEF Stage, Arrow, PatchPCs
<1>4. Copies'
  BY <1>2, SoftCopies DEF Arrow, Between
<1>5. Patched'
  BY <1>0, <1>2 DEF Patched, Arrow
<1>6. Stops'
  <2>1. ASSUME NEW m \in Notebooks, nb[m].stop = run PROVE Remembered(m)'
    <3>1. Remembered(m)
      BY <1>0, <2>1 DEF Stops
    <3>2. cli.pc \in PatchPCs => Now = "patch"
      BY <1>0 DEF Stage
    <3> QED
      BY <1>2, <3>1, <3>2 DEF Remembered, Arrow, Owning, PatchPCs
  <2> QED
    BY <1>0, <1>2, <2>1 DEF Stops, Flag, Arrow, User
<1>7. Verified'
  BY <1>2 DEF Verified, Arrow
<1> QED
  BY <1>1, <1>3, <1>4, <1>5, <1>6, <1>7 DEF IndInv

(* The cluster stays as it is; what was listed is fresh. *)
Calm ==
    /\ UNCHANGED <<nb, sts, res, cmd, run, exit>>
    /\ saved' \subseteq Notebooks /\ fresh' \subseteq Notebooks
    /\ denied' \subseteq Migrations /\ denied \subseteq denied'
    /\ events' \in 0 .. MaxEvents /\ expired' \in BOOLEAN

LEMMA LeftKeeps ==
    ASSUME IndInv, Calm, cli.pc \notin {"next", "idle"}, NEW b \in BOOLEAN, Left(b),
           \A n \in Notebooks : nb[n].stop = run => cli.failed \/ b,
           Now = "verify" => b \/ "verify" \in denied' \/ \A n \in cmd.scope : cli.failed \/ Fine(n)
    PROVE  IndInv'
<1>0. TypeOK /\ Stage /\ Patched /\ Stops /\ Verified /\ cli.plan # <<>>
  BY DEF IndInv, Stage
<1>1. TypeOK'
  BY <1>0 DEF TypeOK, Calm, Left
<1>2. /\ cli'.pc = "next" /\ cmd' = cmd /\ run' = run /\ exit' = exit /\ nb' = nb /\ res' = res
      /\ cli'.plan = Tail(cli.plan) /\ cli'.mine = cli.mine /\ cli'.patched = cli.patched
      /\ (cli.failed => cli'.failed) /\ (b => cli'.failed) /\ denied \subseteq denied'
  BY DEF Left, Kept, Calm
<1>3. cli.plan \in Seq(Migrations)
  BY <1>0 DEF TypeOK, Process
<1>4. Stage'
  BY <1>0, <1>2, <1>3, TailShape DEF Stage, PatchPCs
<1>5. Copies'
  BY <1>2 DEF Copies, Between
<1>6. Patched'
  BY <1>0, <1>2 DEF Patched
<1>7. Stops'
  BY <1>0, <1>2 DEF Stops, Remembered, Flag, User
<1>8. Verified'
  <2>1. ASSUME EndsVerified, Tail(cli.plan) = <<>> PROVE Now = "verify"
    BY <1>0, <1>3, <2>1, TailShape DEF EndsVerified, Stage, Now
  <2>2. ASSUME EndsVerified', Tail(cli.plan) = <<>>, NEW n \in cmd.scope
        PROVE  cli'.failed \/ Fine(n)
    BY <1>2, <2>1, <2>2 DEF EndsVerified
  <2> QED
    BY <1>2, <2>2 DEF Verified, EndsVerified, Fine
<1> QED
  BY <1>1, <1>4, <1>5, <1>6, <1>7, <1>8 DEF IndInv

(* A migration begins with what it has listed. *)
LEMMA ReadKeeps ==
    ASSUME IndInv, Calm, cli.pc = "list",
           NEW l \in {"gate", "stop", "confirm", "auth", "write", "verify"}, Goes(l), Kept,
           cli'.copy = nb, cli.failed => cli'.failed,
           l \in {"gate", "stop"} => Now = "patch",
           l \in {"confirm", "auth", "write"} => Now \notin {"patch", "verify"},
           l = "verify" => Now = "verify" /\ cli'.todo = cmd.scope
    PROVE  IndInv'
<1>0. TypeOK /\ Stage /\ Patched /\ Stops /\ Verified /\ cli.plan # <<>>
  BY DEF IndInv, Stage
<1>1. TypeOK'
  BY <1>0 DEF TypeOK, Calm, Goes
<1>2. /\ cli'.pc = l /\ Now' = Now /\ cmd' = cmd /\ run' = run /\ exit' = exit
      /\ nb' = nb /\ res' = res
      /\ cli'.plan = cli.plan /\ cli'.mine = cli.mine /\ cli'.patched = cli.patched
  BY DEF Goes, Kept, Now, Calm
<1>3. Stage'
  BY <1>0, <1>2 DEF Stage, PatchPCs
<1>4. Copies'
  BY <1>2 DEF Copies, Copied, Has
<1>5. Patched'
  BY <1>0, <1>2 DEF Patched
<1>6. Stops'
  BY <1>0, <1>2 DEF Stops, Remembered, Flag, User, Owning
<1>7. Verified'
  BY <1>2 DEF Verified
<1> QED
  BY <1>1, <1>3, <1>4, <1>5, <1>6, <1>7 DEF IndInv

LEMMA KeepsCalm ==
    ASSUME TypeOK, Keeps, Same, Works \/ Fails \/ UNCHANGED limits
    PROVE  Calm
BY LimitsType DEF TypeOK, Keeps, Same, cluster, Calm

LEMMA ListsCalm ==
    ASSUME TypeOK, NEW m, Lists(m)
    PROVE  Calm /\ cli.pc = "list" /\ Now = m
BY LimitsType DEF TypeOK, Lists, Same, cluster, Calm

(* What the command returns with. *)
LEMMA EndsKeep ==
    ASSUME IndInv, cli' = [Started(cmd) EXCEPT !.pc = "idle"],
           UNCHANGED <<nb, sts, res, fresh, denied, cmd, run>>, saved' \subseteq Notebooks,
           events' \in 0 .. MaxEvents, expired' \in BOOLEAN,
           exit' \in {"ok", "failures", "error", "killed"},
           exit' = "ok" => cli.pc = "next" /\ cli.plan = <<>> /\ ~cli.failed
    PROVE  IndInv'
<1>0. TypeOK /\ Stage /\ Patched /\ Stops /\ Verified
  BY DEF IndInv
<1>1. /\ cli' \in Process /\ cli'.pc = "idle" /\ cli'.plan = cmd.plan
      /\ cli'.mine = {} /\ cli'.patched = {} /\ cli'.failed = FALSE
  BY <1>0, IdleShape
<1>2. TypeOK'
  BY <1>0, <1>1 DEF TypeOK
<1>3. Stage'
  BY <1>1 DEF Stage, PatchPCs
<1>4. Copies'
  BY <1>1 DEF Copies, Between
<1>5. Patched'
  BY <1>1 DEF Patched
<1>6. Stops'
  <2>1. exit' = "ok" => \A n \in Notebooks : nb[n].stop # run
    BY <1>0 DEF Stops, Remembered, Owning
  <2> QED
    BY <1>0, <1>1, <2>1 DEF Stops, Remembered, User
<1>7. Verified'
  <2>1. exit' = "ok" /\ EndsVerified => \A n \in cmd.scope : Fine(n)
    BY <1>0 DEF Verified
  <2> QED
    BY <1>1, <2>1 DEF Verified, EndsVerified, Fine
<1> QED
  BY <1>2, <1>3, <1>4, <1>5, <1>6, <1>7 DEF IndInv

-----------------------------------------------------------------------------
(* Action by action: between the loops.                                    *)

LEMMA GotoKeeps ==
    ASSUME IndInv, Keeps, Same, Works \/ Fails \/ UNCHANGED limits, NEW l \in PCs, Goto(l),
           Arrow(l, cli.todo, cli.work)
    PROVE  IndInv'
BY GotoShape, KeepsSoft, MovedKeeps DEF IndInv, TypeOK

LEMMA LoopKeeps ==
    ASSUME IndInv, Keeps, Same, Works \/ Fails \/ UNCHANGED limits, NEW l \in PCs,
           NEW S \in SUBSET Notebooks, Loop(l, S), Arrow(l, S, cli.work)
    PROVE  IndInv'
BY LoopShape, KeepsSoft, MovedKeeps DEF IndInv, TypeOK

LEMMA LeaveKeeps ==
    ASSUME IndInv, Keeps, Same, Works \/ Fails \/ UNCHANGED limits,
           cli.pc \notin {"next", "idle"}, NEW b \in BOOLEAN, Leave(b),
           \A n \in Notebooks : nb[n].stop = run => cli.failed \/ b,
           Now = "verify" => b \/ \A n \in cmd.scope : cli.failed \/ Fine(n)
    PROVE  IndInv'
<1>1. Left(b)
  BY LeaveShape DEF IndInv, Stage, TypeOK
<1>2. Calm
  BY KeepsCalm DEF IndInv
<1> QED
  BY <1>1, <1>2, LeftKeeps

(* Where nothing is stopped any more. *)
LEMMA NothingStopped ==
    ASSUME IndInv,
           \/ cli.pc \in {"list", "pods", "fix", "auth", "label", "write", "verify"}
           \/ cli.pc = "restart" /\ cli.todo = {}
           \/ cli.pc = "gate" /\ Flag("dry-run")
           \/ cli.pc \in {"confirm", "clean"} /\ Now # "patch"
    PROVE  \A n \in Notebooks : nb[n].stop = run => cli.failed
BY DEF IndInv, Stops, Remembered, Owning

LEMMA BetweenKeep ==
    ASSUME IndInv,
           \/ AllStopped \/ PatchGate \/ AllPatched \/ AllRestarted \/ ConfirmCleanup
           \/ AllCleaned \/ ConfirmChange \/ AllFixed
    PROVE  IndInv'
<1>0. /\ cli \in Process /\ cli.mine \in SUBSET Notebooks /\ cli.work \in SUBSET Notebooks
      /\ cli.patched \in SUBSET Notebooks /\ cli.todo \in SUBSET Notebooks /\ TypeOK
      /\ cli.pc \in PatchPCs => Now = "patch"
      /\ cli.pc \in {"confirm", "clean"} => Now # "verify"
  BY DEF IndInv, TypeOK, Process, Stage
<1>a. PCs = PatchPCs \cup {"next", "list", "confirm", "clean", "fix", "auth", "label", "verify",
                           "write", "idle"}
  BY DEF PCs, PatchPCs
<1>1. Keeps /\ Same /\ UNCHANGED limits
  BY DEF AllStopped, PatchGate, AllPatched, AllRestarted, ConfirmCleanup, AllCleaned, ConfirmChange,
     AllFixed
<1>2. CASE AllStopped
  BY <1>1, <1>2, GotoKeeps DEF AllStopped, Arrow, PCs
<1>3. CASE PatchGate
  <2>1. /\ cli.pc = "gate" /\ Now = "patch"
        /\ \/ Loop("restart", cli.mine)
           \/ Loop("patch", cli.work)
           \/ Flag("dry-run") /\ Leave(FALSE)
    BY <1>0, <1>3 DEF PatchGate, PatchPCs
  <2>2. CASE Loop("restart", cli.mine)
    BY <1>0, <1>1, <2>1, <2>2, LoopKeeps DEF Arrow, PCs
  <2>3. CASE Loop("patch", cli.work)
    BY <1>0, <1>1, <2>1, <2>3, LoopKeeps DEF Arrow, PCs
  <2>4. CASE Flag("dry-run") /\ Leave(FALSE)
    BY <1>1, <2>1, <2>4, LeaveKeeps, NothingStopped
  <2> QED
    BY <2>1, <2>2, <2>3, <2>4
<1>4. CASE AllPatched
  <2>1. /\ cli.pc = "patch" /\ Now = "patch"
        /\ \/ Loop("restart", cli.mine)
           \/ cli' = [cli EXCEPT !.pc = "confirm", !.work = cli.patched]
    BY <1>0, <1>4 DEF AllPatched, PatchPCs
  <2>2. CASE Loop("restart", cli.mine)
    BY <1>0, <1>1, <2>1, <2>2, LoopKeeps DEF Arrow, PCs
  <2>3. CASE cli' = [cli EXCEPT !.pc = "confirm", !.work = cli.patched]
    <3>1. Moved("confirm", cli.todo, cli.patched) /\ "confirm" \in PCs
      BY <1>0, <2>3 DEF Process, Moved, Goes, Kept, PCs
    <3> QED
      BY <1>0, <1>1, <2>1, <3>1, KeepsSoft, MovedKeeps DEF Arrow
  <2> QED
    BY <2>1, <2>2, <2>3
<1>5. CASE AllRestarted
  <2>1. /\ cli.pc = "restart" /\ cli.todo = {} /\ Now = "patch"
        /\ Goto("pods") \/ Leave(FALSE)
    BY <1>0, <1>5 DEF AllRestarted, PatchPCs
  <2>2. CASE Goto("pods")
    BY <1>1, <2>1, <2>2, GotoKeeps DEF Arrow, PCs
  <2>3. CASE Leave(FALSE)
    BY <1>1, <2>1, <2>3, LeaveKeeps, NothingStopped
  <2> QED
    BY <2>1, <2>2, <2>3
<1>6. CASE ConfirmCleanup
  <2>1. /\ cli.pc = "confirm"
        /\ \/ Loop("clean", cli.work)
           \/ Now = "patch" /\ Loop("restart", cli.mine)
           \/ Now = "cleanup" /\ Leave(FALSE)
    BY <1>6 DEF ConfirmCleanup
  <2>2. CASE Loop("clean", cli.work)
    BY <1>0, <1>1, <2>1, <2>2, LoopKeeps DEF Arrow, PCs
  <2>3. CASE Now = "patch" /\ Loop("restart", cli.mine)
    BY <1>0, <1>1, <2>1, <2>3, LoopKeeps DEF Arrow, PCs
  <2>4. CASE Now = "cleanup" /\ Leave(FALSE)
    BY <1>1, <2>1, <2>4, LeaveKeeps, NothingStopped
  <2> QED
    BY <2>1, <2>2, <2>3, <2>4
<1>7. CASE AllCleaned
  <2>1. /\ cli.pc = "clean"
        /\ \/ Now = "patch" /\ Loop("restart", cli.mine)
           \/ Now # "patch" /\ Leave(FALSE)
    BY <1>7 DEF AllCleaned
  <2>2. CASE Now = "patch" /\ Loop("restart", cli.mine)
    BY <1>0, <1>1, <2>1, <2>2, LoopKeeps DEF Arrow, PCs
  <2>3. CASE Now # "patch" /\ Leave(FALSE)
    BY <1>0, <1>1, <2>1, <2>3, LeaveKeeps, NothingStopped
  <2> QED
    BY <2>1, <2>2, <2>3
<1>8. CASE ConfirmChange
  <2>1. /\ cli.pc = "confirm" /\ Now \in {"upgrade", "kueue"}
        /\ \/ \E l \in {"fix", "label", "auth"} : Goto(l)
           \/ Leave(FALSE)
    BY <1>8 DEF ConfirmChange
  <2>2. ASSUME NEW l \in {"fix", "label", "auth"}, Goto(l) PROVE IndInv'
    BY <1>1, <2>1, <2>2, GotoKeeps DEF Arrow, PCs
  <2>3. CASE Leave(FALSE)
    BY <1>1, <2>1, <2>3, LeaveKeeps, NothingStopped
  <2> QED
    BY <2>1, <2>2, <2>3
<1>9. CASE AllFixed
  BY <1>1, <1>9, GotoKeeps DEF AllFixed, Arrow, PCs
<1> QED
  BY <1>2, <1>3, <1>4, <1>5, <1>6, <1>7, <1>8, <1>9

(* A migration ends after its last loop. *)
LEMMA LeavesKeep ==
    ASSUME IndInv, ListFails \/ ListDenied \/ checkKueueTerminatingPods \/ verifyAuthModel \/ AllSeen
    PROVE  IndInv'
<1>0. /\ cli.pc \in PatchPCs => Now = "patch"
      /\ cli.pc \in {"auth", "label"} => Now # "verify"
      /\ cli.pc = "verify" => \A n \in cmd.scope \ cli.todo : cli.failed \/ Fine(n)
  BY DEF IndInv, Stage, Verified
<1>1. CASE ListFails
  <2>1. /\ cli.pc = "list" /\ Keeps /\ Same /\ (Works \/ Fails)
        /\ \E b \in BOOLEAN : Leave(b) /\ (Now = "verify" => b)
    BY <1>1 DEF ListFails
  <2> QED
    BY <2>1, LeaveKeeps, NothingStopped
<1>5. CASE ListDenied
  <2>1. /\ cli.pc = "list" /\ Keeps /\ Fails /\ Leave(FALSE) /\ denied' = denied \cup {Now}
        /\ UNCHANGED <<saved, cmd, run, exit>>
    BY <1>5 DEF ListDenied, Fails
  <2>2. TypeOK /\ Stage /\ cli.plan # <<>>
    BY <2>1 DEF IndInv, Stage
  <2>3. Now \in Migrations /\ Left(FALSE)
    BY <2>1, <2>2, LeaveShape, TailShape DEF TypeOK, Process, Now
  <2>4. Calm
    BY <2>1, <2>2, <2>3, LimitsType DEF TypeOK, Keeps, cluster, Calm
  <2> QED
    BY <2>1, <2>3, <2>4, LeftKeeps, NothingStopped
<1>2. CASE checkKueueTerminatingPods
  <2>1. /\ cli.pc = "pods" /\ Keeps /\ Same /\ (Works \/ Fails)
        /\ \E b \in BOOLEAN : Leave(b)
    BY <1>2 DEF checkKueueTerminatingPods
  <2>2. Now = "patch"
    BY <1>0, <2>1 DEF PatchPCs
  <2> QED
    BY <2>1, <2>2, LeaveKeeps, NothingStopped
<1>3. CASE verifyAuthModel
  <2>1. /\ cli.pc = "auth" /\ Keeps /\ Same /\ UNCHANGED limits
        /\ \E b \in BOOLEAN : Leave(b)
    BY <1>3 DEF verifyAuthModel
  <2> QED
    BY <1>0, <2>1, LeaveKeeps, NothingStopped
<1>4. CASE AllSeen
  <2>1. cli.pc \in {"label", "verify"} /\ cli.todo = {} /\ Keeps /\ Same /\ UNCHANGED limits
        /\ Leave(FALSE)
    BY <1>4 DEF AllSeen
  <2>2. Now = "verify" => \A n \in cmd.scope : cli.failed \/ Fine(n)
    BY <1>0, <2>1
  <2> QED
    BY <2>1, <2>2, LeaveKeeps, NothingStopped
<1> QED
  BY <1>1, <1>2, <1>3, <1>4, <1>5

(* What is listed. *)
LEMMA ListsLeave ==
    ASSUME IndInv, NEW m \in Migrations \ {"verify"}, Lists(m), Leave(FALSE)
    PROVE  IndInv'
<1>1. Calm /\ cli.pc = "list" /\ Now = m
  BY ListsCalm DEF IndInv
<1>2. Left(FALSE)
  BY <1>1, LeaveShape DEF IndInv, Stage, TypeOK
<1> QED
  BY <1>1, <1>2, LeftKeeps, NothingStopped

LEMMA ListsRead ==
    ASSUME IndInv, NEW m \in Migrations, Lists(m),
           NEW l \in {"gate", "stop", "confirm", "write", "verify"},
           NEW S \in SUBSET Notebooks, NEW W \in SUBSET Notebooks, Read(l, S, W),
           l \in {"gate", "stop"} => m = "patch",
           l \in {"confirm", "write"} => m \notin {"patch", "verify"},
           l = "verify" => m = "verify" /\ S = cmd.scope
    PROVE  IndInv'
<1>1. Calm /\ cli.pc = "list" /\ Now = m
  BY ListsCalm DEF IndInv
<1>2. /\ Goes(l) /\ Kept /\ cli'.todo = S /\ cli'.copy = nb /\ cli'.failed = cli.failed
  BY ReadShape DEF IndInv, PCs
<1> QED
  BY <1>1, <1>2, ReadKeeps

LEMMA UpgradeListsKeeps ==
    ASSUME IndInv, UpgradeLists
    PROVE  IndInv'
<1>1. Lists("upgrade") /\ "upgrade" \in Migrations \ {"verify"}
  BY DEF UpgradeLists, Migrations
<1> DEFINE W == {n \in Notebooks : nb[n].stop # Running \/ Flag("force-non-stopped")}
           S == {n \in W : hasContainerNameMismatch(nb[n].has)}
           l == IF S = {} \/ Flag("dry-run") THEN "auth" ELSE "confirm"
           b == \E n \in W : NameCheckFails(nb[n].has)
<1>2. \/ Leave(FALSE)
      \/ cli' = [cli EXCEPT !.copy = nb, !.work = W, !.todo = S, !.pc = l, !.failed = @ \/ b]
  BY DEF UpgradeLists
<1>3. W \in SUBSET Notebooks /\ S \in SUBSET Notebooks /\ l \in {"auth", "confirm"} /\ b \in BOOLEAN
  OBVIOUS
<1> HIDE DEF W, S, l, b
<1>4. CASE Leave(FALSE)
  BY <1>1, <1>4, ListsLeave
<1>5. CASE cli' = [cli EXCEPT !.copy = nb, !.work = W, !.todo = S, !.pc = l, !.failed = @ \/ b]
  <2>0. cli \in Process /\ nb \in [Notebooks -> Notebook]
    BY DEF IndInv, TypeOK
  <2>1. Calm /\ cli.pc = "list" /\ Now = "upgrade"
    BY <1>1, ListsCalm DEF IndInv
  <2>2. Goes(l) /\ Kept /\ cli'.copy = nb /\ (cli.failed => cli'.failed)
    BY <1>3, <1>5, <2>0 DEF Process, Goes, Kept, PCs
  <2> QED
    BY <1>3, <2>1, <2>2, ReadKeeps
<1> QED
  BY <1>2, <1>4, <1>5

LEMMA ListsKeep ==
    ASSUME IndInv, PatchLists \/ CleanupLists \/ KueueLists \/ VerifyLists \/ PrepareLists
    PROVE  IndInv'
<1>0. cmd.scope \in SUBSET Notebooks
  BY WorkbenchAssumption DEF IndInv, TypeOK, Command
<1>1. CASE PatchLists
  <2>1. /\ Lists("patch")
        /\ \/ Leave(FALSE)
           \/ \E l \in {"gate", "stop"}, S \in SUBSET cmd.scope, W \in SUBSET cmd.scope :
                Read(l, S, W)
    <3> DEFINE toPatch == {n \in cmd.scope : needsAuthModelPatch(nb[n].has)}
    <3>1. /\ Lists("patch")
          /\ \/ Leave(FALSE)
             \/ Read("gate", {}, {n \in toPatch : nb[n].stop # Running})
             \/ Read("gate", {}, toPatch)
             \/ Read("stop", toPatch, {})
      BY <1>1 DEF PatchLists
    <3> QED
      BY <3>1
  <2>2. CASE Leave(FALSE)
    BY <2>1, <2>2, ListsLeave DEF Migrations
  <2>3. ASSUME NEW l \in {"gate", "stop"}, NEW S \in SUBSET cmd.scope, NEW W \in SUBSET cmd.scope,
               Read(l, S, W)
        PROVE  IndInv'
    BY <1>0, <2>1, <2>3, ListsRead DEF Migrations
  <2> QED
    BY <2>1, <2>2, <2>3
<1>2. CASE CleanupLists
  <2>1. Lists("cleanup") /\ (Leave(FALSE) \/ Read("confirm", {}, cmd.scope))
    BY <1>2 DEF CleanupLists
  <2>2. CASE Leave(FALSE)
    BY <2>1, <2>2, ListsLeave DEF Migrations
  <2>3. CASE Read("confirm", {}, cmd.scope)
    BY <1>0, <2>1, <2>3, ListsRead DEF Migrations
  <2> QED
    BY <2>1, <2>2, <2>3
<1>3. CASE KueueLists
  <2>1. Lists("kueue") /\ (Leave(FALSE) \/ \E S \in SUBSET cmd.scope : Read("confirm", S, {}))
    BY <1>3 DEF KueueLists
  <2>2. CASE Leave(FALSE)
    BY <2>1, <2>2, ListsLeave DEF Migrations
  <2>3. ASSUME NEW S \in SUBSET cmd.scope, Read("confirm", S, {})
        PROVE  IndInv'
    BY <1>0, <2>1, <2>3, ListsRead DEF Migrations
  <2> QED
    BY <2>1, <2>2, <2>3
<1>4. CASE VerifyLists
  BY <1>0, <1>4, ListsRead DEF VerifyLists, Migrations
<1>5. CASE PrepareLists
  <2>1. Lists("prepare") /\ (Leave(FALSE) \/ Read("write", cmd.scope, {}))
    BY <1>5 DEF PrepareLists
  <2>2. CASE Leave(FALSE)
    BY <2>1, <2>2, ListsLeave DEF Migrations
  <2>3. CASE Read("write", cmd.scope, {})
    BY <1>0, <2>1, <2>3, ListsRead DEF Migrations
  <2> QED
    BY <2>1, <2>2, <2>3
<1> QED
  BY <1>1, <1>2, <1>3, <1>4, <1>5

(* From migration to migration, and to the end. *)
LEMMA NextMigrationKeeps ==
    ASSUME IndInv, NextMigration
    PROVE  IndInv'
<1>0. TypeOK /\ Stage /\ Stops /\ cli \in Process
  BY DEF IndInv, TypeOK
<1>1. cli.pc = "next" /\ cli.plan # <<>> /\ UNCHANGED limits
  BY DEF NextMigration
<1>2. CASE Ends("error")
  BY <1>0, <1>1, <1>2, EndsKeep, LimitsType DEF Ends, Keeps, cluster, TypeOK
<1>3. CASE /\ cli' = [cli EXCEPT !.pc = "list", !.todo = {}, !.work = {}, !.mine = {},
                                 !.patched = {}, !.override = {}]
           /\ Keeps /\ Same
  <2>1. /\ cli' \in Process /\ cli'.pc = "list" /\ cli'.plan = cli.plan
        /\ cli'.mine = {} /\ cli'.patched = {} /\ cli'.failed = cli.failed
    BY <1>0, <1>3 DEF Process, PCs
  <2>2. Calm
    BY <1>0, <1>1, <1>3, KeepsCalm
  <2>3. TypeOK'
    BY <1>0, <2>1, <2>2 DEF TypeOK, Calm
  <2>4. Stage'
    BY <1>0, <1>1, <2>1, <2>2 DEF Stage, PatchPCs, Calm
  <2>5. Copies' /\ Patched'
    BY <2>1 DEF Copies, Patched, Between
  <2>6. Stops'
    <3>1. \A n \in Notebooks : nb[n].stop = run => cli.failed
      BY <1>0, <1>1 DEF Stops, Remembered, Owning
    <3> QED
      BY <1>0, <2>1, <2>2, <3>1 DEF Stops, Remembered, Calm, User
  <2>7. Verified'
    BY <2>1 DEF Verified
  <2> QED
    BY <2>3, <2>4, <2>5, <2>6, <2>7 DEF IndInv
<1> QED
  BY <1>2, <1>3 DEF NextMigration

LEMMA FinishKeeps ==
    ASSUME IndInv, Finish \/ Killed
    PROVE  IndInv'
<1>0. TypeOK
  BY DEF IndInv
<1>1. CASE Finish
  <2>1. /\ cli.pc = "next" /\ cli.plan = <<>> /\ UNCHANGED limits
        /\ cli' = [Started(cmd) EXCEPT !.pc = "idle"]
        /\ UNCHANGED <<nb, sts, res, fresh, cmd, run, saved, denied>>
        /\ exit' = IF cli.failed THEN "failures" ELSE "ok"
    BY <1>1 DEF Finish, Ends, Keeps, cluster
  <2>2. exit' \in {"ok", "failures", "error", "killed"} /\ (exit' = "ok" => ~cli.failed)
    BY <2>1
  <2>3. events' \in 0 .. MaxEvents /\ expired' \in BOOLEAN /\ saved' \subseteq Notebooks
    BY <1>0, <2>1, LimitsType DEF TypeOK
  <2> QED
    BY <2>1, <2>2, <2>3, EndsKeep
<1>2. CASE Killed
  <2>1. /\ cli' = [Started(cmd) EXCEPT !.pc = "idle"]
        /\ UNCHANGED <<nb, sts, res, fresh, cmd, run, saved, denied, expired>>
        /\ exit' = "killed" /\ events < MaxEvents /\ events' = events + 1
    BY <1>2 DEF Killed, Ends, Keeps, cluster, Event
  <2>2. events' \in 0 .. MaxEvents /\ expired' \in BOOLEAN /\ saved' \subseteq Notebooks
    BY <1>0, <2>1, WorkbenchAssumption DEF TypeOK
  <2> QED
    BY <2>1, <2>2, EndsKeep
<1> QED
  BY <1>1, <1>2

LEMMA BackupKeeps ==
    ASSUME IndInv, backupNotebooks
    PROVE  IndInv'
<1>0. TypeOK /\ cli.todo \subseteq Notebooks
  BY DEF IndInv, TypeOK, Process
<1>1. /\ cli.pc = "write" /\ UNCHANGED <<nb, sts, res, fresh, denied, cmd, run, limits>>
      /\ saved' \subseteq Notebooks
  <2>1. saved' \subseteq saved \cup cli.todo
    BY DEF backupNotebooks
  <2> QED
    BY <1>0, <2>1 DEF backupNotebooks, Keeps, cluster, TypeOK
<1>2. events' \in 0 .. MaxEvents /\ expired' \in BOOLEAN
  BY <1>0, <1>1, LimitsType
<1>3. CASE Leave(FALSE) /\ UNCHANGED exit
  <2>1. Left(FALSE)
    BY <1>0, <1>1, <1>3, LeaveShape DEF IndInv, Stage, TypeOK
  <2>2. Calm
    BY <1>0, <1>1, <1>2, <1>3 DEF Calm, TypeOK
  <2>3. Now # "verify"
    BY <1>1 DEF IndInv, Stage
  <2> QED
    BY <1>1, <2>1, <2>2, <2>3, LeftKeeps, NothingStopped
<1>4. CASE cli' = [Started(cmd) EXCEPT !.pc = "idle"] /\ exit' = "error"
  BY <1>1, <1>2, <1>4, EndsKeep
<1> QED
  BY <1>3, <1>4 DEF backupNotebooks

-----------------------------------------------------------------------------
(* Notebook by Notebook.                                                   *)

(* One that is left alone. *)
LEMMA DoneKeeps ==
    ASSUME IndInv, Keeps, Same, Works \/ Fails \/ UNCHANGED limits,
           cli.pc \notin Between \cup {"confirm"}, NEW n \in Notebooks, NEW b \in BOOLEAN,
           Done(n, b),
           cli.pc = "restart" => b, cli.pc = "verify" => b \/ Fine(n)
    PROVE  IndInv'
<1>0. TypeOK /\ cli \in Process
  BY DEF IndInv, TypeOK
<1>1. Counted(n, b)
  BY <1>0, DoneShape
<1>2. Soft /\ nb' = nb
  BY <1>0, KeepsSoft DEF Unwritten
<1>3. \A m \in Notebooks : nb[m].stop \in 0 .. run \cup {User}
  BY DEF IndInv, Stops
<1>4. cli.pc = "verify" => b \/ Fine(n)'
  BY <1>2, SoftKeeps
<1> QED
  BY <1>1, <1>2, <1>3, <1>4, ItemKeeps DEF Counted

(* One that is written. *)
LEMMA WrittenKeeps ==
    ASSUME IndInv, Same, Works \/ Fails,
           cli.pc \notin Between \cup {"confirm", "verify"}, NEW n \in Notebooks,
           NEW b \in BOOLEAN, Done(n, b),
           NEW has \in SUBSET Features, NEW stop \in 0 .. run \cup {User},
           Write(n, has, stop), Forward(nb[n].has, has),
           stop = run => nb[n].stop = run \/ b, cli.pc = "restart" => b \/ stop # run
    PROVE  IndInv'
<1>0. TypeOK /\ cli \in Process /\ run \in 1 .. MaxRuns /\ MaxRuns \in Nat
  BY WorkbenchAssumption DEF IndInv, TypeOK
<1>1. Counted(n, b)
  BY <1>0, DoneShape
<1>2. stop \in 0 .. MaxRuns + 1
  BY <1>0 DEF User
<1>3. Soft /\ Written(n, has, stop)
  BY <1>0, <1>2, WriteSoft
<1>4. \A m \in Notebooks : nb[m].stop \in 0 .. run \cup {User}
  BY DEF IndInv, Stops
<1>5. nb'[n].stop = stop /\ \A m \in Notebooks : m # n => nb'[m] = nb[m]
  BY <1>3 DEF Written
<1>6. \A m \in Notebooks : nb'[m].stop \in 0 .. run \cup {User}
  BY <1>4, <1>5
<1>7. \A m \in Notebooks : nb'[m].stop = run => nb[m].stop = run \/ b
  BY <1>5
<1> QED
  BY <1>1, <1>3, <1>5, <1>6, <1>7, ItemKeeps DEF Counted

LEMMA CopyType ==
    ASSUME IndInv, NEW n \in Notebooks
    PROVE  /\ nb[n].has \in SUBSET Features /\ Has(n) \in SUBSET Features
           /\ nb[n].stop \in 0 .. run \cup {User} /\ run \in 0 .. run \cup {User}
           /\ run # Running /\ run # User
           /\ cli.pc \notin Between /\ n \in fresh => cli.copy[n] = nb[n]
<1>1. nb[n] \in Notebook /\ cli.copy[n] \in Notebook
  BY DEF IndInv, TypeOK, Process
<1>2. run \in 1 .. MaxRuns /\ MaxRuns \in Nat
  BY WorkbenchAssumption DEF IndInv, TypeOK
<1>3. run \in 0 .. run /\ run # 0 /\ run # MaxRuns + 1
  BY <1>2
<1> QED
  BY <1>1, <1>3 DEF IndInv, Stops, Copies, Copied, Has, Notebook, Running, User

(* The update of a copy: refused, lost or done. *)
LEMMA UpdateFails ==
    ASSUME IndInv, Same, cli.pc \in {"patch", "fix"}, NEW n \in Notebooks, NEW has \in SUBSET Features,
           Forward(Has(n), has),
           \/ Works /\ n \notin fresh /\ Keeps /\ Done(n, TRUE)
           \/ Hit /\ n \in fresh /\ Write(n, has, cli.copy[n].stop) /\ Done(n, TRUE)
           \/ Fails /\ Keeps /\ Done(n, TRUE)
    PROVE  IndInv'
<1>1. CASE (Works \/ Fails) /\ Keeps /\ Done(n, TRUE)
  BY <1>1, DoneKeeps DEF Between
<1>2. CASE Hit /\ n \in fresh /\ Write(n, has, cli.copy[n].stop) /\ Done(n, TRUE)
  <2>1. cli.copy[n] = nb[n] /\ nb[n].stop \in 0 .. run \cup {User}
    BY <1>2, CopyType DEF Between
  <2> QED
    BY <1>2, <2>1, WrittenKeeps DEF Between, Fails, Has
<1> QED
  BY <1>1, <1>2

LEMMA FixNameKeeps ==
    ASSUME IndInv, NEW n \in Notebooks, FixName(n)
    PROVE  IndInv'
<1>1. cli.pc = "fix" /\ Same /\ Update(n, fixContainerName(Has(n)), Done(n, FALSE))
  BY DEF FixName
<1>2. fixContainerName(Has(n)) \in SUBSET Features /\ Forward(Has(n), fixContainerName(Has(n)))
  BY CopyType, ForwardCases
<1>3. CASE Works /\ n \in fresh /\ Write(n, fixContainerName(Has(n)), cli.copy[n].stop) /\ Done(n, FALSE)
  <2>1. cli.copy[n] = nb[n] /\ nb[n].stop \in 0 .. run \cup {User}
    BY <1>1, <1>3, CopyType DEF Between
  <2> QED
    BY <1>1, <1>2, <1>3, <2>1, WrittenKeeps DEF Between, Has
<1> QED
  BY <1>1, <1>2, <1>3, UpdateFails DEF Update

LEMMA LabelKeeps ==
    ASSUME IndInv, NEW n \in Notebooks, patchLabel(n)
    PROVE  IndInv'
<1>1. cli.pc = "label" /\ Same
  BY DEF patchLabel
<1>2. CASE Fails /\ Keeps /\ Done(n, TRUE)
  BY <1>1, <1>2, DoneKeeps DEF Between
<1>3. CASE Works /\ Write(n, nb[n].has \cup {"queue-name"}, nb[n].stop) /\ Done(n, FALSE)
  <2>1. /\ nb[n].has \cup {"queue-name"} \in SUBSET Features /\ nb[n].stop \in 0 .. run \cup {User}
        /\ Forward(nb[n].has, nb[n].has \cup {"queue-name"})
    BY CopyType, ForwardCases DEF Features
  <2> QED
    BY <1>1, <1>3, <2>1, WrittenKeeps DEF Between
<1> QED
  BY <1>2, <1>3 DEF patchLabel

LEMMA RestartKeeps ==
    ASSUME IndInv, NEW n \in Notebooks, restartWorkbench(n)
    PROVE  IndInv'
<1>1. cli.pc = "restart" /\ Same
  BY DEF restartWorkbench
<1>2. CASE Fails /\ Keeps /\ Done(n, TRUE)
  BY <1>1, <1>2, DoneKeeps DEF Between
<1>3. CASE /\ Works \/ Hit
           /\ Write(n, nb[n].has, Running) /\ \E b \in BOOLEAN : Done(n, b)
  <2>1. /\ nb[n].has \in SUBSET Features /\ Running \in 0 .. run \cup {User}
        /\ Forward(nb[n].has, nb[n].has) /\ run # Running
    <3>1. run \in 1 .. MaxRuns /\ MaxRuns \in Nat
      BY WorkbenchAssumption DEF IndInv, TypeOK
    <3>2. 0 \in 0 .. run
      BY <3>1
    <3> QED
      BY <3>2, CopyType DEF Forward, Running
  <2> QED
    BY <1>1, <1>3, <2>1, WrittenKeeps DEF Between, Fails
<1> QED
  BY <1>2, <1>3 DEF restartWorkbench

(* verify-migration looks at one. *)
LEMMA VerifyKeeps ==
    ASSUME IndInv, NEW n \in Notebooks, VerifyNotebook(n)
    PROVE  IndInv'
<1> DEFINE bad ==
      \/ ClassifyNotebook(Has(n)) \notin {"MIGRATED", "LEGACY"}
      \/ cmd.phase \in {"migration", "all"} /\ ~CheckMigrationState(Has(n))
<1>1. cli.pc = "verify" /\ Keeps /\ Same
  BY DEF VerifyNotebook
<1>2. \/ /\ Done(n, bad) /\ (Works \/ UNCHANGED limits)
         /\ cmd.phase \in {"cleanup", "all"} => res[n] = {}
      \/ (Works \/ Fails) /\ Done(n, TRUE)
  BY DEF VerifyNotebook, CheckCleanupState
<1>3. Copied(n)
  BY <1>1 DEF IndInv, Copies, Between
<1>4. bad \in BOOLEAN /\ (~bad /\ cmd.phase \in {"migration", "all"} => CheckMigrationState(Has(n)))
  OBVIOUS
<1> HIDE DEF bad
<1>5. CASE /\ Done(n, bad) /\ (Works \/ UNCHANGED limits)
           /\ cmd.phase \in {"cleanup", "all"} => res[n] = {}
  <2>1. bad \/ Fine(n)
    BY <1>3, <1>4, <1>5 DEF Fine, Copied
  <2> QED
    BY <1>1, <1>4, <1>5, <2>1, DoneKeeps DEF Between
<1>6. CASE (Works \/ Fails) /\ Done(n, TRUE)
  BY <1>1, <1>6, DoneKeeps DEF Between
<1> QED
  BY <1>2, <1>5, <1>6

(* The resources of one are deleted. *)
LEMMA DeletionKeeps ==
    ASSUME IndInv, cli.pc = "clean", Same, NEW n \in Notebooks, NEW over \in BOOLEAN,
           deleteOAuthResources(n, over)
    PROVE  IndInv'
<1>0. TypeOK /\ cli \in Process
  BY DEF IndInv, TypeOK
<1>1. PICK bad \in SUBSET OAuthResources :
        /\ \/ UNCHANGED <<res, limits>>
           \/ /\ events + Cardinality(bad) <= MaxEvents /\ events' = events + Cardinality(bad)
              /\ res' = [res EXCEPT ![n] = @ \cap bad] /\ UNCHANGED expired
        /\ cli' = [cli EXCEPT !.todo = @ \ {n}, !.failed = @ \/ bad # {} \/ over,
                              !.override = IF over THEN @ \cup {n} ELSE @]
  BY DEF deleteOAuthResources
<1>2. events' \in 0 .. MaxEvents /\ expired' \in BOOLEAN
  <2>1. Cardinality(bad) \in Nat
    BY ResourcesFinite
  <2> QED
    BY <1>0, <1>1, <2>1, WorkbenchAssumption DEF TypeOK, limits
<1>3. res' \in [Notebooks -> SUBSET OAuthResources] /\ \A m \in Notebooks : res'[m] \subseteq res[m]
  BY <1>0, <1>1 DEF TypeOK
<1>4. UNCHANGED <<nb, sts, fresh, saved, denied, cmd, run, exit>>
  BY DEF deleteOAuthResources, Same
<1>5. Soft
  BY <1>0, <1>2, <1>3, <1>4 DEF Soft, TypeOK, Forward
<1> DEFINE b == bad # {} \/ over
<1>6. /\ Goes("clean") /\ Kept /\ cli'.todo = cli.todo \ {n} /\ cli'.cur = cli.cur
      /\ cli'.copy = cli.copy /\ cli'.failed = (cli.failed \/ b) /\ b \in BOOLEAN
  BY <1>0, <1>1 DEF Process, Goes, Kept
<1>7. \A m \in Notebooks : nb'[m].stop \in 0 .. run \cup {User}
  BY <1>4 DEF IndInv, Stops
<1> HIDE DEF b
<1> QED
  BY <1>4, <1>5, <1>6, <1>7, ItemKeeps DEF Between

LEMMA CleanupKeeps ==
    ASSUME IndInv, NEW n \in Notebooks, CleanupNotebookAfterPatch(n) \/ CleanupNotebook(n)
    PROVE  IndInv'
<1>1. cli.pc = "clean" /\ Same
  BY DEF CleanupNotebookAfterPatch, CleanupNotebook
<1>2. \/ deleteOAuthResources(n, FALSE) \/ deleteOAuthResources(n, TRUE)
      \/ Done(n, TRUE) /\ Keeps /\ (Fails \/ UNCHANGED limits)
  BY DEF CleanupNotebookAfterPatch, CleanupNotebook
<1>3. CASE Done(n, TRUE) /\ Keeps /\ (Fails \/ UNCHANGED limits)
  BY <1>1, <1>3, DoneKeeps DEF Between
<1> QED
  BY <1>1, <1>2, <1>3, DeletionKeeps

-----------------------------------------------------------------------------
(* patch-auth-model: the Notebook in hand.                                 *)

LEMMA KeepStoppedKeeps ==
    ASSUME IndInv, NEW n \in Notebooks, KeepStopped(n)
    PROVE  IndInv'
<1>0. TypeOK /\ cli \in Process
  BY DEF IndInv, TypeOK
<1>1. /\ cli.pc = "stop" /\ Keeps /\ Same /\ UNCHANGED limits
      /\ cli' = [cli EXCEPT !.todo = @ \ {n}, !.work = @ \cup {n}]
  BY DEF KeepStopped
<1>2. Soft /\ nb' = nb
  BY <1>0, <1>1, KeepsSoft DEF Unwritten
<1>3. /\ Goes("stop") /\ Kept /\ cli'.todo = cli.todo \ {n} /\ cli'.cur = cli.cur
      /\ cli'.copy = cli.copy /\ cli'.failed = (cli.failed \/ FALSE)
  BY <1>0, <1>1 DEF Process, Goes, Kept
<1>4. \A m \in Notebooks : nb[m].stop \in 0 .. run \cup {User}
  BY DEF IndInv, Stops
<1> QED
  BY <1>1, <1>2, <1>3, <1>4, ItemKeeps DEF Between

(* A step within patch-auth-model that is none of a loop. *)
LEMMA PatchStep ==
    ASSUME IndInv, cli.pc \in PatchPCs, NEW l \in {"stop", "wait", "patch", "delete"}, Goes(l),
           UNCHANGED <<cmd, run, exit>>
    PROVE  /\ Stage' /\ Verified' /\ Now = "patch" /\ Now' = "patch"
<1>1. Stage /\ Now = "patch" /\ cli.plan # <<>>
  BY DEF IndInv, Stage, PatchPCs
<1>2. cli'.pc = l /\ cli'.plan = cli.plan /\ Now' = Now
  BY DEF Goes, Now
<1> QED
  BY <1>1, <1>2 DEF Stage, Verified, PatchPCs

LEMMA StopKeeps ==
    ASSUME IndInv, NEW n \in Notebooks, stopWorkbench(n)
    PROVE  IndInv'
<1>0. TypeOK /\ cli \in Process /\ Stops /\ Patched
  BY DEF IndInv, TypeOK
<1>1. cli.pc = "stop" /\ ~Flag("dry-run") /\ Same
  BY DEF stopWorkbench
<1>2. /\ nb[n].has \in SUBSET Features /\ Forward(nb[n].has, nb[n].has)
      /\ run \in 0 .. run \cup {User}
  BY CopyType DEF Forward
<1>3. CASE Fails /\ Keeps /\ Done(n, TRUE)
  BY <1>1, <1>3, DoneKeeps DEF Between
<1>4. CASE Hit /\ Write(n, nb[n].has, run) /\ Done(n, TRUE)
  BY <1>1, <1>2, <1>4, WrittenKeeps DEF Between, Fails
<1>5. CASE /\ Works /\ Write(n, nb[n].has, run)
           /\ cli' = [cli EXCEPT !.pc = "wait", !.todo = @ \ {n}, !.cur = {n}]
  <2>1. /\ Goes("wait") /\ Kept /\ cli'.cur = {n} /\ cli'.copy = cli.copy
        /\ cli'.failed = cli.failed
    BY <1>0, <1>5 DEF Process, Goes, Kept, PCs
  <2>2. run \in 0 .. MaxRuns + 1
    BY <1>0, WorkbenchAssumption DEF TypeOK
  <2>3. Soft /\ Written(n, nb[n].has, run)
    BY <1>0, <1>1, <1>2, <1>5, <2>2, WriteSoft
  <2>4. Stage' /\ Verified' /\ Now = "patch" /\ Now' = "patch"
    BY <1>1, <2>1, <2>3, PatchStep DEF Soft, PatchPCs
  <2>5. TypeOK'
    BY <1>0, <2>1, <2>3 DEF TypeOK, Soft, Goes
  <2>6. Copies'
    BY <1>1, <2>1, <2>3, SoftCopies DEF Between
  <2>7. Patched'
    BY <1>0, <2>1, <2>3, SoftKeeps DEF Patched, Goes, Kept, Process
  <2>8. Stops'
    <3>1. /\ nb'[n].stop = run /\ \A m \in Notebooks : m # n => nb'[m] = nb[m]
          /\ run' = run /\ cmd' = cmd
      BY <2>3 DEF Written, Soft
    <3>2. \A m \in Notebooks : nb'[m].stop \in 0 .. run \cup {User}
      BY <1>0, <1>2, <3>1 DEF Stops
    <3>3. Remembered(n)'
      BY <2>1 DEF Remembered, Goes
    <3>4. ASSUME NEW m \in Notebooks, m # n, nb'[m].stop = run PROVE Remembered(m)'
      <4>1. Remembered(m)
        BY <1>0, <3>1, <3>4 DEF Stops
      <4> QED
        BY <1>1, <2>1, <2>4, <4>1 DEF Remembered, Goes, Kept, Owning
    <3> QED
      BY <1>1, <2>1, <3>1, <3>2, <3>3, <3>4 DEF Stops, Goes, Flag, User
  <2> QED
    BY <2>4, <2>5, <2>6, <2>7, <2>8 DEF IndInv
<1> QED
  BY <1>3, <1>4, <1>5 DEF stopWorkbench

(* The one in hand is given up, which counts as a failure. *)
LEMMA GivenUpKeeps ==
    ASSUME IndInv, Keeps, Same, Works \/ Fails \/ UNCHANGED limits, cli.pc \in {"wait", "refetch", "delete"},
           NEW l \in {"stop", "patch"}, Goes(l), cli'.patched = cli.patched,
           cli'.copy = cli.copy, cli'.failed = TRUE, Flag("dry-run") => cli'.mine = {}
    PROVE  IndInv'
<1>0. TypeOK /\ cli \in Process /\ Stops /\ Patched
  BY DEF IndInv, TypeOK
<1>1. Soft /\ nb' = nb
  BY <1>0, KeepsSoft DEF Unwritten
<1>2. Stage' /\ Verified' /\ Now' = "patch"
  BY <1>1, PatchStep DEF Soft, PatchPCs
<1>3. TypeOK'
  BY <1>0, <1>1 DEF TypeOK, Soft, Goes
<1>4. Copies'
  BY <1>1, SoftCopies DEF Between
<1>5. Patched'
  BY <1>0, <1>1 DEF Patched, Goes
<1>6. Stops'
  BY <1>0, <1>1 DEF Stops, Remembered, Goes, Soft, Flag, User
<1> QED
  BY <1>2, <1>3, <1>4, <1>5, <1>6 DEF IndInv

LEMMA WaitKeeps ==
    ASSUME IndInv, WaitEnds
    PROVE  IndInv'
<1>0. TypeOK /\ cli \in Process /\ (Flag("dry-run") => cli.mine = {})
  BY DEF IndInv, TypeOK, Stops
<1>1. cli.pc = "wait" /\ Keeps /\ Same
  BY DEF WaitEnds
<1>2. CASE Works /\ Goto("refetch")
  BY <1>1, <1>2, GotoKeeps DEF Arrow, PCs
<1>3. CASE /\ Fails \/ UNCHANGED limits
           /\ cli' = [cli EXCEPT !.pc = "stop", !.cur = {}, !.failed = TRUE]
  <2>1. Goes("stop") /\ Kept /\ cli'.copy = cli.copy /\ cli'.failed = TRUE
    BY <1>0, <1>3 DEF Process, Goes, Kept, PCs
  <2> QED
    BY <1>0, <1>1, <1>3, <2>1, GivenUpKeeps DEF Kept
<1> QED
  BY <1>2, <1>3 DEF WaitEnds

LEMMA RefetchKeeps ==
    ASSUME IndInv, Refetch
    PROVE  IndInv'
<1>0. TypeOK /\ cli \in Process /\ Stops /\ Patched /\ Copies
  BY DEF IndInv, TypeOK
<1>1. cli.pc = "refetch" /\ UNCHANGED cluster /\ Same
  BY DEF Refetch
<1>2. PICK n \in cli.cur :
        \/ /\ Works /\ fresh' = fresh \cup {n}
           /\ cli' = [cli EXCEPT !.pc = "stop", !.cur = {}, !.mine = @ \cup {n},
                                 !.work = @ \cup {n}, !.copy[n] = nb[n]]
        \/ /\ Fails /\ UNCHANGED fresh
           /\ cli' = [cli EXCEPT !.pc = "stop", !.cur = {}, !.mine = @ \cup {n}, !.failed = TRUE]
  BY DEF Refetch
<1>3. n \in Notebooks /\ ~Flag("dry-run") /\ \A m \in cli.cur : m = n
  BY <1>0, <1>1 DEF Process, Stops
<1>4. CASE /\ Fails /\ UNCHANGED fresh
           /\ cli' = [cli EXCEPT !.pc = "stop", !.cur = {}, !.mine = @ \cup {n}, !.failed = TRUE]
  <2>1. Goes("stop") /\ cli'.patched = cli.patched /\ cli'.copy = cli.copy /\ cli'.failed = TRUE
    BY <1>0, <1>3, <1>4 DEF Process, Goes, PCs
  <2> QED
    BY <1>1, <1>3, <1>4, <2>1, GivenUpKeeps DEF Keeps
<1>5. CASE /\ Works /\ fresh' = fresh \cup {n}
           /\ cli' = [cli EXCEPT !.pc = "stop", !.cur = {}, !.mine = @ \cup {n},
                                 !.work = @ \cup {n}, !.copy[n] = nb[n]]
  <2>1. /\ Goes("stop") /\ cli'.patched = cli.patched /\ cli'.mine = cli.mine \cup {n}
        /\ cli'.copy = [cli.copy EXCEPT ![n] = nb[n]] /\ cli'.failed = cli.failed
    BY <1>0, <1>3, <1>5 DEF Process, Goes, PCs, TypeOK
  <2>2. UNCHANGED <<nb, sts, res, saved, denied, cmd, run, exit>>
    BY <1>1 DEF cluster, Same
  <2>3. Stage' /\ Verified' /\ Now = "patch" /\ Now' = "patch"
    BY <1>1, <2>1, <2>2, PatchStep DEF PatchPCs
  <2>4. TypeOK'
    BY <1>0, <1>3, <1>5, <2>1, <2>2, LimitsType DEF TypeOK, Goes
  <2>5. Copies'
    <3>1. cli'.copy[n] = nb[n] /\ \A m \in Notebooks : m # n => cli'.copy[m] = cli.copy[m]
      BY <1>0, <1>3, <2>1 DEF Process
    <3>2. ASSUME NEW m \in Notebooks PROVE Copied(m)'
      <4>1. CASE m = n
        BY <2>2, <3>1, <4>1 DEF Copied, Has
      <4>2. CASE m # n
        <5>1. Copied(m) /\ (m \in fresh' => m \in fresh)
          BY <1>0, <1>1, <1>5, <4>2 DEF Copies, Between
        <5> QED
          BY <2>2, <3>1, <4>2, <5>1 DEF Copied, Has
      <4> QED
        BY <4>1, <4>2
    <3> QED
      BY <3>2 DEF Copies
  <2>6. Patched'
    BY <1>0, <2>1, <2>2 DEF Patched, Goes
  <2>7. Stops'
    <3>1. ASSUME NEW m \in Notebooks, nb[m].stop = run PROVE Remembered(m)'
      <4>1. Remembered(m)
        BY <1>0, <3>1 DEF Stops
      <4> QED
        BY <1>1, <1>3, <2>1, <2>3, <4>1 DEF Remembered, Goes, Owning
    <3> QED
      BY <1>0, <1>3, <2>1, <2>2, <3>1 DEF Stops, Goes, Flag, User
  <2> QED
    BY <2>3, <2>4, <2>5, <2>6, <2>7 DEF IndInv
<1> QED
  BY <1>2, <1>4, <1>5

LEMMA PatchNotebookKeeps ==
    ASSUME IndInv, NEW n \in Notebooks, PatchNotebook(n)
    PROVE  IndInv'
<1> DEFINE new == applyAllPatches(Has(n))
<1>0. TypeOK /\ cli \in Process /\ Stops /\ Patched
  BY DEF IndInv, TypeOK
<1>1. cli.pc = "patch" /\ Same
  BY DEF PatchNotebook
<1>2. /\ new \in SUBSET Features /\ Forward(Has(n), new) /\ "oauth-proxy" \notin new
  BY CopyType, ForwardCases
<1>3. CASE Done(n, TRUE) /\ Keeps /\ UNCHANGED limits
  BY <1>1, <1>3, DoneKeeps DEF Between
<1>4. CASE \/ Works /\ n \notin fresh /\ Keeps /\ Done(n, TRUE)
           \/ Hit /\ n \in fresh /\ Write(n, new, cli.copy[n].stop) /\ Done(n, TRUE)
           \/ Fails /\ Keeps /\ Done(n, TRUE)
  BY <1>1, <1>2, <1>4, UpdateFails
<1>5. CASE /\ Works /\ n \in fresh /\ Write(n, new, cli.copy[n].stop)
           /\ cli' = [cli EXCEPT !.pc = "delete", !.todo = @ \ {n}, !.cur = {n}]
  <2>1. /\ Goes("delete") /\ Kept /\ cli'.cur = {n} /\ cli'.copy = cli.copy
        /\ cli'.failed = cli.failed
    BY <1>0, <1>5 DEF Process, Goes, Kept, PCs
  <2>2. cli.copy[n] = nb[n] /\ nb[n].stop \in 0 .. run \cup {User} /\ nb[n].stop \in 0 .. MaxRuns + 1
    BY <1>0, <1>1, <1>5, CopyType DEF Between, TypeOK, Notebook
  <2>3. Soft /\ Written(n, new, nb[n].stop)
    <3> HIDE DEF new
    <3> QED
      BY <1>0, <1>1, <1>2, <1>5, <2>2, WriteSoft DEF Has
  <2>4. Stage' /\ Verified' /\ Now = "patch" /\ Now' = "patch"
    BY <1>1, <2>1, <2>3, PatchStep DEF Soft, PatchPCs
  <2>5. TypeOK'
    BY <1>0, <2>1, <2>3 DEF TypeOK, Soft, Goes
  <2>6. Copies'
    BY <1>1, <2>1, <2>3, SoftCopies DEF Between
  <2>7. Patched'
    <3>1. "oauth-proxy" \notin nb'[n].has
      BY <1>2, <2>3 DEF Written
    <3>2. cli.patched \subseteq Notebooks
      BY <1>0 DEF Process
    <3> QED
      BY <1>0, <2>1, <2>3, <3>1, <3>2, SoftKeeps DEF Patched, Goes, Kept
  <2>8. Stops'
    <3>1. \A m \in Notebooks : nb'[m].stop = nb[m].stop
      BY <2>3 DEF Written
    <3>2. ASSUME NEW m \in Notebooks, nb[m].stop = run PROVE Remembered(m)'
      <4>1. Remembered(m)
        BY <1>0, <3>2 DEF Stops
      <4> QED
        BY <1>1, <2>1, <2>4, <4>1 DEF Remembered, Goes, Kept, Owning
    <3> QED
      BY <1>0, <2>1, <2>3, <3>1, <3>2 DEF Stops, Goes, Kept, Flag, User, Soft
  <2> QED
    BY <2>4, <2>5, <2>6, <2>7, <2>8 DEF IndInv
<1> QED
  BY <1>3, <1>4, <1>5 DEF PatchNotebook, Update

LEMMA DeleteKeeps ==
    ASSUME IndInv, deleteStatefulSet
    PROVE  IndInv'
<1>0. TypeOK /\ cli \in Process /\ Stops /\ Patched
  BY DEF IndInv, TypeOK
<1>1. cli.pc = "delete" /\ UNCHANGED <<nb, res, fresh>> /\ Same
  BY DEF deleteStatefulSet
<1>2. PICK n \in cli.cur :
        \/ /\ Works /\ sts' = [sts EXCEPT ![n] = "none"]
           /\ cli' = [cli EXCEPT !.pc = "patch", !.cur = {}, !.patched = @ \cup {n}]
        \/ /\ Fails /\ UNCHANGED sts
           /\ cli' = [cli EXCEPT !.pc = "patch", !.cur = {}, !.failed = TRUE]
  BY DEF deleteStatefulSet
<1>3. n \in Notebooks
  BY <1>0 DEF Process
<1>4. CASE /\ Fails /\ UNCHANGED sts
           /\ cli' = [cli EXCEPT !.pc = "patch", !.cur = {}, !.failed = TRUE]
  <2>1. Goes("patch") /\ Kept /\ cli'.copy = cli.copy /\ cli'.failed = TRUE
    BY <1>0, <1>4 DEF Process, Goes, Kept, PCs
  <2> QED
    BY <1>0, <1>1, <1>4, <2>1, GivenUpKeeps DEF Keeps, cluster, Kept, Stops
<1>5. CASE /\ Works /\ sts' = [sts EXCEPT ![n] = "none"]
           /\ cli' = [cli EXCEPT !.pc = "patch", !.cur = {}, !.patched = @ \cup {n}]
  <2>1. /\ Goes("patch") /\ cli'.patched = cli.patched \cup {n} /\ cli'.mine = cli.mine
        /\ cli'.copy = cli.copy /\ cli'.failed = cli.failed
    BY <1>0, <1>3, <1>5 DEF Process, Goes, PCs
  <2>2. UNCHANGED <<nb, res, fresh, saved, denied, cmd, run, exit>> /\ sts' \in [Notebooks -> StatefulSet]
    BY <1>0, <1>1, <1>3, <1>5 DEF Same, TypeOK, StatefulSet
  <2>3. Stage' /\ Verified' /\ Now = "patch" /\ Now' = "patch"
    BY <1>1, <2>1, <2>2, PatchStep DEF PatchPCs
  <2>4. TypeOK'
    BY <1>0, <1>5, <2>1, <2>2, LimitsType DEF TypeOK, Goes
  <2>5. Copies'
    BY <1>1, <2>1, <2>2 DEF IndInv, Copies, Copied, Has, Between
  <2>6. Patched'
    BY <1>0, <1>1, <2>1, <2>2 DEF Patched, Goes
  <2>7. Stops'
    <3>1. ASSUME NEW m \in Notebooks, nb[m].stop = run PROVE Remembered(m)'
      <4>1. Remembered(m)
        BY <1>0, <3>1 DEF Stops
      <4> QED
        BY <1>1, <2>1, <2>3, <4>1 DEF Remembered, Goes, Owning
    <3> QED
      BY <1>0, <2>1, <2>2, <3>1 DEF Stops, Goes, Flag, User
  <2> QED
    BY <2>3, <2>4, <2>5, <2>6, <2>7 DEF IndInv
<1> QED
  BY <1>2, <1>4, <1>5

-----------------------------------------------------------------------------
(* The rest of the world.                                                  *)

LEMMA WorldKeeps ==
    ASSUME IndInv, Soft, UNCHANGED cli,
           \A m \in Notebooks : nb'[m].stop \in 0 .. run \cup {User},
           \A m \in Notebooks : nb'[m].stop = run => nb[m].stop = run
    PROVE  IndInv'
<1>0. TypeOK /\ Stage /\ Patched /\ Stops /\ Verified /\ cli \in Process
  BY DEF IndInv, TypeOK
<1>1. /\ cli' = cli /\ cmd' = cmd /\ run' = run /\ exit' = exit /\ Now' = Now
      /\ denied' = denied
  BY DEF Soft, Now
<1>2. TypeOK'
  BY <1>0, <1>1 DEF TypeOK, Soft
<1>3. Stage'
  BY <1>0, <1>1 DEF Stage
<1>4. Copies'
  <2>1. CASE cli.pc \in Between
    BY <1>1, <2>1 DEF Copies
  <2>2. CASE cli.pc \notin Between
    BY <1>1, <2>2, SoftCopies
  <2> QED
    BY <2>1, <2>2
<1>5. Patched'
  <2>1. cli.patched \subseteq Notebooks /\ cli.cur \subseteq Notebooks
    BY <1>0 DEF Process
  <2> QED
    BY <1>0, <1>1, <2>1, SoftKeeps DEF Patched
<1>6. Stops'
  <2>1. ASSUME NEW m \in Notebooks, nb'[m].stop = run PROVE Remembered(m)'
    BY <1>0, <1>1, <2>1 DEF Stops, Remembered
  <2> QED
    BY <1>0, <1>1, <2>1 DEF Stops, Flag
<1>7. Verified'
  <2>1. \A n \in cmd.scope : Fine(n) => Fine(n)'
    BY SoftKeeps
  <2> QED
    BY <1>0, <1>1, <2>1 DEF Verified, EndsVerified
<1> QED
  BY <1>2, <1>3, <1>4, <1>5, <1>6, <1>7 DEF IndInv

LEMMA TouchKeeps ==
    ASSUME IndInv, NEW n \in Notebooks, Touch(n) \/ Inject(n)
    PROVE  IndInv'
<1>0. TypeOK /\ \A m \in Notebooks : nb[m].stop \in 0 .. run \cup {User}
  BY DEF IndInv, Stops
<1>1. Same /\ UNCHANGED cli /\ events' \in 0 .. MaxEvents /\ expired' \in BOOLEAN
  <2>1. CASE Touch(n)
    BY <1>0, <2>1, WorkbenchAssumption DEF Touch, Event, TypeOK, Same
  <2>2. CASE Inject(n)
    BY <1>0, <2>2 DEF Inject, TypeOK, Same, limits
  <2> QED
    BY <2>1, <2>2
<1>2. /\ nb[n].has \in SUBSET Features /\ nb[n].stop \in 0 .. run \cup {User}
      /\ run # Running /\ run # User /\ Running \in 0 .. run
  <2>1. run \in 1 .. MaxRuns /\ MaxRuns \in Nat
    BY <1>0, WorkbenchAssumption DEF TypeOK
  <2>2. 0 \in 0 .. run
    BY <2>1
  <2> QED
    BY <2>2, CopyType DEF Running
<1>3. \E has \in SUBSET Features, stop \in 0 .. run \cup {User} :
        /\ Write(n, has, stop) /\ Forward(nb[n].has, has) /\ (stop = run => nb[n].stop = run)
  <2>1. CASE Write(n, nb[n].has, IF nb[n].stop = Running THEN User ELSE Running)
    <3>1. \E stop \in {User, Running} : Write(n, nb[n].has, stop)
      BY <2>1
    <3> QED
      BY <1>2, <3>1, ForwardCases
  <2>2. CASE Write(n, nb[n].has \cup {"edited"}, nb[n].stop)
    <3>1. nb[n].has \cup {"edited"} \in SUBSET Features
      BY <1>2 DEF Features
    <3> QED
      BY <1>2, <2>2, <3>1, ForwardCases
  <2>3. CASE Write(n, nb[n].has \cup {"kube-rbac-proxy"}, nb[n].stop)
    <3>1. nb[n].has \cup {"kube-rbac-proxy"} \in SUBSET Features
      BY <1>2 DEF Features
    <3> QED
      BY <1>2, <2>3, <3>1, ForwardCases
  <2> QED
    BY <2>1, <2>2, <2>3 DEF Touch, Inject
<1>4. PICK has \in SUBSET Features, stop \in 0 .. run \cup {User} :
        /\ Write(n, has, stop) /\ Forward(nb[n].has, has) /\ (stop = run => nb[n].stop = run)
  BY <1>3
<1>5. stop \in 0 .. MaxRuns + 1
  <2>1. run \in 1 .. MaxRuns /\ MaxRuns \in Nat
    BY <1>0, WorkbenchAssumption DEF TypeOK
  <2> QED
    BY <2>1 DEF User
<1>6. Soft /\ Written(n, has, stop)
  BY <1>0, <1>1, <1>4, <1>5, WriteSoftly
<1>7. /\ \A m \in Notebooks : nb'[m].stop \in 0 .. run \cup {User}
      /\ \A m \in Notebooks : nb'[m].stop = run => nb[m].stop = run
  BY <1>0, <1>4, <1>6 DEF Written
<1> QED
  BY <1>1, <1>6, <1>7, WorldKeeps

LEMMA OutsideKeeps ==
    ASSUME IndInv, Expire \/ (\E n \in Notebooks : Reconcile(n)) \/ UNCHANGED vars
    PROVE  IndInv'
<1>0. TypeOK /\ \A m \in Notebooks : nb[m].stop \in 0 .. run \cup {User}
  BY DEF IndInv, Stops
<1>1. UNCHANGED <<nb, res, saved, denied, fresh, cmd, run, cli, exit>>
  BY DEF Expire, Reconcile, vars, cluster
<1>2. sts' \in [Notebooks -> StatefulSet]
  BY <1>0 DEF Expire, Reconcile, vars, cluster, TypeOK, StatefulSet
<1>3. events' \in 0 .. MaxEvents /\ expired' \in BOOLEAN
  <2>1. CASE Expire
    BY <1>0, <2>1, WorkbenchAssumption DEF Expire, Event, TypeOK
  <2>2. CASE UNCHANGED limits
    BY <1>0, <2>2 DEF TypeOK, limits
  <2> QED
    BY <2>1, <2>2 DEF Reconcile, vars
<1>4. Soft
  BY <1>0, <1>1, <1>2, <1>3 DEF Soft, TypeOK, Forward
<1> QED
  BY <1>0, <1>1, <1>4, WorldKeeps

(* A process that begins. *)
LEMMA BeginsWell ==
    ASSUME nb \in [Notebooks -> Notebook], NEW c \in Commands
    PROVE  /\ Started(c).plan # <<>> =>
                Started(c).plan[Len(Started(c).plan)] = c.plan[Len(c.plan)]
           /\ Started(c).plan = <<>> <=> c.plan = <<>>
BY StartedShape

LEMMA RunAgainKeeps ==
    ASSUME IndInv, RunAgain
    PROVE  IndInv'
<1>0. TypeOK /\ Stops /\ nb \in [Notebooks -> Notebook]
  BY DEF IndInv, TypeOK
<1>1. PICK c \in Commands : cmd' = c /\ cli' = Started(c)
  BY WorkbenchAssumption DEF RunAgain
<1>2. /\ run < MaxRuns /\ run' = run + 1 /\ expired' = FALSE /\ exit' = "none" /\ fresh' = {}
      /\ denied' = {} /\ UNCHANGED <<nb, sts, res, saved, events>>
  BY DEF RunAgain, cluster
<1>3. run \in 1 .. MaxRuns /\ MaxRuns \in Nat /\ run' \in 1 .. MaxRuns
  BY <1>0, <1>2, WorkbenchAssumption DEF TypeOK
<1>4. /\ cli' \in Process /\ cli'.pc = "next" /\ cli'.plan = c.plan /\ cli'.mine = {}
      /\ cli'.patched = {}
  BY <1>0, <1>1, StartedShape
<1>5. TypeOK'
  BY <1>0, <1>1, <1>2, <1>3, <1>4 DEF TypeOK
<1>6. Stage'
  BY <1>1, <1>4 DEF Stage, PatchPCs
<1>7. Copies' /\ Patched'
  BY <1>4 DEF Copies, Patched, Between
<1>8. Stops'
  <2>1. \A n \in Notebooks : nb[n].stop \in 0 .. run' \cup {User} /\ nb[n].stop # run'
    <3>1. \A n \in Notebooks : nb[n].stop \in 0 .. run \cup {User}
      BY <1>0 DEF Stops
    <3> QED
      BY <1>2, <1>3, <3>1 DEF User
  <2> QED
    BY <1>2, <1>4, <2>1 DEF Stops, User
<1>9. Verified'
  BY <1>1, <1>4 DEF Verified, EndsVerified
<1> QED
  BY <1>5, <1>6, <1>7, <1>8, <1>9 DEF IndInv

LEMMA IndInit ==
    ASSUME Init
    PROVE  IndInv
<1>1. /\ nb \in Clusters /\ saved = {} /\ denied = {} /\ fresh = {} /\ cmd \in Commands /\ run = 1
      /\ cli = Started(cmd) /\ exit = "none" /\ events = 0 /\ expired = FALSE
  BY DEF Init
<1>2. MaxRuns \in Nat \ {0} /\ MaxEvents \in Nat
  BY WorkbenchAssumption
<1>3. nb \in [Notebooks -> [has : SUBSET Features, stop : {0, MaxRuns + 1}]]
  BY <1>1, WorkbenchAssumption
<1>4. nb \in [Notebooks -> Notebook] /\ \A n \in Notebooks : nb[n].stop \in {0, User}
  BY <1>2, <1>3 DEF Notebook, User
<1>5. /\ cli \in Process /\ cli.pc = "next" /\ cli.plan = cmd.plan /\ cli.mine = {}
      /\ cli.patched = {}
  BY <1>1, <1>4, StartedShape
<1>6. sts \in [Notebooks -> StatefulSet] /\ res \in [Notebooks -> SUBSET OAuthResources]
  BY DEF Init, StatefulSet
<1>7. TypeOK
  <2>1. run \in 1 .. MaxRuns /\ events \in 0 .. MaxEvents
    BY <1>1, <1>2
  <2> QED
    BY <1>1, <1>4, <1>5, <1>6, <2>1 DEF TypeOK
<1>8. Stage
  BY <1>5 DEF Stage, PatchPCs
<1>9. Copies /\ Patched
  BY <1>5 DEF Copies, Patched, Between
<1>10. Stops
  <2>1. 0 \in 0 .. run /\ run # 0 /\ run # User
    BY <1>1, <1>2 DEF User
  <2> QED
    BY <1>4, <1>5, <2>1 DEF Stops
<1>11. Verified
  BY <1>5 DEF Verified, EndsVerified
<1> QED
  BY <1>7, <1>8, <1>9, <1>10, <1>11 DEF IndInv

LEMMA IndStep ==
    ASSUME IndInv, [Next]_vars
    PROVE  IndInv'
<1>1. CASE \/ AllStopped \/ PatchGate \/ AllPatched \/ AllRestarted \/ ConfirmCleanup
           \/ AllCleaned \/ ConfirmChange \/ AllFixed
  BY <1>1, BetweenKeep
<1>2. CASE ListFails \/ ListDenied \/ checkKueueTerminatingPods \/ verifyAuthModel \/ AllSeen
  BY <1>2, LeavesKeep
<1>3. CASE PatchLists \/ CleanupLists \/ KueueLists \/ VerifyLists \/ PrepareLists \/ UpgradeLists
  BY <1>3, ListsKeep, UpgradeListsKeeps
<1>4. CASE NextMigration \/ Finish \/ Killed \/ RunAgain \/ backupNotebooks
  BY <1>4, NextMigrationKeeps, FinishKeeps, RunAgainKeeps, BackupKeeps
<1>5. CASE WaitEnds \/ Refetch \/ deleteStatefulSet
  BY <1>5, WaitKeeps, RefetchKeeps, DeleteKeeps
<1>6. ASSUME NEW n \in Notebooks,
             KeepStopped(n) \/ stopWorkbench(n) \/ PatchNotebook(n) \/ restartWorkbench(n)
      PROVE  IndInv'
  BY <1>6, KeepStoppedKeeps, StopKeeps, PatchNotebookKeeps, RestartKeeps
<1>7. ASSUME NEW n \in Notebooks,
             \/ CleanupNotebookAfterPatch(n) \/ CleanupNotebook(n)
             \/ FixName(n) \/ patchLabel(n) \/ VerifyNotebook(n)
      PROVE  IndInv'
  BY <1>7, CleanupKeeps, FixNameKeeps, LabelKeeps, VerifyKeeps
<1>8. CASE Expire \/ (\E n \in Notebooks : Reconcile(n)) \/ Over \/ UNCHANGED vars
  BY <1>8, OutsideKeeps DEF Over
<1>9. ASSUME NEW n \in Notebooks, Touch(n) \/ Inject(n) PROVE IndInv'
  BY <1>9, TouchKeeps
<1> QED
  BY <1>1, <1>2, <1>3, <1>4, <1>5, <1>6, <1>7, <1>8, <1>9 DEF Next, CLI

-----------------------------------------------------------------------------
LEMMA Invariance == Spec => []IndInv
<1>1. Init => IndInv
  BY IndInit
<1>2. IndInv /\ [Next]_vars => IndInv'
  BY IndStep
<1> QED
  BY <1>1, <1>2, PTL DEF Spec

(* Every variable keeps its type, for any workbenches and any bounds. *)
THEOREM TypeCorrect == Spec => []TypeOK
<1>1. IndInv => TypeOK
  BY DEF IndInv
<1> QED
  BY <1>1, Invariance, PTL

(* A run of patch-auth-model that reports no failure has started again all  *)
(* that it stopped, whether the user declined, the patch went through or a  *)
(* wait ran out of time.                                                    *)
THEOREM NothingLeftStopped == Spec => []StoppedIsReported
<1>1. IndInv => StoppedIsReported
  <2> SUFFICES ASSUME IndInv, cli.pc = "idle", exit = "ok", NEW n \in Notebooks, nb[n].stop = run
               PROVE  FALSE
    BY DEF StoppedIsReported
  <2>1. Remembered(n)
    BY DEF IndInv, Stops
  <2>2. cli.failed
    BY <2>1 DEF Remembered, Owning
  <2> QED
    BY <2>2 DEF IndInv, Stops
<1> QED
  BY <1>1, Invariance, PTL

(* A command that ends with verify-migration, was not denied the list it    *)
(* verifies and reports no failure leaves its workbenches as far as it was  *)
(* asked to look, and they stay like that until the next command: nobody    *)
(* turns a Notebook back.                                                   *)
THEOREM VerifiedIsMigrated == Spec => []OkMeansMigrated
<1>1. IndInv => OkMeansMigrated
  BY DEF IndInv, Verified, EndsVerified, Fine, OkMeansMigrated
<1> QED
  BY <1>1, Invariance, PTL

-----------------------------------------------------------------------------
(* A step that loses no edit. *)
Careful == \A n \in Notebooks : "edited" \in nb[n].has => "edited" \in nb'[n].has

LEMMA WriteCareful ==
    ASSUME nb \in [Notebooks -> Notebook], NEW n \in Notebooks, NEW has, NEW stop,
           Write(n, has, stop), "edited" \in nb[n].has => "edited" \in has
    PROVE  Careful
BY DEF Write, Careful

LEMMA UpdateCareful ==
    ASSUME IndInv, NEW n \in Notebooks, PatchNotebook(n) \/ FixName(n)
    PROVE  Careful
<1>0. nb \in [Notebooks -> Notebook] /\ cli.pc \notin Between
  BY DEF IndInv, TypeOK, PatchNotebook, FixName, Between
<1>1. \/ Keeps
      \/ \E has \in {applyAllPatches(Has(n)), fixContainerName(Has(n))} :
           n \in fresh /\ Write(n, has, cli.copy[n].stop)
  BY DEF PatchNotebook, FixName, Update
<1>2. CASE Keeps
  BY <1>2 DEF Keeps, cluster, Careful
<1>3. ASSUME NEW has \in {applyAllPatches(Has(n)), fixContainerName(Has(n))},
             n \in fresh, Write(n, has, cli.copy[n].stop)
      PROVE  Careful
  <2>1. Has(n) = nb[n].has
    BY <1>0, <1>3, CopyType DEF Has
  <2>2. "edited" \in nb[n].has => "edited" \in has
    BY <1>3, <2>1 DEF applyAllPatches, fixContainerName, Legacy
  <2> QED
    BY <1>0, <1>3, <2>2, WriteCareful
<1> QED
  BY <1>1, <1>2, <1>3

LEMMA StepCareful ==
    ASSUME IndInv, [Next]_vars
    PROVE  Careful
<1>0. nb \in [Notebooks -> Notebook]
  BY DEF IndInv, TypeOK
<1>1. CASE UNCHANGED nb
  BY <1>1 DEF Careful
<1>2. ASSUME NEW n \in Notebooks,
             \/ stopWorkbench(n) \/ restartWorkbench(n) \/ patchLabel(n) \/ Touch(n) \/ Inject(n)
      PROVE  Careful
  <2>1. \/ UNCHANGED nb
        \/ \E extra \in SUBSET Features : \E stop : Write(n, nb[n].has \cup extra, stop)
    <3>1. \/ UNCHANGED nb
          \/ \E stop : Write(n, nb[n].has, stop)
          \/ \E x \in Features : \E stop : Write(n, nb[n].has \cup {x}, stop)
      BY <1>2 DEF stopWorkbench, restartWorkbench, patchLabel, Touch, Inject, Keeps, cluster, Features
    <3>2. nb[n].has \cup {} = nb[n].has /\ {} \in SUBSET Features
      OBVIOUS
    <3>3. ASSUME NEW stop, Write(n, nb[n].has, stop)
          PROVE  \E extra \in SUBSET Features : Write(n, nb[n].has \cup extra, stop)
      BY <3>2, <3>3
    <3> QED
      BY <3>1, <3>3
  <2>2. ASSUME NEW extra \in SUBSET Features, NEW stop, Write(n, nb[n].has \cup extra, stop)
        PROVE  Careful
    BY <1>0, <2>2, WriteCareful
  <2> QED
    BY <1>1, <2>1, <2>2
<1>3. ASSUME NEW n \in Notebooks, PatchNotebook(n) \/ FixName(n) PROVE Careful
  BY <1>3, UpdateCareful
<1>4. CASE \/ NextMigration \/ Finish \/ ListFails \/ ListDenied \/ WaitEnds \/ AllStopped \/ PatchGate
           \/ AllPatched \/ AllRestarted \/ checkKueueTerminatingPods \/ ConfirmCleanup
           \/ AllCleaned \/ ConfirmChange \/ AllFixed \/ verifyAuthModel \/ AllSeen
           \/ backupNotebooks \/ Killed
  <2>1. UNCHANGED nb
    BY <1>4 DEF NextMigration, Finish, ListFails, ListDenied, WaitEnds, AllStopped, PatchGate, AllPatched,
       AllRestarted, checkKueueTerminatingPods, ConfirmCleanup, AllCleaned, ConfirmChange, AllFixed,
       verifyAuthModel, AllSeen, backupNotebooks, Killed, Ends, Keeps, cluster
  <2> QED
    BY <1>1, <2>1
<1>5. CASE \/ PatchLists \/ CleanupLists \/ UpgradeLists \/ KueueLists \/ VerifyLists
           \/ PrepareLists \/ Refetch \/ deleteStatefulSet
  <2>1. UNCHANGED nb
    BY <1>5 DEF PatchLists, CleanupLists, UpgradeLists, KueueLists, VerifyLists, PrepareLists, Lists,
       Refetch, deleteStatefulSet, cluster
  <2> QED
    BY <1>1, <2>1
<1>6. ASSUME NEW n \in Notebooks,
             \/ KeepStopped(n) \/ CleanupNotebookAfterPatch(n) \/ CleanupNotebook(n)
             \/ VerifyNotebook(n) \/ Reconcile(n)
      PROVE  Careful
  <2>1. UNCHANGED nb
    BY <1>6 DEF KeepStopped, CleanupNotebookAfterPatch, CleanupNotebook, VerifyNotebook, Reconcile,
       deleteOAuthResources, Keeps, cluster
  <2> QED
    BY <1>1, <2>1
<1>7. CASE Expire \/ RunAgain \/ Over \/ UNCHANGED vars
  <2>1. UNCHANGED nb
    BY <1>7 DEF Expire, RunAgain, Over, vars, cluster
  <2> QED
    BY <1>1, <2>1
<1> QED
  BY <1>2, <1>3, <1>4, <1>5, <1>6, <1>7 DEF Next, CLI

(* What a user has put into a Notebook stays, although the command writes   *)
(* back copies: a stale one is refused.                                     *)
THEOREM EditsAreKept == Spec => EditsKept
<1>1. IndInv /\ [Next]_vars => [Careful]_vars
  BY StepCareful
<1>2. [Careful]_vars =>
        [\A n \in Notebooks : "edited" \in nb[n].has => "edited" \in nb'[n].has]_vars
  BY DEF Careful
<1> QED
  BY <1>1, <1>2, Invariance, PTL DEF Spec, EditsKept

-----------------------------------------------------------------------------
(* A step that deletes resources only as it may. *)
Allowed ==
    \A n \in Notebooks : res'[n] # res[n] /\ "oauth-proxy" \in nb[n].has => n \in cli'.override

LEMMA CleanupAllowed ==
    ASSUME IndInv, NEW n \in Notebooks, CleanupNotebookAfterPatch(n) \/ CleanupNotebook(n)
    PROVE  Allowed
<1>0. cli \in Process /\ res \in [Notebooks -> SUBSET OAuthResources] /\ cli.pc = "clean"
  BY DEF IndInv, TypeOK, CleanupNotebookAfterPatch, CleanupNotebook
<1>1. \/ UNCHANGED res
      \/ deleteOAuthResources(n, FALSE) /\ "oauth-proxy" \notin nb[n].has
      \/ deleteOAuthResources(n, TRUE)
  <2>1. CASE CleanupNotebookAfterPatch(n)
    <3>1. n \in cli.patched
      BY <1>0, <2>1 DEF CleanupNotebookAfterPatch, Is1st, IndInv, Patched
    <3> QED
      BY <2>1, <3>1 DEF CleanupNotebookAfterPatch, IndInv, Patched, Keeps, cluster
  <2>2. CASE CleanupNotebook(n)
    <3>1. Copied(n)
      BY <1>0 DEF IndInv, Copies, Between
    <3>2. CheckMigrationState(Has(n)) => "oauth-proxy" \notin nb[n].has
      BY <3>1 DEF Copied, CheckMigrationState
    <3> QED
      BY <2>2, <3>2 DEF CleanupNotebook, Keeps, cluster
  <2> QED
    BY <2>1, <2>2
<1>2. ASSUME NEW over \in BOOLEAN, deleteOAuthResources(n, over)
      PROVE  /\ \A m \in Notebooks : m # n => res'[m] = res[m]
             /\ over => n \in cli'.override
  <2>1. PICK bad \in SUBSET OAuthResources :
          /\ UNCHANGED res \/ res' = [res EXCEPT ![n] = @ \cap bad]
          /\ cli' = [cli EXCEPT !.todo = @ \ {n}, !.failed = @ \/ bad # {} \/ over,
                                !.override = IF over THEN @ \cup {n} ELSE @]
    BY <1>2 DEF deleteOAuthResources
  <2>2. \A m \in Notebooks : m # n => res'[m] = res[m]
    BY <1>0, <2>1
  <2>3. over => cli'.override = cli.override \cup {n}
    BY <1>0, <2>1 DEF Process
  <2> QED
    BY <2>2, <2>3
<1>3. CASE UNCHANGED res
  BY <1>3 DEF Allowed
<1>4. CASE deleteOAuthResources(n, FALSE) /\ "oauth-proxy" \notin nb[n].has
  BY <1>2, <1>4 DEF Allowed
<1>5. CASE deleteOAuthResources(n, TRUE)
  BY <1>2, <1>5 DEF Allowed
<1> QED
  BY <1>1, <1>3, <1>4, <1>5

LEMMA StepAllowed ==
    ASSUME IndInv, [Next]_vars
    PROVE  Allowed
<1>1. CASE UNCHANGED res
  BY <1>1 DEF Allowed
<1>2. ASSUME NEW n \in Notebooks, CleanupNotebookAfterPatch(n) \/ CleanupNotebook(n)
      PROVE  Allowed
  BY <1>2, CleanupAllowed
<1>3. CASE \/ NextMigration \/ Finish \/ ListFails \/ ListDenied \/ WaitEnds \/ AllStopped \/ PatchGate
           \/ AllPatched \/ AllRestarted \/ checkKueueTerminatingPods \/ ConfirmCleanup
           \/ AllCleaned \/ ConfirmChange \/ AllFixed \/ verifyAuthModel \/ AllSeen
           \/ backupNotebooks \/ Killed
  <2>1. UNCHANGED res
    BY <1>3 DEF NextMigration, Finish, ListFails, ListDenied, WaitEnds, AllStopped, PatchGate, AllPatched,
       AllRestarted, checkKueueTerminatingPods, ConfirmCleanup, AllCleaned, ConfirmChange, AllFixed,
       verifyAuthModel, AllSeen, backupNotebooks, Killed, Ends, Keeps, cluster
  <2> QED
    BY <1>1, <2>1
<1>4. CASE \/ PatchLists \/ CleanupLists \/ UpgradeLists \/ KueueLists \/ VerifyLists
           \/ PrepareLists \/ Refetch \/ deleteStatefulSet
  <2>1. UNCHANGED res
    BY <1>4 DEF PatchLists, CleanupLists, UpgradeLists, KueueLists, VerifyLists, PrepareLists, Lists,
       Refetch, deleteStatefulSet, cluster
  <2> QED
    BY <1>1, <2>1
<1>5. ASSUME NEW n \in Notebooks,
             \/ KeepStopped(n) \/ stopWorkbench(n) \/ PatchNotebook(n) \/ restartWorkbench(n)
             \/ FixName(n) \/ patchLabel(n) \/ VerifyNotebook(n)
             \/ Touch(n) \/ Reconcile(n) \/ Inject(n)
      PROVE  Allowed
  <2>1. UNCHANGED res
    BY <1>5 DEF KeepStopped, stopWorkbench, PatchNotebook, restartWorkbench, FixName, patchLabel,
       VerifyNotebook, Touch, Reconcile, Inject, Update, Write, Keeps, cluster
  <2> QED
    BY <1>1, <2>1
<1>6. CASE Expire \/ RunAgain \/ Over \/ UNCHANGED vars
  <2>1. UNCHANGED res
    BY <1>6 DEF Expire, RunAgain, Over, vars, cluster
  <2> QED
    BY <1>1, <2>1
<1> QED
  BY <1>2, <1>3, <1>4, <1>5, <1>6 DEF Next, CLI

(* The OAuth resources of a workbench that has its oauth-proxy are deleted  *)
(* only against the pre-check's advice, at the user's word.                 *)
THEOREM CleanupIsAllowed == Spec => CleanupOnlyMigrated
<1>1. IndInv /\ [Next]_vars => [Allowed]_vars
  BY StepAllowed
<1>2. [Allowed]_vars =>
        [\A n \in Notebooks :
           res'[n] # res[n] /\ "oauth-proxy" \in nb[n].has => n \in cli'.override]_vars
  BY DEF Allowed
<1> QED
  BY <1>1, <1>2, Invariance, PTL DEF Spec, CleanupOnlyMigrated
=============================================================================

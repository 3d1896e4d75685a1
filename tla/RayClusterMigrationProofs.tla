---------------------- MODULE RayClusterMigrationProofs ----------------------
(***************************************************************************)
(* Theorems about RayClusterMigration, for any number of RayClusters,      *)
(* commands, failing requests, kills and edits.                            *)
(***************************************************************************)
EXTENDS RayClusterMigration, FiniteSetTheorems, TLAPS

Loading == {"start", "check", "codeflare", "latest", "update dsc", "list"}
Saving == {"write 2.x", "write 3.x"}
Migrating == {"confirm", "get", "accounts", "update", "delete", "gone", "create", "ready"}
PCs == Loading \cup Saving \cup Migrating \cup {"idle"}

-----------------------------------------------------------------------------
(* The inductive invariant, part by part.                                  *)

(* Which command is where, and what it has counted by then. *)
Phase ==
    /\ cli.pc \in Saving => cmd.do = "backup"
    /\ cli.pc \in Migrating => cmd.do = "migrate" /\ cmd.from # "missing"
    /\ cli.pc \in {"accounts", "update"} => Live
    /\ cli.pc \in {"delete", "gone", "create"} => ~Live
    /\ cli.pc \in Saving => Live
    /\ cli.pc \in Loading \cup {"confirm"} =>
         cli.good = {} /\ cli.bad = {} /\ cli.stripped = {}
    /\ cli.pc = "update dsc" => cli.tries > 0
    /\ cli.good \cap cli.todo = {}

(* A copy of a live object is whole, and as long as nobody has changed the *)
(* object it is what the object has; what is about to be created is gone.  *)
Copies ==
    /\ \A c \in RayClusters : "torn" \notin rc[c].has
    /\ Live => \A c \in RayClusters : "torn" \notin cli.copy[c]
    /\ \A c \in RayClusters : Cur(c) =>
         /\ cli.pc \in {"accounts", "update"} /\ c \in fresh => cli.copy[c] = rc[c].has
         /\ cli.pc = "create" => rc[c].state = "absent"
    /\ cli.pc = "update dsc" /\ 0 \in fresh => dsc \notin {"Removed", "Unmanaged"}

NoTLS(has) == has \cap TLSOAuth = {}

(* The files of 3.x have no TLS or OAuth part, nor has what is restored    *)
(* from them, and what is or is about to be counted as migrated.           *)
Cleanness ==
    /\ \A f \in Files : NoTLS(files["3.x"][f].has)
    /\ cmd.from = "3.x" /\ cli.pc \in Migrating => \A c \in RayClusters : NoTLS(cli.copy[c])
    /\ cmd.do = "migrate" /\ cmd.from \in {"live", "3.x"} =>
         \A c \in RayClusters :
           c \in cli.good \/ (cli.pc = "ready" /\ Cur(c)) => NoTLS(rc[c].has)
    /\ \A c \in cli.stripped : c \in cli.good \cup cli.bad \cup cli.todo
    /\ cli.stripped # {} => cmd.do = "migrate" /\ Live

(* The files. *)
WholeIn(d, c) == files[d][FileOf[c]].of = c /\ "torn" \notin files[d][FileOf[c]].has

Saved(c) ==
    /\ files["2.x"][FileOf[c]].of = c /\ files["3.x"][FileOf[c]].of = c
    /\ files["2.x"][FileOf[c]].has \ TLSOAuth \subseteq
         files["3.x"][FileOf[c]].has \cup {"service account"}
    /\ "torn" \notin files["3.x"][FileOf[c]].has

(* Half a file was warned of; what is gone, or going, is in a whole file;  *)
(* a restore goes by files that are there; a backup counts what it saved.  *)
FilesKept ==
    /\ \A d \in {"2.x", "3.x"}, f \in Files : "torn" \in files[d][f].has => warned
    /\ \A c \in RayClusters :
         rc[c].state # "present" => warned \/ WholeIn("2.x", c) \/ WholeIn("3.x", c)
    /\ cli.pc \in Migrating /\ ~Live => \A c \in cli.todo : files[cmd.from][FileOf[c]].of = c
    /\ cmd.do = "backup" => \A c \in cli.good : Saved(c)
    /\ cli.pc = "write 3.x" => \A c \in RayClusters : Cur(c) =>
         files["2.x"][FileOf[c]] = [of |-> c, has |-> RemoveAutogeneratedFields(cli.copy[c])]

IndInv == TypeOK /\ Phase /\ Copies /\ Cleanness

-----------------------------------------------------------------------------
(* What the steps do to the process.                                       *)

Kept ==
    /\ cli'.copy = cli.copy /\ cli'.good = cli.good /\ cli'.bad = cli.bad
    /\ cli'.stripped = cli.stripped /\ cli'.listed = cli.listed

Moved(l) == cli'.pc = l /\ cli'.todo = cli.todo /\ Kept
Ended == cli'.pc = "idle" /\ cli'.todo = {} /\ Kept

(* The RayCluster is counted, and the loop goes on at l. *)
Counted(c, good, l) ==
    /\ cli'.pc = l /\ cli'.todo = cli.todo \ {c}
    /\ cli'.copy = cli.copy /\ cli'.stripped = cli.stripped /\ cli'.listed = cli.listed
    /\ cli'.good = IF good THEN cli.good \cup {c} ELSE cli.good
    /\ cli'.bad = IF good THEN cli.bad ELSE cli.bad \cup {c}

LEMMA GotoShape ==
    ASSUME cli \in Process, NEW l \in PCs, Goto(l)
    PROVE  cli' \in Process /\ Moved(l) /\ cli'.tries = cli.tries
BY DEF Goto, PCs, Loading, Saving, Migrating, Process, Moved, Kept

LEMMA EndsShape ==
    ASSUME cli \in Process, NEW how, Ends(how)
    PROVE  /\ cli' \in Process /\ Ended /\ exit' = how
           /\ warned' = (warned \/ (how # "ok" /\ cmd.do = "backup"))
BY DEF Ends, Process, Ended, Kept

LEMMA EndShape ==
    ASSUME cli \in Process, NEW b \in BOOLEAN, End(b)
    PROVE  /\ cli' \in Process /\ Ended /\ exit' \in {"failures", "ok"}
           /\ (exit' = "ok" => ~b \/ cmd.do = "prepare")
           /\ warned' = (warned \/ (b /\ cmd.do = "backup"))
<1>1. PICK how \in {"failures", "ok"} :
        Ends(how) /\ (how # "ok" <=> b /\ cmd.do # "prepare")
  BY DEF End
<1> QED
  BY <1>1, EndsShape

LEMMA CountShape ==
    ASSUME cli \in Process, NEW c \in RayClusters, NEW how \in {"good", "bad"}, NEW l \in PCs,
           Count(c, how, l)
    PROVE  cli' \in Process /\ Counted(c, how = "good", l)
BY DEF Count, PCs, Loading, Saving, Migrating, Process, Counted

LEMMA ReadShape ==
    ASSUME cli \in Process, rc \in [RayClusters -> RayCluster], NEW l \in PCs,
           NEW S \in SUBSET RayClusters, Read(l, S)
    PROVE  /\ cli' \in Process /\ cli'.pc = l /\ cli'.todo = S /\ cli'.listed = S
           /\ cli'.copy = [c \in RayClusters |-> rc[c].has]
           /\ cli'.good = cli.good /\ cli'.bad = cli.bad /\ cli'.stripped = cli.stripped
BY DEF Read, PCs, Loading, Saving, Migrating, Process, RayCluster

LEMMA StartedShape ==
    /\ Started \in Process /\ Started.pc = "start" /\ Started.todo = {} /\ Started.listed = {}
    /\ Started.copy = [c \in RayClusters |-> {}]
    /\ Started.good = {} /\ Started.bad = {} /\ Started.stripped = {}
BY RayClusterAssumption DEF Started, Process

LEMMA CurUnique ==
    ASSUME NEW c \in RayClusters, NEW d \in RayClusters, Cur(c), Cur(d)
    PROVE  c = d
<1>1. c <= d /\ d <= c
  BY Zenon DEF Cur
<1>2. c \in Nat /\ d \in Nat
  BY RayClusterAssumption, Zenon
<1> QED
  BY ONLY <1>1, <1>2

LEMMA LimitsType ==
    ASSUME TypeOK, Works \/ Fails \/ UNCHANGED limits
    PROVE  events' \in 0 .. MaxEvents /\ expired' \in BOOLEAN
BY RayClusterAssumption DEF TypeOK, Works, Fails, Hit, limits

(* The steps that only go on, or end the command.                          *)
World ==
    /\ UNCHANGED <<rc, sa, files, cmd, certs, run>>
    /\ dsc' \in CodeFlare /\ fresh' \subseteq RayClusters \cup {0}
Goes ==
    \/ /\ Ended
       /\ \/ cli.todo = {} /\ cli.pc \in {"get", "write 2.x"}
          \/ cli.pc \in Loading \cup {"confirm"}
    \/ \E l \in Loading \ {"update dsc"} : Moved(l) /\ cli.pc \in Loading
    \/ cli.pc = "confirm" /\ Moved("get")
Quiet ==
    /\ World /\ cli' \in Process /\ Goes
    /\ exit' \in {"none", "ok", "failures", "panic", "killed"} /\ warned' \in BOOLEAN /\ (warned => warned')
    /\ events' \in 0 .. MaxEvents /\ expired' \in BOOLEAN

LEMMA CheckedShape ==
    ASSUME TypeOK, NEW b \in BOOLEAN, Checked(b), cli.pc \in Loading
    PROVE  /\ cli' \in Process /\ Goes
           /\ exit' \in {"none", "ok", "failures", "panic", "killed"} /\ warned' \in BOOLEAN
           /\ warned => warned'
<1>1. "list" \in PCs /\ "list" \in Loading \ {"update dsc"} /\ cli \in Process
  BY DEF PCs, Loading, TypeOK
<1>2. CASE cmd.do = "prepare"
  <2>1. End(~(cli.passed /\ b)) /\ (~(cli.passed /\ b)) \in BOOLEAN
    BY <1>2 DEF Checked
  <2> QED
    BY <1>1, <2>1, EndShape DEF Goes, TypeOK
<1>3. CASE cmd.do # "prepare"
  <2>1. (Goto("list") /\ On) \/ End(TRUE)
    BY <1>3 DEF Checked
  <2>2. ASSUME Goto("list"), On PROVE cli' \in Process /\ Moved("list") /\ UNCHANGED <<exit, warned>>
    BY <1>1, <2>2, GotoShape DEF On
  <2> QED
    BY <1>1, <2>1, <2>2, EndShape DEF Goes, TypeOK
<1> QED
  BY <1>2, <1>3

(* The steps of the command that touch nothing but the process.            *)
LEMMA QuietSteps ==
    ASSUME TypeOK,
           \/ Start \/ CheckCluster \/ checkCodeflareOperator \/ ListFails \/ NilCluster
           \/ Confirm \/ MissingBackup \/ AllDone \/ UpdateDSC,
           Phase
    PROVE  Quiet
<1> USE DEF Objs, Same, On
<1>0. /\ cli \in Process /\ exit \in {"none", "ok", "failures", "panic", "killed"} /\ warned \in BOOLEAN
      /\ dsc \in CodeFlare /\ fresh \subseteq RayClusters \cup {0}
  BY DEF TypeOK
<1>1. CASE Start
  <2>1. \E l \in {"list", "check"} : Goto(l)
    BY <1>1 DEF Start
  <2>2. \E l \in {"list", "check"} : cli' \in Process /\ Moved(l)
    BY <1>0, <2>1, GotoShape DEF PCs, Loading
  <2> QED
    BY <1>0, <1>1, <2>2, LimitsType DEF Start, Quiet, World, Goes, Loading
<1>2. CASE CheckCluster
  <2>1. PICK ok \in BOOLEAN : cli' = [cli EXCEPT !.pc = "codeflare", !.passed = ok]
    BY <1>2 DEF CheckCluster
  <2>2. cli' \in Process /\ Moved("codeflare")
    BY <1>0, <2>1 DEF Process, Moved, Kept
  <2>3. Works \/ Fails
    BY <1>2 DEF CheckCluster, Fails
  <2> QED
    BY <1>0, <1>2, <2>2, <2>3, LimitsType DEF CheckCluster, Quiet, World, Goes, Loading
<1>3. CASE checkCodeflareOperator
  <2>1. cli.pc \in Loading /\ World /\ (Works \/ Fails)
    BY <1>0, <1>3 DEF checkCodeflareOperator, Loading, World
  <2>2. (Goto("latest") /\ On) \/ Checked(FALSE) \/ Checked(dsc # "other")
    BY <1>3 DEF checkCodeflareOperator
  <2>3. CASE Goto("latest") /\ On
    <3>1. cli' \in Process /\ Moved("latest")
      BY <1>0, <2>3, GotoShape DEF PCs, Loading
    <3> QED
      BY <1>0, <2>1, <2>3, <3>1, LimitsType DEF Quiet, Goes, Loading
  <2>4. CASE Checked(FALSE) \/ Checked(dsc # "other")
    BY <2>1, <2>4, CheckedShape, LimitsType DEF Quiet
  <2> QED
    BY <2>2, <2>3, <2>4
<1>4. CASE ListFails \/ MissingBackup \/ AllDone
  <2>1. End(TRUE) \/ End(FALSE)
    BY <1>4 DEF ListFails, MissingBackup, AllDone
  <2>2. World /\ (Works \/ Fails \/ UNCHANGED limits)
    BY <1>0, <1>4 DEF ListFails, MissingBackup, AllDone, World
  <2>3. (cli.todo = {} /\ cli.pc \in {"get", "write 2.x"}) \/ cli.pc \in Loading
    BY <1>4 DEF ListFails, MissingBackup, AllDone, Loading
  <2> QED
    BY <1>0, <2>1, <2>2, <2>3, EndShape, LimitsType DEF Quiet, Goes
<1>5. CASE Confirm
  <2>1. cli.pc = "confirm" /\ World /\ UNCHANGED limits
    BY <1>0, <1>5 DEF Confirm, World
  <2>2. (Goto("get") /\ On) \/ End(FALSE)
    BY <1>5 DEF Confirm
  <2>3. CASE Goto("get") /\ On
    <3>1. cli' \in Process /\ Moved("get")
      BY <1>0, <2>3, GotoShape DEF PCs, Migrating
    <3> QED
      BY <1>0, <2>1, <2>3, <3>1, LimitsType DEF Quiet, Goes
  <2>4. CASE End(FALSE)
    BY <1>0, <2>1, <2>4, EndShape, LimitsType DEF Quiet, Goes
  <2> QED
    BY <2>2, <2>3, <2>4
<1>6. CASE UpdateDSC
  <2>1. cli.pc = "update dsc" /\ World /\ (Works \/ Fails)
    BY <1>0, <1>6 DEF UpdateDSC, World, CodeFlare, Fails
  <2>2. \/ Checked(TRUE) \/ Checked(FALSE)
        \/ cli' = [cli EXCEPT !.pc = "latest", !.tries = @ - 1] /\ On
    BY <1>6 DEF UpdateDSC
  <2>3. CASE Checked(TRUE) \/ Checked(FALSE)
    BY <2>1, <2>3, CheckedShape, LimitsType DEF Quiet, Loading
  <2>4. CASE cli' = [cli EXCEPT !.pc = "latest", !.tries = @ - 1] /\ On
    <3>1. cli.tries - 1 \in 0 .. retryMaxSteps
      <4>1. cli.tries \in 0 .. retryMaxSteps /\ retryMaxSteps \in Nat
        BY <1>0, RayClusterAssumption DEF Process
      <4>2. cli.tries > 0
        BY <2>1 DEF Phase
      <4> QED
        BY <4>1, <4>2
    <3>2. cli' \in Process /\ Moved("latest")
      BY <1>0, <2>4, <3>1 DEF Process, Moved, Kept
    <3> QED
      BY <1>0, <2>1, <2>4, <3>2, LimitsType DEF Quiet, Goes, Loading
  <2> QED
    BY <2>2, <2>3, <2>4
<1>7. CASE NilCluster
  <2>1. PICK how \in {"ok", "panic"} : Ends(how)
    BY <1>7 DEF NilCluster
  <2>2. World /\ (Works \/ Fails) /\ cli.pc \in Loading
    BY <1>0, <1>7 DEF NilCluster, World, Fails, Loading
  <2> QED
    BY <1>0, <2>1, <2>2, EndsShape, LimitsType DEF Quiet, Goes
<1> QED
  BY <1>1, <1>2, <1>3, <1>4, <1>5, <1>6, <1>7

(* What such a step keeps. *)
LEMMA QuietKeeps ==
    ASSUME IndInv, Quiet
    PROVE  IndInv' /\ (FilesKept => FilesKept')
<1> USE DEF IndInv, Quiet, World
<1>1. /\ cli'.pc \notin Saving \cup {"update dsc", "accounts", "update", "create", "ready"}
      /\ cli'.pc \in Migrating => cli.pc \in Migrating /\ cli'.pc = "get"
      /\ cli'.pc \in Loading => cli.pc \in Loading
      /\ cli'.todo \subseteq cli.todo /\ Kept
      /\ cli'.pc \notin {"delete", "gone", "create", "confirm"}
      /\ cli'.todo = cli.todo \/ cli.todo = {} \/ cli.stripped = {}
  BY DEF Phase, Goes, Moved, Ended, Loading, Saving, Migrating
<1>2. TypeOK'
  BY DEF TypeOK
<1>3. Phase'
  BY <1>1 DEF Phase, Kept, Live, Saving
<1>4. Copies'
  BY <1>1 DEF Copies, Kept, Live
<1>5. Cleanness'
  BY <1>1 DEF Cleanness, Kept, Live, NoTLS
<1>6. ASSUME FilesKept PROVE FilesKept'
  BY <1>1, <1>6 DEF FilesKept, WholeIn, Saved, Kept, Live, Saving
<1> QED
  BY <1>2, <1>3, <1>4, <1>5, <1>6

Injective == \A c, d \in RayClusters : FileOf[c] = FileOf[d] => c = d

(* What a step is shown to do: the files need file names that tell the     *)
(* RayClusters apart.                                                      *)
Holds == IndInv' /\ (Injective /\ FilesKept => FilesKept')

LEMMA GetLatestKeeps ==
    ASSUME IndInv, GetLatest
    PROVE  Holds
<1>0. cli \in Process /\ TypeOK
  BY DEF IndInv, TypeOK
<1>1. /\ cli.pc = "latest" /\ World /\ (Works \/ Fails \/ UNCHANGED limits)
  BY <1>0 DEF GetLatest, TypeOK, World, Objs, Same
<1>2. \/ Checked(TRUE) \/ Checked(FALSE)
      \/ /\ Goto("update dsc") /\ On /\ cli.tries > 0
         /\ dsc \notin {"Removed", "Unmanaged"} /\ dsc' = dsc
  BY DEF GetLatest
<1>3. CASE Checked(TRUE) \/ Checked(FALSE)
  <2>1. Quiet
    BY <1>0, <1>1, <1>3, CheckedShape, LimitsType DEF Quiet, Loading
  <2> QED
    BY <2>1, QuietKeeps DEF Holds
<1>4. CASE /\ Goto("update dsc") /\ On /\ cli.tries > 0
           /\ dsc \notin {"Removed", "Unmanaged"} /\ dsc' = dsc
  <2>1. cli' \in Process /\ Moved("update dsc") /\ cli'.tries = cli.tries
    BY <1>0, <1>4, GotoShape DEF PCs, Loading
  <2>2. TypeOK'
    BY <1>0, <1>1, <1>4, <2>1, LimitsType DEF TypeOK, World, On
  <2>3. Phase'
    BY <1>1, <1>4, <2>1 DEF IndInv, Phase, Moved, Kept, World, Loading, Saving, Migrating
  <2>4. Copies'
    BY <1>1, <1>4, <2>1 DEF IndInv, Copies, Moved, Kept, World, Live
  <2>5. Cleanness'
    BY <1>1, <2>1 DEF IndInv, Cleanness, Moved, Kept, World, Live, Migrating
  <2>6. FilesKept => FilesKept'
    BY <1>1, <1>4, <2>1 DEF FilesKept, Moved, Kept, World, Live, Migrating, WholeIn, Saved, On
  <2> QED
    BY <2>2, <2>3, <2>4, <2>5, <2>6 DEF IndInv, Holds
<1> QED
  BY <1>2, <1>3, <1>4

-----------------------------------------------------------------------------
(* What is listed.                                                         *)

(* GetClusters spends what it misses. *)
LEMMA GetClustersShape ==
    ASSUME TypeOK, NEW S, GetClusters(S)
    PROVE  /\ cli.pc = "list" /\ Live /\ S \subseteq cmd.scope
           /\ events' \in 0 .. MaxEvents /\ expired' \in BOOLEAN
<1> DEFINE missed == {c \in cmd.scope \ Forbidden : rc[c].state # "absent"} \ S
<1>1. cmd.scope \subseteq RayClusters
  BY RayClusterAssumption DEF TypeOK, Command
<1>2. IsFiniteSet(missed)
  BY <1>1, RayClusterAssumption, FS_Subset
<1>3. Cardinality(missed) \in Nat
  BY <1>2, FS_CardinalityType
<1>4. /\ events + Cardinality(missed) <= MaxEvents /\ events' = events + Cardinality(missed)
      /\ UNCHANGED expired
  BY DEF GetClusters
<1>5. cli.pc = "list" /\ Live /\ S \subseteq cmd.scope
  BY DEF GetClusters
<1> QED
  BY <1>3, <1>4, <1>5, RayClusterAssumption DEF TypeOK

(* A backup, or a live migration, reads what it has before it.             *)
LEMMA ReadKeeps ==
    ASSUME IndInv, cli.pc = "list", Live, NEW l \in {"write 2.x", "confirm"},
           NEW S \in SUBSET RayClusters, Read(l, S),
           l = "write 2.x" => cmd.do = "backup", l = "confirm" => cmd.do = "migrate",
           World, fresh' = fresh, On, events' \in 0 .. MaxEvents, expired' \in BOOLEAN
    PROVE  Holds
<1> USE DEF World, On
<1>0. TypeOK /\ cli \in Process /\ rc \in [RayClusters -> RayCluster]
  BY DEF IndInv, TypeOK
<1>1. /\ cli' \in Process /\ cli'.pc = l /\ cli'.todo = S
      /\ cli'.copy = [c \in RayClusters |-> rc[c].has]
      /\ cli'.good = cli.good /\ cli'.bad = cli.bad /\ cli'.stripped = cli.stripped
  BY <1>0, ReadShape DEF PCs, Saving, Migrating
<1>2. cli.good = {} /\ cli.bad = {} /\ cli.stripped = {}
  BY DEF IndInv, Phase, Loading
<1>3. TypeOK'
  BY <1>0, <1>1 DEF TypeOK
<1>4. Phase'
  BY <1>1, <1>2 DEF Phase, Live, Loading, Saving, Migrating
<1>5. Copies'
  BY <1>1 DEF IndInv, Copies, Live
<1>6. Cleanness'
  BY <1>1, <1>2 DEF IndInv, Cleanness, Live
<1>7. FilesKept => FilesKept'
  BY <1>1, <1>2 DEF FilesKept, Live, WholeIn, Saved
<1> QED
  BY <1>3, <1>4, <1>5, <1>6, <1>7 DEF IndInv, Holds

LEMMA ListsKeep ==
    ASSUME IndInv, BackupLists \/ LiveLists
    PROVE  Holds
<1>0. TypeOK /\ cli \in Process
  BY DEF IndInv, TypeOK
<1>1. World /\ fresh' = fresh
  BY <1>0 DEF BackupLists, LiveLists, World, Objs, Same, TypeOK
<1>2. PICK S \in SUBSET cmd.scope :
        /\ GetClusters(S)
        /\ \/ End(FALSE)
           \/ cmd.do = "backup" /\ Read("write 2.x", S) /\ On
           \/ cmd.do = "migrate" /\ (\E T \in SUBSET S : Read("confirm", T)) /\ On
  BY DEF BackupLists, LiveLists
<1>3. /\ cli.pc = "list" /\ Live /\ S \in SUBSET RayClusters
      /\ events' \in 0 .. MaxEvents /\ expired' \in BOOLEAN
  BY <1>0, <1>2, GetClustersShape, RayClusterAssumption DEF TypeOK, Command
<1>4. CASE End(FALSE)
  <2>1. Quiet
    BY <1>0, <1>1, <1>3, <1>4, EndShape DEF Quiet, Goes, Loading, TypeOK
  <2> QED
    BY <2>1, QuietKeeps DEF Holds
<1>5. CASE cmd.do = "backup" /\ Read("write 2.x", S) /\ On
  BY <1>1, <1>3, <1>5, ReadKeeps
<1>6. CASE cmd.do = "migrate" /\ (\E T \in SUBSET S : Read("confirm", T)) /\ On
  BY <1>1, <1>3, <1>6, ReadKeeps
<1> QED
  BY <1>2, <1>4, <1>5, <1>6

(* The items of a backup directory.                                        *)
LEMMA BackupItemsKeeps ==
    ASSUME IndInv, BackupItems
    PROVE  Holds
<1>0. TypeOK /\ cli \in Process
  BY DEF IndInv, TypeOK
<1>1. World /\ fresh' = fresh /\ UNCHANGED limits
  BY <1>0 DEF BackupItems, World, Objs, Same, TypeOK
<1>2. cli.pc = "list" /\ cmd.do = "migrate" /\ cmd.from \in {"2.x", "3.x"}
  BY DEF BackupItems
<1> DEFINE has(c) == files[cmd.from][FileOf[c]].has
<1>3. \/ End(FALSE)
      \/ \E S \in SUBSET cmd.scope :
           /\ cli' = [cli EXCEPT !.pc = "confirm", !.todo = S,
                                 !.copy = [c \in RayClusters |-> IF c \in S THEN has(c) ELSE {}]]
           /\ \A c \in S : files[cmd.from][FileOf[c]].of = c
           /\ On
  <2> DEFINE item(c) == files[cmd.from][FileOf[c]]
             whole == {c \in cmd.scope : item(c).of = c /\ item(c) # Torn(c)}
             half == {c \in cmd.scope : item(c) = Torn(c)}
  <2>1. PICK parsed \in SUBSET half :
          IF whole \cup parsed = {}
          THEN End(FALSE)
          ELSE /\ cli' = [cli EXCEPT !.pc = "confirm", !.todo = whole \cup parsed,
                                     !.copy = [c \in RayClusters |->
                                         IF c \in whole \cup parsed THEN item(c).has ELSE {}]]
               /\ On
    BY DEF BackupItems
  <2>2. whole \cup parsed \in SUBSET cmd.scope
    OBVIOUS
  <2>3. \A c \in whole \cup parsed : item(c).of = c
    BY DEF Torn
  <2> QED
    BY <2>1, <2>2, <2>3
<1>4. CASE End(FALSE)
  <2>1. Quiet
    BY <1>0, <1>1, <1>2, <1>4, EndShape, LimitsType DEF Quiet, Goes, Loading, TypeOK
  <2> QED
    BY <2>1, QuietKeeps DEF Holds
<1>5. ASSUME NEW S \in SUBSET cmd.scope,
             cli' = [cli EXCEPT !.pc = "confirm", !.todo = S,
                                !.copy = [c \in RayClusters |-> IF c \in S THEN has(c) ELSE {}]],
             \A c \in S : files[cmd.from][FileOf[c]].of = c,
             On
      PROVE  Holds
  <2>1. S \in SUBSET RayClusters
    BY <1>0, RayClusterAssumption DEF TypeOK, Command
  <2>2. \A c \in RayClusters : has(c) \in SUBSET Features /\ FileOf[c] \in Files
    BY <1>0, <1>2 DEF TypeOK, Content, Files
  <2>3. /\ cli' \in Process /\ cli'.pc = "confirm" /\ cli'.todo = S
        /\ cli'.copy = [c \in RayClusters |-> IF c \in S THEN has(c) ELSE {}]
        /\ cli'.good = cli.good /\ cli'.bad = cli.bad /\ cli'.stripped = cli.stripped
    BY <1>0, <1>5, <2>1, <2>2 DEF Process
  <2>4. cli.good = {} /\ cli.bad = {} /\ cli.stripped = {}
    BY <1>2 DEF IndInv, Phase, Loading
  <2>5. TypeOK'
    BY <1>0, <1>1, <1>5, <2>3, LimitsType DEF TypeOK, World, On
  <2>6. Phase'
    BY <1>1, <1>2, <2>3, <2>4 DEF Phase, World, Live, Loading, Saving, Migrating
  <2>7. Copies'
    BY <1>1, <1>2, <2>3 DEF IndInv, Copies, World, Live
  <2>8. Cleanness'
    BY <1>1, <1>2, <2>2, <2>3, <2>4 DEF IndInv, Cleanness, World, Live, NoTLS
  <2>9. FilesKept => FilesKept'
    BY <1>1, <1>2, <1>5, <2>3, <2>4 DEF FilesKept, World, Live, WholeIn, Saved, On
  <2> QED
    BY <2>5, <2>6, <2>7, <2>8, <2>9 DEF IndInv, Holds
<1> QED
  BY <1>3, <1>4, <1>5

-----------------------------------------------------------------------------
(* backupCluster.                                                          *)

SameFiles(d) ==
    /\ files'["2.x"][FileOf[d]] = files["2.x"][FileOf[d]]
    /\ files'["3.x"][FileOf[d]] = files["3.x"][FileOf[d]]

LEMMA SavedStays ==
    ASSUME NEW d, SameFiles(d)
    PROVE  /\ Saved(d) => Saved(d)'
           /\ WholeIn("2.x", d) => WholeIn("2.x", d)'
           /\ WholeIn("3.x", d) => WholeIn("3.x", d)'
BY DEF SameFiles, Saved, WholeIn

(* The first of the two files. *)
LEMMA Write2xKeeps ==
    ASSUME IndInv, NEW c \in RayClusters, Write2x(c)
    PROVE  Holds
<1> USE DEF Objs, Same
<1> DEFINE first == [of |-> c, has |-> RemoveAutogeneratedFields(cli.copy[c])]
<1>0. TypeOK /\ cli \in Process /\ Phase
  BY DEF IndInv, TypeOK
<1>1. cli.pc = "write 2.x" /\ Cur(c) /\ UNCHANGED <<rc, sa, dsc, certs, fresh, cmd, run>>
  BY DEF Write2x
<1>2. cmd.do = "backup" /\ Live
  BY <1>0, <1>1 DEF Phase, Saving
<1>3. FileOf[c] \in Files /\ first \in Content /\ Torn(c) \in Content /\ "torn" \notin first.has
  BY <1>0, <1>2 DEF IndInv, Files, Content, Torn, RemoveAutogeneratedFields, Process, Features, Copies
<1>4. \/ Save("2.x", c, first) /\ Goto("write 3.x") /\ On /\ UNCHANGED limits
      \/ Hit /\ (UNCHANGED files \/ Save("2.x", c, Torn(c))) /\ End(TRUE)
  BY DEF Write2x
<1>5. CASE Save("2.x", c, first) /\ Goto("write 3.x") /\ On /\ UNCHANGED limits
  <2>1. cli' \in Process /\ Moved("write 3.x")
    BY <1>0, <1>5, GotoShape DEF PCs, Saving
  <2>2. TypeOK'
    BY <1>0, <1>1, <1>3, <1>5, <2>1, LimitsType DEF TypeOK, Save, On
  <2>3. Phase'
    BY <1>0, <1>1, <1>2, <2>1 DEF Phase, Moved, Kept, Live, Loading, Saving, Migrating
  <2>4. Copies'
    BY <1>1, <2>1 DEF IndInv, Copies, Moved, Kept, Live, Cur
  <2>5. /\ \A f \in Files : files'["3.x"][f] = files["3.x"][f]
        /\ \A f \in Files : f # FileOf[c] => files'["2.x"][f] = files["2.x"][f]
        /\ files'["2.x"][FileOf[c]] = first
    BY <1>0, <1>3, <1>5 DEF Save, TypeOK
  <2>6. Cleanness'
    BY <1>1, <1>2, <2>1, <2>5 DEF IndInv, Cleanness, Moved, Kept, Live, Migrating, Cur
  <2>7. ASSUME Injective, FilesKept PROVE FilesKept'
    <3>1. \A d \in RayClusters : FileOf[d] \in Files /\ (d # c => FileOf[d] # FileOf[c])
      BY <2>7 DEF Injective, Files
    <3>6. \A d \in RayClusters : d # c => SameFiles(d)
      BY <2>5, <3>1 DEF SameFiles
    <3>2. \A d \in {"2.x", "3.x"}, f \in Files : "torn" \in files'[d][f].has => warned'
      BY <1>3, <1>5, <2>5, <2>7 DEF FilesKept, On
    <3>3. \A d \in RayClusters :
            rc'[d].state # "present" => warned' \/ WholeIn("2.x", d)' \/ WholeIn("3.x", d)'
      <4>1. WholeIn("2.x", c)'
        BY <1>3, <2>5 DEF WholeIn
      <4>2. ASSUME NEW d \in RayClusters, d # c, rc[d].state # "present"
            PROVE  warned' \/ WholeIn("2.x", d)' \/ WholeIn("3.x", d)'
        <5>1. warned \/ WholeIn("2.x", d) \/ WholeIn("3.x", d)
          BY <2>7, <4>2 DEF FilesKept
        <5>2. SameFiles(d) /\ warned' = warned
          BY <1>5, <3>6, <4>2 DEF On
        <5> QED
          BY <5>1, <5>2, SavedStays
      <4> QED
        BY <1>1, <4>1, <4>2
    <3>4. \A d \in cli'.good : Saved(d)'
      <4>1. cli'.good = cli.good /\ c \notin cli.good /\ cli.good \subseteq RayClusters
        BY <1>0, <1>1, <2>1 DEF Phase, Cur, Moved, Kept, Process
      <4> QED
        BY <1>2, <2>7, <3>6, <4>1, SavedStays DEF FilesKept
    <3>5. \A d \in RayClusters : Cur(d)' =>
            files'["2.x"][FileOf[d]] = [of |-> d, has |-> RemoveAutogeneratedFields(cli'.copy[d])]
      <4>1. \A d \in RayClusters : Cur(d)' => d = c
        BY <1>1, <2>1, CurUnique DEF Cur, Moved
      <4> QED
        BY <2>1, <2>5, <4>1 DEF Moved, Kept
    <3> QED
      BY <1>1, <1>2, <2>1, <3>2, <3>3, <3>4, <3>5 DEF FilesKept, Moved, Migrating, Live
  <2> QED
    BY <2>2, <2>3, <2>4, <2>6, <2>7 DEF IndInv, Holds
<1>6. CASE Hit /\ (UNCHANGED files \/ Save("2.x", c, Torn(c))) /\ End(TRUE)
  <2>1. cli' \in Process /\ Ended /\ exit' = "failures" /\ warned'
    BY <1>0, <1>2, <1>6, EndShape
  <2>2. TypeOK'
    <3>1. files' \in [{"2.x", "3.x"} -> [Files -> Content]]
      BY <1>0, <1>3, <1>6 DEF Save, TypeOK
    <3>2. warned' \in BOOLEAN
      BY <1>0, <1>6, EndShape DEF TypeOK
    <3>3. events' \in 0 .. MaxEvents /\ expired' \in BOOLEAN
      BY <1>0, <1>6, LimitsType DEF Fails
    <3> QED
      BY <1>0, <1>1, <2>1, <3>1, <3>2, <3>3 DEF TypeOK
  <2>3. Phase'
    BY <2>1 DEF Phase, Ended, Kept, Loading, Saving, Migrating
  <2>4. Copies'
    BY <1>1, <2>1 DEF IndInv, Copies, Ended, Kept, Live, Cur
  <2>5. Cleanness'
    <3>1. \A f \in Files : files'["3.x"][f] = files["3.x"][f]
      BY <1>0, <1>3, <1>6 DEF Save, TypeOK
    <3> QED
      BY <1>1, <1>2, <2>1, <3>1 DEF IndInv, Cleanness, Ended, Kept, Live, Migrating, Cur
  <2>6. ASSUME Injective, FilesKept PROVE FilesKept'
    <3>1. \A d \in RayClusters : d # c => SameFiles(d)
      BY <1>0, <1>6, <2>6 DEF Injective, Files, Save, TypeOK, SameFiles
    <3>2. cli'.good = cli.good /\ c \notin cli.good /\ cli.good \subseteq RayClusters
      BY <1>0, <1>1, <2>1 DEF Phase, Cur, Ended, Kept, Process
    <3>3. \A d \in cli'.good : Saved(d)'
      BY <1>2, <2>6, <3>1, <3>2, SavedStays DEF FilesKept
    <3> QED
      BY <2>1, <3>3 DEF FilesKept, Ended, Migrating
  <2> QED
    BY <2>2, <2>3, <2>4, <2>5, <2>6 DEF IndInv, Holds
<1> QED
  BY <1>4, <1>5, <1>6

(* The second one; when it cannot be written the first one is removed. *)
LEMMA Write3xKeeps ==
    ASSUME IndInv, NEW c \in RayClusters, Write3x(c)
    PROVE  Holds
<1> USE DEF Objs, Same
<1> DEFINE second ==
      [of |-> c, has |-> ProcessRayClusterYAML(RemoveAutogeneratedFields(cli.copy[c]))]
<1>0. TypeOK /\ cli \in Process /\ Phase
  BY DEF IndInv, TypeOK
<1>1. cli.pc = "write 3.x" /\ Cur(c) /\ UNCHANGED <<rc, sa, dsc, certs, fresh, cmd, run>>
  BY DEF Write3x
<1>2. cmd.do = "backup" /\ Live
  BY <1>0, <1>1 DEF Phase, Saving
<1>3. cli.copy[c] \subseteq Features /\ "torn" \notin cli.copy[c]
  BY <1>0, <1>2 DEF IndInv, Process, Copies
<1>4. /\ FileOf[c] \in Files /\ second \in Content /\ Torn(c) \in Content /\ NoFile \in Content
      /\ "torn" \notin second.has /\ NoTLS(second.has)
  BY <1>3 DEF Files, Content, Torn, NoFile, RemoveAutogeneratedFields, ProcessRayClusterYAML, NoTLS,
     Features
<1>5. \/ Save("3.x", c, second) /\ Count(c, "good", "write 2.x") /\ On /\ UNCHANGED limits
      \/ /\ Hit /\ End(TRUE)
         /\ \E content \in {files["3.x"][FileOf[c]], Torn(c)} :
              files' = [files EXCEPT !["2.x"][FileOf[c]] = NoFile, !["3.x"][FileOf[c]] = content]
  BY DEF Write3x
<1>6. CASE Save("3.x", c, second) /\ Count(c, "good", "write 2.x") /\ On /\ UNCHANGED limits
  <2>1. cli' \in Process /\ Counted(c, TRUE, "write 2.x")
    BY <1>0, <1>6, CountShape DEF PCs, Saving
  <2>2. TypeOK'
    BY <1>0, <1>1, <1>4, <1>6, <2>1, LimitsType DEF TypeOK, Save, On
  <2>3. Phase'
    BY <1>0, <1>1, <1>2, <2>1 DEF Phase, Counted, Live, Loading, Saving, Migrating
  <2>4. Copies'
    BY <1>1, <2>1 DEF IndInv, Copies, Counted, Live
  <2>5. /\ \A f \in Files : files'["2.x"][f] = files["2.x"][f]
        /\ \A f \in Files : f # FileOf[c] => files'["3.x"][f] = files["3.x"][f]
        /\ files'["3.x"][FileOf[c]] = second
    BY <1>0, <1>4, <1>6 DEF Save, TypeOK
  <2>6. Cleanness'
    BY <1>1, <1>2, <1>4, <2>1, <2>5 DEF IndInv, Cleanness, Counted, Live, Migrating
  <2>7. ASSUME Injective, FilesKept PROVE FilesKept'
    <3>1. \A d \in RayClusters : FileOf[d] \in Files /\ (d # c => FileOf[d] # FileOf[c])
      BY <2>7 DEF Injective, Files
    <3>2. \A d \in RayClusters : d # c => SameFiles(d)
      BY <2>5, <3>1 DEF SameFiles
    <3>3. \A d \in {"2.x", "3.x"}, f \in Files : "torn" \in files'[d][f].has => warned'
      BY <1>4, <1>6, <2>5, <2>7 DEF FilesKept, On
    <3>4. \A d \in RayClusters :
            rc'[d].state # "present" => warned' \/ WholeIn("2.x", d)' \/ WholeIn("3.x", d)'
      <4>1. WholeIn("3.x", c)'
        BY <1>4, <2>5 DEF WholeIn
      <4>2. ASSUME NEW d \in RayClusters, d # c, rc[d].state # "present"
            PROVE  warned' \/ WholeIn("2.x", d)' \/ WholeIn("3.x", d)'
        <5>1. warned \/ WholeIn("2.x", d) \/ WholeIn("3.x", d)
          BY <2>7, <4>2 DEF FilesKept
        <5>2. SameFiles(d) /\ warned' = warned
          BY <1>6, <3>2, <4>2 DEF On
        <5> QED
          BY <5>1, <5>2, SavedStays
      <4> QED
        BY <1>1, <4>1, <4>2
    <3>5. Saved(c)'
      <4>1. /\ files'["2.x"][FileOf[c]] = [of |-> c, has |-> RemoveAutogeneratedFields(cli.copy[c])]
            /\ files'["3.x"][FileOf[c]] = second
        BY <1>1, <2>5, <2>7, <3>1 DEF FilesKept
      <4>2. RemoveAutogeneratedFields(cli.copy[c]) \ TLSOAuth
              \subseteq second.has \cup {"service account"}
        BY DEF ProcessRayClusterYAML
      <4>3. /\ files'["2.x"][FileOf[c]].of = c /\ files'["3.x"][FileOf[c]].of = c
            /\ files'["2.x"][FileOf[c]].has = RemoveAutogeneratedFields(cli.copy[c])
            /\ files'["3.x"][FileOf[c]].has = second.has
        BY <4>1
      <4>4. "torn" \notin second.has
        BY <1>4
      <4> HIDE DEF second
      <4> QED
        BY <4>2, <4>3, <4>4 DEF Saved
    <3>6. \A d \in cli'.good : Saved(d)'
      <4>1. cli'.good = cli.good \cup {c} /\ cli.good \subseteq RayClusters
        BY <1>0, <2>1 DEF Counted, Process
      <4> QED
        BY <1>2, <2>7, <3>2, <3>5, <4>1, SavedStays DEF FilesKept
    <3> QED
      BY <2>1, <3>3, <3>4, <3>6 DEF FilesKept, Counted, Migrating
  <2> QED
    BY <2>2, <2>3, <2>4, <2>6, <2>7 DEF IndInv, Holds
<1>7. ASSUME Hit, End(TRUE), NEW content \in {files["3.x"][FileOf[c]], Torn(c)},
             files' = [files EXCEPT !["2.x"][FileOf[c]] = NoFile, !["3.x"][FileOf[c]] = content]
      PROVE  Holds
  <2>1. cli' \in Process /\ Ended /\ exit' = "failures" /\ warned'
    BY <1>0, <1>2, <1>7, EndShape
  <2>2. content \in Content /\ NoTLS(content.has)
    <3>1. CASE content = Torn(c)
      BY <1>4, <3>1 DEF Torn, NoTLS, TLSOAuth
    <3>2. CASE content = files["3.x"][FileOf[c]]
      BY <1>0, <1>4, <3>2 DEF TypeOK, IndInv, Cleanness
    <3> QED
      BY <1>7, <3>1, <3>2
  <2>3. /\ files' \in [{"2.x", "3.x"} -> [Files -> Content]]
        /\ \A f \in Files : f # FileOf[c] => files'["3.x"][f] = files["3.x"][f]
        /\ \A f \in Files : f # FileOf[c] => files'["2.x"][f] = files["2.x"][f]
        /\ files'["3.x"][FileOf[c]] = content
    BY <1>0, <1>4, <1>7, <2>2 DEF TypeOK
  <2>4. TypeOK'
    <3>1. warned' \in BOOLEAN
      BY <1>0, <1>7, EndShape DEF TypeOK
    <3>2. events' \in 0 .. MaxEvents /\ expired' \in BOOLEAN
      BY <1>0, <1>7, LimitsType DEF Fails
    <3> QED
      BY <1>0, <1>1, <2>1, <2>3, <3>1, <3>2 DEF TypeOK
  <2>5. Phase'
    BY <2>1 DEF Phase, Ended, Kept, Loading, Saving, Migrating
  <2>6. Copies'
    BY <1>1, <2>1 DEF IndInv, Copies, Ended, Kept, Live, Cur
  <2>7. Cleanness'
    BY <1>1, <1>2, <2>1, <2>2, <2>3 DEF IndInv, Cleanness, Ended, Kept, Live, Migrating
  <2>8. ASSUME Injective, FilesKept PROVE FilesKept'
    <3>1. \A d \in RayClusters : d # c => SameFiles(d)
      BY <2>3, <2>8 DEF Injective, Files, SameFiles
    <3>2. cli'.good = cli.good /\ c \notin cli.good /\ cli.good \subseteq RayClusters
      BY <1>0, <1>1, <2>1 DEF Phase, Cur, Ended, Kept, Process
    <3>3. \A d \in cli'.good : Saved(d)'
      BY <1>2, <2>8, <3>1, <3>2, SavedStays DEF FilesKept
    <3> QED
      BY <2>1, <3>3 DEF FilesKept, Ended, Migrating
  <2> QED
    BY <2>4, <2>5, <2>6, <2>7, <2>8 DEF IndInv, Holds
<1> QED
  BY <1>5, <1>6, <1>7

-----------------------------------------------------------------------------
(* The loop over the RayClusters to migrate.                               *)

(* What a step for c leaves alone, and what may become of the object: it   *)
(* is only taken away by a restore, or when it was on its way out.         *)
For(c) ==
    /\ cli.pc \in Migrating \ {"confirm"} /\ Cur(c) /\ cli' \in Process
    /\ UNCHANGED <<dsc, certs, files, cmd, run, exit, warned>>
    /\ events' \in 0 .. MaxEvents /\ expired' \in BOOLEAN
    /\ sa' \subseteq RayClusters /\ fresh' \subseteq RayClusters \cup {0}
    /\ rc' \in [RayClusters -> RayCluster] /\ "torn" \notin rc'[c].has
    /\ \A d \in RayClusters : d # c => rc'[d] = rc[d]
    /\ rc'[c].state # "present" => rc[c].state # "present" \/ ~Live

LEMMA FilesStay ==
    ASSUME IndInv, FilesKept, NEW c \in RayClusters, For(c),
           cli'.todo \subseteq cli.todo, cli'.pc \in Migrating
    PROVE  FilesKept'
<1>0. /\ TypeOK /\ Phase /\ cli.pc \in Migrating
      /\ UNCHANGED <<files, cmd, warned>> /\ Cur(c)
      /\ \A d \in RayClusters : d # c => rc'[d] = rc[d]
      /\ rc'[c].state # "present" => rc[c].state # "present" \/ ~Live
  BY DEF IndInv, For
<1>1. cmd.do = "migrate" /\ (~Live => cmd.from \in {"2.x", "3.x"})
  <2>1. cmd.do = "migrate" /\ cmd.from # "missing"
    BY <1>0 DEF Phase
  <2>2. cmd.from \in {"live", "2.x", "3.x", "missing"}
    BY <1>0, RayClusterAssumption DEF TypeOK, Command
  <2> QED
    BY <2>1, <2>2 DEF Live
<1>2. \A d \in RayClusters : SameFiles(d)
  BY <1>0 DEF SameFiles
<1>3. ASSUME ~Live PROVE warned \/ WholeIn("2.x", c) \/ WholeIn("3.x", c)
  <2>1. files[cmd.from][FileOf[c]].of = c /\ FileOf[c] \in Files
    BY <1>0, <1>3 DEF FilesKept, Cur, Files
  <2>2. "torn" \in files[cmd.from][FileOf[c]].has => warned
    BY <1>1, <1>3, <2>1 DEF FilesKept
  <2> QED
    BY <1>1, <1>3, <2>1, <2>2 DEF WholeIn
<1>4. \A d \in RayClusters : rc'[d].state # "present" => warned \/ WholeIn("2.x", d) \/ WholeIn("3.x", d)
  BY <1>0, <1>3 DEF FilesKept
<1>5. \A d \in RayClusters :
        rc'[d].state # "present" => warned' \/ WholeIn("2.x", d)' \/ WholeIn("3.x", d)'
  BY <1>0, <1>2, <1>4, SavedStays
<1>6. cli'.pc # "write 3.x" /\ cmd'.do # "backup"
  BY <1>0, <1>1 DEF Migrating
<1> QED
  BY <1>0, <1>5, <1>6 DEF FilesKept, Live

(* A RayCluster is counted. *)
LEMMA CountedKeeps ==
    ASSUME IndInv, NEW c \in RayClusters, For(c), NEW g \in BOOLEAN, Counted(c, g, "get"),
           g => cli.pc = "ready" /\ rc' = rc
    PROVE  Holds
<1>0. TypeOK /\ Phase /\ Copies /\ Cleanness /\ cli \in Process
  BY DEF IndInv, TypeOK
<1>1. TypeOK'
  BY <1>0 DEF TypeOK, For
<1>2. Phase'
  BY <1>0 DEF Phase, For, Counted, Live, Loading, Saving, Migrating
<1>3. Copies'
  <2>1. \A d \in RayClusters : "torn" \notin rc'[d].has
    BY <1>0 DEF Copies, For
  <2> QED
    BY <1>0, <2>1 DEF Copies, For, Counted, Live
<1>4. Cleanness'
  <2>1. cmd.do = "migrate"
    BY <1>0 DEF Phase, For
  <2>2. c \notin cli.good /\ Cur(c) /\ cli'.pc = "get"
    BY <1>0 DEF Phase, For, Cur, Counted
  <2>3. ASSUME NEW d \in RayClusters, d \in cli'.good, cmd.from \in {"live", "3.x"}
        PROVE  NoTLS(rc'[d].has)
    <3>1. CASE d = c
      <4>1. g
        BY <2>2, <2>3, <3>1 DEF Counted
      <4> QED
        BY <1>0, <2>1, <2>2, <2>3, <3>1, <4>1 DEF Cleanness
    <3>2. CASE d # c
      <4>1. d \in cli.good /\ rc'[d] = rc[d]
        BY <2>3, <3>2 DEF Counted, For
      <4> QED
        BY <1>0, <2>1, <2>3, <4>1 DEF Cleanness
    <3> QED
      BY <3>1, <3>2
  <2>4. \A d \in cli'.stripped : d \in cli'.good \cup cli'.bad \cup cli'.todo
    BY <1>0 DEF Cleanness, Counted
  <2> QED
    BY <1>0, <2>2, <2>3, <2>4 DEF Cleanness, For, Counted, Live
<1>5. ASSUME FilesKept PROVE FilesKept'
  BY <1>5, FilesStay DEF Counted, Migrating
<1> QED
  BY <1>1, <1>2, <1>3, <1>4, <1>5 DEF IndInv, Holds

(* A step goes on to the next one for the same RayCluster. *)
LEMMA MovedKeeps ==
    ASSUME IndInv, NEW c \in RayClusters, For(c),
           NEW l \in {"update", "delete", "gone", "create", "ready"}, Moved(l),
           l = "update" => cli.pc = "accounts" /\ fresh' = fresh /\ rc' = rc,
           l \in {"delete", "gone", "create"} => ~Live,
           l = "create" => rc'[c].state = "absent",
           l = "ready" /\ cmd.from \in {"live", "3.x"} => NoTLS(rc'[c].has)
    PROVE  Holds
<1>0. TypeOK /\ Phase /\ Copies /\ Cleanness /\ cli \in Process
  BY DEF IndInv, TypeOK
<1>1. TypeOK'
  BY <1>0 DEF TypeOK, For
<1>2. Phase'
  BY <1>0 DEF Phase, For, Moved, Kept, Live, Loading, Saving, Migrating
<1>3. /\ \A d \in RayClusters : Cur(d)' => d = c
      /\ Cur(c)
  BY CurUnique DEF Cur, Moved, For
<1>4. Copies'
  <2>1. \A d \in RayClusters : "torn" \notin rc'[d].has
    BY <1>0 DEF Copies, For
  <2> QED
    BY <1>0, <1>3, <2>1 DEF Copies, For, Moved, Kept, Live
<1>5. Cleanness'
  <2>1. cmd.do = "migrate" /\ c \notin cli.good /\ cmd' = cmd
    BY <1>0, <1>3 DEF Phase, For, Cur
  <2>2. ASSUME NEW d \in RayClusters, d \in cli'.good \/ (cli'.pc = "ready" /\ Cur(d)'),
               cmd.from \in {"live", "3.x"}
        PROVE  NoTLS(rc'[d].has)
    <3>1. CASE d = c
      BY <2>1, <2>2, <3>1 DEF Moved, Kept
    <3>2. CASE d # c
      <4>1. d \in cli.good /\ rc'[d] = rc[d]
        BY <1>3, <2>2, <3>2 DEF Moved, Kept, For
      <4> QED
        BY <1>0, <2>1, <2>2, <4>1 DEF Cleanness
    <3> QED
      BY <3>1, <3>2
  <2> QED
    BY <1>0, <2>1, <2>2 DEF Cleanness, For, Moved, Kept, Live
<1>6. ASSUME FilesKept PROVE FilesKept'
  BY <1>6, FilesStay DEF Moved, Migrating
<1> QED
  BY <1>1, <1>2, <1>4, <1>5, <1>6 DEF IndInv, Holds

(* A step that leaves the object alone. *)
LEMMA ForSame ==
    ASSUME IndInv, NEW c \in RayClusters, Cur(c), cli.pc \in Migrating \ {"confirm"},
           cli' \in Process, UNCHANGED <<rc, dsc, certs, files, cmd, run, exit, warned>>,
           Works \/ Fails \/ UNCHANGED limits,
           sa' \subseteq RayClusters, fresh' \subseteq RayClusters \cup {0}
    PROVE  For(c)
<1>1. events' \in 0 .. MaxEvents /\ expired' \in BOOLEAN
  BY LimitsType DEF IndInv
<1>2. rc' \in [RayClusters -> RayCluster] /\ "torn" \notin rc'[c].has
  BY DEF IndInv, TypeOK, Copies
<1> QED
  BY <1>1, <1>2 DEF For

(* One that writes it. *)
LEMMA ForWrite ==
    ASSUME IndInv, NEW c \in RayClusters, Cur(c), cli.pc \in Migrating \ {"confirm"},
           cli' \in Process, UNCHANGED <<sa, dsc, certs, files, cmd, run, exit, warned>>,
           Works \/ Fails, fresh' \subseteq RayClusters \cup {0},
           NEW o \in RayCluster, rc' = [rc EXCEPT ![c] = o], "torn" \notin o.has,
           o.state # "present" => rc[c].state # "present" \/ ~Live
    PROVE  For(c) /\ rc'[c] = o
<1>1. events' \in 0 .. MaxEvents /\ expired' \in BOOLEAN /\ sa' \subseteq RayClusters
  BY LimitsType DEF IndInv, TypeOK
<1>2. /\ rc' \in [RayClusters -> RayCluster] /\ rc'[c] = o
      /\ \A d \in RayClusters : d # c => rc'[d] = rc[d]
  BY DEF IndInv, TypeOK
<1> QED
  BY <1>1, <1>2 DEF For

(* A RayCluster is counted as failed and nothing is written. *)
LEMMA BadKeeps ==
    ASSUME IndInv, NEW c \in RayClusters, Cur(c), cli.pc \in Migrating \ {"confirm"},
           UNCHANGED <<rc, sa, dsc, certs, files, fresh, cmd, run, exit, warned>>,
           Works \/ Fails \/ UNCHANGED limits, Count(c, "bad", "get")
    PROVE  Holds
<1>1. cli' \in Process /\ Counted(c, FALSE, "get")
  BY CountShape DEF IndInv, TypeOK, PCs, Migrating
<1>2. For(c)
  BY <1>1, ForSame DEF IndInv, TypeOK
<1> QED
  BY <1>1, <1>2, CountedKeeps

LEMMA GetLiveKeeps ==
    ASSUME IndInv, NEW c \in RayClusters, GetLive(c)
    PROVE  Holds
<1> USE DEF Objs, Same, On
<1>0. TypeOK /\ Phase /\ Copies /\ Cleanness /\ cli \in Process
  BY DEF IndInv, TypeOK
<1>1. /\ cli.pc = "get" /\ Live /\ Cur(c)
      /\ UNCHANGED <<rc, sa, dsc, certs, files, cmd, run, exit, warned>>
  BY DEF GetLive
<1>2. \/ /\ Works /\ cli' = [cli EXCEPT !.pc = "accounts", !.copy[c] = rc[c].has]
         /\ fresh' = fresh \cup {c}
      \/ (Works \/ Fails) /\ Count(c, "bad", "get") /\ UNCHANGED fresh
  BY DEF GetLive
<1>3. CASE (Works \/ Fails) /\ Count(c, "bad", "get") /\ UNCHANGED fresh
  BY <1>1, <1>3, BadKeeps DEF Migrating
<1>4. CASE /\ Works /\ cli' = [cli EXCEPT !.pc = "accounts", !.copy[c] = rc[c].has]
           /\ fresh' = fresh \cup {c}
  <2>1. rc[c].has \in SUBSET Features /\ "torn" \notin rc[c].has
    BY <1>0 DEF TypeOK, RayCluster, Copies
  <2>2. /\ cli' \in Process /\ cli'.pc = "accounts" /\ cli'.todo = cli.todo
        /\ cli'.copy = [cli.copy EXCEPT ![c] = rc[c].has]
        /\ cli'.good = cli.good /\ cli'.bad = cli.bad /\ cli'.stripped = cli.stripped
    BY <1>0, <1>4, <2>1 DEF Process
  <2>3. /\ cli'.copy[c] = rc[c].has
        /\ \A d \in RayClusters : d # c => cli'.copy[d] = cli.copy[d]
    BY <1>0, <2>2 DEF Process
  <2>4. For(c)
    BY <1>0, <1>1, <1>4, <2>2, ForSame DEF TypeOK, Migrating
  <2>5. TypeOK'
    BY <1>0, <2>4 DEF TypeOK, For
  <2>6. Phase'
    BY <1>0, <1>1, <2>2 DEF Phase, Live, Loading, Saving, Migrating
  <2>7. \A d \in RayClusters : Cur(d)' => d = c
    BY <1>1, <2>2, CurUnique DEF Cur
  <2>8. Copies'
    BY <1>0, <1>1, <2>1, <2>2, <2>3, <2>7 DEF Copies, Live
  <2>9. Cleanness'
    BY <1>0, <1>1, <2>2 DEF Cleanness, Live
  <2>10. ASSUME FilesKept PROVE FilesKept'
    BY <2>2, <2>4, <2>10, FilesStay DEF Migrating
  <2> QED
    BY <2>5, <2>6, <2>8, <2>9, <2>10 DEF IndInv, Holds
<1> QED
  BY <1>2, <1>3, <1>4

LEMMA AccountsKeep ==
    ASSUME IndInv, NEW c \in RayClusters, cleanupOldServiceAccounts(c)
    PROVE  Holds
<1> USE DEF Same, On
<1>0. TypeOK /\ Phase /\ Copies /\ Cleanness /\ cli \in Process
  BY DEF IndInv, TypeOK
<1>1. /\ cli.pc = "accounts" /\ Cur(c)
      /\ UNCHANGED <<rc, dsc, certs, files, fresh, cmd, run, exit, warned>>
  BY DEF cleanupOldServiceAccounts
<1>2. \/ /\ Works /\ sa' = sa \ {c}
         /\ cli' = [cli EXCEPT !.pc = "update", !.stripped = @ \cup {c}]
      \/ Fails /\ Goto("update") /\ UNCHANGED sa
  BY DEF cleanupOldServiceAccounts
<1>3. CASE Fails /\ Goto("update") /\ UNCHANGED sa
  <2>1. cli' \in Process /\ Moved("update")
    BY <1>0, <1>3, GotoShape DEF PCs, Migrating
  <2>2. For(c)
    BY <1>0, <1>1, <1>3, <2>1, ForSame DEF TypeOK, Migrating
  <2> QED
    BY <1>1, <2>1, <2>2, MovedKeeps
<1>4. CASE /\ Works /\ sa' = sa \ {c}
           /\ cli' = [cli EXCEPT !.pc = "update", !.stripped = @ \cup {c}]
  <2>1. /\ cli' \in Process /\ cli'.pc = "update" /\ cli'.todo = cli.todo
        /\ cli'.copy = cli.copy /\ cli'.good = cli.good /\ cli'.bad = cli.bad
        /\ cli'.stripped = cli.stripped \cup {c}
    BY <1>0, <1>4 DEF Process
  <2>2. For(c)
    BY <1>0, <1>1, <1>4, <2>1, ForSame DEF TypeOK, Migrating
  <2>3. TypeOK'
    BY <1>0, <2>2 DEF TypeOK, For
  <2>4. Phase'
    BY <1>0, <1>1, <2>1 DEF Phase, Live, Loading, Saving, Migrating
  <2>5. Copies'
    BY <1>0, <1>1, <2>1 DEF Copies, Live, Cur
  <2>6. cmd.do = "migrate" /\ Live /\ c \in cli.todo
    BY <1>0, <1>1 DEF Phase, Cur, Migrating
  <2>7. Cleanness'
    BY <1>0, <1>1, <2>1, <2>6 DEF Cleanness, Live
  <2>8. ASSUME FilesKept PROVE FilesKept'
    BY <2>1, <2>2, <2>8, FilesStay DEF Migrating
  <2> QED
    BY <2>3, <2>4, <2>5, <2>7, <2>8 DEF IndInv, Holds
<1> QED
  BY <1>2, <1>3, <1>4

LEMMA UpdateLiveKeeps ==
    ASSUME IndInv, NEW c \in RayClusters, UpdateLive(c)
    PROVE  Holds
<1> USE DEF Same, On
<1>0. TypeOK /\ Phase /\ Copies /\ Cleanness /\ cli \in Process
  BY DEF IndInv, TypeOK
<1>1. /\ cli.pc = "update" /\ Cur(c) /\ cli.pc \in Migrating \ {"confirm"}
      /\ UNCHANGED <<sa, dsc, certs, files, cmd, run, exit, warned>>
  BY DEF UpdateLive, Migrating
<1>2. \/ /\ Works \/ Fails
         /\ rc' = [rc EXCEPT ![c] = Cleaned(c)] /\ fresh' = fresh \ {c}
         /\ Goto("ready") \/ Count(c, "bad", "get")
      \/ (Works \/ Fails) /\ Count(c, "bad", "get") /\ UNCHANGED <<rc, fresh>>
  BY DEF UpdateLive, Fails
<1>3. CASE (Works \/ Fails) /\ Count(c, "bad", "get") /\ UNCHANGED <<rc, fresh>>
  BY <1>1, <1>3, BadKeeps
<1>4. CASE /\ Works \/ Fails
           /\ rc' = [rc EXCEPT ![c] = Cleaned(c)] /\ fresh' = fresh \ {c}
           /\ Goto("ready") \/ Count(c, "bad", "get")
  <2>1. cli.copy[c] \subseteq Features /\ "torn" \notin cli.copy[c] /\ rc[c] \in RayCluster
    BY <1>0, <1>1 DEF Process, Phase, Copies, TypeOK
  <2>2. /\ Cleaned(c) \in RayCluster /\ "torn" \notin Cleaned(c).has /\ NoTLS(Cleaned(c).has)
        /\ Cleaned(c).state # "present" => rc[c].state # "present"
    BY <2>1 DEF Cleaned, RayCluster, NoTLS, ProcessRayClusterYAML, RemoveAutogeneratedFields
  <2>3. fresh' \subseteq RayClusters \cup {0}
    BY <1>0, <1>4 DEF TypeOK
  <2>4. CASE Goto("ready")
    <3>1. cli' \in Process /\ Moved("ready")
      BY <1>0, <2>4, GotoShape DEF PCs, Migrating
    <3>2. For(c) /\ rc'[c] = Cleaned(c)
      BY <1>1, <1>4, <2>2, <2>3, <3>1, ForWrite
    <3> QED
      BY <2>2, <3>1, <3>2, MovedKeeps
  <2>5. CASE Count(c, "bad", "get")
    <3>1. cli' \in Process /\ Counted(c, FALSE, "get")
      BY <1>0, <2>5, CountShape DEF PCs, Migrating
    <3>2. For(c)
      BY <1>1, <1>4, <2>2, <2>3, <3>1, ForWrite
    <3> QED
      BY <3>1, <3>2, CountedKeeps
  <2> QED
    BY <1>4, <2>4, <2>5
<1> QED
  BY <1>2, <1>3, <1>4

LEMMA WaitReadyKeeps ==
    ASSUME IndInv, NEW c \in RayClusters, WaitReady(c)
    PROVE  Holds
<1>1. /\ cli.pc = "ready" /\ cli.pc \in Migrating \ {"confirm"} /\ Cur(c) /\ Count(c, "good", "get")
      /\ UNCHANGED <<rc, sa, dsc, certs, files, fresh, cmd, run, exit, warned, limits>>
  BY DEF WaitReady, Objs, Same, On, Migrating
<1>2. cli' \in Process /\ Counted(c, TRUE, "get")
  BY <1>1, CountShape DEF IndInv, TypeOK, PCs, Migrating
<1>3. For(c)
  BY <1>1, <1>2, ForSame DEF IndInv, TypeOK
<1> QED
  BY <1>1, <1>2, <1>3, CountedKeeps

(* The steps of a restore. *)
LEMMA MovesOn ==
    ASSUME IndInv, NEW c \in RayClusters, Cur(c), cli.pc \in Migrating \ {"confirm"}, ~Live,
           UNCHANGED <<rc, sa, dsc, certs, files, fresh, cmd, run, exit, warned>>,
           Works \/ Fails, NEW l \in {"delete", "create"}, Goto(l),
           l = "create" => rc[c].state = "absent"
    PROVE  Holds
<1>1. cli' \in Process /\ Moved(l)
  BY GotoShape DEF IndInv, TypeOK, PCs, Migrating
<1>2. For(c)
  BY <1>1, ForSame DEF IndInv, TypeOK
<1> QED
  BY <1>1, <1>2, MovedKeeps

LEMMA CheckExistingKeeps ==
    ASSUME IndInv, NEW c \in RayClusters, CheckExisting(c)
    PROVE  Holds
<1>1. /\ cli.pc \in Migrating \ {"confirm"} /\ Cur(c) /\ ~Live
      /\ UNCHANGED <<rc, sa, dsc, certs, files, fresh, cmd, run, exit, warned>>
  BY DEF CheckExisting, Objs, Same, On, Migrating
<1>2. \/ Works /\ \E l \in {"delete", "create"} : Goto(l) /\ (l = "create" => rc[c].state = "absent")
      \/ (Fails \/ UNCHANGED limits) /\ Count(c, "bad", "get")
  <2>1. \/ Works /\ Goto(IF rc[c].state = "absent" THEN "create" ELSE "delete")
        \/ (Fails \/ UNCHANGED limits) /\ Count(c, "bad", "get")
    BY DEF CheckExisting
  <2> QED
    BY <2>1
<1> QED
  BY <1>1, <1>2, MovesOn, BadKeeps

LEMMA WaitForDeletionKeeps ==
    ASSUME IndInv, NEW c \in RayClusters, waitForDeletion(c)
    PROVE  Holds
<1>1. /\ cli.pc \in Migrating \ {"confirm"} /\ Cur(c) /\ ~Live
      /\ UNCHANGED <<rc, sa, dsc, certs, files, fresh, cmd, run, exit, warned>>
  BY DEF waitForDeletion, Objs, Same, On, Migrating, IndInv, Phase
<1>2. \/ Works /\ Goto("create") /\ rc[c].state = "absent"
      \/ (Fails \/ UNCHANGED limits) /\ Count(c, "bad", "get")
  BY DEF waitForDeletion
<1> QED
  BY <1>1, <1>2, MovesOn, BadKeeps

(* A restore writes the object, or takes it away. *)
LEMMA RestoreWrites ==
    ASSUME IndInv, NEW c \in RayClusters, Cur(c), cli.pc \in {"delete", "create"},
           UNCHANGED <<sa, dsc, certs, files, fresh, cmd, run, exit, warned>>, Works \/ Fails,
           NEW o \in RayCluster, rc' = [rc EXCEPT ![c] = o], "torn" \notin o.has,
           NEW l \in {"gone", "ready"}, Goto(l) \/ Count(c, "bad", "get"),
           l = "ready" /\ cmd.from = "3.x" => NoTLS(o.has)
    PROVE  Holds
<1>0. cli \in Process /\ ~Live /\ fresh' \subseteq RayClusters \cup {0}
      /\ cli.pc \in Migrating \ {"confirm"}
  BY DEF IndInv, TypeOK, Phase, Migrating
<1>1. CASE Goto(l)
  <2>1. cli' \in Process /\ Moved(l)
    BY <1>0, <1>1, GotoShape DEF PCs, Migrating
  <2>2. For(c) /\ rc'[c] = o
    BY <1>0, <2>1, ForWrite
  <2> QED
    BY <1>0, <2>1, <2>2, MovedKeeps DEF Live
<1>2. CASE Count(c, "bad", "get")
  <2>1. cli' \in Process /\ Counted(c, FALSE, "get")
    BY <1>0, <1>2, CountShape DEF PCs, Migrating
  <2>2. For(c)
    BY <1>0, <2>1, ForWrite
  <2> QED
    BY <2>1, <2>2, CountedKeeps
<1> QED
  BY <1>1, <1>2

LEMMA DeleteKeeps ==
    ASSUME IndInv, NEW c \in RayClusters, Delete(c)
    PROVE  Holds
<1>1. /\ cli.pc = "delete" /\ Cur(c) /\ cli.pc \in Migrating \ {"confirm"}
      /\ UNCHANGED <<sa, dsc, certs, files, fresh, cmd, run, exit, warned>>
  BY DEF Delete, Same, On, Migrating
<1>2. \/ (Works \/ Fails) /\ Deleted(c) /\ (Goto("gone") \/ Count(c, "bad", "get"))
      \/ (Works \/ Fails) /\ UNCHANGED rc /\ Count(c, "bad", "get")
  BY DEF Delete, Fails
<1>3. rc \in [RayClusters -> RayCluster] /\ "torn" \notin rc[c].has
  BY DEF IndInv, TypeOK, Copies
<1>4. Deleted(c) => \E o \in RayCluster : "torn" \notin o.has /\ rc' = [rc EXCEPT ![c] = o]
  <2> DEFINE o == IF "finalizers" \in rc[c].has THEN [rc[c] EXCEPT !.state = "terminating"]
                                                ELSE [state |-> "absent", has |-> {}]
  <2>1. o \in RayCluster /\ "torn" \notin o.has
    BY <1>3 DEF RayCluster
  <2>2. Deleted(c) => rc' = [rc EXCEPT ![c] = o]
    BY <1>3 DEF Deleted
  <2> HIDE DEF o
  <2> QED
    BY <2>1, <2>2
<1>5. CASE (Works \/ Fails) /\ Deleted(c) /\ (Goto("gone") \/ Count(c, "bad", "get"))
  BY <1>1, <1>4, <1>5, RestoreWrites
<1>6. CASE (Works \/ Fails) /\ UNCHANGED rc /\ Count(c, "bad", "get")
  BY <1>1, <1>6, BadKeeps
<1> QED
  BY <1>2, <1>5, <1>6

LEMMA CreateKeeps ==
    ASSUME IndInv, NEW c \in RayClusters, Create(c)
    PROVE  Holds
<1> DEFINE new == [state |-> "present", has |-> RemoveKueueWorkloadAnnotations(cli.copy[c])]
<1>1. /\ cli.pc = "create" /\ Cur(c) /\ cli.pc \in Migrating \ {"confirm"}
      /\ UNCHANGED <<sa, dsc, certs, files, fresh, cmd, run, exit, warned>>
  BY DEF Create, Same, On, Migrating
<1>2. \/ /\ Works \/ Fails
         /\ "torn" \notin cli.copy[c] /\ rc' = [rc EXCEPT ![c] = new]
         /\ Goto("ready") \/ Count(c, "bad", "get")
      \/ (Works \/ Fails) /\ UNCHANGED rc /\ Count(c, "bad", "get")
  BY DEF Create, Fails
<1>3. /\ new \in RayCluster
      /\ "torn" \notin cli.copy[c] => "torn" \notin new.has
      /\ cmd.from = "3.x" => NoTLS(new.has)
  <2>1. cli.copy[c] \subseteq Features
    BY DEF IndInv, TypeOK, Process
  <2>2. cmd.from = "3.x" => NoTLS(cli.copy[c])
    BY <1>1 DEF IndInv, Cleanness
  <2> QED
    BY <2>1, <2>2 DEF RayCluster, RemoveKueueWorkloadAnnotations, NoTLS
<1>4. CASE /\ Works \/ Fails
           /\ "torn" \notin cli.copy[c] /\ rc' = [rc EXCEPT ![c] = new]
           /\ Goto("ready") \/ Count(c, "bad", "get")
  <2> HIDE DEF new
  <2> QED
    BY <1>1, <1>3, <1>4, RestoreWrites
<1>5. CASE (Works \/ Fails) /\ UNCHANGED rc /\ Count(c, "bad", "get")
  BY <1>1, <1>5, BadKeeps
<1> QED
  BY <1>2, <1>4, <1>5

-----------------------------------------------------------------------------
(* The rest of the world.                                                  *)

(* A user or an operator changes an object, to no more TLS or OAuth. *)
LEMMA TouchKeeps ==
    ASSUME IndInv, NEW c \in RayClusters, NEW o \in RayCluster, rc' = [rc EXCEPT ![c] = o],
           "torn" \notin o.has, o.has \cap TLSOAuth \subseteq rc[c].has,
           o.state # "present" => rc[c].state # "present",
           rc[c].state = "absent" => o.state = "absent",
           fresh' = fresh \ {c}, UNCHANGED <<sa, dsc, certs, files, cmd, run, cli, exit, warned>>,
           events' \in 0 .. MaxEvents, expired' \in BOOLEAN
    PROVE  Holds
<1>0. TypeOK /\ Phase /\ Copies /\ Cleanness
  BY DEF IndInv
<1>1. /\ rc' \in [RayClusters -> RayCluster] /\ rc'[c] = o
      /\ \A d \in RayClusters : d # c => rc'[d] = rc[d]
  BY <1>0 DEF TypeOK
<1>2. TypeOK'
  BY <1>0, <1>1 DEF TypeOK
<1>3. Phase'
  BY <1>0 DEF Phase, Live
<1>4. Copies'
  <2>1. \A d \in RayClusters : "torn" \notin rc'[d].has
    BY <1>0, <1>1 DEF Copies
  <2>2. \A d \in RayClusters : d \in fresh' => d \in fresh /\ rc'[d] = rc[d]
    BY <1>1
  <2>3. \A d \in RayClusters : rc[d].state = "absent" => rc'[d].state = "absent"
    BY <1>1
  <2>4. 0 \in fresh' => 0 \in fresh
    OBVIOUS
  <2> QED
    BY <1>0, <2>1, <2>2, <2>3, <2>4 DEF Copies, Live, Cur
<1>5. Cleanness'
  <2>1. \A d \in RayClusters : NoTLS(rc[d].has) => NoTLS(rc'[d].has)
    BY <1>1 DEF NoTLS
  <2> QED
    BY <1>0, <2>1 DEF Cleanness, Live, Cur
<1>6. ASSUME FilesKept PROVE FilesKept'
  <2>1. \A d \in RayClusters : rc'[d].state # "present" => rc[d].state # "present"
    BY <1>1
  <2> QED
    BY <1>6, <2>1 DEF FilesKept, WholeIn, Saved, Live, Cur
<1> QED
  BY <1>2, <1>3, <1>4, <1>5, <1>6 DEF IndInv, Holds

LEMMA EditKeeps ==
    ASSUME IndInv, NEW c \in RayClusters, Edit(c)
    PROVE  Holds
<1> DEFINE o == [rc[c] EXCEPT !.has = @ \cup {"edited"}]
<1>1. rc \in [RayClusters -> RayCluster] /\ "torn" \notin rc[c].has
  BY DEF IndInv, TypeOK, Copies
<1>2. /\ o \in RayCluster /\ "torn" \notin o.has /\ o.has \cap TLSOAuth \subseteq rc[c].has
      /\ o.state = rc[c].state
  BY <1>1 DEF RayCluster, Features, TLSOAuth
<1>3. rc' = [rc EXCEPT ![c] = o]
  BY <1>1 DEF Edit
<1>4. events' \in 0 .. MaxEvents /\ expired' \in BOOLEAN
  BY RayClusterAssumption DEF IndInv, TypeOK, Edit
<1>5. fresh' = fresh \ {c} /\ UNCHANGED <<sa, dsc, certs, files, cmd, run, cli, exit, warned>>
  BY DEF Edit, Same, On
<1> HIDE DEF o
<1> QED
  BY <1>2, <1>3, <1>4, <1>5, TouchKeeps

LEMMA OperatorKeeps ==
    ASSUME IndInv, NEW c \in RayClusters, Operator(c)
    PROVE  Holds
<1> DEFINE secured == [rc[c] EXCEPT !.has = @ \cup {"secure"}]
           gone == [state |-> "absent", has |-> {}]
<1>1. rc \in [RayClusters -> RayCluster] /\ "torn" \notin rc[c].has
  BY DEF IndInv, TypeOK, Copies
<1>2. /\ secured \in RayCluster /\ "torn" \notin secured.has
      /\ secured.has \cap TLSOAuth \subseteq rc[c].has /\ secured.state = rc[c].state
  BY <1>1 DEF RayCluster, Features, TLSOAuth
<1>3. gone \in RayCluster /\ gone.has = {} /\ gone.state = "absent"
  BY DEF RayCluster
<1>4. \/ rc' = [rc EXCEPT ![c] = secured]
      \/ rc[c].state = "terminating" /\ rc' = [rc EXCEPT ![c] = gone]
  BY <1>1 DEF Operator
<1>5. events' \in 0 .. MaxEvents /\ expired' \in BOOLEAN
  BY DEF IndInv, TypeOK, Operator, limits
<1>6. fresh' = fresh \ {c} /\ UNCHANGED <<sa, dsc, certs, files, cmd, run, cli, exit, warned>>
  BY DEF Operator, Same, On
<1> HIDE DEF secured, gone
<1>7. CASE rc' = [rc EXCEPT ![c] = secured]
  BY <1>2, <1>5, <1>6, <1>7, TouchKeeps
<1>8. CASE rc[c].state = "terminating" /\ rc' = [rc EXCEPT ![c] = gone]
  BY <1>3, <1>5, <1>6, <1>8, TouchKeeps
<1> QED
  BY <1>4, <1>7, <1>8

(* Time passes, an administrator edits the DataScienceCluster. *)
LEMMA OutsideKeeps ==
    ASSUME IndInv, Expire \/ EditDSC \/ UNCHANGED vars
    PROVE  Holds
<1>1. /\ UNCHANGED <<rc, sa, certs, files, cmd, run, cli, exit, warned>>
      /\ fresh' \subseteq fresh /\ (dsc' = dsc \/ 0 \notin fresh')
  BY DEF Expire, EditDSC, vars, Objs, Same, On
<1>2. dsc' \in CodeFlare /\ events' \in 0 .. MaxEvents /\ expired' \in BOOLEAN
  <2>1. CASE Expire
    BY <2>1, RayClusterAssumption DEF IndInv, TypeOK, Expire
  <2>2. CASE EditDSC
    BY <2>2, RayClusterAssumption DEF IndInv, TypeOK, EditDSC, CodeFlare
  <2>3. CASE UNCHANGED vars
    BY <2>3 DEF IndInv, TypeOK, vars, limits
  <2> QED
    BY <2>1, <2>2, <2>3
<1>3. TypeOK'
  BY <1>1, <1>2 DEF IndInv, TypeOK
<1>4. Phase'
  BY <1>1 DEF IndInv, Phase, Live
<1>5. Copies'
  BY <1>1 DEF IndInv, Copies, Live, Cur
<1>6. Cleanness'
  BY <1>1 DEF IndInv, Cleanness, Live, Cur
<1>7. FilesKept => FilesKept'
  BY <1>1 DEF FilesKept, WholeIn, Saved, Live, Cur
<1> QED
  BY <1>3, <1>4, <1>5, <1>6, <1>7 DEF IndInv, Holds

(* A process that has gone, or has just begun, holds nothing. *)
LEMMA EmptyKeeps ==
    ASSUME IndInv, cli' \in Process, cli'.pc \in {"start", "idle"}, cli'.todo = {},
           cli'.copy = [c \in RayClusters |-> {}], cli'.good = {}, cli'.bad = {},
           cli'.stripped = {},
           TypeOK', UNCHANGED <<rc, dsc>>,
           \A f \in Files : NoTLS(files'["3.x"][f].has),
           \/ warned'
           \/ UNCHANGED <<files, warned>>
    PROVE  Holds
<1>1. Phase'
  BY DEF Phase, Saving, Migrating
<1>2. Copies'
  BY DEF IndInv, Copies, Cur
<1>3. Cleanness'
  BY DEF Cleanness, Migrating
<1>4. ASSUME FilesKept PROVE FilesKept'
  <2>1. CASE warned'
    BY <2>1 DEF FilesKept, Migrating
  <2>2. CASE UNCHANGED <<files, warned>>
    BY <1>4, <2>2 DEF FilesKept, WholeIn, Migrating
  <2> QED
    BY <2>1, <2>2
<1> QED
  BY <1>1, <1>2, <1>3, <1>4 DEF IndInv, Holds

LEMMA RunAgainKeeps ==
    ASSUME IndInv, RunAgain
    PROVE  Holds
<1>1. cli' = Started /\ UNCHANGED <<rc, sa, dsc, certs, files, warned, events>>
  BY DEF RunAgain, Objs
<1>2. TypeOK'
  <2>1. run' \in 1 .. MaxRuns
    BY RayClusterAssumption DEF IndInv, TypeOK, RunAgain
  <2> QED
    BY <1>1, <2>1, StartedShape DEF IndInv, TypeOK, RunAgain
<1> QED
  BY <1>1, <1>2, StartedShape, EmptyKeeps DEF IndInv, Cleanness

LEMMA KilledKeeps ==
    ASSUME IndInv, Killed
    PROVE  Holds
<1>0. TypeOK /\ Phase /\ Cleanness
  BY DEF IndInv
<1>1. /\ cli' = [Started EXCEPT !.pc = "idle"] /\ exit' = "killed"
      /\ UNCHANGED <<rc, sa, dsc, certs, cmd, run, fresh>>
      /\ warned' = (warned \/ cmd.do = "backup")
  BY DEF Killed, Objs, Same
<1>2. /\ cli' \in Process /\ cli'.pc = "idle" /\ cli'.todo = {}
      /\ cli'.copy = [c \in RayClusters |-> {}]
      /\ cli'.good = {} /\ cli'.bad = {} /\ cli'.stripped = {}
  BY <1>1, StartedShape DEF Process
<1>3. events' \in 0 .. MaxEvents /\ expired' \in BOOLEAN /\ warned' \in BOOLEAN
  <2>1. events < MaxEvents /\ events' = events + 1 /\ UNCHANGED expired
    BY DEF Killed
  <2> QED
    BY <1>0, <1>1, <2>1, RayClusterAssumption DEF TypeOK
<1>4. \/ UNCHANGED files
      \/ /\ cli.pc \in Saving
         /\ \E c \in RayClusters, d \in {"2.x", "3.x"} : Save(d, c, Torn(c))
  BY DEF Killed, Saving
<1>5. CASE UNCHANGED files
  <2>1. TypeOK'
    BY <1>0, <1>1, <1>2, <1>3, <1>5 DEF TypeOK
  <2>2. warned' \/ UNCHANGED <<files, warned>>
    <3>1. CASE cmd.do = "backup"
      BY <1>1, <3>1
    <3>2. CASE cmd.do # "backup"
      <4>1. warned' = (warned \/ FALSE)
        BY <1>1, <3>2
      <4>2. warned' = warned
        BY <1>0, <4>1 DEF TypeOK
      <4> QED
        BY <1>5, <4>2
    <3> QED
      BY <3>1, <3>2
  <2> QED
    BY <1>0, <1>1, <1>2, <1>5, <2>1, <2>2, EmptyKeeps DEF Cleanness
<1>6. ASSUME cli.pc \in Saving, NEW c \in RayClusters, NEW d \in {"2.x", "3.x"}, Save(d, c, Torn(c))
      PROVE  Holds
  <2>1. FileOf[c] \in Files /\ Torn(c) \in Content /\ NoTLS(Torn(c).has)
    BY DEF Files, Torn, Content, NoTLS, Features, TLSOAuth
  <2>2. files' \in [{"2.x", "3.x"} -> [Files -> Content]]
    BY <1>0, <1>6, <2>1 DEF TypeOK, Save
  <2>3. \A f \in Files : files'["3.x"][f] \in {files["3.x"][f], Torn(c)}
    BY <1>0, <1>6, <2>1 DEF TypeOK, Save
  <2>4. \A f \in Files : NoTLS(files'["3.x"][f].has)
    BY <1>0, <2>1, <2>3 DEF Cleanness
  <2>5. TypeOK'
    BY <1>0, <1>1, <1>2, <1>3, <2>2 DEF TypeOK
  <2>6. warned'
    BY <1>0, <1>1, <1>6 DEF Phase
  <2> QED
    BY <1>1, <1>2, <2>4, <2>5, <2>6, EmptyKeeps
<1> QED
  BY <1>4, <1>5, <1>6

-----------------------------------------------------------------------------
LEMMA IndInit ==
    ASSUME Init
    PROVE  IndInv /\ FilesKept
<1>0. PICK o \in Objects : rc = [c \in RayClusters |-> [state |-> "present", has |-> o[c]]]
  BY DEF Init
<1>1. /\ cli = Started /\ cmd \in Commands /\ dsc \in CodeFlare /\ fresh = {} /\ warned = FALSE
      /\ files = [d \in {"2.x", "3.x"} |-> [f \in Files |-> NoFile]]
  BY DEF Init
<1>2. /\ \A c \in RayClusters : o[c] \in SUBSET Features /\ "torn" \notin o[c]
      /\ rc \in [RayClusters -> RayCluster]
  BY <1>0, RayClusterAssumption DEF RayCluster
<1>3. files \in [{"2.x", "3.x"} -> [Files -> Content]] /\ NoTLS(NoFile.has) /\ "torn" \notin NoFile.has
  BY <1>1 DEF NoFile, Content, NoTLS
<1>4. TypeOK
  <2>1. sa \subseteq RayClusters /\ certs \in BOOLEAN /\ run = 1 /\ exit = "none" /\ events = 0
        /\ expired = FALSE
    BY DEF Init
  <2>2. run \in 1 .. MaxRuns /\ events \in 0 .. MaxEvents
    BY <2>1, RayClusterAssumption
  <2> QED
    BY <1>1, <1>2, <1>3, <2>1, <2>2, StartedShape DEF TypeOK
<1>5. Phase
  BY <1>1, StartedShape DEF Phase, Saving, Migrating
<1>6. Copies
  BY <1>0, <1>1, <1>2, StartedShape DEF Copies, Cur
<1>7. Cleanness
  <2>1. \A f \in Files : NoTLS(files["3.x"][f].has)
    BY <1>1, <1>3
  <2> QED
    BY <1>1, <2>1, StartedShape DEF Cleanness, Migrating
<1>8. FilesKept
  <2>1. \A d \in {"2.x", "3.x"}, f \in Files : "torn" \notin files[d][f].has
    BY <1>1, <1>3
  <2>2. \A c \in RayClusters : rc[c].state = "present"
    BY <1>0
  <2> QED
    BY <1>1, <2>1, <2>2, StartedShape DEF FilesKept, Migrating
<1> QED
  BY <1>4, <1>5, <1>6, <1>7, <1>8 DEF IndInv

LEMMA IndStep ==
    ASSUME IndInv, [Next]_vars
    PROVE  Holds
<1>1. CASE \/ Start \/ CheckCluster \/ checkCodeflareOperator \/ ListFails \/ NilCluster
           \/ Confirm \/ MissingBackup \/ AllDone \/ UpdateDSC
  <2>1. Quiet
    BY <1>1, QuietSteps DEF IndInv
  <2> QED
    BY <2>1, QuietKeeps DEF Holds
<1>2. CASE GetLatest
  BY <1>2, GetLatestKeeps
<1>3. CASE BackupLists \/ LiveLists
  BY <1>3, ListsKeep
<1>4. CASE BackupItems
  BY <1>4, BackupItemsKeeps
<1>5. ASSUME NEW c \in RayClusters, Write2x(c) \/ Write3x(c)
      PROVE  Holds
  BY <1>5, Write2xKeeps, Write3xKeeps
<1>6. ASSUME NEW c \in RayClusters,
             GetLive(c) \/ cleanupOldServiceAccounts(c) \/ UpdateLive(c) \/ WaitReady(c)
      PROVE  Holds
  BY <1>6, GetLiveKeeps, AccountsKeep, UpdateLiveKeeps, WaitReadyKeeps
<1>7. ASSUME NEW c \in RayClusters,
             CheckExisting(c) \/ Delete(c) \/ waitForDeletion(c) \/ Create(c)
      PROVE  Holds
  BY <1>7, CheckExistingKeeps, DeleteKeeps, WaitForDeletionKeeps, CreateKeeps
<1>8. CASE Expire \/ EditDSC \/ Over \/ UNCHANGED vars
  BY <1>8, OutsideKeeps DEF Over
<1>9. CASE Killed
  BY <1>9, KilledKeeps
<1>10. CASE RunAgain
  BY <1>10, RunAgainKeeps
<1>11. ASSUME NEW c \in RayClusters, Edit(c) \/ Operator(c) PROVE Holds
  BY <1>11, EditKeeps, OperatorKeeps
<1> QED
  BY <1>1, <1>2, <1>3, <1>4, <1>5, <1>6, <1>7, <1>8, <1>9, <1>10, <1>11 DEF Next, CLI

-----------------------------------------------------------------------------
LEMMA Invariance == Spec => []IndInv
<1>1. Init => IndInv
  BY IndInit
<1>2. IndInv /\ [Next]_vars => IndInv'
  BY IndStep DEF Holds
<1> QED
  BY <1>1, <1>2, PTL DEF Spec

(* Every variable keeps its type, for any set of RayClusters and any bounds. *)
THEOREM TypeCorrect == Spec => []TypeOK
<1>1. IndInv => TypeOK
  BY DEF IndInv
<1> QED
  BY <1>1, Invariance, PTL

(* What raycluster.migrate counts as migrated has no TLS or OAuth part, and *)
(* what has lost its ServiceAccount but not its oauth-proxy is counted as   *)
(* failed or still in work, whoever edits, fails or dies in between.        *)
THEOREM CountsAreTrue == Spec => []CountedIsTrue
<1>1. ASSUME IndInv PROVE CountedIsTrue
  <2>0. cli \in Process /\ Cleanness
    BY <1>1 DEF IndInv, TypeOK
  <2>1. ASSUME cmd.do = "migrate", cmd.from \in {"live", "3.x"}, NEW c \in cli.good
        PROVE  ~HasTLSOAuthComponents(rc[c].has)
    <3>1. c \in RayClusters
      BY <2>0, <2>1 DEF Process
    <3>2. NoTLS(rc[c].has)
      BY <2>0, <2>1, <3>1 DEF Cleanness
    <3> QED
      BY <3>2 DEF NoTLS, HasTLSOAuthComponents
  <2>2. ASSUME NEW c \in cli.stripped, "oauth-proxy" \in rc[c].has
        PROVE  c \in cli.bad \cup cli.todo
    <3>1. c \in cli.good \cup cli.bad \cup cli.todo /\ cmd.do = "migrate" /\ cmd.from = "live"
      BY <2>0, <2>2 DEF Cleanness, Live
    <3>2. c \in cli.good => ~HasTLSOAuthComponents(rc[c].has)
      BY <2>1, <3>1
    <3>3. HasTLSOAuthComponents(rc[c].has)
      BY <2>2 DEF HasTLSOAuthComponents, TLSOAuth
    <3> QED
      BY <3>1, <3>2, <3>3
  <2> QED
    BY <2>1, <2>2 DEF CountedIsTrue
<1> QED
  BY <1>1, Invariance, PTL

LEMMA FilesInvariance ==
    ASSUME Injective
    PROVE  Spec => [](IndInv /\ FilesKept)
<1>1. Init => IndInv /\ FilesKept
  BY IndInit
<1>2. (IndInv /\ FilesKept) /\ [Next]_vars => (IndInv /\ FilesKept)'
  BY IndStep DEF Holds
<1> QED
  BY <1>1, <1>2, PTL DEF Spec

(* With file names that tell the RayClusters apart, one that is gone is in  *)
(* a whole file of one of the two backups, unless a backup has failed: no   *)
(* restore, kill or failure loses it.                                       *)
THEOREM GoneIsRecoverable ==
    ASSUME Injective
    PROVE  Spec => []Recoverable
<1>1. IndInv /\ FilesKept => Recoverable
  <2> SUFFICES ASSUME FilesKept, NEW c \in RayClusters, rc[c].state = "absent"
               PROVE  \/ warned
                      \/ \E d \in {"2.x", "3.x"} :
                           LET f == files[d][FileOf[c]] IN f.of = c /\ f # Torn(c)
    BY DEF Recoverable
  <2>1. warned \/ WholeIn("2.x", c) \/ WholeIn("3.x", c)
    BY DEF FilesKept
  <2>2. ASSUME NEW d \in {"2.x", "3.x"}, WholeIn(d, c)
        PROVE  files[d][FileOf[c]].of = c /\ files[d][FileOf[c]] # Torn(c)
    BY <2>2 DEF WholeIn, Torn
  <2> QED
    BY <2>1, <2>2
<1> QED
  BY <1>1, FilesInvariance, PTL

(* What a backup has listed it has saved, or still before it.               *)
Accounted ==
    /\ cli.pc \in Loading => cli.listed = {}
    /\ cmd.do = "backup" /\ (cli.pc \in Saving \/ (cli.pc = "idle" /\ exit = "ok")) =>
         cli.listed \subseteq cli.good \cup cli.todo
    /\ cli.pc = "idle" => cli.todo = {}

LEMMA QuietAccounts ==
    ASSUME IndInv, Accounted, Quiet
    PROVE  Accounted'
<1>1. cmd' = cmd /\ Goes /\ (cli.pc \in Migrating => cmd.do = "migrate")
  BY DEF Quiet, World, IndInv, Phase
<1>2. CASE Ended
  <2>1. cli'.pc = "idle" /\ cli'.todo = {} /\ cli'.listed = cli.listed /\ cli'.good = cli.good
    BY <1>2 DEF Ended, Kept
  <2>2. cmd.do = "backup" => cli.listed \subseteq cli.good
    BY <1>1, <2>1 DEF Goes, Moved, Accounted, Loading, Saving, Migrating
  <2> QED
    BY <1>1, <2>1, <2>2 DEF Accounted, Loading, Saving
<1>3. CASE \E l \in Loading : Moved(l) /\ cli.pc \in Loading
  BY <1>3 DEF Accounted, Moved, Kept, Loading, Saving
<1>4. CASE cli.pc = "confirm" /\ Moved("get")
  BY <1>4 DEF Accounted, Moved, Loading, Saving
<1> QED
  BY <1>1, <1>2, <1>3, <1>4 DEF Goes

(* The steps of the loop of a migration, and those outside the command.    *)
LEMMA OthersAccount ==
    ASSUME IndInv, Accounted, cmd' = cmd,
           \/ UNCHANGED <<cli, exit>>
           \/ cli.pc \in Migrating /\ cli'.pc \in Migrating
           \/ cli' = [Started EXCEPT !.pc = "idle"]
    PROVE  Accounted'
<1>1. CASE UNCHANGED <<cli, exit>>
  BY <1>1 DEF Accounted
<1>2. CASE cli'.pc \in Migrating
  BY <1>2 DEF Accounted, Loading, Saving, Migrating
<1>3. CASE cli' = [Started EXCEPT !.pc = "idle"]
  <2>1. cli'.pc = "idle" /\ cli'.todo = {} /\ cli'.listed = {}
    BY <1>3, StartedShape DEF Process
  <2> QED
    BY <2>1 DEF Accounted, Loading
<1> QED
  BY <1>1, <1>2, <1>3

LEMMA WritesAccount ==
    ASSUME IndInv, Accounted, NEW c \in RayClusters, Write2x(c) \/ Write3x(c)
    PROVE  Accounted'
<1>0. cli \in Process /\ cli.pc \in Saving /\ cmd' = cmd /\ cmd.do = "backup" /\ Cur(c)
  BY DEF IndInv, TypeOK, Phase, Write2x, Write3x, Same, Saving
<1>1. cli.listed \subseteq cli.good \cup cli.todo
  BY <1>0 DEF Accounted
<1>2. Goto("write 3.x") \/ Count(c, "good", "write 2.x") \/ End(TRUE)
  BY DEF Write2x, Write3x
<1>3. CASE Goto("write 3.x")
  <2>1. Moved("write 3.x")
    BY <1>0, <1>3, GotoShape DEF PCs, Saving
  <2> QED
    BY <1>1, <2>1 DEF Accounted, Moved, Kept, Loading
<1>4. CASE Count(c, "good", "write 2.x")
  <2>1. Counted(c, TRUE, "write 2.x")
    BY <1>0, <1>4, CountShape DEF PCs, Saving
  <2> QED
    BY <1>1, <2>1 DEF Accounted, Counted, Loading
<1>5. CASE End(TRUE)
  <2>1. Ended /\ exit' # "ok"
    BY <1>0, <1>5, EndShape
  <2> QED
    BY <2>1 DEF Accounted, Ended, Loading, Saving
<1> QED
  BY <1>2, <1>3, <1>4, <1>5

LEMMA ListsAccount ==
    ASSUME IndInv, Accounted, BackupLists \/ LiveLists \/ BackupItems \/ GetLatest
    PROVE  Accounted'
<1>0. /\ TypeOK /\ cli \in Process /\ rc \in [RayClusters -> RayCluster] /\ cmd' = cmd
      /\ cli.pc \in Loading /\ cli.listed = {}
  BY DEF IndInv, TypeOK, BackupLists, LiveLists, BackupItems, GetLatest, GetClusters, Same,
         Loading, Accounted
<1>1. \/ End(FALSE) \/ Checked(TRUE) \/ Checked(FALSE) \/ Goto("update dsc")
      \/ \E S \in SUBSET cmd.scope : Read("write 2.x", S) \/ Read("confirm", S)
      \/ cli'.pc = "confirm"
  <2>1. ASSUME BackupItems PROVE End(FALSE) \/ cli'.pc = "confirm"
    BY <1>0, <2>1 DEF BackupItems, Process
  <2> QED
    BY <2>1 DEF BackupLists, LiveLists, GetLatest
<1>2. CASE End(FALSE)
  BY <1>0, <1>2, EndShape DEF Accounted, Ended, Kept, Loading
<1>3. CASE Checked(TRUE) \/ Checked(FALSE)
  <2>1. cli'.listed = {} /\ cli'.pc \in Loading \cup {"idle"} /\ (cli'.pc = "idle" => cli'.todo = {})
    <3>1. Goes
      BY <1>0, <1>3, CheckedShape
    <3> QED
      BY <1>0, <3>1 DEF Goes, Ended, Moved, Kept, Loading
  <2> QED
    BY <2>1 DEF Accounted
<1>4. CASE Goto("update dsc")
  <2>1. Moved("update dsc")
    BY <1>0, <1>4, GotoShape DEF PCs, Loading
  <2> QED
    BY <1>0, <2>1 DEF Accounted, Moved, Kept, Loading, Saving
<1>5. ASSUME NEW S \in SUBSET cmd.scope, Read("write 2.x", S) \/ Read("confirm", S)
      PROVE  Accounted'
  <2>1. S \in SUBSET RayClusters
    BY <1>0, RayClusterAssumption DEF TypeOK, Command
  <2>2. cli'.todo = S /\ cli'.listed = S /\ cli'.pc \in {"write 2.x", "confirm"}
    BY <1>0, <1>5, <2>1, ReadShape DEF PCs, Saving, Migrating
  <2> QED
    BY <2>2 DEF Accounted, Loading
<1>6. CASE cli'.pc = "confirm"
  BY <1>6 DEF Accounted, Loading, Saving
<1> QED
  BY <1>1, <1>2, <1>3, <1>4, <1>5, <1>6

LEMMA AccountedStep ==
    ASSUME IndInv, Accounted, [Next]_vars
    PROVE  Accounted'
<1>0. TypeOK /\ Phase /\ cli \in Process
  BY DEF IndInv, TypeOK
<1>1. CASE \/ Start \/ CheckCluster \/ checkCodeflareOperator \/ ListFails \/ NilCluster
           \/ Confirm \/ MissingBackup \/ AllDone \/ UpdateDSC
  BY <1>0, <1>1, QuietSteps, QuietAccounts
<1>2. CASE BackupLists \/ LiveLists \/ BackupItems \/ GetLatest
  BY <1>2, ListsAccount
<1>3. ASSUME NEW c \in RayClusters, Write2x(c) \/ Write3x(c)
      PROVE  Accounted'
  BY <1>3, WritesAccount
<1>4. ASSUME NEW c \in RayClusters,
             \/ GetLive(c) \/ cleanupOldServiceAccounts(c) \/ UpdateLive(c) \/ WaitReady(c)
             \/ CheckExisting(c) \/ Delete(c) \/ waitForDeletion(c) \/ Create(c)
      PROVE  Accounted'
  <2>1. cmd' = cmd /\ cli.pc \in Migrating
    BY <1>4 DEF GetLive, cleanupOldServiceAccounts, UpdateLive, WaitReady, CheckExisting, Delete,
       waitForDeletion, Create, Same, Migrating
  <2>2. \/ \E l \in Migrating : Goto(l)
        \/ \E how \in {"good", "bad"} : Count(c, how, "get")
        \/ cli'.pc \in Migrating
    <3>1. ASSUME GetLive(c) \/ cleanupOldServiceAccounts(c)
          PROVE  \/ cli'.pc \in Migrating
                 \/ \E how \in {"good", "bad"} : Count(c, how, "get")
                 \/ \E l \in Migrating : Goto(l)
      BY <1>0, <3>1 DEF GetLive, cleanupOldServiceAccounts, Process, Migrating
    <3>2. ASSUME \/ UpdateLive(c) \/ WaitReady(c) \/ CheckExisting(c) \/ Delete(c)
                 \/ waitForDeletion(c) \/ Create(c)
          PROVE  \/ \E how \in {"good", "bad"} : Count(c, how, "get")
                 \/ \E l \in Migrating : Goto(l)
      BY <3>2 DEF UpdateLive, WaitReady, CheckExisting, Delete, waitForDeletion, Create, Migrating
    <3> QED
      BY <1>4, <3>1, <3>2
  <2>3. cli'.pc \in Migrating
    BY <1>0, <2>2, GotoShape, CountShape DEF Moved, Counted, PCs, Migrating
  <2> QED
    BY <2>1, <2>3, OthersAccount
<1>5. CASE Expire \/ EditDSC \/ Over \/ UNCHANGED vars \/ \E c \in RayClusters : Edit(c) \/ Operator(c)
  BY <1>5, OthersAccount DEF Expire, EditDSC, Over, vars, Edit, Operator, Same, On
<1>6. CASE Killed
  BY <1>6, OthersAccount DEF Killed, Same
<1>7. CASE RunAgain
  BY <1>7, StartedShape DEF RunAgain, Accounted, Loading, Saving
<1> QED
  BY <1>1, <1>2, <1>3, <1>4, <1>5, <1>6, <1>7 DEF Next, CLI

(* With file names that tell the RayClusters apart, a backup that reports   *)
(* success has both files of all it listed, as they should be.              *)
THEOREM SuccessIsSaved ==
    ASSUME Injective
    PROVE  Spec => []SavedMeansSaved
<1>1. IndInv /\ FilesKept /\ Accounted => SavedMeansSaved
  <2> SUFFICES ASSUME IndInv, FilesKept, Accounted, cli.pc = "idle", exit = "ok",
                      cmd.do = "backup", NEW c \in cli.listed
               PROVE  Saved(c) /\ ~HasTLSOAuthComponents(files["3.x"][FileOf[c]].has)
    BY DEF SavedMeansSaved, Saved
  <2>0. c \in cli.good
    BY DEF Accounted
  <2>1. Saved(c)
    BY <2>0 DEF FilesKept
  <2>2. FileOf[c] \in Files
    BY <2>0 DEF IndInv, TypeOK, Process, Files
  <2>3. NoTLS(files["3.x"][FileOf[c]].has)
    BY <2>2 DEF IndInv, Cleanness
  <2> QED
    BY <2>1, <2>3 DEF NoTLS, HasTLSOAuthComponents
<1>2. Init => Accounted
  BY StartedShape DEF Init, Accounted, Saving
<1>3. IndInv /\ Accounted /\ [Next]_vars => Accounted'
  BY AccountedStep
<1> QED
  BY <1>1, <1>2, <1>3, FilesInvariance, PTL DEF Spec

-----------------------------------------------------------------------------
(* A step that writes over no edit. *)
Careful ==
    /\ \A c \in RayClusters :
         rc[c].state = "present" /\ rc'[c].state = "present" /\ "edited" \in rc[c].has
           => "edited" \in rc'[c].has
    /\ cli' # cli /\ dsc = "Unmanaged" => dsc' = dsc

LEMMA UpdateIsCareful ==
    ASSUME IndInv, NEW c \in RayClusters, UpdateLive(c)
    PROVE  Careful
<1>0. TypeOK /\ rc \in [RayClusters -> RayCluster] /\ dsc' = dsc /\ cli.pc = "update" /\ Cur(c)
  BY DEF IndInv, TypeOK, UpdateLive
<1>1. \/ UNCHANGED rc
      \/ c \in fresh /\ rc' = [rc EXCEPT ![c] = Cleaned(c)]
  BY DEF UpdateLive
<1>2. CASE c \in fresh /\ rc' = [rc EXCEPT ![c] = Cleaned(c)]
  <2>1. cli.copy[c] = rc[c].has
    BY <1>0, <1>2 DEF IndInv, Copies
  <2>2. rc[c].state = "present" /\ "edited" \in rc[c].has => "edited" \in Cleaned(c).has
    BY <2>1 DEF Cleaned, ProcessRayClusterYAML, RemoveAutogeneratedFields, TLSOAuth
  <2> QED
    BY <1>0, <1>2, <2>2 DEF Careful
<1> QED
  BY <1>0, <1>1, <1>2 DEF Careful

LEMMA RestoreIsCareful ==
    ASSUME IndInv, NEW c \in RayClusters, Delete(c) \/ Create(c)
    PROVE  Careful
<1>0. rc \in [RayClusters -> RayCluster] /\ dsc' = dsc /\ Cur(c)
  BY DEF IndInv, TypeOK, Delete, Create
<1>1. \/ UNCHANGED rc
      \/ Deleted(c)
      \/ /\ rc[c].state = "absent"
         /\ \E o : rc' = [rc EXCEPT ![c] = o]
  BY <1>0 DEF Delete, Create, IndInv, Copies
<1>2. CASE Deleted(c)
  <2>1. rc'[c].state # "present" /\ \A d \in RayClusters : d # c => rc'[d] = rc[d]
    BY <1>0, <1>2 DEF Deleted, RayCluster
  <2> QED
    BY <1>0, <2>1 DEF Careful
<1>3. CASE rc[c].state = "absent" /\ \E o : rc' = [rc EXCEPT ![c] = o]
  BY <1>0, <1>3 DEF Careful
<1> QED
  BY <1>0, <1>1, <1>2, <1>3 DEF Careful

LEMMA WorldIsCareful ==
    ASSUME IndInv, NEW c \in RayClusters, Edit(c) \/ Operator(c)
    PROVE  Careful
<1>0. rc \in [RayClusters -> RayCluster] /\ dsc' = dsc
  BY DEF IndInv, TypeOK, Edit, Operator
<1>1. CASE Edit(c)
  <2>1. "edited" \in rc'[c].has /\ \A d \in RayClusters : d # c => rc'[d] = rc[d]
    BY <1>0, <1>1 DEF Edit, RayCluster
  <2> QED
    BY <1>0, <2>1 DEF Careful
<1>2. CASE Operator(c)
  <2>1. /\ rc[c].state = "present" => rc'[c].has = rc[c].has \cup {"secure"}
        /\ \A d \in RayClusters : d # c => rc'[d] = rc[d]
    BY <1>0, <1>2 DEF Operator, RayCluster
  <2> QED
    BY <1>0, <2>1 DEF Careful
<1> QED
  BY <1>1, <1>2

LEMMA DSCIsCareful ==
    ASSUME IndInv, UpdateDSC
    PROVE  Careful
<1>1. UNCHANGED rc /\ (dsc' = dsc \/ (0 \in fresh /\ cli.pc = "update dsc"))
  BY DEF UpdateDSC, Objs
<1> QED
  BY <1>1 DEF IndInv, Copies, Careful

LEMMA StepIsCareful ==
    ASSUME IndInv, [Next]_vars
    PROVE  Careful
<1> USE DEF Objs
<1>1. CASE \/ Start \/ CheckCluster \/ checkCodeflareOperator \/ ListFails \/ NilCluster
           \/ Confirm \/ MissingBackup \/ AllDone \/ GetLatest \/ BackupLists \/ LiveLists \/ BackupItems
  <2>1. UNCHANGED <<rc, dsc>>
    BY <1>1 DEF Start, CheckCluster, checkCodeflareOperator, ListFails, NilCluster, Confirm,
       MissingBackup, AllDone, GetLatest, BackupLists, LiveLists, BackupItems
  <2> QED
    BY <2>1 DEF Careful
<1>2. ASSUME NEW c \in RayClusters,
             \/ Write2x(c) \/ Write3x(c) \/ GetLive(c) \/ cleanupOldServiceAccounts(c)
             \/ WaitReady(c) \/ CheckExisting(c) \/ waitForDeletion(c)
      PROVE  Careful
  <2>1. UNCHANGED <<rc, dsc>>
    BY <1>2 DEF Write2x, Write3x, GetLive, cleanupOldServiceAccounts, WaitReady, CheckExisting,
       waitForDeletion
  <2> QED
    BY <2>1 DEF Careful
<1>3. ASSUME NEW c \in RayClusters,
             UpdateLive(c) \/ Delete(c) \/ Create(c) \/ Edit(c) \/ Operator(c)
      PROVE  Careful
  BY <1>3, UpdateIsCareful, RestoreIsCareful, WorldIsCareful
<1>4. CASE UpdateDSC
  BY <1>4, DSCIsCareful
<1>5. CASE Expire \/ Killed \/ RunAgain \/ Over \/ UNCHANGED vars
  <2>1. UNCHANGED <<rc, dsc>>
    BY <1>5 DEF Expire, Killed, RunAgain, Over, vars
  <2> QED
    BY <2>1 DEF Careful
<1>6. CASE EditDSC
  BY <1>6 DEF EditDSC, Careful
<1> QED
  BY <1>1, <1>2, <1>3, <1>4, <1>5, <1>6 DEF Next, CLI

(* The command writes over no edit it has not seen: the resource version of *)
(* the copy protects the RayCluster, the retried read the decision of an    *)
(* administrator about CodeFlare.                                           *)
THEOREM EditsAreKept == Spec => EditsKept
<1>1. IndInv /\ [Next]_vars => [Careful]_vars
  BY StepIsCareful
<1>2. [Careful]_vars =>
        [/\ \A c \in RayClusters :
              rc[c].state = "present" /\ rc'[c].state = "present" /\ "edited" \in rc[c].has
                => "edited" \in rc'[c].has
         /\ cli' # cli /\ dsc = "Unmanaged" => dsc' = dsc]_vars
  BY DEF Careful
<1> QED
  BY <1>1, <1>2, Invariance, PTL DEF Spec, EditsKept
=============================================================================

-------------------------- MODULE RayClusterMigration --------------------------
(***************************************************************************)
(* The RayCluster actions (pkg/migrate/actions/raycluster,                 *)
(* pkg/migrate/raycluster): raycluster.backup checks the cluster, sets     *)
(* CodeFlare to Removed in the DataScienceCluster and writes two files for *)
(* each RayCluster, one as it is and one without its TLS and OAuth parts;  *)
(* raycluster.migrate takes these parts out of the live objects, or        *)
(* deletes each object and creates it again from its file.                 *)
(*                                                                         *)
(* Meanwhile users edit RayClusters and the DataScienceCluster, and the    *)
(* API server finishes deletions. A request may fail before or after it    *)
(* took effect, a write may leave half a file, the timeout of the command  *)
(* may pass, it may be killed and run again.                               *)
(***************************************************************************)
EXTENDS Naturals, FiniteSets

CONSTANTS
    RayClusters,    \* numbered in the order in which they are listed, a namespace each
    Forbidden,      \* in namespaces the user may not read
    FileOf,         \* "raycluster-<name>-<namespace>.yaml"
    Objects,        \* the RayClusters there may be at first
    Commands,       \* the command lines
    retryMaxSteps,  \* 5 in the code
    MaxRuns,        \* bound: how often a command is run
    MaxEvents       \* bound: failing requests and writes, timeouts, kills and edits

(* What HasTLSOAuthComponents looks for: enableIngress, the sidecar, the    *)
(* TLS environment with its volumes, and the init container.                *)
TLSOAuth == {"ingress", "oauth-proxy", "tls", "create-cert"}
Features == TLSOAuth \cup {"service account", "secure", "finalizers", "kueue", "edited", "torn"}
Command == [do : {"prepare", "backup", "migrate"},
            scope : SUBSET RayClusters,
            from : {"live", "2.x", "3.x", "missing"},
            flags : SUBSET {"dry-run", "yes", "everywhere", "by name", "name without namespace"}]

ASSUME RayClusterAssumption ==
    /\ RayClusters \subseteq Nat \ {0} /\ Forbidden \subseteq RayClusters
    /\ IsFiniteSet(RayClusters)
    /\ FileOf \in [RayClusters -> Nat]
    /\ Objects \subseteq [RayClusters -> SUBSET (Features \ {"torn"})]  \* half a file is no object
    /\ Commands \subseteq Command
    /\ retryMaxSteps \in Nat \ {0} /\ MaxRuns \in Nat \ {0} /\ MaxEvents \in Nat

VARIABLES
    rc,       \* the RayClusters
    sa,       \* those whose CodeFlare ServiceAccount is there
    dsc,      \* codeflare in the DataScienceCluster
    certs,    \* cert-manager is installed
    files,    \* the two backup directories
    fresh,    \* what nobody has changed since the command read it (0: the DataScienceCluster)
    cmd, run, \* the command line, and how many there have been
    cli,      \* the process
    exit,     \* how it ended
    warned,   \* a backup has ended otherwise than well
    events,   \* what has gone wrong or come in between, so far
    expired   \* the timeout of the command has passed

limits == <<events, expired>>
vars == <<rc, sa, dsc, certs, files, fresh, cmd, run, cli, exit, warned, limits>>

CodeFlare == {"Managed", "Unmanaged", "Removed", "none", "other"}
Files == {FileOf[c] : c \in RayClusters}
RayCluster == [state : {"present", "terminating", "absent"}, has : SUBSET Features]
Content == [of : RayClusters \cup {0}, has : SUBSET Features]
Process == [pc : {"start", "check", "codeflare", "latest", "update dsc", "list", "write 2.x",
                  "write 3.x", "confirm", "get", "accounts", "update", "delete", "gone",
                  "create", "ready", "idle"},
            tries : 0 .. retryMaxSteps,   \* what patchCodeflareToRemoved has left
            passed : BOOLEAN,             \* no required check has failed
            todo : SUBSET RayClusters,    \* the current one is the first
            copy : [RayClusters -> SUBSET Features],
            listed : SUBSET RayClusters,  \* what was to be saved or migrated
            good : SUBSET RayClusters,    \* saved, or counted as migrated
            bad : SUBSET RayClusters,     \* counted as failed
            stripped : SUBSET RayClusters] \* ServiceAccount deleted

TypeOK ==
    /\ rc \in [RayClusters -> RayCluster] /\ sa \subseteq RayClusters
    /\ dsc \in CodeFlare /\ certs \in BOOLEAN
    /\ files \in [{"2.x", "3.x"} -> [Files -> Content]]
    /\ fresh \subseteq RayClusters \cup {0}
    /\ cmd \in Commands /\ run \in 1 .. MaxRuns /\ cli \in Process
    /\ exit \in {"none", "ok", "failures", "panic", "killed"} /\ warned \in BOOLEAN
    /\ events \in 0 .. MaxEvents /\ expired \in BOOLEAN

NoFile == [of |-> 0, has |-> {}]
Torn(c) == [of |-> c, has |-> {"torn"}]

Started ==
    [pc |-> "start", tries |-> retryMaxSteps, passed |-> TRUE, todo |-> {},
     copy |-> [c \in RayClusters |-> {}], listed |-> {}, good |-> {}, bad |-> {},
     stripped |-> {}]

Init ==
    /\ \E o \in Objects :
         /\ rc = [c \in RayClusters |-> [state |-> "present", has |-> o[c]]]
         /\ sa = {c \in RayClusters : "oauth-proxy" \in o[c]}
    /\ dsc \in CodeFlare /\ certs \in BOOLEAN
    /\ files = [d \in {"2.x", "3.x"} |-> [f \in Files |-> NoFile]]
    /\ fresh = {} /\ cmd \in Commands /\ run = 1 /\ cli = Started
    /\ exit = "none" /\ warned = FALSE /\ events = 0 /\ expired = FALSE

-----------------------------------------------------------------------------
(* What is done to an object                                                *)

(* finalizers go as well, whatever they are for. *)
RemoveAutogeneratedFields(has) == has \ {"finalizers"}
RemoveKueueWorkloadAnnotations(has) == has \ {"kueue"}
HasTLSOAuthComponents(has) == has \cap TLSOAuth # {}
IsClusterMigrated(has) == "secure" \in has /\ ~HasTLSOAuthComponents(has)

(* The account goes with the sidecar; the annotation that marks a migrated  *)
(* RayCluster is not set.                                                   *)
ProcessRayClusterYAML(has) ==
    has \ (TLSOAuth \cup (IF "oauth-proxy" \in has THEN {"service account"} ELSE {}))

-----------------------------------------------------------------------------
Flag(f) == f \in cmd.flags
Live == cmd.from = "live"
Cur(c) == c \in cli.todo /\ \A d \in cli.todo : c <= d

(* A request that succeeds, and one that fails. *)
Works == ~expired /\ UNCHANGED limits
Hit == ~expired /\ events < MaxEvents /\ events' = events + 1 /\ UNCHANGED expired
Fails == Hit \/ (expired /\ UNCHANGED limits)

Same == UNCHANGED <<certs, cmd, run>>
Objs == UNCHANGED <<rc, sa>>
Goto(l) == cli' = [cli EXCEPT !.pc = l]
On == UNCHANGED <<exit, warned>>

Ends(how) ==
    /\ cli' = [cli EXCEPT !.pc = "idle", !.todo = {}]
    /\ exit' = how
    /\ warned' = (warned \/ (how # "ok" /\ cmd.do = "backup"))

(* Execute completes its step; only a StepFailed makes the command fail,    *)
(* and "migrate prepare" does not look at the steps.                        *)
End(failed) == Ends(IF failed /\ cmd.do # "prepare" THEN "failures" ELSE "ok")

(* A RayCluster is done with, and the loop goes on. *)
Count(c, how, then) ==
    cli' = [cli EXCEPT !.pc = then, !.todo = @ \ {c},
                       !.good = IF how = "good" THEN @ \cup {c} ELSE @,
                       !.bad = IF how = "bad" THEN @ \cup {c} ELSE @]

-----------------------------------------------------------------------------
(* raycluster.backup, and its prepare task, which only checks               *)

Start ==
    /\ cli.pc = "start"
    /\ Goto(IF cmd.do = "migrate" THEN "list" ELSE "check")
    /\ Objs /\ Same /\ On /\ UNCHANGED <<dsc, files, fresh, limits>>

(* checkPermissions and checkCertManager. What the user may not list is an  *)
(* empty list, and a namespace the user may not read counts as found: a     *)
(* request that is denied may well pass the check.                          *)
CheckCluster ==
    /\ cli.pc = "check"
    /\ \E ok \in BOOLEAN :
         /\ IF ok THEN Hit \/ (Works /\ certs) ELSE Fails \/ (Works /\ ~certs)
         /\ cli' = [cli EXCEPT !.pc = "codeflare", !.passed = ok]
    /\ Objs /\ Same /\ On /\ UNCHANGED <<dsc, files, fresh>>

Checked(ok) ==
    IF cmd.do = "prepare"
    THEN End(~(cli.passed /\ ok))
    ELSE IF Flag("dry-run") \/ (cli.passed /\ ok) THEN Goto("list") /\ On ELSE End(TRUE)

checkCodeflareOperator ==
    /\ cli.pc = "codeflare"
    /\ \/ /\ Works /\ dsc = "Managed" /\ cmd.do = "backup" /\ ~Flag("dry-run")
          /\ Goto("latest") /\ On
       \/ /\ Works /\ dsc = "Managed" /\ (cmd.do = "prepare" \/ Flag("dry-run"))
          /\ Checked(FALSE)
       \/ Works /\ dsc # "Managed" /\ Checked(dsc # "other")
       \/ Fails /\ Checked(FALSE)
    /\ Objs /\ Same /\ UNCHANGED <<dsc, files, fresh>>

(* patchCodeflareToRemoved: read again, update, and again after a conflict. *)
GetLatest ==
    /\ cli.pc = "latest"
    /\ \/ cli.tries = 0 /\ Checked(FALSE) /\ UNCHANGED <<fresh, limits>>
       \/ /\ cli.tries > 0 /\ Works
          /\ IF dsc \in {"Removed", "Unmanaged"}
             THEN Checked(TRUE) /\ UNCHANGED fresh
             ELSE Goto("update dsc") /\ On /\ fresh' = fresh \cup {0}
       \/ cli.tries > 0 /\ Fails /\ Checked(FALSE) /\ UNCHANGED fresh
    /\ Objs /\ Same /\ UNCHANGED <<dsc, files>>

(* Mutant: the update does not carry the resource version. *)
UpdateDSCForced ==
    /\ cli.pc = "update dsc"
    /\ \/ Works /\ dsc' = "Removed" /\ Checked(TRUE)
       \/ Fails /\ UNCHANGED dsc /\ Checked(FALSE)
    /\ Objs /\ Same /\ UNCHANGED <<files, fresh>>

UpdateDSC ==
    /\ cli.pc = "update dsc"
    /\ \/ Works /\ 0 \in fresh /\ dsc' = "Removed" /\ Checked(TRUE)
       \/ /\ Works /\ 0 \notin fresh
          /\ cli' = [cli EXCEPT !.pc = "latest", !.tries = @ - 1]
          /\ On /\ UNCHANGED dsc
       \/ Hit /\ 0 \in fresh /\ dsc' = "Removed" /\ Checked(FALSE)
       \/ Fails /\ UNCHANGED dsc /\ Checked(FALSE)
    /\ Objs /\ Same /\ UNCHANGED <<files, fresh>>

(* GetClusters. Over all namespaces one that cannot be listed is left out,  *)
(* and nobody is told; what the user may not list is not there either.      *)
GetClusters(seen) ==
    /\ cli.pc = "list" /\ Live /\ ~expired /\ ~Flag("name without namespace")
    /\ seen \subseteq {c \in cmd.scope \ Forbidden : rc[c].state # "absent"}
    /\ LET missed == {c \in cmd.scope \ Forbidden : rc[c].state # "absent"} \ seen IN
         /\ ~Flag("everywhere") => seen = {} \/ missed = {}
         /\ Flag("by name") => missed = {} /\ cmd.scope \cap Forbidden = {}
         /\ events + Cardinality(missed) <= MaxEvents
         /\ events' = events + Cardinality(missed)
    /\ UNCHANGED expired

(* A single RayCluster the user may not read is a list of one nil, which    *)
(* the command trips over, unless it only counts.                           *)
NilCluster ==
    /\ cli.pc = "list" /\ Live /\ Flag("by name") /\ ~Flag("name without namespace")
    /\ Hit \/ (Works /\ cmd.scope \cap Forbidden # {})
    /\ Ends(IF cmd.do = "backup" /\ Flag("dry-run") THEN "ok" ELSE "panic")
    /\ Objs /\ Same /\ UNCHANGED <<dsc, files, fresh>>

ListFails ==
    /\ cli.pc = "list" /\ Live
    /\ Fails \/ (Flag("name without namespace") /\ UNCHANGED limits)
    /\ End(TRUE)
    /\ Objs /\ Same /\ UNCHANGED <<dsc, files, fresh>>

Read(l, todo) ==
    cli' = [cli EXCEPT !.pc = l, !.todo = todo, !.listed = todo,
                       !.copy = [c \in RayClusters |-> rc[c].has]]

BackupLists ==
    /\ cmd.do = "backup"
    /\ \E seen \in SUBSET cmd.scope :
         /\ GetClusters(seen)
         /\ IF seen = {} \/ Flag("dry-run") THEN End(FALSE) ELSE Read("write 2.x", seen) /\ On
    /\ Objs /\ Same /\ UNCHANGED <<dsc, files, fresh>>

Save(d, c, content) == files' = [files EXCEPT ![d][FileOf[c]] = content]

(* backupCluster: the file of the object as it is ...                       *)
Write2x(c) ==
    /\ cli.pc = "write 2.x" /\ Cur(c)
    /\ \/ /\ Save("2.x", c, [of |-> c, has |-> RemoveAutogeneratedFields(cli.copy[c])])
          /\ Goto("write 3.x") /\ On /\ UNCHANGED limits
       \/ /\ Hit /\ (UNCHANGED files \/ Save("2.x", c, Torn(c)))
          /\ End(TRUE)
    /\ Objs /\ Same /\ UNCHANGED <<dsc, fresh>>

(* Mutant: a RayCluster that cannot be saved is skipped. *)
Write3xSkips(c) ==
    /\ cli.pc = "write 3.x" /\ Cur(c)
    /\ \/ /\ Save("3.x", c, [of |-> c, has |->
                 ProcessRayClusterYAML(RemoveAutogeneratedFields(cli.copy[c]))])
          /\ Count(c, "good", "write 2.x") /\ On /\ UNCHANGED limits
       \/ /\ Hit
          /\ files' = [files EXCEPT !["2.x"][FileOf[c]] = NoFile, !["3.x"][FileOf[c]] = Torn(c)]
          /\ Count(c, "none", "write 2.x") /\ On
    /\ Objs /\ Same /\ UNCHANGED <<dsc, fresh>>

(* ... and of what is to become of it. When this one cannot be written the  *)
(* other is removed, and the backup ends there.                             *)
Write3x(c) ==
    /\ cli.pc = "write 3.x" /\ Cur(c)
    /\ \/ /\ Save("3.x", c, [of |-> c, has |->
                 ProcessRayClusterYAML(RemoveAutogeneratedFields(cli.copy[c]))])
          /\ Count(c, "good", "write 2.x") /\ On /\ UNCHANGED limits
       \/ /\ Hit
          /\ \E content \in {files["3.x"][FileOf[c]], Torn(c)} :
               files' = [files EXCEPT !["2.x"][FileOf[c]] = NoFile,
                                      !["3.x"][FileOf[c]] = content]
          /\ End(TRUE)
    /\ Objs /\ Same /\ UNCHANGED <<dsc, fresh>>

-----------------------------------------------------------------------------
(* raycluster.migrate, live                                                 *)

LiveLists ==
    /\ cmd.do = "migrate"
    /\ \E seen \in SUBSET cmd.scope :
         /\ GetClusters(seen)
         /\ LET toMigrate == {c \in seen : ~IsClusterMigrated(rc[c].has)} IN
              IF toMigrate = {} THEN End(FALSE) ELSE Read("confirm", toMigrate) /\ On
    /\ Objs /\ Same /\ UNCHANGED <<dsc, files, fresh>>

(* confirmLiveMigration, confirmBackupRestore; in a dry run the loop only   *)
(* counts.                                                                  *)
Confirm ==
    /\ cli.pc = "confirm"
    /\ \/ ~Flag("dry-run") /\ Goto("get") /\ On
       \/ Flag("dry-run") /\ End(FALSE)
       \/ cmd.flags \cap {"dry-run", "yes"} = {} /\ End(FALSE)   \* declined
    /\ Objs /\ Same /\ UNCHANGED <<dsc, files, fresh, limits>>

GetLive(c) ==
    /\ cli.pc = "get" /\ Live /\ Cur(c)
    /\ \/ /\ Works /\ rc[c].state # "absent"
          /\ cli' = [cli EXCEPT !.pc = "accounts", !.copy[c] = rc[c].has]
          /\ fresh' = fresh \cup {c}
       \/ Works /\ rc[c].state = "absent" /\ Count(c, "bad", "get") /\ UNCHANGED fresh
       \/ Fails /\ Count(c, "bad", "get") /\ UNCHANGED fresh
    /\ Objs /\ Same /\ On /\ UNCHANGED <<dsc, files>>

(* Best effort, and before the object that uses the account is changed.     *)
cleanupOldServiceAccounts(c) ==
    /\ cli.pc = "accounts" /\ Cur(c)
    /\ \/ /\ Works /\ sa' = sa \ {c}
          /\ cli' = [cli EXCEPT !.pc = "update", !.stripped = @ \cup {c}]
       \/ Fails /\ Goto("update") /\ UNCHANGED sa
    /\ Same /\ On /\ UNCHANGED <<rc, dsc, files, fresh>>

Cleaned(c) ==
    LET has == ProcessRayClusterYAML(RemoveAutogeneratedFields(cli.copy[c])) IN
      IF rc[c].state = "terminating" THEN [state |-> "absent", has |-> {}]  \* nothing holds it
                                     ELSE [state |-> rc[c].state, has |-> has]

(* Mutant: a conflict is taken for success. *)
UpdateLiveQuietly(c) ==
    /\ cli.pc = "update" /\ Cur(c)
    /\ \/ /\ Works /\ c \in fresh /\ rc[c].state # "absent"
          /\ rc' = [rc EXCEPT ![c] = Cleaned(c)] /\ fresh' = fresh \ {c} /\ Goto("ready")
       \/ /\ Works /\ (c \notin fresh \/ rc[c].state = "absent")
          /\ Goto("ready") /\ UNCHANGED <<rc, fresh>>
       \/ Fails /\ Count(c, "bad", "get") /\ UNCHANGED <<rc, fresh>>
    /\ Same /\ On /\ UNCHANGED <<sa, dsc, files>>

(* The copy carries the resource version and the uid it was read with.      *)
UpdateLive(c) ==
    /\ cli.pc = "update" /\ Cur(c)
    /\ \/ /\ Works /\ c \in fresh /\ rc[c].state # "absent"
          /\ rc' = [rc EXCEPT ![c] = Cleaned(c)] /\ fresh' = fresh \ {c} /\ Goto("ready")
       \/ /\ Works /\ (c \notin fresh \/ rc[c].state = "absent")
          /\ Count(c, "bad", "get") /\ UNCHANGED <<rc, fresh>>
       \/ /\ Hit /\ c \in fresh /\ rc[c].state # "absent"
          /\ rc' = [rc EXCEPT ![c] = Cleaned(c)] /\ fresh' = fresh \ {c}
          /\ Count(c, "bad", "get")
       \/ Fails /\ Count(c, "bad", "get") /\ UNCHANGED <<rc, fresh>>
    /\ Same /\ On /\ UNCHANGED <<sa, dsc, files>>

(* waitForClusterReady and waitForClusterRoute: each as long as the timeout *)
(* at most, and whatever they find is only printed.                         *)
WaitReady(c) ==
    /\ cli.pc = "ready" /\ Cur(c)
    /\ Count(c, "good", "get")
    /\ Objs /\ Same /\ On /\ UNCHANGED <<dsc, files, fresh, limits>>

-----------------------------------------------------------------------------
(* raycluster.migrate --raycluster-from-backup                              *)

MissingBackup ==
    /\ cli.pc = "list" /\ cmd.do = "migrate" /\ cmd.from = "missing"
    /\ End(TRUE)
    /\ Objs /\ Same /\ UNCHANGED <<dsc, files, fresh, limits>>

(* Mutant: a file that cannot be read is an empty object. *)
BackupItemsUnread ==
    /\ cli.pc = "list" /\ cmd.do = "migrate" /\ cmd.from \in {"2.x", "3.x"}
    /\ cli' = [cli EXCEPT !.pc = "confirm", !.todo = cmd.scope,
                          !.copy = [c \in RayClusters |-> files[cmd.from][FileOf[c]].has]]
    /\ Objs /\ Same /\ On /\ UNCHANGED <<dsc, files, fresh, limits>>

(* collectYAMLFiles, parseBackupItems: a file that cannot be read or parsed *)
(* is left out; half a file may still parse. A name without a namespace     *)
(* stands for every RayCluster of that name.                                *)
BackupItems ==
    /\ cli.pc = "list" /\ cmd.do = "migrate" /\ cmd.from \in {"2.x", "3.x"}
    /\ LET item(c) == files[cmd.from][FileOf[c]]
           whole == {c \in cmd.scope : item(c).of = c /\ item(c) # Torn(c)}
           half == {c \in cmd.scope : item(c) = Torn(c)}
       IN \E parsed \in SUBSET half :
            IF whole \cup parsed = {}
            THEN End(FALSE)
            ELSE /\ cli' = [cli EXCEPT !.pc = "confirm", !.todo = whole \cup parsed,
                                       !.copy = [c \in RayClusters |->
                                           IF c \in whole \cup parsed THEN item(c).has ELSE {}]]
                 /\ On
    /\ Objs /\ Same /\ UNCHANGED <<dsc, files, fresh, limits>>

CheckExisting(c) ==
    /\ cli.pc = "get" /\ ~Live /\ Cur(c)
    /\ \/ /\ Works /\ c \notin Forbidden
          /\ Goto(IF rc[c].state = "absent" THEN "create" ELSE "delete")
       \/ c \in Forbidden /\ UNCHANGED limits /\ Count(c, "bad", "get")
       \/ Fails /\ Count(c, "bad", "get")
    /\ Objs /\ Same /\ On /\ UNCHANGED <<dsc, files, fresh>>

(* What has finalizers stays until whoever owns them is done. *)
Deleted(c) ==
    rc' = [rc EXCEPT ![c] = IF "finalizers" \in @.has THEN [@ EXCEPT !.state = "terminating"]
                                                      ELSE [state |-> "absent", has |-> {}]]

Delete(c) ==
    /\ cli.pc = "delete" /\ Cur(c)
    /\ \/ Works /\ rc[c].state # "absent" /\ Deleted(c) /\ Goto("gone")
       \/ Works /\ rc[c].state = "absent" /\ UNCHANGED rc /\ Count(c, "bad", "get")
       \/ Hit /\ rc[c].state # "absent" /\ Deleted(c) /\ Count(c, "bad", "get")
       \/ Fails /\ UNCHANGED rc /\ Count(c, "bad", "get")
    /\ Same /\ On /\ UNCHANGED <<sa, dsc, files, fresh>>

(* Mutant: a wait for as long as it takes. *)
waitForDeletionForever(c) ==
    /\ cli.pc = "gone" /\ Cur(c)
    /\ \/ Works /\ rc[c].state = "absent" /\ Goto("create")
       \/ Fails /\ Count(c, "bad", "get")
    /\ Objs /\ Same /\ On /\ UNCHANGED <<dsc, files, fresh>>

(* Sixty looks, two seconds apart. *)
waitForDeletion(c) ==
    /\ cli.pc = "gone" /\ Cur(c)
    /\ \/ Works /\ rc[c].state = "absent" /\ Goto("create")
       \/ rc[c].state # "absent" /\ UNCHANGED limits /\ Count(c, "bad", "get")
       \/ Fails /\ Count(c, "bad", "get")
    /\ Objs /\ Same /\ On /\ UNCHANGED <<dsc, files, fresh>>

(* Half an object is refused. *)
Create(c) ==
    /\ cli.pc = "create" /\ Cur(c)
    /\ LET new == [state |-> "present", has |-> RemoveKueueWorkloadAnnotations(cli.copy[c])] IN
         \/ /\ Works /\ "torn" \notin cli.copy[c]
            /\ rc' = [rc EXCEPT ![c] = new] /\ Goto("ready")
         \/ Works /\ "torn" \in cli.copy[c] /\ UNCHANGED rc /\ Count(c, "bad", "get")
         \/ /\ Hit /\ "torn" \notin cli.copy[c]
            /\ rc' = [rc EXCEPT ![c] = new] /\ Count(c, "bad", "get")
         \/ Fails /\ UNCHANGED rc /\ Count(c, "bad", "get")
    /\ Same /\ On /\ UNCHANGED <<sa, dsc, files, fresh>>

(* Whatever failed is counted and printed, and the step is completed. *)
AllDone ==
    /\ cli.pc \in {"get", "write 2.x"} /\ cli.todo = {}
    /\ End(FALSE)
    /\ Objs /\ Same /\ UNCHANGED <<dsc, files, fresh, limits>>

CLI ==
    \/ Start \/ CheckCluster \/ checkCodeflareOperator \/ GetLatest \/ UpdateDSC
    \/ ListFails \/ NilCluster \/ BackupLists \/ LiveLists \/ Confirm \/ MissingBackup \/ BackupItems \/ AllDone
    \/ \E c \in RayClusters :
         \/ Write2x(c) \/ Write3x(c) \/ GetLive(c) \/ cleanupOldServiceAccounts(c)
         \/ UpdateLive(c) \/ WaitReady(c) \/ CheckExisting(c) \/ Delete(c)
         \/ waitForDeletion(c) \/ Create(c)

-----------------------------------------------------------------------------
(* The rest of the world                                                    *)

(* The timeout of the command (context.WithTimeout): every request fails.   *)
Expire ==
    /\ cli.pc # "idle" /\ ~expired /\ events < MaxEvents
    /\ events' = events + 1 /\ expired' = TRUE
    /\ Objs /\ Same /\ On /\ UNCHANGED <<dsc, files, fresh, cli>>

(* A kill in the middle of a write leaves half a file. *)
Killed ==
    /\ cli.pc # "idle" /\ events < MaxEvents /\ events' = events + 1 /\ UNCHANGED expired
    /\ cli' = [Started EXCEPT !.pc = "idle"] /\ exit' = "killed"
    /\ warned' = (warned \/ cmd.do = "backup")
    /\ \/ UNCHANGED files
       \/ \E c \in RayClusters :
            \/ cli.pc = "write 2.x" /\ Cur(c) /\ Save("2.x", c, Torn(c))
            \/ cli.pc = "write 3.x" /\ Cur(c) /\ Save("3.x", c, Torn(c))
    /\ Objs /\ Same /\ UNCHANGED <<dsc, fresh>>

RunAgain ==
    /\ cli.pc = "idle" /\ run < MaxRuns
    /\ run' = run + 1 /\ cmd' \in Commands /\ cli' = Started /\ exit' = "none"
    /\ expired' = FALSE /\ fresh' = {}
    /\ Objs /\ UNCHANGED <<dsc, certs, files, warned, events>>

(* A user edits a RayCluster (external). *)
Edit(c) ==
    /\ events < MaxEvents /\ events' = events + 1
    /\ rc[c].state = "present" /\ "edited" \notin rc[c].has
    /\ rc' = [rc EXCEPT ![c].has = @ \cup {"edited"}] /\ fresh' = fresh \ {c}
    /\ Same /\ On /\ UNCHANGED <<sa, dsc, files, cli, expired>>

(* An administrator changes the DataScienceCluster (external). *)
EditDSC ==
    /\ events < MaxEvents /\ events' = events + 1
    /\ dsc' \in {"Managed", "Unmanaged", "Removed"} \ {dsc} /\ fresh' = fresh \ {0}
    /\ Objs /\ Same /\ On /\ UNCHANGED <<files, cli, expired>>

(* KubeRay marks a RayCluster it has secured, and a deletion ends (external). *)
Operator(c) ==
    /\ \/ /\ rc[c].state = "present" /\ rc[c].has \cap (TLSOAuth \cup {"secure"}) = {}
          /\ rc' = [rc EXCEPT ![c].has = @ \cup {"secure"}]
       \/ rc[c].state = "terminating" /\ rc' = [rc EXCEPT ![c] = [state |-> "absent", has |-> {}]]
    /\ fresh' = fresh \ {c}
    /\ Same /\ On /\ UNCHANGED <<sa, dsc, files, cli, limits>>

Over == cli.pc = "idle" /\ run = MaxRuns /\ UNCHANGED vars

Next ==
    \/ CLI \/ Expire \/ Killed \/ RunAgain \/ EditDSC \/ Over
    \/ \E c \in RayClusters : Edit(c) \/ Operator(c)

Spec == Init /\ [][Next]_vars

(* The process goes on as long as it can; users answer prompts. A deletion  *)
(* need not end.                                                            *)
FairSpec == Spec /\ WF_vars(CLI)

-----------------------------------------------------------------------------
(* A RayCluster that is gone, because a restore has deleted it and gone no  *)
(* further, can be had back: one of its two files is whole, unless a backup *)
(* has said that it did not succeed (backupCluster, restoreSingleCluster).  *)
Recoverable ==
    \A c \in RayClusters :
      rc[c].state = "absent" =>
        \/ warned
        \/ \E d \in {"2.x", "3.x"} : LET f == files[d][FileOf[c]] IN f.of = c /\ f # Torn(c)

(* A backup that reports success has written, for each RayCluster it        *)
(* listed, both files, each with what belongs into it (PreUpgrade).         *)
SavedMeansSaved ==
    cli.pc = "idle" /\ exit = "ok" /\ cmd.do = "backup" =>
      \A c \in cli.listed :
        /\ files["2.x"][FileOf[c]].of = c /\ files["3.x"][FileOf[c]].of = c
        /\ files["2.x"][FileOf[c]].has \ TLSOAuth \subseteq
             files["3.x"][FileOf[c]].has \cup {"service account"}
        /\ ~HasTLSOAuthComponents(files["3.x"][FileOf[c]].has)
        /\ "torn" \notin files["3.x"][FileOf[c]].has

(* What is counted as migrated has no TLS or OAuth part left, whatever      *)
(* came between the reading and the writing; and a RayCluster that lost the *)
(* ServiceAccount of its oauth-proxy, which goes first, has lost the proxy  *)
(* too or is counted as failed (migrateSingleClusterLive).                  *)
CountedIsTrue ==
    /\ cmd.do = "migrate" /\ cmd.from \in {"live", "3.x"} =>
         \A c \in cli.good : ~HasTLSOAuthComponents(rc[c].has)
    /\ \A c \in cli.stripped : "oauth-proxy" \in rc[c].has => c \in cli.bad \cup cli.todo

(* The command writes over no edit it has not seen: neither that of a       *)
(* RayCluster, unless it is restored, nor an administrator's decision to    *)
(* take over CodeFlare, in spite of the retries after a conflict.           *)
EditsKept ==
    [][/\ \A c \in RayClusters :
            rc[c].state = "present" /\ rc'[c].state = "present" /\ "edited" \in rc[c].has
              => "edited" \in rc'[c].has
       /\ cli' # cli /\ dsc = "Unmanaged" => dsc' = dsc]_vars

(* Every command ends: retries and waits are bounded, that for a deletion   *)
(* that never ends included.                                                *)
RunsEnd == []<>(cli.pc = "idle")

(* Exit code 0 is "Process completed without issues" (docs/design.md).      *)
FailuresAreReported == cli.pc = "idle" /\ exit = "ok" => cli.bad = {}

(* "Use the prepare command for backups": it reports that the backups were  *)
(* saved (docs/migrate/upgrade-helpers-comparison.md).                      *)
PrepareSaves ==
    cli.pc = "idle" /\ exit = "ok" /\ cmd.do = "prepare" /\ ~Flag("dry-run") =>
      \A c \in cmd.scope : rc[c].state = "present" => files["3.x"][FileOf[c]].of = c
=============================================================================

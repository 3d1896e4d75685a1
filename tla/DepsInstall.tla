----------------------------- MODULE DepsInstall -----------------------------
(***************************************************************************)
(* `kubectl odh deps install` (pkg/deps/install.go): the operators a       *)
(* manifest names are requested from OLM, through the v0 API (namespace,   *)
(* OperatorGroup, Subscription) or the v1 API (namespace,                  *)
(* ClusterExtension), and waited for.                                      *)
(*                                                                         *)
(* Several processes may run at once; each may be cut off anywhere and     *)
(* started again. A run checks the dependencies in parallel, creates what  *)
(* is missing one dependency after the other, and then waits for all of    *)
(* them in parallel. Every request to the API server may fail. OLM, and an *)
(* administrator who creates an OperatorGroup, act in between.             *)
(*                                                                         *)
(* A check makes two or three reads. They are one step here: requests are  *)
(* never withdrawn, so a check that finds none of them has the outcome it  *)
(* would have had at its first read.                                       *)
(***************************************************************************)
EXTENDS Naturals, FiniteSets

CONSTANTS
    Procs,        \* CLI processes
    Modes,        \* the OLM APIs a run may resolve to: "v0", "v1"
    Deps,         \* dependencies of the manifest
    Order,        \* their order in it
    Enabled,      \* "true", "auto" or "false"
    Bulk,         \* no dependency was named on the command line
    TargetDeps,   \* those that were, otherwise
    IncludeOptional,
    Namespaces,
    Namespace,    \* where each dependency's operator is installed
    Targets,      \* the namespaces each dependency's operator watches
    Accounts,     \* namespaces with the ServiceAccount OLM v1 needs
    CanListExtensions,   \* a v0 process may list ClusterExtensions
    Groups0,      \* the OperatorGroups there are to begin with
    Found,        \* what there may be of each dependency to begin with
    ForeignNames, \* names an administrator gives OperatorGroups
    MaxRestarts,  \* bound: how often a process is started again
    MaxForeign    \* bound: OperatorGroups an administrator creates

(* An OperatorGroup: "own" is the name the CLI gives, <namespace>-og. *)
Group(name, targets) == [name |-> name, targets |-> targets]
OperatorGroups == [name : {"own", "other"}, targets : SUBSET Namespaces]

(* What a run may come upon: nothing, a Subscription, a ClusterExtension,  *)
(* one for another namespace, or an operator whose Subscription is gone.   *)
Situations == {"absent", "subscribed", "extended", "elsewhere", "orphaned"}

ASSUME InstallAssumption ==
    /\ Modes \subseteq {"v0", "v1"}
    /\ Order \in [Deps -> Nat]
    /\ \A d, e \in Deps : Order[d] = Order[e] => d = e
    /\ Enabled \in [Deps -> {"true", "auto", "false"}]
    /\ Bulk \in BOOLEAN /\ IncludeOptional \in BOOLEAN
    /\ TargetDeps \subseteq Deps
    /\ Namespace \in [Deps -> Namespaces]
    /\ Targets \in [Deps -> SUBSET Namespaces]
    /\ Groups0 \in [Namespaces -> SUBSET OperatorGroups]
    /\ Accounts \subseteq Namespaces
    /\ Found \subseteq [Deps -> Situations]
    /\ ForeignNames \subseteq {"own", "other"}
    /\ CanListExtensions \in BOOLEAN
    /\ MaxRestarts \in Nat /\ MaxForeign \in Nat

VARIABLES
    \* the cluster
    groups,      \* the OperatorGroups of each namespace
    subs,        \* dependencies with a Subscription: its state
    exts,        \* dependencies with a ClusterExtension: its state
    csvs,        \* the ClusterServiceVersion of each dependency
    spaces,      \* namespaces that exist
    foreign,     \* OperatorGroups the administrator has created
    overtaken,   \* namespaces where one came up that a run had looked for and missed
    \* the processes
    mode,        \* the OLM API the run resolved
    pc, todo, at, answer, result, exit, restarts

cluster == <<groups, subs, exts, csvs, spaces, foreign, overtaken>>
vars == <<cluster, mode, pc, todo, at, answer, result, exit, restarts>>

SubStates == {"none", "requested", "unresolvable"}
ExtStates == {"none", "elsewhere", "requested", "installed", "failed"}
CsvStates == {"none", "installing", "succeeded", "failed"}
PCs == {"check", "accounts", "create", "wait", "done", "crashed"}
Steps == {"namespace", "groups", "group", "request"}
Answers == {"unknown", "requested", "absent", "error"}
Outcomes == {"none", "pending", "installed", "failed"}

TypeOK ==
    /\ groups \in [Namespaces -> SUBSET OperatorGroups]
    /\ subs \in [Deps -> SubStates]
    /\ exts \in [Deps -> ExtStates]
    /\ csvs \in [Deps -> CsvStates]
    /\ spaces \subseteq Namespaces
    /\ foreign \in 0 .. MaxForeign /\ overtaken \subseteq Namespaces
    /\ mode \in [Procs -> Modes]
    /\ pc \in [Procs -> PCs]
    /\ todo \in [Procs -> SUBSET Deps]
    /\ at \in [Procs -> Steps]
    /\ answer \in [Procs -> [Deps -> Answers]]
    /\ result \in [Procs -> [Deps -> Outcomes]]
    /\ exit \in [Procs -> {"none", "ok", "error"}]
    /\ restarts \in [Procs -> 0 .. MaxRestarts]

Init ==
    /\ groups = Groups0
    /\ \E found \in Found :
         /\ subs = [d \in Deps |-> IF found[d] = "subscribed" THEN "requested" ELSE "none"]
         /\ exts = [d \in Deps |-> IF found[d] = "extended" THEN "requested"
                                ELSE IF found[d] = "elsewhere" THEN "elsewhere" ELSE "none"]
         /\ csvs = [d \in Deps |-> IF found[d] = "orphaned" THEN "succeeded" ELSE "none"]
    /\ spaces = {n \in Namespaces : groups[n] # {}}
    /\ foreign = 0 /\ overtaken = {}
    /\ mode \in [Procs -> Modes]
    /\ pc = [p \in Procs |-> "check"]
    /\ todo = [p \in Procs |-> {}]
    /\ at = [p \in Procs |-> "namespace"]
    /\ answer = [p \in Procs |-> [d \in Deps |-> "unknown"]]
    /\ result = [p \in Procs |-> [d \in Deps |-> "none"]]
    /\ exit = [p \in Procs |-> "none"]
    /\ restarts = [p \in Procs |-> 0]

-----------------------------------------------------------------------------
(* Which dependencies, and which of them are already requested.            *)

ShouldInstallDep(d) ==
    IF Bulk THEN Enabled[d] = "true" \/ (Enabled[d] = "auto" /\ IncludeOptional)
    ELSE d \in TargetDeps

Selected == {d \in Deps : ShouldInstallDep(d)}

(* A ClusterExtension for the package in the dependency's namespace.       *)
RequestedClusterExtension(d) == exts[d] \in {"requested", "installed", "failed"}
RequestedV0Subscription(d) == subs[d] # "none"
HasSucceededCSV(d) == csvs[d] = "succeeded"

(* A mutant: with v1, only v1 requests are looked for.                     *)
IsAlreadyInstalledOneSided(p, d) ==
    IF mode[p] = "v1" THEN RequestedClusterExtension(d)
    ELSE \/ RequestedV0Subscription(d)
         \/ HasSucceededCSV(d)
         \/ CanListExtensions /\ RequestedClusterExtension(d)

(* Where listing the extensions is forbidden, v0 goes on without.          *)
IsAlreadyInstalled(p, d) ==
    IF mode[p] = "v1"
    THEN RequestedClusterExtension(d) \/ RequestedV0Subscription(d)
    ELSE \/ RequestedV0Subscription(d)
         \/ HasSucceededCSV(d)
         \/ CanListExtensions /\ RequestedClusterExtension(d)

(* One of the goroutines of filterDepsToInstall. *)
Check(p, d) ==
    /\ pc[p] = "check"
    /\ d \in Selected
    /\ answer[p][d] = "unknown"
    /\ \/ answer' = [answer EXCEPT ![p][d] =
                       IF IsAlreadyInstalled(p, d) THEN "requested" ELSE "absent"]
       \/ answer' = [answer EXCEPT ![p][d] = "error"]
    /\ UNCHANGED <<cluster, mode, pc, todo, at, result, exit, restarts>>

(* A mutant: a check that fails counts as one that found a request.        *)
FilterIgnoringErrors(p) ==
    /\ pc[p] = "check"
    /\ \A d \in Selected : answer[p][d] # "unknown"
    /\ LET missing == {d \in Selected : answer[p][d] = "absent"}
       IN  /\ todo' = [todo EXCEPT ![p] = missing]
           /\ IF missing = {}
              THEN /\ pc' = [pc EXCEPT ![p] = "done"]
                   /\ exit' = [exit EXCEPT ![p] = "ok"]
              ELSE /\ pc' = [pc EXCEPT ![p] = "accounts"]
                   /\ UNCHANGED exit
    /\ UNCHANGED <<cluster, mode, at, answer, result, restarts>>

(* filterDepsToInstall returns: the first error ends the run, before       *)
(* anything is created; so does, without an error, having nothing to do.   *)
FilterDepsToInstall(p) ==
    /\ pc[p] = "check"
    /\ \A d \in Selected : answer[p][d] # "unknown"
    /\ LET missing == {d \in Selected : answer[p][d] = "absent"}
           failed == \E d \in Selected : answer[p][d] = "error"
       IN  IF failed \/ missing = {}
           THEN /\ pc' = [pc EXCEPT ![p] = "done"]
                /\ exit' = [exit EXCEPT ![p] = IF failed THEN "error" ELSE "ok"]
                /\ UNCHANGED todo
           ELSE /\ pc' = [pc EXCEPT ![p] = "accounts"]
                /\ todo' = [todo EXCEPT ![p] = missing]
                /\ UNCHANGED exit
    /\ UNCHANGED <<cluster, mode, at, answer, result, restarts>>

(* With v1 every namespace needs the ServiceAccount, before anything is    *)
(* created; a read that fails ends the run as well.                        *)
ValidateServiceAccounts(p) ==
    /\ pc[p] = "accounts"
    /\ \/ /\ mode[p] = "v1" => \A d \in todo[p] : Namespace[d] \in Accounts
          /\ pc' = [pc EXCEPT ![p] = "create"]
          /\ UNCHANGED exit
       \/ /\ mode[p] = "v1"
          /\ pc' = [pc EXCEPT ![p] = "done"]
          /\ exit' = [exit EXCEPT ![p] = "error"]
    /\ UNCHANGED <<cluster, mode, todo, at, answer, result, restarts>>

-----------------------------------------------------------------------------
(* Phase 1: createDepResources, one dependency after the other.            *)

(* The loop is at d. *)
Current(p, d) == d \in todo[p] /\ \A e \in todo[p] : Order[d] <= Order[e]

Creating(p, d, step) ==
    /\ pc[p] = "create"
    /\ Current(p, d)
    /\ at[p] = step
    /\ UNCHANGED <<csvs, foreign, mode, pc, answer, exit, restarts>>

GoTo(p, step) ==
    /\ at' = [at EXCEPT ![p] = step]
    /\ UNCHANGED <<todo, result>>

(* The dependency is done with: waited for later, or failed. *)
Leave(p, d, outcome) ==
    /\ todo' = [todo EXCEPT ![p] = @ \ {d}]
    /\ at' = [at EXCEPT ![p] = "namespace"]
    /\ result' = [result EXCEPT ![p][d] = outcome]

(* Any of the requests may fail, and so may reading back what exists. *)
CreateFails(p, d) ==
    /\ \E step \in Steps : Creating(p, d, step)
    /\ Leave(p, d, "failed")
    /\ UNCHANGED <<groups, subs, exts, spaces, overtaken>>

(* createNamespace. A v1 dependency that watches several namespaces is     *)
(* refused before it.                                                      *)
CreateNamespace(p, d) ==
    /\ Creating(p, d, "namespace")
    /\ IF mode[p] = "v1" /\ Cardinality(Targets[d]) > 1
       THEN Leave(p, d, "failed") /\ UNCHANGED spaces
       ELSE /\ spaces' = spaces \cup {Namespace[d]}
            /\ GoTo(p, IF mode[p] = "v1" THEN "request" ELSE "groups")
    /\ UNCHANGED <<groups, subs, exts, overtaken>>

(* A mutant: an OperatorGroup that is there is used, whatever it targets.  *)
EnsureAnyOperatorGroup(p, d) ==
    /\ Creating(p, d, "groups")
    /\ GoTo(p, IF groups[Namespace[d]] = {} THEN "group" ELSE "request")
    /\ UNCHANGED <<groups, subs, exts, spaces, overtaken>>

(* ensureOperatorGroup, its List: the first group found has to target what *)
(* the dependency does.                                                    *)
EnsureOperatorGroup(p, d) ==
    /\ Creating(p, d, "groups")
    /\ LET found == groups[Namespace[d]]
       IN  \/ found = {} /\ GoTo(p, "group")
           \/ \E g \in found :
                IF g.targets = Targets[d] THEN GoTo(p, "request")
                ELSE Leave(p, d, "failed")
    /\ UNCHANGED <<groups, subs, exts, spaces, overtaken>>

(* The OperatorGroup g comes up in n. A run that has found none there, and *)
(* is about to create another than g, does not know.                       *)
AddGroup(n, g) ==
    /\ groups' = [groups EXCEPT ![n] = @ \cup {g}]
    /\ overtaken' = overtaken \cup
         {m \in {n} : \E q \in Procs, x \in Deps :
            /\ pc[q] = "create" /\ at[q] = "group" /\ Current(q, x)
            /\ Namespace[x] = m /\ g # Group("own", Targets[x])}

(* ensureOperatorGroup, its Create: a group of the same name that is there *)
(* by now is taken for this one.                                           *)
CreateOperatorGroup(p, d) ==
    /\ Creating(p, d, "group")
    /\ IF \E g \in groups[Namespace[d]] : g.name = "own"
       THEN UNCHANGED <<groups, overtaken>>
       ELSE AddGroup(Namespace[d], Group("own", Targets[d]))
    /\ GoTo(p, "request")
    /\ UNCHANGED <<subs, exts, spaces>>

(* createSubscription; one that exists by now is enough. *)
CreateSubscription(p, d) ==
    /\ mode[p] = "v0"
    /\ Creating(p, d, "request")
    /\ subs' = IF subs[d] = "none" THEN [subs EXCEPT ![d] = "requested"] ELSE subs
    /\ Leave(p, d, "pending")
    /\ UNCHANGED <<groups, exts, spaces, overtaken>>

(* createClusterExtension; one that exists by now is enough, if it is for  *)
(* this namespace.                                                         *)
CreateClusterExtension(p, d) ==
    /\ mode[p] = "v1"
    /\ Creating(p, d, "request")
    /\ exts' = IF exts[d] = "none" THEN [exts EXCEPT ![d] = "requested"] ELSE exts
    /\ Leave(p, d, IF exts[d] = "elsewhere" THEN "failed" ELSE "pending")
    /\ UNCHANGED <<groups, subs, spaces, overtaken>>

CreateDepResources(p, d) ==
    \/ CreateNamespace(p, d) \/ EnsureOperatorGroup(p, d)
    \/ CreateOperatorGroup(p, d) \/ CreateSubscription(p, d)
    \/ CreateClusterExtension(p, d) \/ CreateFails(p, d)

-----------------------------------------------------------------------------
(* Phase 2: waitForOperatorsParallel.                                      *)

StartWaiting(p) ==
    /\ pc[p] = "create"
    /\ todo[p] = {}
    /\ pc' = [pc EXCEPT ![p] = "wait"]
    /\ UNCHANGED <<cluster, mode, todo, at, answer, result, exit, restarts>>

(* A mutant: a Subscription, or an extension, is enough.                   *)
RequestIsReady(p, d) ==
    IF mode[p] = "v0" THEN subs[d] # "none" ELSE RequestedClusterExtension(d)

(* A poll finds the operator ready, ... *)
Ready(p, d) ==
    IF mode[p] = "v0" THEN HasSucceededCSV(d) ELSE exts[d] = "installed"

(* ... or finds that it will not be. A transient failure is not told apart *)
(* from a lasting one.                                                     *)
Broken(p, d) ==
    IF mode[p] = "v0" THEN subs[d] = "unresolvable" \/ csvs[d] = "failed"
    ELSE exts[d] = "failed"

(* A mutant: the wait has no timeout, and a poll that fails is repeated.   *)
WaitUntilReady(p, d) ==
    /\ pc[p] = "wait"
    /\ result[p][d] = "pending"
    /\ Ready(p, d)
    /\ result' = [result EXCEPT ![p][d] = "installed"]
    /\ UNCHANGED <<cluster, mode, pc, todo, at, answer, exit, restarts>>

(* One of the goroutines: waitForCSV or waitForOperator ends. It ends with *)
(* an error too where a poll fails, and when its timeout passes, both of   *)
(* which may happen at any time.                                           *)
WaitForDependency(p, d) ==
    /\ pc[p] = "wait"
    /\ result[p][d] = "pending"
    /\ \/ Ready(p, d) /\ ~Broken(p, d)
             /\ result' = [result EXCEPT ![p][d] = "installed"]
       \/ result' = [result EXCEPT ![p][d] = "failed"]
    /\ UNCHANGED <<cluster, mode, pc, todo, at, answer, exit, restarts>>

(* A mutant: an outcome of its own where only some were installed.         *)
FinishPartly(p) ==
    /\ pc[p] = "wait"
    /\ \A d \in Deps : result[p][d] # "pending"
    /\ pc' = [pc EXCEPT ![p] = "done"]
    /\ exit' = [exit EXCEPT ![p] =
                  IF \E d \in Deps : result[p][d] = "failed"
                  THEN "partial" ELSE "ok"]
    /\ UNCHANGED <<cluster, mode, todo, at, answer, result, restarts>>

(* runInstall returns the errors of all of them. *)
Finish(p) ==
    /\ pc[p] = "wait"
    /\ \A d \in Deps : result[p][d] # "pending"
    /\ pc' = [pc EXCEPT ![p] = "done"]
    /\ exit' = [exit EXCEPT ![p] =
                  IF \E d \in Deps : result[p][d] = "failed"
                  THEN "error" ELSE "ok"]
    /\ UNCHANGED <<cluster, mode, todo, at, answer, result, restarts>>

Step(p) ==
    \/ \E d \in Deps : Check(p, d) \/ CreateDepResources(p, d) \/ WaitForDependency(p, d)
    \/ FilterDepsToInstall(p) \/ ValidateServiceAccounts(p)
    \/ StartWaiting(p) \/ Finish(p)

(* The process is cut off, and a new one is started, which may resolve     *)
(* another API: with --olm, or because the cluster was upgraded.           *)
Crash(p) ==
    /\ pc[p] \notin {"done", "crashed"}
    /\ pc' = [pc EXCEPT ![p] = "crashed"]
    /\ UNCHANGED <<cluster, mode, todo, at, answer, result, exit, restarts>>

Restart(p) ==
    /\ pc[p] \in {"done", "crashed"}
    /\ restarts[p] < MaxRestarts
    /\ restarts' = [restarts EXCEPT ![p] = @ + 1]
    /\ \E m \in Modes : mode' = [mode EXCEPT ![p] = m]
    /\ pc' = [pc EXCEPT ![p] = "check"]
    /\ todo' = [todo EXCEPT ![p] = {}]
    /\ at' = [at EXCEPT ![p] = "namespace"]
    /\ answer' = [answer EXCEPT ![p] = [d \in Deps |-> "unknown"]]
    /\ result' = [result EXCEPT ![p] = [d \in Deps |-> "none"]]
    /\ exit' = [exit EXCEPT ![p] = "none"]
    /\ UNCHANGED cluster

-----------------------------------------------------------------------------
(* The cluster: OLM and the administrator.                                 *)

OLM(d) ==
    /\ \/ /\ subs[d] = "requested" /\ csvs[d] \in {"none", "failed"}
          /\ Cardinality(groups[Namespace[d]]) = 1
          /\ csvs' = [csvs EXCEPT ![d] = "installing"]
          /\ UNCHANGED <<subs, exts>>
       \/ /\ csvs[d] = "installing"
          /\ \E s \in {"succeeded", "failed"} : csvs' = [csvs EXCEPT ![d] = s]
          /\ UNCHANGED <<subs, exts>>
       \/ /\ subs[d] = "requested" /\ csvs[d] = "none"
          /\ subs' = [subs EXCEPT ![d] = "unresolvable"]
          /\ UNCHANGED <<csvs, exts>>
       \/ /\ exts[d] \in {"requested", "failed"}
          /\ \E s \in {"installed", "failed"} : exts' = [exts EXCEPT ![d] = s]
          /\ UNCHANGED <<subs, csvs>>
    /\ UNCHANGED <<groups, spaces, foreign, overtaken, mode, pc, todo, at, answer, result,
                   exit, restarts>>

(* An OperatorGroup of the administrator's, with targets of its own, where *)
(* there is none.                                                          *)
ForeignGroup(n) ==
    /\ foreign < MaxForeign
    /\ groups[n] = {}
    /\ n \in spaces
    /\ foreign' = foreign + 1
    /\ \E name \in ForeignNames, t \in {Targets[d] : d \in Deps} :
         AddGroup(n, Group(name, t))
    /\ UNCHANGED <<subs, exts, csvs, spaces, mode, pc, todo, at, answer, result,
                   exit, restarts>>

Next ==
    \/ \E p \in Procs : Step(p) \/ Crash(p) \/ Restart(p)
    \/ \E d \in Deps : OLM(d)
    \/ \E n \in Namespaces : ForeignGroup(n)

Spec == Init /\ [][Next]_vars

(* A process that is running goes on; its requests are answered or fail,   *)
(* and its waits end with their timeout at the latest. Nothing is assumed  *)
(* of OLM.                                                                 *)
Fairness == \A p \in Procs : WF_vars(Step(p))
FairSpec == Spec /\ Fairness
-----------------------------------------------------------------------------
(* Properties.                                                             *)

(* OLM has been asked for the operator, or has installed it. *)
Requested(d) ==
    RequestedV0Subscription(d) \/ RequestedClusterExtension(d) \/ HasSucceededCSV(d)

(* A run that reports success leaves no selected dependency without a      *)
(* request to OLM or an installed operator, also where an earlier run was  *)
(* cut off halfway or another one works beside it.                         *)
ExitOkMeansRequested ==
    \A p \in Procs : exit[p] = "ok" => \A d \in Selected : Requested(d)

(* No package is requested through both generations of OLM, which would    *)
(* make two installers own the same operator.                              *)
NoDualRequest ==
    \A d \in Deps : ~(RequestedV0Subscription(d) /\ RequestedClusterExtension(d))

(* A Subscription that was added is served: OLM looks for the one          *)
(* OperatorGroup of the namespace, and that has the targets of the         *)
(* dependency (ensureOperatorGroup), whatever group an administrator or an *)
(* earlier or concurrent run has left there. Left out are namespaces with  *)
(* two groups to begin with, or given a second by an administrator, and    *)
(* those where a group came up after a run had looked and before it        *)
(* created its own: that Create does not look again.                       *)
Added(d) == (\A found \in Found : found[d] # "subscribed") /\ RequestedV0Subscription(d)

GroupServesSubscription ==
    \A d \in Deps : LET n == Namespace[d] IN
        /\ Added(d) /\ n \notin overtaken
        /\ \A g, h \in Groups0[n] : g = h
        => \E g \in groups[n] : groups[n] = {g} /\ g.targets = Targets[d]

(* install.go: "If an OperatorGroup already exists, check if               *)
(* TargetNamespaces match". Not so where it came up after the List.        *)
ExistingGroupsMatch ==
    \A d \in Deps : Added(d) =>
        \E g \in groups[Namespace[d]] : g.targets = Targets[d]

(* "installed" is reported of operators OLM has installed, and of no other.*)
InstalledMeansReady ==
    \A p \in Procs, d \in Deps : result[p][d] = "installed" =>
        csvs[d] = "succeeded" \/ exts[d] = "installed"

(* The inductive invariant behind ExitOkMeansRequested and                 *)
(* InstalledMeansReady: an answer stays true after it was read, what is    *)
(* waited for was requested, and no selected dependency drops out between  *)
(* the check, the loop and the wait.                                       *)
AnswersStayTrue ==
    \A p \in Procs, d \in Deps : answer[p][d] = "requested" => Requested(d)
PendingRequested ==
    \A p \in Procs, d \in Deps : result[p][d] \in {"pending", "installed"} => Requested(d)
NoneDropsOut ==
    \A p \in Procs : pc[p] \in {"accounts", "create", "wait"} =>
        \A d \in Selected :
            \/ answer[p][d] = "requested"
            \/ d \in todo[p]
            \/ result[p][d] # "none"
LoopDone == \A p \in Procs : pc[p] = "wait" => todo[p] = {}
IndInv ==
    /\ AnswersStayTrue /\ PendingRequested /\ NoneDropsOut /\ LoopDone
    /\ ExitOkMeansRequested /\ InstalledMeansReady

(* A run that is not cut off ends, whether or not OLM ever acts.           *)
RunsEnd == \A p \in Procs : (pc[p] = "check") ~> (pc[p] \in {"done", "crashed"})
=============================================================================

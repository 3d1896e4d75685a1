---------------------------- MODULE BackupCommand ----------------------------
(***************************************************************************)
(* What `kubectl odh backup` promises, one workload type at a time and     *)
(* without goroutines, channels or contexts: the instances a listing       *)
(* returned are each settled exactly once, by being written or by a        *)
(* warning, before the type is left without a warning of its own.          *)
(* BackupPipeline is shown to implement this specification.                *)
(***************************************************************************)
EXTENDS BackupInputs

Stages == {"idle", "listing", "saving"}

VARIABLES
    turn,     \* how many types have been started
    stage,    \* what is being done for the type: Stages
    open,     \* listed instances of the current type that are not settled
    files,    \* objects written
    warned,   \* objects a warning names
    result    \* how each type ended

vars == <<turn, stage, open, files, warned, result>>

TypeOK ==
    /\ turn \in 0 .. Len(Includes)
    /\ stage \in Stages
    /\ open \subseteq Workloads
    /\ files \subseteq Workloads \cup Deps
    /\ warned \subseteq Workloads \cup Deps
    /\ result \in [Turns -> Results]

Init ==
    /\ turn = 0
    /\ stage = "idle"
    /\ open = {}
    /\ files = {}
    /\ warned = {}
    /\ result = [i \in Turns |-> "pending"]

Begin ==
    /\ stage = "idle"
    /\ turn < Len(Includes)
    /\ turn' = turn + 1
    /\ stage' = "listing"
    /\ UNCHANGED <<open, files, warned, result>>

(* The instances are listed once. A listing the API server denies, and one *)
(* that fails, opens nothing.                                              *)
Discover ==
    /\ stage = "listing"
    /\ stage' = "saving"
    /\ open' \in {{}, Range(Instances[Includes[turn]])}
    /\ UNCHANGED <<turn, files, warned, result>>

(* An instance is settled by a file, with files or warnings for the        *)
(* dependencies it refers to, or by a warning of its own.                  *)
Settle(w) ==
    /\ stage = "saving"
    /\ w \in open
    /\ open' = open \ {w}
    /\ \/ /\ \E saved \in SUBSET Refs[w] : files' = files \cup {w} \cup saved
          /\ \E lost \in SUBSET Refs[w] : warned' = warned \cup lost
       \/ /\ warned' = warned \cup {w}
          /\ files' = files
    /\ UNCHANGED <<turn, stage, result>>

Succeed ==
    /\ stage = "saving"
    /\ open = {}
    /\ stage' = "idle"
    /\ result' = [result EXCEPT ![turn] = "ok"]
    /\ UNCHANGED <<turn, open, files, warned>>

Fail ==
    /\ stage = "saving"
    /\ stage' = "idle"
    /\ open' = {}
    /\ result' = [result EXCEPT ![turn] = "failed"]
    /\ UNCHANGED <<turn, files, warned>>

Next ==
    \/ Begin
    \/ Discover
    \/ \E w \in Workloads : Settle(w)
    \/ Succeed
    \/ Fail

Spec == Init /\ [][Next]_vars
=============================================================================

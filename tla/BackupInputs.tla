---------------------------- MODULE BackupInputs ----------------------------
(***************************************************************************)
(* What a run of `kubectl odh backup` is given: the workload types it is   *)
(* asked for and what the cluster holds of them.                           *)
(***************************************************************************)
EXTENDS Naturals, Sequences, Functions

CONSTANTS
    Types,        \* workload types (GVRs)
    Workloads,    \* workload instances
    Deps,         \* ConfigMaps, PVCs and Secrets the instances refer to
    Includes,     \* gvrsToBackup: the types to back up, in order
    Instances,    \* the instances of each type, as the API server lists them
    Refs          \* the dependencies each instance refers to

(* A type may be included twice, and it is then backed up twice. Includes  *)
(* is what resolveWorkloadGVRs returns: --includes, or the default types,  *)
(* without the ones --exclude names. A listing has each object once.       *)
ASSUME InputAssumption ==
    /\ Includes \in Seq(Types)
    /\ Instances \in [Types -> Seq(Workloads)]
    /\ \A t \in Types : IsInjective(Instances[t])
    /\ Refs \in [Workloads -> SUBSET Deps]

Turns == 1 .. Len(Includes)
Results == {"pending", "ok", "failed"}
=============================================================================

-------------------------- MODULE MCBackupPipeline --------------------------
(* Instances of BackupPipeline for TLC.                                     *)
EXTENDS BackupPipeline

CONSTANTS
    nb, isvc,              \* notebooks, which have a resolver, and a type without
    w1, w2, w3, w4,        \* instances
    cm, secret             \* dependencies

(* Three notebooks, two of which share a Secret, and one of another type. *)
TwoIncludes == <<nb, isvc>>
MixedInstances == [t \in Types |-> IF t = nb THEN <<w1, w2, w4>> ELSE <<w3>>]
MixedRefs == [w \in Workloads |-> CASE w = w1 -> {cm, secret}
                                  [] w = w2 -> {secret}
                                  [] OTHER -> {}]
=============================================================================

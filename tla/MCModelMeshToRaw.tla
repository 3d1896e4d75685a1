--------------------------- MODULE MCModelMeshToRaw ---------------------------
(* Instances of ModelMeshToRaw for TLC.                                     *)
EXTENDS ModelMeshToRaw, TLC

CONSTANTS s1, s2, s3, n1, r1, r2

OneNamespace == [s \in Services |-> n1]

Refers(x, y, z) == s1 :> x @@ s2 :> y @@ s3 :> z

(* One process, started twice. *)
OneRun == [p \in Procs |-> IF p = "p" THEN 2 ELSE 0]

(* Two standard services on one runtime, one of them deployed at any time,  *)
(* and one on a PVC.                                                        *)
Mixed ==
    [runtime |-> Refers(r1, r1, r2), stored |-> Refers("no key", "standard", "pvc"),
     first |-> {s1, s3}, later |-> {s2}, flags |-> SUBSET {"dry-run", "yes"},
     starts |-> OneRun]

(* A service without storage key shares its runtime with one on a PVC; what *)
(* is stored for the third cannot be decoded, and it refers to no runtime.  *)
SharedWithPVC ==
    [runtime |-> Refers(r1, r1, NoRuntime), stored |-> Refers("no key", "pvc", "malformed"),
     first |-> {s1, s2, s3}, later |-> {}, flags |-> SUBSET {"dry-run", "yes"},
     starts |-> OneRun]

(* Two models on PVCs with a runtime each, one of them with an unusable     *)
(* name for its volume.                                                     *)
OwnRuntimes ==
    [runtime |-> Refers(r1, r2, NoRuntime), stored |-> Refers("pvc", "bad pvc", "standard"),
     first |-> {s1, s2, s3}, later |-> {}, flags |-> SUBSET {"dry-run", "yes"},
     starts |-> OneRun]

(* Two processes; a standard service and one on a PVC, which may come late. *)
Overlap ==
    [Mixed EXCEPT !.first = {s1}, !.later = {s3}, !.flags = {{"yes"}},
                  !.starts = [p \in Procs |-> 1]]

OnlyMixed == {[Mixed EXCEPT !.flags = {{"yes"}}]}
FourLayouts == {Mixed, SharedWithPVC, OwnRuntimes, Overlap}
=============================================================================

-------------------------- MODULE MCRHBOKMigration --------------------------
(* Small clusters, flags and processes for RHBOKMigration. *)
EXTENDS RHBOKMigration, TLC

CONSTANTS p1, p2, n1, n2, w1, w2

MCHomeNS == w1 :> n1 @@ w2 :> n2

\* n1 was opted in by label; n2 holds a LocalQueue and nothing else of Kueue.
MCLegacyNS == {n1}
MCLocalQueueNS == {n2}

Flags(dry, yes, skip, force, olm) ==
    [dry |-> dry, yes |-> yes, skip |-> skip, force |-> force, olm |-> olm]

DryRun == Flags(TRUE, FALSE, FALSE, FALSE, "auto")
Interactive == Flags(FALSE, FALSE, FALSE, FALSE, "auto")
Unattended == Flags(FALSE, TRUE, FALSE, FALSE, "auto")
Forced == Flags(FALSE, TRUE, FALSE, TRUE, "v1")
ToldV0 == Flags(FALSE, TRUE, FALSE, FALSE, "v0")
SkipRemoval == Flags(FALSE, TRUE, TRUE, FALSE, "auto")

\* A cluster with a running embedded Kueue, before anything was migrated.
Managed(crds) ==
    [mgmt |-> "Managed", embedded |-> TRUE, ready |-> "True", cm |-> "plain",
     crd |-> crds, rhbok |-> [m \in Modes |-> "none"], pods |-> "none",
     openshift |-> {}, wls |-> {w1, w2}, queued |-> {}]
NoCRDs == [c \in CRDNames |-> "absent"]
OldCRDs == "cohorts" :> "instances" @@ "topologies" :> "empty"

\* One where somebody already removed Kueue, and one migrated half way by hand.
Removed == [Managed(NoCRDs) EXCEPT !.mgmt = "Removed", !.embedded = FALSE,
                !.ready = "Removed", !.cm = "absent", !.wls = {w1}]
HalfWay == [Removed EXCEPT !.mgmt = "Unmanaged", !.ready = "True", !.pods = "ready",
                !.rhbok = [@ EXCEPT !["v0"] = "installed"]]

OneManaged == {Managed(NoCRDs)}
ManyClusters == {Managed(NoCRDs), Managed(OldCRDs), Removed, HalfWay}
NoV0Flags == {DryRun, Interactive, Unattended, Forced}
MixedFlags == NoV0Flags \cup {ToldV0}

\* The workload and the namespaces are labelled already: what is left is the
\* protocol on the DataScienceCluster and on OLM.
LabelledManaged ==
    {[Managed(NoCRDs) EXCEPT !.openshift = {n1, n2}, !.queued = {w1, w2}]}
Symmetry == Permutations({p1, p2})
UnattendedOnly == {Unattended}
InteractiveOnly == {Interactive}
AllFlags == NoV0Flags \cup {SkipRemoval}
=============================================================================

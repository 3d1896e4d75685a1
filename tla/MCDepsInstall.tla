--------------------------- MODULE MCDepsInstall ---------------------------
(* Instances of DepsInstall for TLC.                                       *)
EXTENDS DepsInstall

CONSTANTS
    a, b, c, d,     \* dependencies
    n1, n2          \* namespaces

(* a, b and c share a namespace and want different OperatorGroups; c       *)
(* watches two namespaces, which OLM v1 cannot; d is optional.             *)
ByName == [x \in Deps |-> CASE x = a -> 1 [] x = b -> 2 [] x = c -> 3 [] x = d -> 4]
OneOptional == [x \in Deps |-> IF x = d THEN "auto" ELSE "true"]
SharedNamespace == [x \in Deps |-> IF x = d THEN n2 ELSE n1]
OwnTargets == [x \in Deps |-> CASE x = a -> {} [] x = c -> {n1, n2} [] OTHER -> {n1}]

(* What a run comes upon; NoDualRequest is about what it adds to that.     *)
NothingFound == {[x \in Deps |-> "absent"]}
OptionalFound == {[x \in Deps |-> IF x = d THEN s ELSE "absent"] : s \in Situations}

NoGroups == [x \in Namespaces |-> {}]
=============================================================================

--------------------------- MODULE MCPolicyVersion ---------------------------
(* Two enforcers on a shared version source, with an invalidator or without, *)
(* or one enforcer on its own counter.                                       *)
EXTENDS PolicyVersion, TLC

SharedAndLocal ==
    {[instances |-> Instances, shared |-> TRUE, invalidator |-> b] : b \in BOOLEAN} \cup
    {[instances |-> {i}, shared |-> FALSE, invalidator |-> FALSE] : i \in Instances}
SingleShared == {[instances |-> Instances, shared |-> TRUE, invalidator |-> FALSE]}

Symmetry == Permutations(Instances) \cup Permutations(Mutators)
==============================================================================

---------------------------- MODULE MCPolicyStore ----------------------------
(* The instance of the memory store that TLC checks: three roles for the shape
   of the hierarchy, with a user, rules and metadata to lose. *)
EXTENDS PolicyStore, TLC

Symmetry == Permutations(Roles) \cup Permutations(Users)
=============================================================================

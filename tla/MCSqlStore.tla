----------------------------- MODULE MCSqlStore -----------------------------
(***************************************************************************)
(* Instances of SqlStore.                                                  *)
(***************************************************************************)
EXTENDS SqlStore, TLC

Symmetry == Permutations(Roles) \cup Permutations(Writers)
=============================================================================

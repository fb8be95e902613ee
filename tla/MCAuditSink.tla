------------------------------ MODULE MCAuditSink ------------------------------
(* The instance of AuditSink that TLC checks. *)
EXTENDS AuditSink, TLC

Symmetry == Permutations(Mutations) \cup Permutations(Decisions)
=============================================================================

----------------------------- MODULE MCInvalidator -----------------------------
(* The instance of Invalidator that TLC checks. *)
EXTENDS Invalidator, TLC
=============================================================================

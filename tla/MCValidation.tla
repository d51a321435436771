---------------------------- MODULE MCValidation ----------------------------
(* Validation with small limits, for TLC. *)
EXTENDS Validation
=============================================================================

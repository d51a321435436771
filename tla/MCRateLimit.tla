---------------------------- MODULE MCRateLimit ----------------------------
(* RateLimit on small sets, for TLC.  No symmetry: its runs check liveness. *)
EXTENDS RateLimit
=============================================================================

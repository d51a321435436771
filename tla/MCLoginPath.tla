---------------------------- MODULE MCLoginPath ----------------------------
(* LoginPath on small sets, for TLC.  No symmetry: its run checks liveness. *)
EXTENDS LoginPath
=============================================================================

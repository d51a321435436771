--------------------------- MODULE MCLockoutStore ---------------------------
(* LockoutStore on small sets, for TLC.  No symmetry: its run checks liveness. *)
EXTENDS LockoutStore
=============================================================================

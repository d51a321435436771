------------------------- MODULE MCSessionLifetime -------------------------
(* SessionLifetime on small sets, for TLC. *)
EXTENDS SessionLifetime, TLC

Symmetry == Permutations(Pair) \cup Permutations(Proc) \cup Permutations(Uid)
=============================================================================

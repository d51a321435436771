---------------------------- MODULE MCTokenStore ----------------------------
(* TokenStore on small sets, for TLC. *)
EXTENDS TokenStoreInv, TLC

Symmetry == Permutations(Jti) \cup Permutations(Uid) \cup Permutations(Proc)
=============================================================================

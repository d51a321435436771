--------------------------- MODULE MCAuthService ---------------------------
(* AuthService on small sets, for TLC. *)
EXTENDS AuthService, TLC

Symmetry ==
    Permutations(Jti) \cup Permutations(Uid) \cup Permutations(Proc)
        \cup Permutations(Password) \cup Permutations(Reset)
=============================================================================

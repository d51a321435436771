----------------------------- MODULE JwtManager -----------------------------
(***************************************************************************)
(* What JwtManager (src/src/domain/jwt.rs) signs and accepts.  A token is  *)
(* its claims: nobody but JwtManager signs with the key, so what is held   *)
(* was signed, and decoding is left with exp and kind.  The instant, in    *)
(* whole seconds in the code, is a parameter of every operator.            *)
(***************************************************************************)
EXTENDS Integers

CONSTANTS
    Uid,
    ACCESS_TTL,    \* fifteen minutes in the code
    REFRESH_TTL,   \* seven days
    Leeway         \* sixty seconds: Validation::new of jsonwebtoken 9, not set by the code

ASSUME TtlAssumption == ACCESS_TTL \in Nat /\ REFRESH_TTL \in Nat /\ Leeway \in Nat

Claims(kind) == [sub : Uid, iat : Nat, exp : Nat, kind : {kind}]

SignWithClaims(u, ttl, kind, at) ==
    [sub |-> u, iat |-> at, exp |-> at + ttl, kind |-> kind]

SignAccessToken(u, at) == SignWithClaims(u, ACCESS_TTL, "access", at)

(* Seeded fault: the kind is copied from the line above. *)
SignRefreshTokenAsAccess(u, at) == SignWithClaims(u, REFRESH_TTL, "access", at)

SignRefreshToken(u, at) == SignWithClaims(u, REFRESH_TTL, "refresh", at)

(* Seeded fault: the kind is not compared. *)
AnyKind(claims, expected, at) == at <= claims.exp + Leeway

(* jsonwebtoken refuses a token once exp < now - leeway. *)
DecodeAndCheck(claims, expected, at) ==
    /\ at <= claims.exp + Leeway
    /\ claims.kind = expected

VerifyAccess(claims, at) == DecodeAndCheck(claims, "access", at)

VerifyRefresh(claims, at) == DecodeAndCheck(claims, "refresh", at)
=============================================================================

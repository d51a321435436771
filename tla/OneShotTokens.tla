--------------------------- MODULE OneShotTokens ---------------------------
(***************************************************************************)
(* What the service promises of a refresh token, and of any credential     *)
(* that is consumed by its use: after it is issued it is accepted at most  *)
(* once, by one client, and after it was accepted or withdrawn it is never *)
(* accepted again.  How the keys are stored, indexed and expired is left   *)
(* out.                                                                    *)
(*                                                                         *)
(* TokenStore implements this with its keys refresh:{jti}.                 *)
(***************************************************************************)
CONSTANTS
    Token,    \* the tokens
    Client,   \* those who present them
    NoToken   \* no token

VARIABLES
    state,    \* of each token: unissued, live or spent
    grant     \* the token a client has just had accepted, if any

vars == <<state, grant>>

Init ==
    /\ state = [t \in Token |-> "unissued"]
    /\ grant = [c \in Client |-> NoToken]

(* A token becomes valid, once. *)
Issue(t) ==
    /\ state[t] = "unissued"
    /\ state' = [state EXCEPT ![t] = "live"]
    /\ UNCHANGED grant

(* A live token is accepted from a client, and is spent by that. *)
Accept(c, t) ==
    /\ grant[c] = NoToken
    /\ state[t] = "live"
    /\ state' = [state EXCEPT ![t] = "spent"]
    /\ grant' = [grant EXCEPT ![c] = t]

(* Tokens are withdrawn or expire, or are never issued at all. *)
Withdraw(gone) ==
    /\ state' = [t \in Token |-> IF t \in gone THEN "spent" ELSE state[t]]
    /\ UNCHANGED grant

(* The client is done with what it was granted. *)
Release(c) ==
    /\ grant' = [grant EXCEPT ![c] = NoToken]
    /\ UNCHANGED state

Next ==
    \/ \E t \in Token : Issue(t)
    \/ \E c \in Client : Release(c) \/ (\E t \in Token : Accept(c, t))
    \/ \E gone \in SUBSET Token : Withdraw(gone)

Spec == Init /\ [][Next]_vars
=============================================================================

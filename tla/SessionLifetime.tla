-------------------------- MODULE SessionLifetime --------------------------
(***************************************************************************)
(* How long a session lasts: the exp of its signed tokens (JwtManager), the *)
(* TTL of its key in Redis (TokenStore), and the handlers that use both.    *)
(*                                                                         *)
(* The two clocks are set apart from each other: exp when a token is       *)
(* signed, the TTL when SETEX arrives, by a constant of its own.  Revoking *)
(* deletes keys and cannot reach access tokens, which AuthUser and the     *)
(* gRPC service check by their claims alone.                               *)
(*                                                                         *)
(* login and refresh sign an access and a refresh token with no await in   *)
(* between: they are a pair, with one instant.  A call on the token store  *)
(* is one step here; what may happen inside it is module TokenStore, and   *)
(* RevokeAll may leave any key behind for it.                              *)
(***************************************************************************)
EXTENDS JwtManager

CONSTANTS
    Pair,     \* pairs of tokens, fresh for every login and refresh
    Proc,     \* requests that may be in flight at once
    None,
    MaxTime   \* bounds the clock

ASSUME NoneIsNoValue == None \notin Pair \cup Uid \cup Claims("access") \cup Claims("refresh")

(* Seeded fault: the lifetime of the access token. *)
STORE_TTL_OF_ACCESS == ACCESS_TTL

(* The TTL that login and refresh ask for: a literal of each, the same now. *)
STORE_TTL == REFRESH_TTL

VARIABLES
    now,
    access,    \* the claims of each pair's access token, None before it is signed
    refresh,   \* and those of its refresh token
    key,       \* the instant the key refresh:{jti} expires; 0 if it was never set, or deleted
    held,      \* the pairs that clients were answered with
    flow,      \* the login or refresh each request is in
    lastSeen   \* ghost: the last instant each user had a session

vars == <<now, access, refresh, key, held, flow, lastSeen>>

Flow == [at : {"idle", "consume", "sign", "store"}, uid : Uid \cup {None}, pair : Pair \cup {None}]
Idle == [at |-> "idle", uid |-> None, pair |-> None]

TypeOK ==
    /\ now \in Nat
    /\ access \in [Pair -> Claims("access") \cup {None}]
    /\ refresh \in [Pair -> Claims("refresh") \cup {None}]
    /\ key \in [Pair -> Nat]
    /\ held \subseteq Pair
    /\ flow \in [Proc -> Flow]
    /\ lastSeen \in [Uid -> Nat]

Live(k) == now < key[k]

(* A user has a session while Redis has a key of theirs, or a request that  *)
(* has passed its check is about to make one.                              *)
HasSession(u) ==
    \/ \E k \in Pair : Live(k) /\ refresh[k].sub = u
    \/ \E p \in Proc : flow[p].at \in {"sign", "store"} /\ flow[p].uid = u

(* AuthUser::from_request_parts, and VerifyToken of the gRPC service: the   *)
(* bearer token may be any token a client holds.                           *)
Authenticated(u) ==
    \E k \in held : \E token \in {access[k], refresh[k]} :
        token.sub = u /\ VerifyAccess(token, now)

Init ==
    /\ now = 0
    /\ access = [k \in Pair |-> None]
    /\ refresh = [k \in Pair |-> None]
    /\ key = [k \in Pair |-> 0]
    /\ held = {}
    /\ flow = [p \in Proc |-> Idle]
    /\ lastSeen = [u \in Uid |-> 0]

-----------------------------------------------------------------------------
(* login, once the password was right. *)
Login(p, u) ==
    /\ flow[p].at = "idle"
    /\ flow' = [flow EXCEPT ![p] = [at |-> "sign", uid |-> u, pair |-> None]]
    /\ UNCHANGED <<now, access, refresh, key, held>>

(* refresh begins: the token it is called with is checked by itself. *)
RefreshVerify(p, k) ==
    /\ flow[p].at = "idle"
    /\ k \in held
    /\ VerifyRefresh(refresh[k], now)
    /\ flow' = [flow EXCEPT ![p] = [at |-> "consume", uid |-> refresh[k].sub, pair |-> k]]
    /\ UNCHANGED <<now, access, refresh, key, held>>

(* revoke_refresh_token: without its key, refresh ends with 401. *)
RefreshConsume(p) ==
    LET k == flow[p].pair IN
    /\ flow[p].at = "consume"
    /\ flow' = [flow EXCEPT ![p] = IF Live(k) THEN [@ EXCEPT !.at = "sign", !.pair = None]
                                              ELSE Idle]
    /\ key' = IF Live(k) THEN [key EXCEPT ![k] = 0] ELSE key
    /\ UNCHANGED <<now, access, refresh, held>>

(* sign_access_token and sign_refresh_token, for the user in the claims. *)
Sign(p, k) ==
    /\ flow[p].at = "sign"
    /\ access[k] = None
    /\ access' = [access EXCEPT ![k] = SignAccessToken(flow[p].uid, now)]
    /\ refresh' = [refresh EXCEPT ![k] = SignRefreshToken(flow[p].uid, now)]
    /\ flow' = [flow EXCEPT ![p].at = "store", ![p].pair = k]
    /\ UNCHANGED <<now, key, held>>

(* store_refresh_token, and the pair is the answer. *)
Store(p) ==
    /\ flow[p].at = "store"
    /\ key' = [key EXCEPT ![flow[p].pair] = now + STORE_TTL]
    /\ held' = held \cup {flow[p].pair}
    /\ flow' = [flow EXCEPT ![p] = Idle]
    /\ UNCHANGED <<now, access, refresh>>

(* A login or refresh breaks off at any await.  If the store had set the    *)
(* key by then, a session is left that nobody holds the tokens of.         *)
Abandon(p) ==
    /\ flow[p].at # "idle"
    /\ \/ key' = key
       \/ flow[p].at = "store" /\ key' = [key EXCEPT ![flow[p].pair] = now + STORE_TTL]
    /\ flow' = [flow EXCEPT ![p] = Idle]
    /\ UNCHANGED <<now, access, refresh, held>>

(* logout. *)
Logout(k) ==
    /\ k \in held
    /\ VerifyRefresh(refresh[k], now)
    /\ key' = [key EXCEPT ![k] = 0]
    /\ UNCHANGED <<now, access, refresh, held, flow>>

(* revoke_all_sessions, from logout_all or a password reset.  `gone` is all *)
(* of the user's keys, or some, if the call fails or misses a session.      *)
RevokeAll(u, gone) ==
    /\ \A k \in gone : Live(k) /\ refresh[k].sub = u
    /\ key' = [k \in Pair |-> IF k \in gone THEN 0 ELSE key[k]]
    /\ UNCHANGED <<now, access, refresh, held, flow>>

Tick ==
    /\ now < MaxTime
    /\ now' = now + 1
    /\ UNCHANGED <<access, refresh, key, held, flow>>

Step(p) ==
    \/ \E u \in Uid : Login(p, u)
    \/ \E k \in Pair : RefreshVerify(p, k)
    \/ RefreshConsume(p)
    \/ \E k \in Pair : Sign(p, k)
    \/ Store(p)
    \/ Abandon(p)

Next ==
    /\ \/ \E p \in Proc : Step(p)
       \/ \E k \in Pair : Logout(k)
       \/ \E u \in Uid, gone \in SUBSET Pair \ {{}} : RevokeAll(u, gone)
       \/ Tick
    /\ lastSeen' = [u \in Uid |-> IF HasSession(u)' THEN now' ELSE lastSeen[u]]

Spec == Init /\ [][Next]_vars

-----------------------------------------------------------------------------
(* However the last session of a user ended (logged out, revoked, failed in *)
(* the middle of a refresh, or expired), no token authenticates them later  *)
(* than the lifetime of an access token, and the leeway, after that.        *)
(* Refresh tokens outlive this by far and must not pass for access tokens. *)
AccessEndsWithSessions ==
    \A u \in Uid : Authenticated(u) => now <= lastSeen[u] + ACCESS_TTL + Leeway

(* A refresh token that was handed out and neither used nor revoked is good *)
(* for refresh up to its exp: it verifies, and its key is still there, the *)
(* two lifetimes being constants of two modules counted from two instants.  *)
SessionLastsUntilExp ==
    \A k \in held :
        key[k] # 0 /\ now < refresh[k].exp => Live(k) /\ VerifyRefresh(refresh[k], now)
=============================================================================

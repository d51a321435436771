---------------------------- MODULE AuthService ----------------------------
(***************************************************************************)
(* The handlers of rustauth (src/src/routes/mod.rs) over its two stores:   *)
(* the tables users and password_reset_tokens of Postgres, and the session *)
(* keys of Redis, which are module TokenStore.                             *)
(*                                                                         *)
(* A handler is a program of awaits.  One SQL statement is atomic, and so  *)
(* is one Redis command, but no handler opens a transaction and none locks *)
(* anything between the two stores: what it read is stale when it writes,  *)
(* and whatever step fails, the steps before it stay done.  `flow[p]` is   *)
(* the handler that request p is in and what it holds across its awaits;   *)
(* `call[p]`, of TokenStore, is its current call on the token store.       *)
(*                                                                         *)
(* A password stands for its hash: hash and verify are taken to match a    *)
(* password with itself alone.  Validation, rate limit and lockout decide  *)
(* whether a handler gets to its first step, and are modules of their own. *)
(***************************************************************************)
EXTENDS Integers

CONSTANTS
    Jti, Uid, Proc, None, RefreshTtl, Faults,   \* those of TokenStore
    Email,      \* addresses
    Password,   \* passwords that pass validate_password
    Reset       \* reset tokens, fresh for every generate_reset_token

ASSUME NoneIsNoValue == None \notin Jti \cup Uid \cup Email \cup Password \cup Reset
ASSUME RefreshTtlAssumption == RefreshTtl \in Nat \ {0}
ASSUME FaultsAssumption == Faults \in BOOLEAN
ASSUME RequestsAreNoTokens == Jti \cap Proc = {}   \* a login is named by the one or the other

VARIABLES refresh, refreshTtl, sessions, sessionsTtl, minted, call, acked, prior, orphaned

TS == INSTANCE TokenStore
redisVars == <<refresh, refreshTtl, sessions, sessionsTtl>>
tokenVars == <<redisVars, minted, call, acked, prior, orphaned>>

VARIABLES
    account,   \* the row of users of each id, None if there is none
    enrolled,  \* the user ids that were ever given out
    reset,     \* the row of password_reset_tokens of each token, None if there is none
    drawn,     \* the reset tokens that generate_reset_token returned
    mailed,    \* those whose link has reached the mailbox of the address
    claims,    \* the user in the claims of each signed refresh token
    flow       \* the handler each request is in

(* What the properties speak about and the program does not keep.          *)
VARIABLES
    family,    \* of each token, the token of the login it descends from by /refresh
    outdated,  \* per reset: the logins that go by a password older than the one it set
    ended      \* logins that a reset which succeeded has to have ended

ghostVars == <<family, outdated, ended>>
dbVars == <<account, enrolled, reset, drawn, mailed>>
vars == <<tokenVars, dbVars, claims, flow, ghostVars>>

-----------------------------------------------------------------------------
(* Values.                                                                 *)

User == [email : Email, password : Password]
ResetRow == [uid : Uid, open : BOOLEAN]   \* open: not used, not expired

ASSUME NoneIsNoRow == None \notin User \cup ResetRow

(* Where a handler is.  The first group awaits Postgres or the mail service *)
(* or is about to sign; in the second the token store is at work, or has    *)
(* just answered.                                                          *)
AwaitingDb == {"login", "change", "reset_request", "mail", "confirm_consumed",
               "confirm_updated"}
AwaitingRedis == {"login_store", "refresh_revoke", "refresh_store", "logout", "logout_all",
                  "confirm_revoke"}

(* reset is the token it has consumed or is to mail; seen the password the  *)
(* handler read; wanted the one it is to set.                              *)
Flow == [at : {"idle"} \cup AwaitingDb \cup AwaitingRedis,
         uid : Uid \cup {None},
         reset : Reset \cup {None},
         seen : Password \cup {None},
         wanted : Password \cup {None}]

Idle == [at |-> "idle", uid |-> None, reset |-> None, seen |-> None, wanted |-> None]

Free(p) == flow[p].at = "idle"
Confirming(p) == flow[p].at \in {"confirm_consumed", "confirm_updated", "confirm_revoke"}
Enter(p, f) == flow' = [flow EXCEPT ![p] = f]
Goto(p, step) == flow' = [flow EXCEPT ![p].at = step]

(* The logins for u by the password its row has now: those that have a      *)
(* token are named by their first one, those about to sign by the request.  *)
LoginsOf(u) ==
    {family[j] : j \in {i \in minted : claims[i] = u}}
        \cup {q \in Proc : flow[q].at = "login" /\ flow[q].uid = u}

(* A login that gets its first token is named by it from then on. *)
Rename(q, j) ==
    outdated' = [p \in Proc |->
        IF q \in outdated[p] THEN (outdated[p] \ {q}) \cup {j} ELSE outdated[p]]

(* The logins that "revoke all" cannot see as it returns: those between two *)
(* tokens, those whose first is not in the index yet, those of an orphan.   *)
InHand ==
    {family[call[q].jti] : q \in {q \in Proc :
        \/ flow[q].at = "refresh_revoke" /\ call[q].at \in {"srem", "some"}
        \/ call[q].at \in {"setex", "sadd"}}}

OrphansNext == {family[j] : j \in {i \in orphaned' : refresh'[i] # None}}

(* An access token for u came with some refresh token for u; it is checked  *)
(* by its signature alone, so it works when the account is gone, too.  Its  *)
(* fifteen minutes are left out: one that is over may still be used here.   *)
HasAccessToken(u) == \E j \in acked : claims[j] = u

Init ==
    /\ TS!Init
    /\ account = [u \in Uid |-> None]
    /\ enrolled = {}
    /\ reset = [r \in Reset |-> None]
    /\ drawn = {}
    /\ mailed = {}
    /\ claims = [j \in Jti |-> None]
    /\ flow = [p \in Proc |-> Idle]
    /\ family = [j \in Jti |-> None]
    /\ outdated = [p \in Proc |-> {}]
    /\ ended = {}

-----------------------------------------------------------------------------
(* The statements of UserRepository and ResetTokenRepository that write.    *)

(* Seeded fault: the address has no UNIQUE. *)
InsertUserAgain(u, e, pw) ==
    /\ u \notin enrolled
    /\ account' = [account EXCEPT ![u] = [email |-> e, password |-> pw]]
    /\ enrolled' = enrolled \cup {u}

(* UNIQUE(email) makes it fail if the address is taken. *)
InsertUser(u, e, pw) ==
    /\ u \notin enrolled
    /\ \A v \in Uid : account[v] # None => account[v].email # e
    /\ account' = [account EXCEPT ![u] = [email |-> e, password |-> pw]]
    /\ enrolled' = enrolled \cup {u}

(* Seeded fault: an upsert, which makes the row if it is gone. *)
UpsertPassword(u, pw) ==
    \E e \in Email :
        /\ account[u] # None => account[u].email = e
        /\ account' = [account EXCEPT ![u] = [email |-> e, password |-> pw]]

(* By id alone; NotFound if the row is gone. *)
UpdatePassword(u, pw) ==
    /\ account[u] # None
    /\ account' = [account EXCEPT ![u].password = pw]

(* Seeded fault: the foreign key of the reset tokens does not cascade. *)
DeleteUserNoCascade(u) == account' = [account EXCEPT ![u] = None] /\ reset' = reset

(* ON DELETE CASCADE takes the user's reset tokens along. *)
DeleteUser(u) ==
    /\ account' = [account EXCEPT ![u] = None]
    /\ reset' = [r \in Reset |-> IF reset[r] # None /\ reset[r].uid = u THEN None ELSE reset[r]]

(* The foreign key makes it fail when the user is gone. *)
InsertReset(r, u) ==
    reset' = [reset EXCEPT ![r] = IF account[u] = None THEN None
                                  ELSE [uid |-> u, open |-> TRUE]]

-----------------------------------------------------------------------------
(* POST /register. *)
Register(p, u, e, pw) ==
    /\ Free(p)
    /\ InsertUser(u, e, pw)
    /\ Enter(p, Idle)
    /\ UNCHANGED <<tokenVars, reset, drawn, mailed, claims, ghostVars>>

-----------------------------------------------------------------------------
(* POST /login.                                                            *)

(* find_by_email, and the password is right. *)
LoginVerify(p, u) ==
    /\ Free(p)
    /\ account[u] # None
    /\ Enter(p, [Idle EXCEPT !.at = "login", !.uid = u])
    /\ UNCHANGED <<tokenVars, dbVars, claims, ghostVars>>

(* sign_refresh_token with a fresh JTI, and the store is asked to keep it.  *)
LoginSign(p, j) ==
    LET u == flow[p].uid IN
    /\ flow[p].at = "login"
    /\ TS!BeginStore(p, j, u)
    /\ claims' = [claims EXCEPT ![j] = u]
    /\ family' = [family EXCEPT ![j] = j]
    /\ Rename(p, j)
    /\ Goto(p, "login_store")
    /\ UNCHANGED <<dbVars, ended>>

-----------------------------------------------------------------------------
(* POST /refresh.  The account is not looked at.                            *)

RefreshBegin(p, j) ==
    /\ Free(p)
    /\ TS!BeginRevoke(p, j)
    /\ Enter(p, [Idle EXCEPT !.at = "refresh_revoke", !.uid = claims[j]])
    /\ UNCHANGED <<dbVars, claims, ghostVars>>

(* Seeded faults: the answer None of revoke_refresh_token is not looked at; *)
(* the JTI of the old token is stored once more.                           *)
RefreshSignAnyway(p, j) ==
    /\ flow[p].at = "refresh_revoke"
    /\ call[p].at \in {"some", "none"}
    /\ TS!BeginStore(p, j, flow[p].uid)
    /\ claims' = [claims EXCEPT ![j] = flow[p].uid]
    /\ family' = [family EXCEPT ![j] = family[call[p].jti]]
    /\ Goto(p, "refresh_store")
    /\ UNCHANGED <<dbVars, outdated, ended>>

RefreshSameJti(p, j) ==
    /\ flow[p].at = "refresh_revoke"
    /\ call[p].at = "some"
    /\ j = call[p].jti
    /\ call' = [call EXCEPT ![p].at = "setex"]
    /\ Goto(p, "refresh_store")
    /\ UNCHANGED <<redisVars, minted, acked, prior, orphaned, dbVars, claims, ghostVars>>

(* The old token was there and is consumed: sign a new one and store it.    *)
RefreshSign(p, j) ==
    /\ flow[p].at = "refresh_revoke"
    /\ call[p].at = "some"
    /\ TS!BeginStore(p, j, flow[p].uid)
    /\ claims' = [claims EXCEPT ![j] = flow[p].uid]
    /\ family' = [family EXCEPT ![j] = family[call[p].jti]]
    /\ Goto(p, "refresh_store")
    /\ UNCHANGED <<dbVars, outdated, ended>>

-----------------------------------------------------------------------------
(* POST /logout and POST /me/sessions/revoke-all.                           *)

Logout(p, j) ==
    /\ Free(p)
    /\ TS!BeginRevoke(p, j)
    /\ Enter(p, [Idle EXCEPT !.at = "logout", !.uid = claims[j]])
    /\ UNCHANGED <<dbVars, claims, ghostVars>>

LogoutAll(p, u) ==
    /\ Free(p)
    /\ HasAccessToken(u)
    /\ TS!BeginRevokeAll(p, u)
    /\ Enter(p, [Idle EXCEPT !.at = "logout_all", !.uid = u])
    /\ UNCHANGED <<dbVars, claims, ghostVars>>

-----------------------------------------------------------------------------
(* PATCH /me/password.                                                     *)

(* find_by_id, and the current password given is the one that is read. *)
ChangeVerify(p, u, new) ==
    /\ Free(p)
    /\ HasAccessToken(u)
    /\ account[u] # None
    /\ Enter(p, [Idle EXCEPT !.at = "change", !.uid = u,
                             !.seen = account[u].password, !.wanted = new])
    /\ UNCHANGED <<tokenVars, dbVars, claims, ghostVars>>

(* update_password, whatever password the row has by now. *)
ChangeUpdate(p) ==
    LET u == flow[p].uid IN
    /\ flow[p].at = "change"
    /\ \/ UpdatePassword(u, flow[p].wanted)
       \/ account[u] = None /\ UNCHANGED account
    /\ Enter(p, Idle)
    /\ UNCHANGED <<tokenVars, enrolled, reset, drawn, mailed, claims, ghostVars>>

-----------------------------------------------------------------------------
(* DELETE /me.  The sessions in Redis are left as they are. *)
DeleteMe(p, u) ==
    /\ Free(p)
    /\ HasAccessToken(u)
    /\ DeleteUser(u)
    /\ Enter(p, Idle)
    /\ UNCHANGED <<tokenVars, enrolled, drawn, mailed, claims, ghostVars>>

-----------------------------------------------------------------------------
(* POST /password-reset/request.                                           *)

ResetFind(p, u) ==
    /\ Free(p)
    /\ account[u] # None
    /\ Enter(p, [Idle EXCEPT !.at = "reset_request", !.uid = u])
    /\ UNCHANGED <<tokenVars, dbVars, claims, ghostVars>>

(* generate_reset_token and INSERT; an INSERT that fails ends the request. *)
ResetCreate(p, r) ==
    LET u == flow[p].uid IN
    /\ flow[p].at = "reset_request"
    /\ r \notin drawn
    /\ drawn' = drawn \cup {r}
    /\ InsertReset(r, u)
    /\ Enter(p, IF account[u] = None THEN Idle
                ELSE [Idle EXCEPT !.at = "mail", !.uid = u, !.reset = r])
    /\ UNCHANGED <<tokenVars, account, enrolled, mailed, claims, ghostVars>>

(* send_password_reset.  The mail service takes the mail or it does not; the *)
(* handler logs that and answers 200 either way, and leaves the row open.   *)
(* No client can show a token that was not mailed.                         *)
SendPasswordReset(p) ==
    /\ flow[p].at = "mail"
    /\ \/ mailed' = mailed \cup {flow[p].reset}
       \/ UNCHANGED mailed
    /\ Enter(p, Idle)
    /\ UNCHANGED <<tokenVars, account, enrolled, reset, drawn, claims, ghostVars>>

(* Its 900 seconds are over. *)
ResetExpires(r) ==
    /\ reset[r] # None
    /\ reset[r].open
    /\ reset' = [reset EXCEPT ![r].open = FALSE]
    /\ UNCHANGED <<tokenVars, account, enrolled, drawn, mailed, claims, flow, ghostVars>>

-----------------------------------------------------------------------------
(* POST /password-reset/confirm.                                           *)

(* Seeded fault: the UPDATE of consume does not ask for used_at IS NULL. *)
ConsumeAgain(p, r, new) ==
    /\ Free(p)
    /\ r \in mailed
    /\ reset[r] # None
    /\ reset' = [reset EXCEPT ![r].open = FALSE]
    /\ Enter(p, [Idle EXCEPT !.at = "confirm_consumed", !.uid = reset[r].uid,
                             !.reset = r, !.wanted = new])
    /\ UNCHANGED <<tokenVars, account, enrolled, drawn, mailed, claims, ghostVars>>

(* consume: one UPDATE, which finds the row open and closes it. *)
Consume(p, r, new) ==
    /\ Free(p)
    /\ r \in mailed
    /\ reset[r] # None
    /\ reset[r].open
    /\ reset' = [reset EXCEPT ![r].open = FALSE]
    /\ Enter(p, [Idle EXCEPT !.at = "confirm_consumed", !.uid = reset[r].uid,
                             !.reset = r, !.wanted = new])
    /\ UNCHANGED <<tokenVars, account, enrolled, drawn, mailed, claims, ghostVars>>

(* update_password; NotFound if the user is gone. *)
ConfirmUpdate(p) ==
    LET u == flow[p].uid IN
    /\ flow[p].at = "confirm_consumed"
    /\ \/ /\ UpdatePassword(u, flow[p].wanted)
          /\ outdated' = [outdated EXCEPT ![p] = LoginsOf(u)]
          /\ Goto(p, "confirm_updated")
       \/ /\ account[u] = None
          /\ Enter(p, Idle)
          /\ UNCHANGED <<account, outdated>>
    /\ UNCHANGED <<tokenVars, enrolled, reset, drawn, mailed, claims, family, ended>>

(* revoke_all_sessions. *)
ConfirmRevoke(p) ==
    /\ flow[p].at = "confirm_updated"
    /\ TS!BeginRevokeAll(p, flow[p].uid)
    /\ Goto(p, "confirm_revoke")
    /\ UNCHANGED <<dbVars, claims, ghostVars>>

-----------------------------------------------------------------------------
(* What all handlers share.                                                *)

(* A command of the token store.  The last one of a reset makes it succeed. *)
StoreCommand(p) ==
    /\ TS!Command(p)
    /\ ended' = IF flow[p].at = "confirm_revoke" /\ call'[p].at = "revokedall"
                THEN ended \cup ((outdated[p] \ Proc) \ (InHand \cup OrphansNext))
                ELSE ended
    /\ UNCHANGED <<dbVars, claims, flow, family, outdated>>

Tick ==
    /\ TS!Tick
    /\ UNCHANGED <<dbVars, claims, flow, ghostVars>>

(* The store has answered and the handler has nothing more to ask: it       *)
(* replies, with success or with the status of the error.                  *)
Reply(p) ==
    /\ flow[p].at \in AwaitingRedis
    /\ ~(flow[p].at = "refresh_revoke" /\ call[p].at = "some")
    /\ TS!Return(p)
    /\ Enter(p, Idle)
    /\ outdated' = [outdated EXCEPT ![p] = {}]
    /\ UNCHANGED <<dbVars, claims, family, ended>>

(* A call on either store fails, or the client hangs up. *)
RedisFails(p) ==
    /\ flow[p].at \in AwaitingRedis
    /\ TS!Fail(p)
    /\ UNCHANGED <<dbVars, claims, flow, ghostVars>>

Abandon(p) ==
    /\ Faults
    /\ flow[p].at \in AwaitingDb
    /\ Enter(p, Idle)
    /\ outdated' = [q \in Proc |-> IF q = p THEN {} ELSE outdated[q] \ {p}]
    /\ UNCHANGED <<tokenVars, dbVars, claims, family, ended>>

-----------------------------------------------------------------------------

Request(p) ==
    \/ \E u \in Uid, e \in Email, pw \in Password : Register(p, u, e, pw)
    \/ \E u \in Uid : LoginVerify(p, u) \/ LogoutAll(p, u) \/ DeleteMe(p, u) \/ ResetFind(p, u)
    \/ \E j \in Jti : RefreshBegin(p, j) \/ Logout(p, j)
    \/ \E u \in Uid, new \in Password : ChangeVerify(p, u, new)
    \/ \E r \in Reset, new \in Password : Consume(p, r, new)

Continue(p) ==
    \/ \E j \in Jti : LoginSign(p, j) \/ RefreshSign(p, j)
    \/ \E r \in Reset : ResetCreate(p, r)
    \/ SendPasswordReset(p)
    \/ ChangeUpdate(p) \/ ConfirmUpdate(p) \/ ConfirmRevoke(p)
    \/ StoreCommand(p) \/ Reply(p)

Next ==
    \/ \E p \in Proc : Request(p) \/ Continue(p) \/ RedisFails(p) \/ Abandon(p)
    \/ \E r \in Reset : ResetExpires(r)
    \/ Tick

Spec == Init /\ [][Next]_vars

-----------------------------------------------------------------------------

(* The types of the variables; rows belong to ids that were given out, a    *)
(* reset row to a user that exists, and no two users share an address.      *)
TypeOK ==
    /\ TS!TypeOK
    /\ account \in [Uid -> User \cup {None}]
    /\ enrolled \in SUBSET Uid
    /\ reset \in [Reset -> ResetRow \cup {None}]
    /\ drawn \in SUBSET Reset
    /\ claims \in [Jti -> Uid \cup {None}]
    /\ flow \in [Proc -> Flow]
    /\ family \in [Jti -> Jti \cup {None}]
    /\ mailed \in SUBSET drawn
    /\ outdated \in [Proc -> SUBSET (Jti \cup Proc)]
    /\ ended \in SUBSET Jti
    /\ \A u \in Uid : account[u] # None => u \in enrolled
    /\ \A r \in Reset : reset[r] # None => r \in drawn /\ account[reset[r].uid] # None
    /\ \A u, v \in Uid : account[u] # None /\ account[v] # None /\ u # v
                            => account[u].email # account[v].email

(* Refresh rotation: however requests with the same token interleave, and   *)
(* whichever of their steps fail, a login is worth one live refresh token.  *)
OneSessionPerLogin ==
    \A i, j \in Jti : TS!Live(i) /\ TS!Live(j) /\ family[i] = family[j] => i = j

(* What "confirm" is for: when a reset has succeeded, the logins by an older *)
(* password are over for good.  None of their sessions is left and no late  *)
(* request brings one back: not a refresh that read its token too early,    *)
(* not a login that verified the password before it was replaced, not what  *)
(* an earlier reset left behind that failed on Redis (routes/mod.rs:481).   *)
(* Excepted are those that "revoke all" could not see as it returned:       *)
(* between two tokens, not yet in the index, or lost from it (InHand and    *)
(* OrphansNext), and a login that had verified but not signed.             *)
ResetEndsOldLogins ==
    \A j \in acked : TS!Live(j) => family[j] \notin ended

(* The promise of the tests (confirm_revokes_all_existing_sessions): after  *)
(* it, no session that descends from one stored before is live.             *)
ResetEndsLogins ==
    \A p \in Proc : flow[p].at = "confirm_revoke" /\ call[p].at = "revokedall" =>
        \A i \in prior[p], j \in Jti : TS!Live(j) => family[i] # family[j]

(* An account that was deleted never comes back, whichever request had       *)
(* found it before: not by an UPDATE of its password that comes late, and   *)
(* not by a registration, which makes an account of its own.               *)
DeletedStaysDeleted ==
    [][\A u \in enrolled : account[u] = None => account'[u] = None]_vars

(* The promise of change_password: it replaces the password its caller has  *)
(* shown to know (change_password_with_wrong_current_returns_401).          *)
ChangeReplacesKnownPassword ==
    [][\A p \in Proc : flow[p].at = "change" /\ flow'[p] # flow[p] /\ account' # account
        => account[flow[p].uid].password = flow[p].seen]_vars

-----------------------------------------------------------------------------
(* Refinement.                                                             *)

(* The handlers use the token store as TokenStore assumes: what is checked  *)
(* and proved of it holds here.                                            *)
TokenStoreSpec == TS!Spec

(* Reset tokens are one-shot, too: consume accepts each at most once.       *)
ResetState == [r \in Reset |->
    IF r \notin drawn THEN "unissued"
    ELSE IF reset[r] = None THEN "spent"
    ELSE IF reset[r].open THEN "live" ELSE "spent"]

ResetGrant == [p \in Proc |-> IF Confirming(p) THEN flow[p].reset ELSE None]

OneShotReset == INSTANCE OneShotTokens WITH
    Token <- Reset, Client <- Proc, NoToken <- None, state <- ResetState, grant <- ResetGrant

ResetOneShotSpec == OneShotReset!Spec
=============================================================================

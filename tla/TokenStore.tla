----------------------------- MODULE TokenStore -----------------------------
(***************************************************************************)
(* The Redis side of a rustauth session (src/src/data/token_store.rs).     *)
(*                                                                         *)
(* A session is one refresh token.  Its JTI is the key refresh:{jti} of    *)
(* Redis, whose value is the user and whose time to live is seven days,    *)
(* and a member of the set sessions:{user_id}, the index that "revoke all" *)
(* walks.  TokenStore has three methods, each a short program of Redis     *)
(* commands.  Redis runs one command at a time, but neither a pipeline     *)
(* without MULTI nor two awaits in a row is atomic, so commands of other   *)
(* requests run between any two of them: every command is an action here.  *)
(*                                                                         *)
(* Proc is the set of requests in flight.  A request calls the methods one *)
(* after the other; `call[p]` is the method call p is in, its locals and   *)
(* the command it sends next.  Who calls what, and why, is left open: any  *)
(* request may call any method, with arguments it can actually have.       *)
(***************************************************************************)
EXTENDS Integers

CONSTANTS
    Jti,         \* token identifiers, fresh for every signed refresh token
    Uid,         \* users
    Proc,        \* requests in flight
    None,        \* no user, no token
    RefreshTtl,  \* seven days, in clock ticks
    Faults       \* whether a Redis call may fail

ASSUME NoneAssumption == None \notin Jti \cup Uid
ASSUME TtlAssumption == RefreshTtl \in Nat \ {0}
ASSUME FaultsAssumption == Faults \in BOOLEAN

VARIABLES
    refresh,      \* refresh:{jti}: the user the token is for, None if no such key
    refreshTtl,   \* its remaining time to live, 0 if no such key
    sessions,     \* sessions:{user_id}: the set; Redis has no empty sets
    sessionsTtl,  \* its remaining time to live, 0 if no such key
    minted,       \* JTIs that Uuid::new_v4() has returned
    call          \* the method call each request is in

(* What the properties speak about and the program does not keep.          *)
VARIABLES
    acked,        \* JTIs whose store_refresh_token ran to its end
    prior,        \* the user's acked, live JTIs when the request began to revoke all
    orphaned      \* JTIs the index lost to one of the two races named below

redisVars == <<refresh, refreshTtl, sessions, sessionsTtl>>
ghostVars == <<acked, prior, orphaned>>
vars == <<redisVars, minted, call, ghostVars>>

-----------------------------------------------------------------------------
(* Values.                                                                 *)

NoExpiry == -1                 \* what Redis answers for a key without a TTL
TtlValue == {NoExpiry} \cup 0..RefreshTtl

StoreSteps  == {"setex", "sadd", "expire"}
RevokeSteps == {"getdel", "srem"}
RevokeAllSteps == {"smembers", "del", "delindex"}
Running  == StoreSteps \cup RevokeSteps \cup RevokeAllSteps
Returned == {"stored", "some", "none", "revokedall", "err"}
Ready    == {"idle"} \cup Returned

(* One method call: the command it is at, its arguments, and for revoke_all *)
(* the JTIs that SMEMBERS returned and those it still has to delete.        *)
Call == [at   : Running \cup Ready,
         jti  : Jti \cup {None},
         uid  : Uid \cup {None},
         jtis : SUBSET Jti,
         todo : SUBSET Jti]

Idle == [at |-> "idle", jti |-> None, uid |-> None, jtis |-> {}, todo |-> {}]

Live(j) == refresh[j] # None
Goto(p, step) == call' = [call EXCEPT ![p].at = step]
Start(p, step, jti, uid) ==
    call' = [call EXCEPT ![p] =
               [at |-> step, jti |-> jti, uid |-> uid, jtis |-> {}, todo |-> {}]]

Init ==
    /\ refresh = [j \in Jti |-> None]
    /\ refreshTtl = [j \in Jti |-> 0]
    /\ sessions = [u \in Uid |-> {}]
    /\ sessionsTtl = [u \in Uid |-> 0]
    /\ minted = {}
    /\ call = [p \in Proc |-> Idle]
    /\ acked = {}
    /\ prior = [p \in Proc |-> {}]
    /\ orphaned = {}

-----------------------------------------------------------------------------
(* store_refresh_token(jti, user_id, ttl): one pipeline of three commands. *)

(* The handlers call it right after they sign the token, so the JTI is new. *)
BeginStore(p, j, u) ==
    /\ call[p].at \in Ready
    /\ j \notin minted
    /\ minted' = minted \cup {j}
    /\ Start(p, "setex", j, u)
    /\ prior' = [prior EXCEPT ![p] = {}]
    /\ UNCHANGED <<redisVars, acked, orphaned>>

(* Seeded faults, for the runs that show the properties are sensitive: the  *)
(* key is written with SET, so it has no TTL; or its value is the JTI.      *)
SetExWithoutTtl(p) ==
    /\ call[p].at = "setex"
    /\ refresh' = [refresh EXCEPT ![call[p].jti] = call[p].uid]
    /\ refreshTtl' = [refreshTtl EXCEPT ![call[p].jti] = NoExpiry]
    /\ Goto(p, "sadd")
    /\ UNCHANGED <<sessions, sessionsTtl, minted, ghostVars>>

SetExOfJti(p) ==
    /\ call[p].at = "setex"
    /\ refresh' = [refresh EXCEPT ![call[p].jti] = call[p].jti]
    /\ refreshTtl' = [refreshTtl EXCEPT ![call[p].jti] = RefreshTtl]
    /\ Goto(p, "sadd")
    /\ UNCHANGED <<sessions, sessionsTtl, minted, ghostVars>>

(* SETEX refresh:{jti} ttl user_id *)
SetEx(p) ==
    /\ call[p].at = "setex"
    /\ refresh' = [refresh EXCEPT ![call[p].jti] = call[p].uid]
    /\ refreshTtl' = [refreshTtl EXCEPT ![call[p].jti] = RefreshTtl]
    /\ Goto(p, "sadd")
    /\ UNCHANGED <<sessions, sessionsTtl, minted, ghostVars>>

(* Seeded faults: one index for all users; SET instead of SADD, which       *)
(* replaces the index and its TTL.                                         *)
SAddToGlobalIndex(p) ==
    /\ call[p].at = "sadd"
    /\ sessions' = [u \in Uid |-> sessions[u] \cup {call[p].jti}]
    /\ sessionsTtl' = [u \in Uid |-> IF sessions[u] = {} THEN NoExpiry ELSE sessionsTtl[u]]
    /\ Goto(p, "expire")
    /\ UNCHANGED <<refresh, refreshTtl, minted, ghostVars>>

SetIndex(p) ==
    /\ call[p].at = "sadd"
    /\ sessions' = [sessions EXCEPT ![call[p].uid] = {call[p].jti}]
    /\ sessionsTtl' = [sessionsTtl EXCEPT ![call[p].uid] = NoExpiry]
    /\ Goto(p, "expire")
    /\ UNCHANGED <<refresh, refreshTtl, minted, ghostVars>>

(* SADD sessions:{user_id} jti.  A set that SADD creates has no TTL; one    *)
(* that exists keeps its own.                                              *)
SAdd(p) ==
    LET u == call[p].uid IN
    /\ call[p].at = "sadd"
    /\ sessions' = [sessions EXCEPT ![u] = @ \cup {call[p].jti}]
    /\ sessionsTtl' = [sessionsTtl EXCEPT ![u] = IF sessions[u] = {} THEN NoExpiry ELSE @]
    /\ Goto(p, "expire")
    /\ UNCHANGED <<refresh, refreshTtl, minted, ghostVars>>

(* Seeded fault: EXPIRE ... NX, which leaves a TTL that is there alone. *)
ExpireIndexNx(p) ==
    LET u == call[p].uid IN
    /\ call[p].at = "expire"
    /\ sessionsTtl' = [sessionsTtl EXCEPT ![u] = IF @ = NoExpiry THEN RefreshTtl ELSE @]
    /\ acked' = acked \cup {call[p].jti}
    /\ Goto(p, "stored")
    /\ UNCHANGED <<refresh, refreshTtl, sessions, minted, prior, orphaned>>

(* Seeded fault: EXPIRE is left to the store whose token is alone in there. *)
ExpireIndexIfFirst(p) ==
    LET u == call[p].uid IN
    /\ call[p].at = "expire"
    /\ sessionsTtl' = [sessionsTtl EXCEPT ![u] = IF sessions[u] = {call[p].jti} THEN RefreshTtl ELSE @]
    /\ acked' = acked \cup {call[p].jti}
    /\ Goto(p, "stored")
    /\ UNCHANGED <<refresh, refreshTtl, sessions, minted, prior, orphaned>>

(* EXPIRE sessions:{user_id} ttl.  Nothing happens if the key is gone.      *)
ExpireIndex(p) ==
    LET u == call[p].uid IN
    /\ call[p].at = "expire"
    /\ sessionsTtl' = [sessionsTtl EXCEPT ![u] = IF sessions[u] = {} THEN @ ELSE RefreshTtl]
    /\ acked' = acked \cup {call[p].jti}
    /\ Goto(p, "stored")
    /\ UNCHANGED <<refresh, refreshTtl, sessions, minted, prior, orphaned>>

-----------------------------------------------------------------------------
(* revoke_refresh_token(jti): GETDEL, and if there was a key, SREM.         *)

(* The JTI comes from a signed token, which a client has only after the     *)
(* call that stored it returned.                                           *)
BeginRevoke(p, j) ==
    /\ call[p].at \in Ready
    /\ j \in acked
    /\ Start(p, "getdel", j, None)
    /\ prior' = [prior EXCEPT ![p] = {}]
    /\ UNCHANGED <<redisVars, minted, acked, orphaned>>

(* Seeded fault: GET instead of GETDEL, the key deleted later or never.     *)
GetOnly(p) ==
    LET j == call[p].jti IN
    /\ call[p].at = "getdel"
    /\ call' = [call EXCEPT ![p].at = IF Live(j) THEN "srem" ELSE "none",
                            ![p].uid = refresh[j]]
    /\ UNCHANGED <<redisVars, minted, ghostVars>>

(* GETDEL refresh:{jti}.  The caller learns None, or the user that was there. *)
GetDel(p) ==
    LET j == call[p].jti IN
    /\ call[p].at = "getdel"
    /\ call' = [call EXCEPT ![p].at = IF Live(j) THEN "srem" ELSE "none",
                            ![p].uid = refresh[j]]
    /\ refresh' = [refresh EXCEPT ![j] = None]
    /\ refreshTtl' = [refreshTtl EXCEPT ![j] = 0]
    /\ UNCHANGED <<sessions, sessionsTtl, minted, ghostVars>>

(* SREM sessions:{user_id} jti.  Redis drops a set with its last member.    *)
SRem(p) ==
    LET u == call[p].uid
        left == sessions[u] \ {call[p].jti} IN
    /\ call[p].at = "srem"
    /\ sessions' = [sessions EXCEPT ![u] = left]
    /\ sessionsTtl' = [sessionsTtl EXCEPT ![u] = IF left = {} THEN 0 ELSE @]
    /\ Goto(p, "some")
    /\ UNCHANGED <<refresh, refreshTtl, minted, ghostVars>>

-----------------------------------------------------------------------------
(* revoke_all_sessions(user_id): SMEMBERS, then one pipeline that deletes   *)
(* every refresh key read and, last, the index itself.                     *)

BeginRevokeAll(p, u) ==
    /\ call[p].at \in Ready
    /\ Start(p, "smembers", None, u)
    /\ prior' = [prior EXCEPT ![p] = {j \in acked : refresh[j] = u}]
    /\ UNCHANGED <<redisVars, minted, acked, orphaned>>

(* Seeded fault: off by one in the early return.                            *)
SMembersIgnoresLast(p) ==
    LET found == sessions[call[p].uid] IN
    /\ call[p].at = "smembers"
    /\ call' = [call EXCEPT ![p].at = IF \A i, j \in found : i = j THEN "revokedall" ELSE "del",
                            ![p].jtis = found,
                            ![p].todo = found]
    /\ UNCHANGED <<redisVars, minted, ghostVars>>

(* SMEMBERS sessions:{user_id}.  With nothing to revoke the call returns.   *)
SMembers(p) ==
    LET found == sessions[call[p].uid] IN
    /\ call[p].at = "smembers"
    /\ call' = [call EXCEPT ![p].at = IF found = {} THEN "revokedall" ELSE "del",
                            ![p].jtis = found,
                            ![p].todo = found]
    /\ UNCHANGED <<redisVars, minted, ghostVars>>

(* DEL refresh:{jti}, once for each JTI read, in whatever order Redis gave. *)
DelRefresh(p) ==
    /\ call[p].at = "del"
    /\ \E j \in call[p].todo :
         /\ refresh' = [refresh EXCEPT ![j] = None]
         /\ refreshTtl' = [refreshTtl EXCEPT ![j] = 0]
         /\ call' = [call EXCEPT ![p].todo = @ \ {j},
                                 ![p].at = IF call[p].todo = {j} THEN "delindex" ELSE "del"]
    /\ UNCHANGED <<sessions, sessionsTtl, minted, ghostVars>>

(* DEL sessions:{user_id}: whatever the set holds by now.  The JTIs that    *)
(* joined it after SMEMBERS are orphaned.                                  *)
DelIndex(p) ==
    LET u == call[p].uid IN
    /\ call[p].at = "delindex"
    /\ sessions' = [sessions EXCEPT ![u] = {}]
    /\ sessionsTtl' = [sessionsTtl EXCEPT ![u] = 0]
    /\ orphaned' = orphaned \cup (sessions[u] \ call[p].jtis)
    /\ Goto(p, "revokedall")
    /\ UNCHANGED <<refresh, refreshTtl, minted, acked, prior>>

-----------------------------------------------------------------------------
(* The environment.                                                        *)

(* The handler takes the result and goes on without another call.           *)
Return(p) ==
    /\ call[p].at \in Returned
    /\ Start(p, "idle", None, None)
    /\ prior' = [prior EXCEPT ![p] = {}]
    /\ UNCHANGED <<redisVars, minted, acked, orphaned>>

(* The connection breaks before a command, or before the reply to the last  *)
(* one, or the client hangs up and the handler's future is dropped.  What   *)
(* was done stays done; the rest of the method is not run, and its locals   *)
(* are gone.  Commands of a pipeline that Redis still runs after the caller *)
(* saw the error are the same steps with the error seen later.             *)
Fail(p) ==
    /\ Faults
    /\ call[p].at \notin {"idle", "err"}
    /\ Start(p, "err", None, None)
    /\ UNCHANGED <<redisVars, minted, ghostVars>>

Age(t) == IF t > 0 THEN t - 1 ELSE t

(* JTIs whose store pipeline is between SADD and EXPIRE. *)
MidStore == {call[p].jti : p \in {q \in Proc : call[q].at = "expire"}}

(* Time passes and Redis drops the keys whose time to live has run out.  An *)
(* index that expires in the middle of a store takes the new JTI along.     *)
Tick ==
    LET dropped == {u \in Uid : sessionsTtl[u] = 1} IN
    /\ refreshTtl' = [j \in Jti |-> Age(refreshTtl[j])]
    /\ refresh' = [j \in Jti |-> IF refreshTtl[j] = 1 THEN None ELSE refresh[j]]
    /\ sessionsTtl' = [u \in Uid |-> Age(sessionsTtl[u])]
    /\ sessions' = [u \in Uid |-> IF u \in dropped THEN {} ELSE sessions[u]]
    /\ orphaned' = orphaned \cup {j \in MidStore : \E u \in dropped : j \in sessions[u]}
    /\ UNCHANGED <<minted, call, acked, prior>>

-----------------------------------------------------------------------------

Begin(p) ==
    \/ \E j \in Jti, u \in Uid : BeginStore(p, j, u)
    \/ \E j \in Jti : BeginRevoke(p, j)
    \/ \E u \in Uid : BeginRevokeAll(p, u)

(* A command of the call p is in. *)
Command(p) ==
    \/ SetEx(p) \/ SAdd(p) \/ ExpireIndex(p)
    \/ GetDel(p) \/ SRem(p)
    \/ SMembers(p) \/ DelRefresh(p) \/ DelIndex(p)

Next ==
    \/ \E p \in Proc : Begin(p) \/ Command(p) \/ Return(p) \/ Fail(p)
    \/ Tick

Spec == Init /\ [][Next]_vars

(* Redis answers, so a call in progress goes on; and the clock runs.  No    *)
(* client has to call anything.                                            *)
FairSpec == Spec /\ (\A p \in Proc : WF_vars(Command(p))) /\ WF_vars(Tick)

-----------------------------------------------------------------------------
(* Safety.                                                                 *)

(* The types of the variables; a key has a time to live exactly while it    *)
(* exists, and only the index may lack one.                                *)
TypeOK ==
    /\ refresh \in [Jti -> Uid \cup {None}]
    /\ refreshTtl \in [Jti -> 0..RefreshTtl]
    /\ sessions \in [Uid -> SUBSET Jti]
    /\ sessionsTtl \in [Uid -> TtlValue]
    /\ minted \in SUBSET Jti
    /\ call \in [Proc -> Call]
    /\ acked \in SUBSET Jti
    /\ prior \in [Proc -> SUBSET Jti]
    /\ orphaned \in SUBSET Jti
    /\ \A j \in Jti : refreshTtl[j] = 0 <=> ~Live(j)
    /\ \A u \in Uid : sessionsTtl[u] = 0 <=> sessions[u] = {}

(* A token is indexed under its own user alone, and "revoke all" holds only *)
(* tokens of the user it was called for: no interleaving of stores and     *)
(* revocations ends somebody else's session.                               *)
IndexIsByOwner ==
    /\ \A u \in Uid : \A j \in sessions[u] : refresh[j] \in {u, None}
    /\ \A p \in Proc : \A j \in call[p].jtis : refresh[j] \in {call[p].uid, None}

(* A stored session that is still live is in its user's index, except for   *)
(* the two races: a "revoke all" that deletes the index after the session   *)
(* joined it (DelIndex), and an index that expires between the SADD and the *)
(* EXPIRE of the session's own store (Tick).  Failed calls never cost one.  *)
IndexCoversSessions ==
    \A j \in acked \ orphaned : Live(j) => j \in sessions[refresh[j]]

(* The index of a user outlives every stored session in it, whatever other  *)
(* calls for the same user fail half-way: expiry alone never hides a live   *)
(* session from "revoke all".                                              *)
IndexOutlivesSessions ==
    \A u \in Uid : \A j \in (acked \ orphaned) \cap sessions[u] :
        sessionsTtl[u] # NoExpiry => refreshTtl[j] <= sessionsTtl[u]

(* A store that fails before its EXPIRE may leave an index without a TTL,   *)
(* which no clock then removes.  Such an index has no token in it that was  *)
(* handed out: whoever opened it, and whatever else happens to it, the      *)
(* first store for the user that runs to its end gives it a TTL, and        *)
(* nothing takes that away again while the index is there.                 *)
StoredIndexHasTtl ==
    \A u \in Uid : sessions[u] \cap acked # {} => sessionsTtl[u] # NoExpiry

(* Refinement: whatever is interleaved, lost or expired, the keys           *)
(* refresh:{jti} are one-shot tokens.  A token is accepted (GETDEL found    *)
(* it) at most once, and once spent, revoked or expired it stays so.        *)
Unborn(j) == j \notin minted \/ \E p \in Proc : call[p].at = "setex" /\ call[p].jti = j

TokenState == [j \in Jti |->
    IF Live(j) THEN "live" ELSE IF Unborn(j) THEN "unissued" ELSE "spent"]

Granted == [p \in Proc |-> IF call[p].at \in {"srem", "some"} THEN call[p].jti ELSE None]

OneShot == INSTANCE OneShotTokens WITH
    Token <- Jti, Client <- Proc, NoToken <- None, state <- TokenState, grant <- Granted

(* The detailed store implements the abstract one, step by step.            *)
OneShotTokensSpec == OneShot!Spec

(* When "revoke all" returns, no session that was stored before it was      *)
(* called is live, but for the orphaned ones.                              *)
RevokeAllCoversIndexed ==
    \A p \in Proc : call[p].at = "revokedall" =>
        \A j \in prior[p] \ orphaned : ~Live(j)

(* The promise of token_store.rs:46, "Revokes all active sessions for a     *)
(* user": no session stored before the call is live when it returns.       *)
RevokeAllRevokesAll ==
    \A p \in Proc : call[p].at = "revokedall" => \A j \in prior[p] : ~Live(j)

-----------------------------------------------------------------------------
(* Liveness, under FairSpec.                                               *)

(* A session that nobody ends, ends by itself: its key has a TTL from the   *)
(* start and nothing ever renews it.                                       *)
SessionsEnd == \A j \in Jti : Live(j) ~> ~Live(j)

(* A token is being stored for the user. *)
Storing(u) == \E p \in Proc : call[p].at \in StoreSteps /\ call[p].uid = u

(* Every store renews the TTL of the user's index, so an index lasts as     *)
(* long as somebody goes on logging in or refreshing.  Once nobody stores   *)
(* for the user any more, an index that has a TTL goes away, whichever of   *)
(* the calls that touched it failed: no SADD or SREM took the TTL from it.  *)
(* (One whose stores all failed before EXPIRE has none, and stays.)         *)
IndexesEnd ==
    \A u \in Uid : <>[]~Storing(u) => (sessionsTtl[u] > 0 ~> sessions[u] = {})
=============================================================================

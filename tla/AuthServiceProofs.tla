------------------------- MODULE AuthServiceProofs -------------------------
(***************************************************************************)
(* Proofs about AuthService, for every set of tokens, users, requests,     *)
(* addresses, passwords and reset tokens.                                  *)
(***************************************************************************)
EXTENDS AuthService, TLAPS

-----------------------------------------------------------------------------
(* The token store keeps what it keeps on its own: TokenStoreProofs, whose  *)
(* invariant and lemmas are cited from an instance.                        *)

(* The arguments its methods run with, and where they come from. *)
Args ==
    /\ \A p \in Proc :
        /\ call[p].at \in TS!StoreSteps => call[p].jti \in minted /\ call[p].uid \in Uid
        /\ call[p].at \in TS!RevokeSteps \cup {"some"} => call[p].jti \in acked
        /\ call[p].at \in TS!RevokeAllSteps \cup {"srem"} => call[p].uid \in Uid
    /\ acked \subseteq minted
    /\ \A j \in Jti : TS!Live(j) => j \in minted

Stored == TS!TypeOK /\ Args

(* A call that goes from one step to the next. *)
LEMMA CallGoes ==
  ASSUME TS!TypeOK, NEW p \in Proc, NEW step \in TS!Running \cup TS!Ready, TS!Goto(p, step)
  PROVE  /\ call' \in [Proc -> TS!Call]
         /\ call'[p].at = step /\ call'[p].jti = call[p].jti /\ call'[p].uid = call[p].uid
         /\ \A q \in Proc : q # p => call'[q] = call[q]
  <1>1. call[p] \in TS!Call /\ call \in [Proc -> TS!Call]
    BY DEF TS!TypeOK
  <1>2. [call[p] EXCEPT !.at = step] \in TS!Call
    BY <1>1 DEF TS!Call
  <1>3. call' = [call EXCEPT ![p] = [call[p] EXCEPT !.at = step]]
    BY DEF TS!Goto
  <1>. QED
    BY <1>1, <1>2, <1>3 DEF TS!Call

(* A call that starts, or the end of one. *)
LEMMA CallStarts ==
  ASSUME TS!TypeOK, NEW p \in Proc, NEW step \in TS!Running \cup TS!Ready,
         NEW j \in Jti \cup {None}, NEW u \in Uid \cup {None}, TS!Start(p, step, j, u)
  PROVE  /\ call' \in [Proc -> TS!Call]
         /\ call'[p].at = step /\ call'[p].jti = j /\ call'[p].uid = u
         /\ \A q \in Proc : q # p => call'[q] = call[q]
  BY DEF TS!TypeOK, TS!Start, TS!Call

USE DEF TS!Running, TS!Ready, TS!StoreSteps, TS!RevokeSteps, TS!RevokeAllSteps, TS!Returned,
    TS!TtlValue, TS!NoExpiry, TS!Live

(* TokenStoreProofs are about the same store. *)
TSP == INSTANCE TokenStoreProofs

(* What holds of it, then, is what the lemmas below ask of it. *)
LEMMA StoreKept ==
  ASSUME TSP!IInv
  PROVE  Stored
  BY DEF TSP!IInv, TSP!TypeOK, TSP!Args, TSP!Known, TSP!Live, TSP!TtlValue, TSP!NoExpiry,
     TSP!Call, TSP!Running, TSP!Ready, TSP!Returned, TSP!StoreSteps, TSP!RevokeSteps,
     TSP!RevokeAllSteps, Stored, Args, TS!TypeOK, TS!Call

(* An empty store satisfies the invariant of the token store. *)
LEMMA StoreInit ==
  ASSUME TS!Init
  PROVE  TSP!IInv
  <1>1. TSP!Init
    BY DEF TS!Init, TSP!Init, TS!Idle, TSP!Idle
  <1>. QED
    BY <1>1, TSP!InitIInv, NoneIsNoValue, RefreshTtlAssumption, FaultsAssumption

(* It takes the same steps. *)
LEMMA SameStep ==
  ASSUME TS!Next
  PROVE  TSP!Next
  <1>. USE DEF TS!redisVars, TS!ghostVars, TSP!redisVars, TSP!ghostVars, TS!Goto, TSP!Goto,
       TS!Start, TSP!Start, TSP!Live, TSP!Running, TSP!Ready, TSP!Returned, TSP!TtlValue,
       TSP!NoExpiry
  <1>1. ASSUME NEW p \in Proc, TS!Begin(p) \/ TS!Return(p) \/ TS!Fail(p)
        PROVE  TSP!Begin(p) \/ TSP!Return(p) \/ TSP!Fail(p)
    BY <1>1 DEF TS!Begin, TS!BeginStore, TS!BeginRevoke, TS!BeginRevokeAll, TS!Return, TS!Fail,
       TSP!Begin, TSP!BeginStore, TSP!BeginRevoke, TSP!BeginRevokeAll, TSP!Return, TSP!Fail
  <1>2. ASSUME NEW p \in Proc, TS!Command(p)
        PROVE  TSP!Command(p)
    BY <1>2 DEF TS!Command, TS!SetEx, TS!SAdd, TS!ExpireIndex, TS!GetDel, TS!SRem, TS!SMembers,
       TS!DelRefresh, TS!DelIndex,
       TSP!Command, TSP!SetEx, TSP!SAdd, TSP!ExpireIndex, TSP!GetDel, TSP!SRem, TSP!SMembers,
       TSP!DelRefresh, TSP!DelIndex
  <1>3. CASE TS!Tick
    <2>1. TSP!Tick
      BY <1>3 DEF TS!Tick, TSP!Tick, TS!Age, TSP!Age, TS!MidStore, TSP!MidStore
    <2>. QED
      BY <2>1 DEF TSP!Next
  <1>. QED
    BY <1>1, <1>2, <1>3 DEF TS!Next, TSP!Next

(* And whatever the handlers make the store do keeps it. *)
LEMMA StoreStays ==
  ASSUME TSP!IInv, [TS!Next]_(TS!vars)
  PROVE  TSP!IInv'
  <1>1. [TSP!Next]_(TSP!vars)
    BY SameStep DEF TS!vars, TS!redisVars, TS!ghostVars, TSP!vars, TSP!redisVars, TSP!ghostVars
  <1>. QED
    BY <1>1, TSP!NextIInv, NoneIsNoValue, RefreshTtlAssumption, FaultsAssumption

-----------------------------------------------------------------------------
(* The handlers use the token store as it assumes.                         *)

(* What a handler holds across its awaits: its user, the password it is to  *)
(* set, the token it is to mail.  And the user of a signed token.           *)
Whose ==
    /\ \A p \in Proc :
        /\ ~Free(p) => flow[p].uid \in Uid
        /\ flow[p].at \in {"change", "confirm_consumed"} => flow[p].wanted \in Password
        /\ flow[p].at = "mail" => flow[p].reset \in drawn
    /\ \A j \in minted : claims[j] \in Uid

(* The steps of a handler at which the token store takes a step of its own. *)
LEMMA BeginsCall ==
  ASSUME Args, Whose, NEW p \in Proc,
         \/ \E u \in Uid : LogoutAll(p, u)
         \/ \E j \in Jti : RefreshBegin(p, j) \/ Logout(p, j)
         \/ \E j \in Jti : LoginSign(p, j) \/ RefreshSign(p, j)
         \/ ConfirmRevoke(p)
  PROVE  TS!Begin(p)
  BY DEF Args, Whose, Free, LogoutAll, RefreshBegin, Logout, LoginSign, RefreshSign, ConfirmRevoke,
     TS!Begin

(* Every step of a handler is one of the token store or leaves it alone. *)
LEMMA StoreStep ==
  ASSUME Args, Whose, [Next]_vars
  PROVE  [TS!Next]_(TS!vars)
  <1>. USE DEF tokenVars, redisVars, ghostVars, dbVars, TS!vars, TS!redisVars, TS!ghostVars
  <1>1. ASSUME NEW p \in Proc, Request(p)
        PROVE  [TS!Next]_(TS!vars)
    BY <1>1, BeginsCall DEF Request, Register, LoginVerify, DeleteMe, ResetFind, ChangeVerify,
       Consume, TS!Next
  <1>2. ASSUME NEW p \in Proc, Continue(p)
        PROVE  [TS!Next]_(TS!vars)
    BY <1>2, BeginsCall DEF Continue, ResetCreate, SendPasswordReset, ChangeUpdate, ConfirmUpdate,
       StoreCommand, Reply, TS!Next
  <1>3. ASSUME NEW p \in Proc, RedisFails(p) \/ Abandon(p)
        PROVE  [TS!Next]_(TS!vars)
    BY <1>3 DEF RedisFails, Abandon, TS!Next
  <1>4. CASE (\E r \in Reset : ResetExpires(r)) \/ Tick \/ UNCHANGED vars
    BY <1>4 DEF ResetExpires, Tick, vars, TS!Next
  <1>. QED
    BY <1>1, <1>2, <1>3, <1>4 DEF Next

-----------------------------------------------------------------------------
(* The tables.                                                             *)

(* The rows and their types; a row belongs to an id that was given out, a   *)
(* reset row to a user that exists, and no two users share an address.      *)
Rows ==
    /\ account \in [Uid -> User \cup {None}]
    /\ enrolled \in SUBSET Uid
    /\ reset \in [Reset -> ResetRow \cup {None}]
    /\ drawn \in SUBSET Reset
    /\ mailed \in SUBSET drawn
    /\ \A u \in Uid : account[u] # None => u \in enrolled
    /\ \A r \in Reset : reset[r] # None => r \in drawn /\ account[reset[r].uid] # None
    /\ \A u, v \in Uid : account[u] # None /\ account[v] # None /\ u # v
                            => account[u].email # account[v].email

(* Whatever a handler does to the tables, by what it holds. *)
LEMMA RowsStep ==
  ASSUME Rows, Whose, flow \in [Proc -> Flow], [Next]_vars
  PROVE  Rows'
  <1>. USE NoneIsNoRow, NoneIsNoValue DEF Rows, User, ResetRow
  <1>1. ASSUME NEW p \in Proc, NEW u \in Uid, NEW e \in Email, NEW pw \in Password,
               Register(p, u, e, pw)
        PROVE  Rows'
    <2>1. /\ account' = [account EXCEPT ![u] = [email |-> e, password |-> pw]]
          /\ enrolled' = enrolled \cup {u} /\ account[u] = None
          /\ \A v \in Uid : account[v] # None => account[v].email # e
          /\ UNCHANGED <<reset, drawn, mailed>>
      BY <1>1 DEF Register, InsertUser
    <2>2. account' \in [Uid -> User \cup {None}]
      BY <2>1
    <2>3. \A v \in Uid : account[v] # None => account'[v] = account[v]
      BY <2>1
    <2>4. \A r \in Reset : reset'[r] # None => r \in drawn' /\ account'[reset'[r].uid] # None
      BY <2>1, <2>3
    <2>5. account'[u] # None /\ account'[u].email = e
      BY <2>1
    <2>. QED
      BY <2>1, <2>2, <2>3, <2>4, <2>5
  <1>2. ASSUME NEW u \in Uid, NEW pw \in Password, UpdatePassword(u, pw),
               UNCHANGED <<enrolled, reset, drawn, mailed>>
        PROVE  Rows'
    <2>0. account[u] \in User
      BY <1>2 DEF UpdatePassword
    <2>1. /\ account' \in [Uid -> User \cup {None}]
          /\ account' = [account EXCEPT ![u] = [email |-> account[u].email, password |-> pw]]
      <3>1. [account[u] EXCEPT !.password = pw] = [email |-> account[u].email, password |-> pw]
        BY <2>0
      <3>2. account' = [account EXCEPT ![u] = [account[u] EXCEPT !.password = pw]]
        BY <1>2 DEF UpdatePassword
      <3>. QED
        BY <2>0, <3>1, <3>2
    <2>2. \A v \in Uid : account'[v] # None <=> account[v] # None
      BY <1>2, <2>1 DEF UpdatePassword
    <2>3. \A v \in Uid : account[v] # None => account'[v].email = account[v].email
      BY <1>2, <2>1 DEF UpdatePassword
    <2>. QED
      BY <1>2, <2>1, <2>2, <2>3
  <1>3. ASSUME NEW p \in Proc, ChangeUpdate(p) \/ ConfirmUpdate(p)
        PROVE  Rows'
    BY <1>2, <1>3 DEF ChangeUpdate, ConfirmUpdate, Whose, Free
  <1>4. ASSUME NEW p \in Proc, NEW u \in Uid, DeleteMe(p, u)
        PROVE  Rows'
    <2>1. /\ account' = [account EXCEPT ![u] = None]
          /\ reset' = [r \in Reset |-> IF reset[r] # None /\ reset[r].uid = u THEN None ELSE reset[r]]
          /\ UNCHANGED <<enrolled, drawn, mailed>>
      BY <1>4 DEF DeleteMe, DeleteUser
    <2>. QED
      BY <2>1
  <1>5. ASSUME NEW p \in Proc, NEW r \in Reset, ResetCreate(p, r)
        PROVE  Rows'
    <2>1. /\ flow[p].uid \in Uid /\ drawn' = drawn \cup {r}
          /\ reset' = [reset EXCEPT ![r] = IF account[flow[p].uid] = None THEN None
                                           ELSE [uid |-> flow[p].uid, open |-> TRUE]]
          /\ UNCHANGED <<account, enrolled, mailed>>
      BY <1>5 DEF ResetCreate, InsertReset, Whose, Free
    <2>2. reset' \in [Reset -> ResetRow \cup {None}]
      BY <2>1
    <2>. QED
      BY <2>1, <2>2
  <1>6. ASSUME NEW r \in Reset, reset[r] # None, reset' = [reset EXCEPT ![r].open = FALSE],
               UNCHANGED <<account, enrolled, drawn, mailed>>
        PROVE  Rows'
    <2>. DEFINE row == [reset[r] EXCEPT !.open = FALSE]
    <2>1. reset[r] \in ResetRow
      BY <1>6
    <2>2. row \in ResetRow /\ row.uid = reset[r].uid
      BY <2>1
    <2>3. reset' = [reset EXCEPT ![r] = row]
      BY <1>6
    <2>. HIDE DEF row
    <2>4. reset' \in [Reset -> ResetRow \cup {None}]
      BY <2>2, <2>3
    <2>5. \A i \in Reset : reset'[i] # None => reset[i] # None /\ reset'[i].uid = reset[i].uid
      BY <1>6, <2>2, <2>3
    <2>. QED
      BY <1>6, <2>4, <2>5
  <1>7. ASSUME NEW p \in Proc, NEW r \in Reset, NEW new \in Password, Consume(p, r, new)
        PROVE  Rows'
    BY <1>6, <1>7 DEF Consume
  <1>8. ASSUME NEW r \in Reset, ResetExpires(r)
        PROVE  Rows'
    BY <1>6, <1>8 DEF ResetExpires
  <1>9. ASSUME NEW p \in Proc, SendPasswordReset(p)
        PROVE  Rows'
    BY <1>9 DEF SendPasswordReset, Whose
  <1>10. CASE UNCHANGED dbVars
    BY <1>10 DEF dbVars
  <1>11. ASSUME NEW p \in Proc, Request(p) \/ Continue(p) \/ RedisFails(p) \/ Abandon(p)
         PROVE  Rows'
    BY <1>1, <1>3, <1>4, <1>5, <1>7, <1>9, <1>10, <1>11 DEF Request, Continue, LoginVerify,
       LogoutAll, ResetFind, RefreshBegin, Logout, ChangeVerify, LoginSign, RefreshSign, ConfirmRevoke,
       StoreCommand, Reply, RedisFails, Abandon
  <1>. QED
    BY <1>8, <1>10, <1>11 DEF Next, Tick, vars

-----------------------------------------------------------------------------
(* The handlers themselves.                                                *)

(* The types; and a signed token descends from a signed one. *)
Handled ==
    /\ claims \in [Jti -> Uid \cup {None}]
    /\ flow \in [Proc -> Flow]
    /\ family \in [Jti -> Jti \cup {None}]
    /\ outdated \in [Proc -> SUBSET (Jti \cup Proc)]
    /\ ended \in SUBSET Jti
    /\ \A j \in minted : family[j] \in minted

(* A handler that enters another state, with what that state must hold. *)
LEMMA EntersFlow ==
  ASSUME flow \in [Proc -> Flow], Whose, NEW p \in Proc, NEW f \in Flow, Enter(p, f),
         f.at # "idle" => f.uid \in Uid,
         f.at \in {"change", "confirm_consumed"} => f.wanted \in Password,
         f.at = "mail" => f.reset \in drawn',
         drawn \subseteq drawn', \A j \in minted' : claims'[j] \in Uid
  PROVE  flow' \in [Proc -> Flow] /\ Whose'
  <1>1. flow' \in [Proc -> Flow] /\ flow'[p] = f /\ \A q \in Proc : q # p => flow'[q] = flow[q]
    BY DEF Enter
  <1>2. \A q \in Proc : Free(q)' <=> flow'[q].at = "idle"
    BY DEF Free
  <1>. QED
    BY <1>1, <1>2 DEF Whose, Free

(* One that goes on with what it holds. *)
LEMMA GoesOn ==
  ASSUME flow \in [Proc -> Flow], Whose, NEW p \in Proc, ~Free(p),
         NEW step \in AwaitingRedis \cup {"confirm_updated"}, Goto(p, step),
         drawn \subseteq drawn', \A j \in minted' : claims'[j] \in Uid
  PROVE  flow' \in [Proc -> Flow] /\ Whose'
  <1>. DEFINE f == [flow[p] EXCEPT !.at = step]
  <1>1. f \in Flow /\ f.at = step /\ f.uid = flow[p].uid
    BY DEF Flow, AwaitingDb
  <1>2. Enter(p, f)
    BY DEF Goto, Enter
  <1>3. step \notin {"change", "confirm_consumed", "mail"} /\ flow[p].uid \in Uid
    BY DEF AwaitingRedis, Whose
  <1>. HIDE DEF f
  <1>. QED
    BY <1>1, <1>2, <1>3, EntersFlow

(* One that comes to its end. *)
LEMMA IdleIsFlow ==
  Idle \in Flow /\ Idle.at = "idle"
  BY DEF Idle, Flow

(* Tokens are signed by the two handlers that sign, only. *)
LEMMA MintedStays ==
  ASSUME NEW p \in Proc,
         \/ TS!Command(p) \/ TS!Return(p) \/ TS!Fail(p)
         \/ \E j \in Jti : TS!BeginRevoke(p, j)
         \/ \E u \in Uid : TS!BeginRevokeAll(p, u)
  PROVE  UNCHANGED minted
  BY DEF TS!Command, TS!Return, TS!Fail, TS!BeginRevoke, TS!BeginRevokeAll, TS!SetEx, TS!SAdd,
     TS!ExpireIndex, TS!GetDel, TS!SRem, TS!SMembers, TS!DelRefresh, TS!DelIndex

(* A request comes in. *)
LEMMA RequestHandled ==
  ASSUME Stored, Rows, Handled, Whose, NEW p \in Proc, Request(p)
  PROVE  Handled' /\ Whose'
  <1>. USE DEF Handled, Whose, ghostVars, dbVars, tokenVars
  <1>1. ASSUME NEW f \in Flow, Enter(p, f), f.at # "idle" => f.uid \in Uid,
               f.at \in {"change", "confirm_consumed"} => f.wanted \in Password,
               f.at # "mail", UNCHANGED <<minted, drawn, claims, ghostVars>>
        PROVE  Handled' /\ Whose'
    BY <1>1, EntersFlow
  <1>2. ASSUME NEW u \in Uid, NEW e \in Email, NEW pw \in Password, Register(p, u, e, pw)
        PROVE  Handled' /\ Whose'
    BY <1>1, <1>2, IdleIsFlow DEF Register
  <1>3. ASSUME NEW u \in Uid, LoginVerify(p, u)
        PROVE  Handled' /\ Whose'
    <2>. DEFINE f == [Idle EXCEPT !.at = "login", !.uid = u]
    <2>1. f \in Flow /\ f.at = "login" /\ f.uid = u
      BY DEF Idle, Flow, AwaitingDb
    <2>2. Enter(p, f) /\ UNCHANGED <<minted, drawn, claims, ghostVars>>
      BY <1>3 DEF LoginVerify
    <2>. HIDE DEF f
    <2>. QED
      BY <1>1, <2>1, <2>2
  <1>4. ASSUME NEW u \in Uid, LogoutAll(p, u)
        PROVE  Handled' /\ Whose'
    <2>. DEFINE f == [Idle EXCEPT !.at = "logout_all", !.uid = u]
    <2>1. f \in Flow /\ f.at = "logout_all" /\ f.uid = u
      BY DEF Idle, Flow, AwaitingRedis
    <2>2. Enter(p, f) /\ UNCHANGED <<minted, drawn, claims, ghostVars>>
      BY <1>4, MintedStays DEF LogoutAll
    <2>. HIDE DEF f
    <2>. QED
      BY <1>1, <2>1, <2>2
  <1>5. ASSUME NEW u \in Uid, DeleteMe(p, u)
        PROVE  Handled' /\ Whose'
    BY <1>1, <1>5, IdleIsFlow DEF DeleteMe
  <1>6. ASSUME NEW u \in Uid, ResetFind(p, u)
        PROVE  Handled' /\ Whose'
    <2>. DEFINE f == [Idle EXCEPT !.at = "reset_request", !.uid = u]
    <2>1. f \in Flow /\ f.at = "reset_request" /\ f.uid = u
      BY DEF Idle, Flow, AwaitingDb
    <2>2. Enter(p, f) /\ UNCHANGED <<minted, drawn, claims, ghostVars>>
      BY <1>6 DEF ResetFind
    <2>. HIDE DEF f
    <2>. QED
      BY <1>1, <2>1, <2>2
  <1>7. ASSUME NEW j \in Jti, NEW step \in {"refresh_revoke", "logout"},
               TS!BeginRevoke(p, j), Enter(p, [Idle EXCEPT !.at = step, !.uid = claims[j]]),
               UNCHANGED <<drawn, claims, ghostVars>>
        PROVE  Handled' /\ Whose'
    <2>. DEFINE f == [Idle EXCEPT !.at = step, !.uid = claims[j]]
    <2>1. claims[j] \in Uid
      BY <1>7 DEF TS!BeginRevoke, Stored, Args
    <2>2. f \in Flow /\ f.at = step /\ f.uid = claims[j]
      BY <2>1 DEF Idle, Flow, AwaitingRedis
    <2>3. Enter(p, f) /\ UNCHANGED minted
      BY <1>7, MintedStays
    <2>. HIDE DEF f
    <2>. QED
      BY <1>1, <1>7, <2>1, <2>2, <2>3
  <1>8. ASSUME NEW u \in Uid, NEW new \in Password, ChangeVerify(p, u, new)
        PROVE  Handled' /\ Whose'
    <2>. DEFINE f == [Idle EXCEPT !.at = "change", !.uid = u,
                                  !.seen = account[u].password, !.wanted = new]
    <2>1. account[u].password \in Password
      BY <1>8 DEF ChangeVerify, Rows, User
    <2>2. f \in Flow /\ f.at = "change" /\ f.uid = u /\ f.wanted = new
      BY <2>1 DEF Idle, Flow, AwaitingDb
    <2>3. Enter(p, f) /\ UNCHANGED <<minted, drawn, claims, ghostVars>>
      BY <1>8 DEF ChangeVerify
    <2>. HIDE DEF f
    <2>. QED
      BY <1>1, <2>2, <2>3
  <1>9. ASSUME NEW r \in Reset, NEW new \in Password, Consume(p, r, new)
        PROVE  Handled' /\ Whose'
    <2>. DEFINE f == [Idle EXCEPT !.at = "confirm_consumed", !.uid = reset[r].uid,
                                  !.reset = r, !.wanted = new]
    <2>1. reset[r].uid \in Uid
      BY <1>9 DEF Consume, Rows, ResetRow
    <2>2. f \in Flow /\ f.at = "confirm_consumed" /\ f.uid = reset[r].uid /\ f.wanted = new
      BY <2>1 DEF Idle, Flow, AwaitingDb
    <2>3. Enter(p, f) /\ UNCHANGED <<minted, drawn, claims, ghostVars>>
      BY <1>9 DEF Consume
    <2>. HIDE DEF f
    <2>. QED
      BY <1>1, <2>1, <2>2, <2>3
  <1>. QED
    BY <1>2, <1>3, <1>4, <1>5, <1>6, <1>7, <1>8, <1>9 DEF Request, RefreshBegin, Logout

(* A handler goes on. *)
LEMMA ContinueHandled ==
  ASSUME Stored, Rows, Handled, Whose, NEW p \in Proc, Continue(p)
  PROVE  Handled' /\ Whose'
  <1>. USE DEF Handled, Whose, ghostVars, dbVars, tokenVars
  <1>0. minted \in SUBSET Jti /\ acked \subseteq minted
    BY DEF Stored, Args, TS!TypeOK
  <1>1. ASSUME NEW j \in Jti, NEW g \in minted \cup {j}, NEW u \in Uid,
               NEW step \in {"login_store", "refresh_store"}, ~Free(p),
               TS!BeginStore(p, j, u), claims' = [claims EXCEPT ![j] = u],
               family' = [family EXCEPT ![j] = g],
               Goto(p, step), outdated' \in [Proc -> SUBSET (Jti \cup Proc)],
               UNCHANGED <<dbVars, ended>>
        PROVE  Handled' /\ Whose'
    <2>1. minted' = minted \cup {j}
      BY <1>1 DEF TS!BeginStore
    <2>2. \A i \in minted' : claims'[i] \in Uid /\ family'[i] \in minted'
      BY <1>0, <1>1, <2>1
    <2>3. flow' \in [Proc -> Flow] /\ Whose'
      BY <1>1, <2>2, GoesOn DEF AwaitingRedis
    <2>4. family' \in [Jti -> Jti \cup {None}] /\ claims' \in [Jti -> Uid \cup {None}]
      BY <1>0, <1>1
    <2>. QED
      BY <1>1, <2>2, <2>3, <2>4
  <1>2. ASSUME NEW j \in Jti, LoginSign(p, j)
        PROVE  Handled' /\ Whose'
    <2>1. ~Free(p) /\ flow[p].uid \in Uid
      BY <1>2 DEF LoginSign, Free
    <2>2. outdated' \in [Proc -> SUBSET (Jti \cup Proc)]
      BY <1>2 DEF LoginSign, Rename
    <2>. QED
      BY <1>1, <1>2, <2>1, <2>2 DEF LoginSign
  <1>3. ASSUME NEW j \in Jti, RefreshSign(p, j)
        PROVE  Handled' /\ Whose'
    <2>1. ~Free(p) /\ flow[p].uid \in Uid
      BY <1>3 DEF RefreshSign, Free
    <2>2. family[call[p].jti] \in minted
      BY <1>0, <1>3 DEF RefreshSign, Stored, Args
    <2>. QED
      BY <1>1, <1>3, <2>1, <2>2 DEF RefreshSign
  <1>4. ASSUME NEW r \in Reset, ResetCreate(p, r)
        PROVE  Handled' /\ Whose'
    <2>. DEFINE u == flow[p].uid
                mailing == [Idle EXCEPT !.at = "mail", !.uid = u, !.reset = r]
                f == IF account[u] = None THEN Idle ELSE mailing
    <2>1. u \in Uid /\ drawn' = drawn \cup {r}
      BY <1>4 DEF ResetCreate, Free
    <2>2. mailing \in Flow /\ mailing.at = "mail" /\ mailing.uid = u /\ mailing.reset = r
      BY <2>1 DEF Idle, Flow, AwaitingDb
    <2>3. /\ f \in Flow /\ f.at \in {"idle", "mail"}
          /\ f.at = "mail" => f.uid = u /\ f.reset = r
      BY <2>2, IdleIsFlow
    <2>4. Enter(p, f) /\ UNCHANGED <<minted, claims, ghostVars>>
      BY <1>4 DEF ResetCreate
    <2>. HIDE DEF f, u, mailing
    <2>5. flow' \in [Proc -> Flow] /\ Whose'
      BY <2>1, <2>3, <2>4, EntersFlow
    <2>. QED
      BY <2>4, <2>5
  <1>5. CASE SendPasswordReset(p) \/ ChangeUpdate(p)
    <2>1. Enter(p, Idle) /\ UNCHANGED <<minted, drawn, claims, ghostVars>>
      BY <1>5 DEF SendPasswordReset, ChangeUpdate
    <2>2. flow' \in [Proc -> Flow] /\ Whose'
      BY <2>1, IdleIsFlow, EntersFlow
    <2>. QED
      BY <2>1, <2>2
  <1>6. CASE ConfirmUpdate(p)
    <2>1. ~Free(p) /\ UNCHANGED <<minted, drawn, claims, family, ended>>
      BY <1>6 DEF ConfirmUpdate, Free
    <2>2. flow' \in [Proc -> Flow] /\ Whose'
      BY <1>6, <2>1, IdleIsFlow, EntersFlow, GoesOn DEF ConfirmUpdate
    <2>3. LoginsOf(flow[p].uid) \in SUBSET (Jti \cup Proc)
      BY <1>0 DEF LoginsOf
    <2>4. outdated' \in [Proc -> SUBSET (Jti \cup Proc)]
      BY <1>6, <2>3 DEF ConfirmUpdate
    <2>. QED
      BY <2>1, <2>2, <2>4
  <1>7. CASE ConfirmRevoke(p)
    <2>1. /\ ~Free(p) /\ flow[p].uid \in Uid
          /\ TS!BeginRevokeAll(p, flow[p].uid)
          /\ Goto(p, "confirm_revoke") /\ UNCHANGED <<dbVars, claims, ghostVars>>
      BY <1>7 DEF ConfirmRevoke, Free
    <2>2. UNCHANGED minted
      BY <2>1, MintedStays
    <2>3. flow' \in [Proc -> Flow] /\ Whose'
      BY <2>1, <2>2, GoesOn DEF AwaitingRedis
    <2>. QED
      BY <2>1, <2>2, <2>3
  <1>8. CASE StoreCommand(p)
    <2>1. UNCHANGED <<minted, dbVars, claims, flow, family, outdated>>
      BY <1>8, MintedStays DEF StoreCommand
    <2>2. ended' \in SUBSET Jti
      BY <1>8 DEF StoreCommand
    <2>. QED
      BY <2>1, <2>2 DEF Free
  <1>9. CASE Reply(p)
    <2>1. Enter(p, Idle) /\ UNCHANGED <<minted, dbVars, claims, family, ended>>
      BY <1>9, MintedStays DEF Reply
    <2>2. outdated' \in [Proc -> SUBSET (Jti \cup Proc)]
      BY <1>9 DEF Reply
    <2>3. flow' \in [Proc -> Flow] /\ Whose'
      BY <2>1, IdleIsFlow, EntersFlow
    <2>. QED
      BY <2>1, <2>2, <2>3
  <1>. QED
    BY <1>2, <1>3, <1>4, <1>5, <1>6, <1>7, <1>8, <1>9 DEF Continue

(* The service as a whole. *)
LEMMA HandledStep ==
  ASSUME Stored, Rows, Handled, Whose, [Next]_vars
  PROVE  Handled' /\ Whose'
  <1>. USE DEF Handled, Whose, ghostVars, dbVars, tokenVars, Free
  <1>1. ASSUME NEW p \in Proc, RedisFails(p)
        PROVE  Handled' /\ Whose'
    BY <1>1, MintedStays DEF RedisFails
  <1>2. ASSUME NEW p \in Proc, Abandon(p)
        PROVE  Handled' /\ Whose'
    <2>1. Enter(p, Idle) /\ UNCHANGED <<minted, dbVars, claims, family, ended>>
      BY <1>2 DEF Abandon
    <2>2. outdated' \in [Proc -> SUBSET (Jti \cup Proc)]
      BY <1>2 DEF Abandon
    <2>3. flow' \in [Proc -> Flow] /\ Whose'
      BY <2>1, IdleIsFlow, EntersFlow
    <2>. QED
      BY <2>1, <2>2, <2>3
  <1>3. CASE (\E r \in Reset : ResetExpires(r)) \/ Tick \/ UNCHANGED vars
    BY <1>3 DEF ResetExpires, Tick, TS!Tick, vars
  <1>. QED
    BY <1>1, <1>2, <1>3, RequestHandled, ContinueHandled DEF Next

-----------------------------------------------------------------------------
(* Refresh rotation.                                                       *)

(* A request that has spent a token, or is about to store one, holds its    *)
(* login's session in its hand; a token is in play while it is live or held. *)
Hand(p) == call[p].at \in {"setex", "srem", "some"}
InPlay(j) == TS!Live(j) \/ \E p \in Proc : Hand(p) /\ call[p].jti = j

(* A token is live or in one hand, and is the only one of its login that is. *)
Alone ==
    /\ \A p, q \in Proc : Hand(p) /\ Hand(q) /\ call[p].jti = call[q].jti => p = q
    /\ \A p \in Proc : Hand(p) => ~TS!Live(call[p].jti)
    /\ \A i, j \in Jti : InPlay(i) /\ InPlay(j) /\ family[i] = family[j] => i = j

(* A step that brings nothing into play, and into no hand. *)
LEMMA NothingIntoPlay ==
  ASSUME Alone, NEW p \in Proc, \A q \in Proc : q # p => call'[q] = call[q],
         \A j \in Jti : TS!Live(j)' => TS!Live(j),
         Hand(p)' => Hand(p) /\ call'[p].jti = call[p].jti /\ call[p].jti \in Jti,
         \A q \in Proc : Hand(q) => call[q].jti \in Jti,
         UNCHANGED family
  PROVE  Alone'
  <1>1. \A q \in Proc : Hand(q)' => Hand(q) /\ call'[q].jti = call[q].jti /\ call[q].jti \in Jti
    BY DEF Hand
  <1>2. \A j \in Jti : InPlay(j)' => InPlay(j)
    BY <1>1 DEF InPlay
  <1>. QED
    BY <1>1, <1>2 DEF Alone

(* The tokens in the hands were signed. *)
LEMMA HeldAreMinted ==
  ASSUME Stored
  PROVE  /\ minted \subseteq Jti
         /\ \A q \in Proc : Hand(q) => call[q].jti \in minted /\ call[q].jti \in Jti
         /\ \A j \in Jti : InPlay(j) => j \in minted
  BY DEF Stored, Args, TS!TypeOK, Hand, InPlay

(* The methods' commands. *)
LEMMA AloneCommand ==
  ASSUME Stored, Alone, NEW p \in Proc, TS!Command(p), UNCHANGED family
  PROVE  Alone'
  <1>. USE HeldAreMinted
  <1>0. call \in [Proc -> TS!Call] /\ refresh \in [Jti -> Uid \cup {None}] /\ TS!TypeOK
    BY DEF Stored, TS!TypeOK
  <1>1. CASE TS!SetEx(p)
    <2>. DEFINE j == call[p].jti
    <2>1. /\ Hand(p) /\ ~Hand(p)' /\ j \in Jti
          /\ \A q \in Proc : q # p => call'[q] = call[q]
          /\ \A i \in Jti : i # j => refresh'[i] = refresh[i]
      BY <1>0, <1>1, CallGoes DEF TS!SetEx, Hand
    <2>2. \A q \in Proc : Hand(q)' => q # p /\ Hand(q) /\ call'[q].jti = call[q].jti
      BY <2>1 DEF Hand
    <2>3. \A q \in Proc : Hand(q)' => call'[q].jti # j
      BY <2>1, <2>2 DEF Alone
    <2>4. \A i \in Jti : InPlay(i)' => InPlay(i)
      BY <2>1, <2>2 DEF InPlay
    <2>5. \A q \in Proc : Hand(q)' => refresh'[call'[q].jti] = None
      BY <2>1, <2>2, <2>3 DEF Alone
    <2>. QED
      BY <2>2, <2>4, <2>5 DEF Alone
  <1>2. CASE TS!GetDel(p)
    <2>. DEFINE j == call[p].jti
    <2>1. /\ j \in Jti /\ ~Hand(p)
          /\ \A q \in Proc : q # p => call'[q] = call[q]
          /\ refresh' = [refresh EXCEPT ![j] = None]
          /\ call'[p].jti = j
          /\ Hand(p)' => TS!Live(j)
      <3>1. call[p].at = "getdel" /\ j \in Jti
        BY <1>2 DEF TS!GetDel, Stored, Args, TS!TypeOK
      <3>2. call[p] \in TS!Call
        BY <1>0
      <3>3. /\ call'[p].jti = j /\ call'[p].at = IF TS!Live(j) THEN "srem" ELSE "none"
            /\ \A q \in Proc : q # p => call'[q] = call[q]
        BY <1>0, <1>2, <3>2 DEF TS!GetDel, TS!Call
      <3>4. refresh' = [refresh EXCEPT ![j] = None]
        BY <1>2 DEF TS!GetDel
      <3>5. ~Hand(p) /\ (Hand(p)' => TS!Live(j))
        BY <3>1, <3>3 DEF Hand
      <3>. QED
        BY <3>1, <3>3, <3>4, <3>5
    <2>2. \A q \in Proc : Hand(q)' =>
            /\ call'[q].jti \in Jti
            /\ q = p \/ (Hand(q) /\ call'[q].jti = call[q].jti)
      BY <2>1 DEF Hand
    <2>3. \A q \in Proc : q # p /\ Hand(q)' /\ Hand(p)' => call'[q].jti # j
      BY <2>1, <2>2 DEF Alone
    <2>4. \A i \in Jti : InPlay(i)' => InPlay(i)
      BY <1>0, <2>1, <2>2 DEF InPlay
    <2>5. \A q \in Proc : Hand(q)' => refresh'[call'[q].jti] = None
      BY <1>0, <2>1, <2>2 DEF Alone
    <2>6. \A q, r \in Proc : Hand(q)' /\ Hand(r)' /\ call'[q].jti = call'[r].jti => q = r
      BY <2>1, <2>2, <2>3 DEF Alone
    <2>. QED
      BY <2>4, <2>5, <2>6 DEF Alone
  <1>3. CASE TS!SRem(p)
    <2>1. /\ Hand(p) /\ call'[p].jti = call[p].jti
          /\ \A q \in Proc : q # p => call'[q] = call[q]
          /\ UNCHANGED refresh
      BY <1>0, <1>3, CallGoes DEF TS!SRem, Hand
    <2>. QED
      BY <2>1, NothingIntoPlay
  <1>4. CASE TS!SAdd(p) \/ TS!ExpireIndex(p) \/ TS!DelIndex(p)
    <2>1. /\ ~Hand(p)' /\ UNCHANGED refresh
          /\ \A q \in Proc : q # p => call'[q] = call[q]
      BY <1>0, <1>4, CallGoes DEF TS!SAdd, TS!ExpireIndex, TS!DelIndex, Hand
    <2>. QED
      BY <2>1, NothingIntoPlay
  <1>5. CASE TS!SMembers(p)
    <2>1. /\ ~Hand(p)' /\ UNCHANGED refresh
          /\ \A q \in Proc : q # p => call'[q] = call[q]
      BY <1>0, <1>5 DEF TS!SMembers, TS!redisVars, TS!Call, Hand
    <2>. QED
      BY <2>1, NothingIntoPlay
  <1>6. CASE TS!DelRefresh(p)
    <2>1. PICK j \in call[p].todo, step \in {"del", "delindex"} :
            /\ refresh' = [refresh EXCEPT ![j] = None]
            /\ call' = [call EXCEPT ![p].todo = @ \ {j}, ![p].at = step]
      BY <1>6 DEF TS!DelRefresh
    <2>2. /\ ~Hand(p)' /\ \A i \in Jti : TS!Live(i)' => TS!Live(i)
          /\ \A q \in Proc : q # p => call'[q] = call[q]
      BY <1>0, <2>1 DEF TS!Call, Hand
    <2>. QED
      BY <2>2, NothingIntoPlay
  <1>. QED
    BY <1>1, <1>2, <1>3, <1>4, <1>5, <1>6 DEF TS!Command

(* The calls that store nothing, and the end of a call. *)
LEMMA AloneCalls ==
  ASSUME Stored, Alone, NEW p \in Proc, UNCHANGED family,
         \/ TS!Return(p) \/ TS!Fail(p)
         \/ \E j \in Jti : TS!BeginRevoke(p, j)
         \/ \E u \in Uid : TS!BeginRevokeAll(p, u)
  PROVE  Alone'
  <1>0. TS!TypeOK
    BY DEF Stored
  <1>1. /\ ~Hand(p)' /\ UNCHANGED refresh
        /\ \A q \in Proc : q # p => call'[q] = call[q]
    BY <1>0, CallStarts, CallGoes DEF TS!Return, TS!Fail, TS!BeginRevoke, TS!BeginRevokeAll,
       TS!redisVars, Hand
  <1>. QED
    BY <1>1, NothingIntoPlay, HeldAreMinted

(* A new token is the first of its login, or replaces the one in the hand.  *)
LEMMA AloneSign ==
  ASSUME Stored, Handled, Alone, NEW p \in Proc, NEW j \in Jti, NEW u \in Uid,
         TS!BeginStore(p, j, u), NEW g, family' = [family EXCEPT ![j] = g],
         \/ g = j
         \/ call[p].at = "some" /\ g = family[call[p].jti]
  PROVE  Alone'
  <1>1. /\ Hand(p)' /\ call'[p].jti = j /\ j \notin minted /\ UNCHANGED refresh
        /\ \A q \in Proc : q # p => call'[q] = call[q]
    BY CallStarts DEF TS!BeginStore, TS!redisVars, Hand, Stored
  <1>2. \A q \in Proc : Hand(q)' /\ q # p => Hand(q) /\ call'[q].jti = call[q].jti
    BY <1>1 DEF Hand
  <1>3. \A q \in Proc : Hand(q)' /\ call'[q].jti = j => q = p
    BY <1>1, <1>2, HeldAreMinted
  <1>4. ~TS!Live(j)'
    BY <1>1, HeldAreMinted DEF InPlay
  <1>5. \A i \in Jti : InPlay(i)' => i = j \/ (InPlay(i) /\ i \in minted /\ i # j)
    BY <1>1, <1>2, HeldAreMinted DEF InPlay
  <1>6. family' \in [Jti -> {family'[i] : i \in Jti}] /\ family'[j] = g
        /\ \A i \in Jti : i # j => family'[i] = family[i]
    BY DEF Handled
  <1>7. ASSUME NEW i \in Jti, InPlay(i)', i # j, family'[i] = g
        PROVE  FALSE
    <2>1. InPlay(i) /\ i \in minted /\ family[i] = g
      BY <1>5, <1>6, <1>7
    <2>2. CASE g = j
      BY <1>1, <2>1, <2>2 DEF Handled
    <2>3. CASE call[p].at = "some" /\ g = family[call[p].jti]
      <3>1. Hand(p) /\ call[p].jti \in Jti /\ InPlay(call[p].jti)
        BY <2>3, HeldAreMinted DEF Hand, InPlay
      <3>2. i = call[p].jti
        BY <2>1, <2>3, <3>1 DEF Alone
      <3>3. ~TS!Live(i)'
        BY <1>1, <3>1, <3>2 DEF Alone
      <3>4. PICK q \in Proc : Hand(q)' /\ call'[q].jti = i
        BY <1>7, <3>3 DEF InPlay
      <3>5. q # p /\ Hand(q) /\ call[q].jti = i
        BY <1>1, <1>2, <1>7, <3>4
      <3>. QED
        BY <3>1, <3>2, <3>5 DEF Alone
    <2>. QED
      BY <2>2, <2>3
  <1>8. \A i, k \in Jti : InPlay(i)' /\ InPlay(k)' /\ family'[i] = family'[k] => i = k
    BY <1>5, <1>6, <1>7 DEF Alone
  <1>9. \A q \in Proc : Hand(q)' => refresh'[call'[q].jti] = None
    BY <1>1, <1>2, <1>4 DEF Alone
  <1>10. \A q, r \in Proc : Hand(q)' /\ Hand(r)' /\ call'[q].jti = call'[r].jti => q = r
    BY <1>1, <1>2, <1>3 DEF Alone
  <1>. QED
    BY <1>8, <1>9, <1>10 DEF Alone

(* Whatever the handlers do. *)
LEMMA AloneStep ==
  ASSUME Stored, Handled, Whose, Alone, [Next]_vars
  PROVE  Alone'
  <1>. USE DEF dbVars, ghostVars, tokenVars, redisVars
  <1>1. CASE UNCHANGED <<refresh, call, family>>
    BY <1>1 DEF Alone, InPlay, Hand
  <1>2. ASSUME NEW p \in Proc, Request(p)
        PROVE  Alone'
    BY <1>1, <1>2, AloneCalls DEF Request, Register, LoginVerify, LogoutAll, DeleteMe, ResetFind,
       RefreshBegin, Logout, ChangeVerify, Consume
  <1>3. ASSUME NEW p \in Proc, NEW j \in Jti, LoginSign(p, j)
        PROVE  Alone'
    <2>1. flow[p].uid \in Uid
      BY <1>3 DEF LoginSign, Whose, Free
    <2>. QED
      BY <1>3, <2>1, AloneSign DEF LoginSign
  <1>4. ASSUME NEW p \in Proc, NEW j \in Jti, RefreshSign(p, j)
        PROVE  Alone'
    <2>1. flow[p].uid \in Uid
      BY <1>4 DEF RefreshSign, Whose, Free
    <2>. QED
      BY <1>4, <2>1, AloneSign DEF RefreshSign
  <1>5. ASSUME NEW p \in Proc, ConfirmRevoke(p)
        PROVE  Alone'
    <2>1. flow[p].uid \in Uid
      BY <1>5 DEF ConfirmRevoke, Whose, Free
    <2>. QED
      BY <1>5, <2>1, AloneCalls DEF ConfirmRevoke
  <1>6. ASSUME NEW p \in Proc, StoreCommand(p)
        PROVE  Alone'
    BY <1>6, AloneCommand DEF StoreCommand
  <1>7. ASSUME NEW p \in Proc, Reply(p) \/ RedisFails(p)
        PROVE  Alone'
    BY <1>7, AloneCalls DEF Reply, RedisFails
  <1>8. ASSUME NEW p \in Proc, Continue(p) \/ Abandon(p)
        PROVE  Alone'
    BY <1>1, <1>3, <1>4, <1>5, <1>6, <1>7, <1>8 DEF Continue, Abandon, ResetCreate,
       SendPasswordReset, ChangeUpdate, ConfirmUpdate
  <1>9. CASE Tick
    <2>1. UNCHANGED <<call, family>> /\ \A j \in Jti : TS!Live(j)' => TS!Live(j)
      BY <1>9 DEF Tick, TS!Tick
    <2>2. /\ \A q \in Proc : Hand(q)' <=> Hand(q)
          /\ \A j \in Jti : InPlay(j)' => InPlay(j)
      BY <2>1 DEF InPlay, Hand
    <2>. QED
      BY <2>1, <2>2, HeldAreMinted DEF Alone
  <1>10. CASE (\E r \in Reset : ResetExpires(r)) \/ UNCHANGED vars
    BY <1>1, <1>10 DEF ResetExpires, vars
  <1>. QED
    BY <1>2, <1>7, <1>8, <1>9, <1>10 DEF Next

-----------------------------------------------------------------------------
(* Reset tokens are one-shot.                                              *)

(* What a handler has had accepted, by where it is. *)
LEMMA GrantOf ==
  ASSUME flow \in [Proc -> Flow], flow' \in [Proc -> Flow], NEW p \in Proc,
         \A q \in Proc : q # p => flow'[q] = flow[q]
  PROVE  /\ ~Confirming(p) /\ ~Confirming(p)' => UNCHANGED ResetGrant
         /\ Confirming(p) /\ Confirming(p)' /\ flow'[p].reset = flow[p].reset
              => UNCHANGED ResetGrant
         /\ ~Confirming(p)' => ResetGrant' = [ResetGrant EXCEPT ![p] = None]
         /\ Confirming(p)' => ResetGrant' = [ResetGrant EXCEPT ![p] = flow'[p].reset]
  BY DEF ResetGrant, Confirming

(* Every step of the service issues, accepts, withdraws or releases a reset *)
(* token as the abstract one does, or leaves them all alone.               *)
LEMMA ResetStep ==
  ASSUME Rows, Handled, Handled', [Next]_vars
  PROVE  [OneShotReset!Next]_(OneShotReset!vars)
  <1>. DEFINE Abstract == [OneShotReset!Next]_(OneShotReset!vars)
  <1>. USE NoneIsNoRow, NoneIsNoValue DEF Handled, OneShotReset!vars
  <1>1. ASSUME NEW p \in Proc, \A q \in Proc : q # p => flow'[q] = flow[q],
               ~Confirming(p)' \/ (Confirming(p) /\ flow'[p].reset = flow[p].reset),
               UNCHANGED <<reset, drawn>>
        PROVE  Abstract
    <2>1. UNCHANGED ResetState
      BY <1>1 DEF ResetState
    <2>2. UNCHANGED ResetGrant \/ ResetGrant' = [ResetGrant EXCEPT ![p] = None]
      BY <1>1, GrantOf
    <2>. QED
      BY <2>1, <2>2 DEF OneShotReset!Next, OneShotReset!Release
  <1>2. ASSUME NEW p \in Proc, NEW f \in Flow, Enter(p, f), ~(f.at \in {"confirm_consumed",
               "confirm_updated", "confirm_revoke"})
        PROVE  /\ \A q \in Proc : q # p => flow'[q] = flow[q]
               /\ ~Confirming(p)'
    BY <1>2 DEF Enter, Confirming
  <1>3. ASSUME NEW p \in Proc, Enter(p, Idle), UNCHANGED <<reset, drawn>>
        PROVE  Abstract
    BY <1>1, <1>2, <1>3, IdleIsFlow
  <1>4. ASSUME NEW p \in Proc, NEW step \in {"confirm_updated", "confirm_revoke"},
               flow[p].at \in {"confirm_consumed", "confirm_updated"},
               Goto(p, step), UNCHANGED <<reset, drawn>>
        PROVE  Abstract
    <2>1. /\ \A q \in Proc : q # p => flow'[q] = flow[q]
          /\ Confirming(p) /\ flow'[p].reset = flow[p].reset
      BY <1>4 DEF Goto, Confirming, Flow
    <2>. QED
      BY <1>1, <1>4, <2>1
  <1>5. ASSUME UNCHANGED <<flow, reset, drawn>>
        PROVE  Abstract
    BY <1>5 DEF ResetState, ResetGrant, Confirming
  <1>6. ASSUME NEW p \in Proc, NEW gone \in SUBSET Reset, ~Confirming(p), ~Confirming(p)',
               \A q \in Proc : q # p => flow'[q] = flow[q],
               ResetState' = [r \in Reset |-> IF r \in gone THEN "spent" ELSE ResetState[r]]
        PROVE  Abstract
    <2>1. UNCHANGED ResetGrant
      BY <1>6, GrantOf
    <2>2. OneShotReset!Withdraw(gone)
      BY <1>6, <2>1 DEF OneShotReset!Withdraw
    <2>. QED
      BY <2>2 DEF OneShotReset!Next
  <1>7. ASSUME NEW p \in Proc, NEW u \in Uid, DeleteMe(p, u)
        PROVE  Abstract
    <2>. DEFINE gone == {r \in Reset : reset[r] # None /\ reset[r].uid = u}
    <2>1. ~Confirming(p) /\ Enter(p, Idle) /\ UNCHANGED drawn
      BY <1>7 DEF DeleteMe, Free, Confirming
    <2>2. \A r \in Reset : reset'[r] = IF r \in gone THEN None ELSE reset[r]
      BY <1>7 DEF DeleteMe, DeleteUser
    <2>3. \A r \in gone : r \in drawn
      BY DEF Rows
    <2>. HIDE DEF gone
    <2>4. ResetState' = [r \in Reset |-> IF r \in gone THEN "spent" ELSE ResetState[r]]
      BY <2>1, <2>2, <2>3 DEF ResetState
    <2>5. gone \in SUBSET Reset
      BY DEF gone
    <2>. QED
      BY <1>2, <1>6, <2>1, <2>4, <2>5, IdleIsFlow
  <1>8. ASSUME NEW p \in Proc, NEW r \in Reset, ResetCreate(p, r)
        PROVE  Abstract
    <2>1. /\ ~Confirming(p) /\ ~Confirming(p)' /\ r \notin drawn /\ drawn' = drawn \cup {r}
          /\ \A q \in Proc : q # p => flow'[q] = flow[q]
      <3>1. /\ flow' = [flow EXCEPT ![p] = IF account[flow[p].uid] = None THEN Idle
                         ELSE [Idle EXCEPT !.at = "mail", !.uid = flow[p].uid, !.reset = r]]
            /\ flow[p].at = "reset_request" /\ r \notin drawn /\ drawn' = drawn \cup {r}
        BY <1>8 DEF ResetCreate, Enter
      <3>2. flow'[p].at \in {"idle", "mail"}
        BY <3>1 DEF Idle
      <3>. QED
        BY <3>1, <3>2 DEF Confirming
    <2>2. \A i \in Reset : i # r => reset'[i] = reset[i]
      BY <1>8 DEF ResetCreate, InsertReset, Rows
    <2>3. \A i \in Reset : i # r => ResetState'[i] = ResetState[i]
      BY <2>1, <2>2 DEF ResetState
    <2>4. CASE reset'[r] = None
      <3>1. ResetState' = [i \in Reset |-> IF i \in {r} THEN "spent" ELSE ResetState[i]]
        BY <2>1, <2>3, <2>4 DEF ResetState
      <3>2. {r} \in SUBSET Reset
        OBVIOUS
      <3>. QED
        BY <1>6, <2>1, <3>1, <3>2
    <2>5. CASE reset'[r] # None
      <3>1. reset'[r] = [uid |-> flow[p].uid, open |-> TRUE]
        BY <1>8, <2>5 DEF ResetCreate, InsertReset, Rows
      <3>2. ResetState[r] = "unissued" /\ ResetState'[r] = "live"
        BY <2>1, <2>5, <3>1 DEF ResetState
      <3>3. ResetState' = [ResetState EXCEPT ![r] = "live"]
        BY <2>3, <3>2 DEF ResetState
      <3>4. UNCHANGED ResetGrant
        BY <2>1, GrantOf
      <3>5. OneShotReset!Issue(r)
        BY <3>2, <3>3, <3>4 DEF OneShotReset!Issue
      <3>. QED
        BY <3>5 DEF OneShotReset!Next
    <2>. QED
      BY <2>4, <2>5
  <1>9. ASSUME NEW r \in Reset, reset[r] # None, reset' = [reset EXCEPT ![r].open = FALSE],
               UNCHANGED drawn
        PROVE  /\ ResetState[r] = IF reset[r].open THEN "live" ELSE "spent"
               /\ ResetState' = [ResetState EXCEPT ![r] = "spent"]
    <2>1. reset[r] \in ResetRow /\ r \in drawn
      BY <1>9 DEF Rows
    <2>2. /\ reset'[r] # None /\ ~reset'[r].open
          /\ \A i \in Reset : i # r => reset'[i] = reset[i]
      BY <1>9, <2>1 DEF Rows, ResetRow
    <2>3. ResetState[r] = IF reset[r].open THEN "live" ELSE "spent"
      BY <1>9, <2>1 DEF ResetState
    <2>4. ResetState'[r] = "spent"
      BY <1>9, <2>1, <2>2 DEF ResetState
    <2>5. \A i \in Reset : i # r => ResetState'[i] = ResetState[i]
      BY <1>9, <2>2 DEF ResetState
    <2>6. ResetState' = [ResetState EXCEPT ![r] = "spent"]
      BY <2>4, <2>5 DEF ResetState
    <2>. QED
      BY <2>3, <2>6
  <1>10. ASSUME NEW r \in Reset, ResetExpires(r)
         PROVE  Abstract
    <2>1. ResetState' = [ResetState EXCEPT ![r] = "spent"] /\ UNCHANGED flow
      BY <1>9, <1>10 DEF ResetExpires
    <2>2. ResetState' = [i \in Reset |-> IF i \in {r} THEN "spent" ELSE ResetState[i]]
      BY <2>1 DEF ResetState
    <2>3. UNCHANGED ResetGrant
      BY <2>1 DEF ResetGrant, Confirming
    <2>4. OneShotReset!Withdraw({r})
      BY <2>2, <2>3 DEF OneShotReset!Withdraw
    <2>. QED
      BY <2>4 DEF OneShotReset!Next
  <1>11. ASSUME NEW p \in Proc, NEW r \in Reset, NEW new \in Password, Consume(p, r, new)
         PROVE  Abstract
    <2>1. /\ ResetState[r] = "live" /\ ResetState' = [ResetState EXCEPT ![r] = "spent"]
          /\ flow[p].at = "idle"
          /\ flow' = [flow EXCEPT ![p] = [Idle EXCEPT !.at = "confirm_consumed",
                                            !.uid = reset[r].uid, !.reset = r, !.wanted = new]]
      BY <1>9, <1>11 DEF Consume, Free, Enter
    <2>2. /\ flow'[p].at = "confirm_consumed" /\ flow'[p].reset = r
          /\ \A q \in Proc : q # p => flow'[q] = flow[q]
      BY <2>1 DEF Idle
    <2>3. ~Confirming(p) /\ Confirming(p)'
      BY <2>1, <2>2 DEF Confirming
    <2>4. ResetGrant[p] = None /\ ResetGrant' = [ResetGrant EXCEPT ![p] = r]
      BY <2>2, <2>3, GrantOf DEF ResetGrant
    <2>5. OneShotReset!Accept(p, r)
      BY <2>1, <2>4 DEF OneShotReset!Accept
    <2>. QED
      BY <2>5 DEF OneShotReset!Next
  <1>12. ASSUME NEW p \in Proc, UNCHANGED <<reset, drawn>>,
                \/ \E u \in Uid : LoginVerify(p, u) \/ LogoutAll(p, u) \/ ResetFind(p, u)
                \/ \E j \in Jti : RefreshBegin(p, j) \/ Logout(p, j)
                \/ \E j \in Jti : LoginSign(p, j) \/ RefreshSign(p, j)
                \/ \E u \in Uid, new \in Password : ChangeVerify(p, u, new)
         PROVE  Abstract
    <2>1. /\ flow'[p].at \in {"login", "logout_all", "reset_request", "refresh_revoke", "logout",
                             "login_store", "refresh_store", "change"}
          /\ \A q \in Proc : q # p => flow'[q] = flow[q]
      <3>1. CASE \E u \in Uid : LoginVerify(p, u) \/ LogoutAll(p, u) \/ ResetFind(p, u)
        <4>1. PICK u \in Uid, step \in {"login", "logout_all", "reset_request"} :
                Enter(p, [Idle EXCEPT !.at = step, !.uid = u])
          BY <3>1 DEF LoginVerify, LogoutAll, ResetFind
        <4>. QED
          BY <4>1 DEF Enter, Idle
      <3>2. CASE \E j \in Jti : LoginSign(p, j) \/ RefreshSign(p, j)
        BY <3>2 DEF LoginSign, RefreshSign, Goto, Flow
      <3>3. CASE \E j \in Jti : RefreshBegin(p, j) \/ Logout(p, j)
        <4>1. PICK j \in Jti, step \in {"refresh_revoke", "logout"} :
                Enter(p, [Idle EXCEPT !.at = step, !.uid = claims[j]])
          BY <3>3 DEF RefreshBegin, Logout
        <4>. QED
          BY <4>1 DEF Enter, Idle
      <3>4. CASE \E u \in Uid, new \in Password : ChangeVerify(p, u, new)
        BY <3>4 DEF ChangeVerify, Enter, Idle
      <3>. QED
        BY <1>12, <3>1, <3>2, <3>3, <3>4
    <2>2. ~Confirming(p)'
      BY <2>1 DEF Confirming
    <2>. QED
      BY <1>1, <1>12, <2>1, <2>2
  <1>. USE DEF dbVars
  <1>13. ASSUME NEW p \in Proc, Request(p)
         PROVE  Abstract
    BY <1>3, <1>7, <1>11, <1>12, <1>13 DEF Request, Register, LoginVerify, LogoutAll, ResetFind,
       RefreshBegin, Logout, ChangeVerify
  <1>14. ASSUME NEW p \in Proc, Continue(p)
         PROVE  Abstract
    BY <1>3, <1>4, <1>5, <1>8, <1>12, <1>14 DEF Continue, LoginSign, RefreshSign,
       SendPasswordReset, ChangeUpdate, ConfirmUpdate, ConfirmRevoke, StoreCommand, Reply
  <1>15. ASSUME NEW p \in Proc, RedisFails(p) \/ Abandon(p)
         PROVE  Abstract
    BY <1>3, <1>5, <1>15 DEF RedisFails, Abandon
  <1>16. CASE Tick \/ UNCHANGED vars
    BY <1>5, <1>16 DEF Tick, vars
  <1>. QED
    BY <1>10, <1>13, <1>14, <1>15, <1>16 DEF Next

-----------------------------------------------------------------------------
(* Theorems of the specification.                                          *)

(* The inductive invariant. *)
IInv == TSP!IInv /\ Rows /\ Handled /\ Whose /\ Alone

(* No rows, no tokens, and nobody at work. *)
LEMMA InitIInv ==
  Init => IInv
  <1>. SUFFICES ASSUME Init
                PROVE  IInv
    OBVIOUS
  <1>. USE NoneIsNoValue, RefreshTtlAssumption DEF Init, TS!Init
  <1>1. \A p \in Proc : call[p].at = "idle" /\ flow[p].at = "idle"
    BY DEF TS!Idle, Idle
  <1>2. TSP!IInv
    BY StoreInit
  <1>3. Rows /\ Handled /\ Whose
    BY <1>1, IdleIsFlow DEF Rows, Handled, Whose, Free
  <1>4. Alone
    BY <1>1 DEF Alone, Hand, InPlay
  <1>. QED
    BY <1>2, <1>3, <1>4 DEF IInv

(* Every step of every handler keeps the invariant. *)
LEMMA NextIInv ==
  IInv /\ [Next]_vars => IInv'
  BY StoreKept, StoreStep, StoreStays, RowsStep, HandledStep, AloneStep DEF IInv, Stored, Handled

(* What a handler holds across its awaits, what the tables promise each    *)
(* other and what the token store promises are true throughout, whatever   *)
(* fails.                                                                  *)
THEOREM Invariance == Spec => []IInv
  BY InitIInv, NextIInv, PTL DEF Spec

(* The variables keep their types, for every set of users and addresses: a  *)
(* row belongs to an id that was given out, a reset row to a user that      *)
(* exists, and no two users share an address (TypeOK).                     *)
THEOREM TypeCorrect == Spec => []TypeOK
  <1>1. IInv => TypeOK
    BY StoreKept DEF IInv, Stored, Rows, Handled, TypeOK
  <1>. QED
    BY <1>1, Invariance, PTL

(* The handlers, with all they do to Postgres, use the token store as       *)
(* TokenStore assumes, so that what is proved of it holds in the service.   *)
THEOREM TokenStoreRefinement == Spec => TokenStoreSpec
  <1>1. Init => TS!Init
    BY DEF Init
  <1>2. IInv /\ [Next]_vars => [TS!Next]_(TS!vars)
    BY StoreKept, StoreStep DEF IInv, Stored
  <1>. QED
    BY <1>1, <1>2, Invariance, PTL DEF Spec, TokenStoreSpec, TS!Spec

(* However many clients present a reset token, and whatever fails or is     *)
(* deleted meanwhile, consume accepts it at most once.                     *)
THEOREM ResetRefinement == Spec => ResetOneShotSpec
  <1>1. Init => OneShotReset!Init
    BY DEF Init, OneShotReset!Init, ResetState, ResetGrant, Confirming, Idle
  <1>2. IInv /\ IInv' /\ [Next]_vars => [OneShotReset!Next]_(OneShotReset!vars)
    BY ResetStep DEF IInv
  <1>. QED
    BY <1>1, <1>2, Invariance, PTL DEF Spec, ResetOneShotSpec, OneShotReset!Spec

(* In the service, too, no interleaving files a session under another user, *)
(* every stored live session but the orphaned is in its user's index, which *)
(* has a TTL and outlives it, and "revoke all" ends all that it finds there. *)
THEOREM StoreHolds ==
    Spec => [](TS!IndexIsByOwner /\ TS!IndexCoversSessions /\ TS!IndexOutlivesSessions
                 /\ TS!StoredIndexHasTtl /\ TS!RevokeAllCoversIndexed)
  <1>1. TSP!IInv => /\ TS!IndexIsByOwner /\ TS!IndexCoversSessions
                    /\ TS!IndexOutlivesSessions /\ TS!StoredIndexHasTtl
                    /\ TS!RevokeAllCoversIndexed
    BY DEF TSP!IInv, TSP!IndexIsByOwner, TSP!IndexCoversSessions, TSP!IndexOutlivesSessions,
       TSP!StoredIndexHasTtl, TSP!RevokeAllCoversIndexed, TSP!Live, TSP!NoExpiry,
       TS!StoredIndexHasTtl, TS!NoExpiry, TS!IndexIsByOwner, TS!IndexCoversSessions, TS!IndexOutlivesSessions, TS!RevokeAllCoversIndexed
  <1>. QED
    BY <1>1, Invariance, PTL DEF IInv

(* Refresh rotation: a login is worth one live refresh token, however many  *)
(* requests present its tokens at once and whichever of their steps fail.   *)
THEOREM RotationHolds == Spec => []OneSessionPerLogin
  <1>1. IInv => OneSessionPerLogin
    BY DEF IInv, Alone, InPlay, OneSessionPerLogin
  <1>. QED
    BY <1>1, Invariance, PTL

(* No request brings back an account that was deleted while it was under    *)
(* way.                                                                    *)
THEOREM DeletionIsFinal == Spec => DeletedStaysDeleted
  <1>1. ASSUME IInv, [Next]_vars
        PROVE  [\A u \in enrolled : account[u] = None => account'[u] = None]_vars
    <2>. DEFINE Gone == \A u \in enrolled : account[u] = None => account'[u] = None
    <2>1. account \in [Uid -> User \cup {None}] /\ enrolled \subseteq Uid
      BY <1>1 DEF IInv, Rows
    <2>. USE DEF dbVars
    <2>2. CASE UNCHANGED account
      BY <2>2
    <2>3. ASSUME NEW p \in Proc, Request(p)
          PROVE  Gone
      BY <2>1, <2>2, <2>3 DEF Request, Register, InsertUser, LoginVerify, LogoutAll, DeleteMe,
         DeleteUser, ResetFind, RefreshBegin, Logout, ChangeVerify, Consume
    <2>4. ASSUME NEW p \in Proc, Continue(p)
          PROVE  Gone
      BY <2>1, <2>2, <2>4 DEF Continue, LoginSign, RefreshSign, ResetCreate, SendPasswordReset,
         ChangeUpdate, ConfirmUpdate, UpdatePassword, ConfirmRevoke, StoreCommand, Reply
    <2>5. ASSUME NEW p \in Proc, RedisFails(p) \/ Abandon(p)
          PROVE  Gone
      BY <2>2, <2>5 DEF RedisFails, Abandon
    <2>. QED
      BY <1>1, <2>2, <2>3, <2>4, <2>5 DEF Next, ResetExpires, Tick
  <1>. QED
    BY <1>1, Invariance, PTL DEF Spec, DeletedStaysDeleted
=============================================================================

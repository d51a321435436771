---------------------------- MODULE ResetProofs ----------------------------
(***************************************************************************)
(* What a password reset is for, proved: the logins by an older password   *)
(* are over when it has succeeded (ResetEndsOldLogins of AuthService), for *)
(* every set of tokens, users, requests and reset tokens, every            *)
(* interleaving of the handlers and whichever of their steps fail.         *)
(*                                                                         *)
(* The argument: "revoke all" empties the index of its user (CommandEffect *)
(* below); every live session of that user is in the index, or orphaned,   *)
(* or in the hand of a request (the invariant of TokenStore); and a login  *)
(* that has no live session and is in no hand has none ever again, because *)
(* a token comes of a token (Extinct).                                     *)
(***************************************************************************)
EXTENDS AuthServiceProofs

(* Whose a token is.  The claims of a stored token name the user its key    *)
(* names, those of a token of /refresh the user of its login; a refresh     *)
(* goes on for the user of the token it has spent, and the revocation of a  *)
(* reset is for the user whose password was set.                            *)
Signed ==
    /\ \A j \in Jti : TS!Live(j) => refresh[j] = claims[j]
    /\ \A j \in minted : claims[family[j]] = claims[j]
    /\ \A p \in Proc :
        /\ call[p].at = "setex" => call[p].uid = claims[call[p].jti]
        /\ flow[p].at = "refresh_revoke" /\ call[p].at \in {"getdel", "srem", "some"}
               => flow[p].uid = claims[call[p].jti]
        /\ flow[p].at = "confirm_revoke" /\ call[p].at \in TS!RevokeAllSteps
               => call[p].uid = flow[p].uid

(* The logins that a reset has to end are those of its user, and a login    *)
(* without a token is still about to sign its first.                        *)
OutdatedAreTheirs ==
    \A p \in Proc :
        /\ outdated[p] # {} => flow[p].at \in {"confirm_updated", "confirm_revoke"}
        /\ \A f \in outdated[p] \ Proc : f \in minted /\ claims[f] = flow[p].uid
        /\ \A q \in outdated[p] \cap Proc : flow[q].at = "login" /\ flow[q].uid = flow[p].uid

(* An ended login is extinct: none of its tokens that a client has is live, *)
(* and no request holds one that is about to be, or to be replaced.         *)
Extinct ==
    /\ ended \subseteq minted
    /\ \A j \in minted : family[j] \in ended /\ TS!Live(j) =>
           /\ j \notin acked
           /\ \A p \in Proc : call[p].at \in TS!StoreSteps => call[p].jti # j
    /\ \A p \in Proc :
        /\ call[p].at \in {"setex", "sadd"} => family[call[p].jti] \notin ended
        /\ flow[p].at = "refresh_revoke" /\ call[p].at \in {"srem", "some"}
               => family[call[p].jti] \notin ended

ResetInv == Signed /\ OutdatedAreTheirs /\ Extinct

USE DEF TS!Running, TS!Ready, TS!StoreSteps, TS!RevokeSteps, TS!RevokeAllSteps, TS!Returned,
    TS!Live

-----------------------------------------------------------------------------
(* What a step leaves of the state.                                        *)

(* The invariant this one builds on, as it is used here. *)
Given ==
    /\ Stored /\ Handled
    /\ minted \subseteq Jti

(* It is part of what is proved in AuthServiceProofs. *)
LEMMA GivenHolds ==
  ASSUME IInv
  PROVE  Given
  BY StoreKept DEF IInv, Given, Stored, TS!TypeOK

(* The other requests. *)
CallsAside(p) == \A q \in Proc : q # p => call'[q] = call[q]
FlowsAside(p) == \A q \in Proc : q # p => flow'[q] = flow[q]

(* A handler goes to another place. *)
LEMMA FlowMoves ==
  ASSUME Given, NEW p \in Proc
  PROVE  /\ \A f : Enter(p, f) => flow'[p] = f /\ FlowsAside(p)
         /\ \A step : Goto(p, step) =>
                flow'[p].at = step /\ flow'[p].uid = flow[p].uid /\ FlowsAside(p)
  <1>1. flow \in [Proc -> Flow]
    BY DEF Given, Handled
  <1>2. ASSUME NEW f, Enter(p, f)
        PROVE  flow'[p] = f /\ FlowsAside(p)
    BY <1>1, <1>2 DEF Enter, FlowsAside
  <1>3. ASSUME NEW step, Goto(p, step)
        PROVE  flow'[p].at = step /\ flow'[p].uid = flow[p].uid /\ FlowsAside(p)
    <2>. DEFINE f == [flow[p] EXCEPT !.at = step]
    <2>1. f.at = step /\ f.uid = flow[p].uid
      BY <1>1 DEF Flow
    <2>2. flow' = [flow EXCEPT ![p] = f]
      BY <1>3 DEF Goto
    <2>. HIDE DEF f
    <2>. QED
      BY <1>1, <2>1, <2>2 DEF FlowsAside
  <1>. QED
    BY <1>2, <1>3

(* A method begins, returns or breaks off. *)
LEMMA CallMoves ==
  ASSUME Given, NEW p \in Proc
  PROVE  /\ \A j \in Jti, u \in Uid : TS!BeginStore(p, j, u) =>
                /\ call'[p].at = "setex" /\ call'[p].jti = j /\ call'[p].uid = u
                /\ j \notin minted /\ minted' = minted \cup {j}
                /\ CallsAside(p) /\ UNCHANGED <<refresh, acked>>
         /\ \A j \in Jti : TS!BeginRevoke(p, j) =>
                /\ call'[p].at = "getdel" /\ call'[p].jti = j
                /\ CallsAside(p) /\ UNCHANGED <<refresh, acked, minted>>
         /\ \A u \in Uid : TS!BeginRevokeAll(p, u) =>
                /\ call'[p].at = "smembers" /\ call'[p].uid = u
                /\ CallsAside(p) /\ UNCHANGED <<refresh, acked, minted>>
         /\ TS!Return(p) \/ TS!Fail(p) =>
                /\ call'[p].at \in {"idle", "err"}
                /\ CallsAside(p) /\ UNCHANGED <<refresh, acked, minted>>
  <1>. USE DEF TS!redisVars, TS!ghostVars, CallsAside
  <1>0. TS!TypeOK
    BY DEF Given, Stored
  <1>1. ASSUME NEW j \in Jti, NEW u \in Uid, TS!BeginStore(p, j, u)
        PROVE  /\ call'[p].at = "setex" /\ call'[p].jti = j /\ call'[p].uid = u
               /\ j \notin minted /\ minted' = minted \cup {j}
               /\ CallsAside(p) /\ UNCHANGED <<refresh, acked>>
    BY <1>0, <1>1, CallStarts DEF TS!BeginStore
  <1>2. ASSUME NEW j \in Jti, TS!BeginRevoke(p, j)
        PROVE  /\ call'[p].at = "getdel" /\ call'[p].jti = j
               /\ CallsAside(p) /\ UNCHANGED <<refresh, acked, minted>>
    BY <1>0, <1>2, CallStarts DEF TS!BeginRevoke
  <1>3. ASSUME NEW u \in Uid, TS!BeginRevokeAll(p, u)
        PROVE  /\ call'[p].at = "smembers" /\ call'[p].uid = u
               /\ CallsAside(p) /\ UNCHANGED <<refresh, acked, minted>>
    BY <1>0, <1>3, CallStarts DEF TS!BeginRevokeAll
  <1>4. ASSUME TS!Return(p) \/ TS!Fail(p)
        PROVE  /\ call'[p].at \in {"idle", "err"}
               /\ CallsAside(p) /\ UNCHANGED <<refresh, acked, minted>>
    BY <1>0, <1>4, CallStarts DEF TS!Return, TS!Fail
  <1>. QED
    BY <1>1, <1>2, <1>3, <1>4

(* The steps of a method, each with the one its command leads to. *)
StepAndNext == {<<"setex", "sadd">>, <<"sadd", "expire">>, <<"expire", "stored">>,
    <<"getdel", "srem">>, <<"getdel", "none">>, <<"srem", "some">>,
    <<"smembers", "del">>, <<"smembers", "revokedall">>,
    <<"del", "del">>, <<"del", "delindex">>, <<"delindex", "revokedall">>}

CommandEffect(p) ==
    /\ CallsAside(p)
    /\ <<call[p].at, call'[p].at>> \in StepAndNext
    /\ call'[p].jti = call[p].jti
    /\ call[p].at \in TS!RevokeAllSteps => call'[p].uid = call[p].uid
    /\ UNCHANGED minted
    /\ \A j \in Jti : TS!Live(j)' =>
          \/ refresh'[j] = refresh[j]
          \/ call[p].at = "setex" /\ j = call[p].jti /\ refresh'[j] = call[p].uid
    /\ acked' = IF call[p].at = "expire" THEN acked \cup {call[p].jti} ELSE acked
    /\ call'[p].at = "srem" => TS!Live(call[p].jti)
    /\ call'[p].at = "revokedall" => sessions'[call[p].uid] = {}

(* What each command does, as far as it matters here. *)
LEMMA CommandEffects ==
  ASSUME Given, NEW p \in Proc, TS!Command(p)
  PROVE  CommandEffect(p)
  <1>. USE DEF TS!redisVars, TS!ghostVars, CallsAside, StepAndNext, CommandEffect
  <1>0. TS!TypeOK /\ Args /\ call \in [Proc -> TS!Call] /\ call[p] \in TS!Call
    BY DEF Given, Stored, TS!TypeOK
  <1>1. CASE TS!SetEx(p)
    <2>1. /\ call[p].at = "setex" /\ call'[p].at = "sadd"
          /\ call'[p].jti = call[p].jti /\ CallsAside(p)
          /\ UNCHANGED <<minted, acked>>
      BY <1>0, <1>1, CallGoes DEF TS!SetEx
    <2>2. \A j \in Jti : refresh'[j] = IF j = call[p].jti THEN call[p].uid ELSE refresh[j]
      BY <1>0, <1>1 DEF TS!SetEx, TS!TypeOK
    <2>. QED
      BY <2>1, <2>2
  <1>2. CASE TS!SAdd(p)
    BY <1>0, <1>2, CallGoes DEF TS!SAdd
  <1>3. CASE TS!ExpireIndex(p)
    BY <1>0, <1>3, CallGoes DEF TS!ExpireIndex
  <1>4. CASE TS!GetDel(p)
    <2>1. /\ call[p].at = "getdel" /\ UNCHANGED <<minted, acked>>
          /\ refresh' = [refresh EXCEPT ![call[p].jti] = None]
          /\ call' = [call EXCEPT ![p].at = IF TS!Live(call[p].jti) THEN "srem" ELSE "none",
                                  ![p].uid = refresh[call[p].jti]]
      BY <1>4 DEF TS!GetDel
    <2>2. /\ call'[p].at = IF TS!Live(call[p].jti) THEN "srem" ELSE "none"
          /\ call'[p].jti = call[p].jti /\ CallsAside(p)
      BY <1>0, <2>1 DEF TS!Call
    <2>3. \A j \in Jti : TS!Live(j)' => refresh'[j] = refresh[j]
      BY <1>0, <2>1 DEF TS!TypeOK
    <2>4. call[p].at = "getdel" /\ UNCHANGED <<minted, acked>>
      BY <2>1
    <2>. QED
      BY <2>2, <2>3, <2>4
  <1>5. CASE TS!SRem(p)
    BY <1>0, <1>5, CallGoes DEF TS!SRem
  <1>6. CASE TS!SMembers(p)
    <2>. DEFINE found == sessions[call[p].uid]
    <2>1. /\ call[p].at = "smembers" /\ UNCHANGED <<refresh, sessions, minted, acked>>
          /\ call' = [call EXCEPT ![p].at = IF found = {} THEN "revokedall" ELSE "del",
                                  ![p].jtis = found, ![p].todo = found]
      BY <1>6 DEF TS!SMembers
    <2>2. /\ call'[p].at = IF found = {} THEN "revokedall" ELSE "del"
          /\ call'[p].jti = call[p].jti /\ call'[p].uid = call[p].uid /\ CallsAside(p)
      BY <1>0, <2>1 DEF TS!Call
    <2>3. call[p].at = "smembers" /\ UNCHANGED <<refresh, sessions, minted, acked>>
      BY <2>1
    <2>. QED
      BY <2>2, <2>3
  <1>7. CASE TS!DelRefresh(p)
    <2>1. PICK j \in call[p].todo, step \in {"del", "delindex"} :
            /\ call[p].at = "del" /\ UNCHANGED <<minted, acked>>
            /\ refresh' = [refresh EXCEPT ![j] = None]
            /\ call' = [call EXCEPT ![p].todo = @ \ {j}, ![p].at = step]
      BY <1>7 DEF TS!DelRefresh
    <2>2. /\ call'[p].at = step /\ call'[p].jti = call[p].jti
          /\ call'[p].uid = call[p].uid /\ CallsAside(p)
      BY <1>0, <2>1 DEF TS!Call
    <2>3. \A i \in Jti : TS!Live(i)' => refresh'[i] = refresh[i]
      BY <1>0, <2>1 DEF TS!TypeOK
    <2>. QED
      BY <2>1, <2>2, <2>3
  <1>8. CASE TS!DelIndex(p)
    <2>1. /\ call[p].at = "delindex" /\ call'[p].at = "revokedall"
          /\ call'[p].jti = call[p].jti /\ call'[p].uid = call[p].uid /\ CallsAside(p)
          /\ call[p].uid \in Uid /\ UNCHANGED <<refresh, minted, acked>>
      BY <1>0, <1>8, CallGoes DEF TS!DelIndex, Args
    <2>2. sessions'[call[p].uid] = {}
      BY <1>0, <1>8, <2>1 DEF TS!DelIndex, TS!TypeOK
    <2>. QED
      BY <2>1, <2>2
  <1>. QED
    BY <1>1, <1>2, <1>3, <1>4, <1>5, <1>6, <1>7, <1>8 DEF TS!Command

-----------------------------------------------------------------------------
(* Whose a token is.                                                       *)

(* The steps that leave the store and the signed tokens alone, and where    *)
(* the handler does not begin to refresh or to revoke.                      *)
LEMMA SignedAside ==
  ASSUME Signed, NEW p \in Proc, FlowsAside(p),
         flow'[p].at \notin {"refresh_revoke", "confirm_revoke"},
         UNCHANGED <<refresh, minted, call, claims, family>>
  PROVE  Signed'
  BY DEF Signed, FlowsAside

(* A token is signed: the first of a login, or by /refresh.                 *)
LEMMA SignedSign ==
  ASSUME Given, Signed, NEW p \in Proc, NEW j \in Jti, NEW u \in Uid, NEW g,
         TS!BeginStore(p, j, u), FlowsAside(p),
         flow'[p].at \notin {"refresh_revoke", "confirm_revoke"},
         claims' = [claims EXCEPT ![j] = u], family' = [family EXCEPT ![j] = g],
         g = j \/ (g \in minted /\ claims[g] = u)
  PROVE  Signed'
  <1>1. /\ call'[p].at = "setex" /\ call'[p].jti = j /\ call'[p].uid = u
        /\ j \notin minted /\ minted' = minted \cup {j}
        /\ CallsAside(p) /\ UNCHANGED refresh
    BY CallMoves
  <1>2. /\ claims'[j] = u /\ \A i \in minted : claims'[i] = claims[i]
        /\ family'[j] = g /\ \A i \in minted : family'[i] = family[i]
    BY <1>1 DEF Given, Handled
  <1>3. \A i \in Jti : TS!Live(i) => i \in minted
    BY DEF Given, Stored, Args
  <1>4. \A q \in Proc : call[q].at \in {"setex", "getdel", "srem", "some"} => call[q].jti \in minted
    BY DEF Given, Stored, Args
  <1>5. \A i \in Jti : TS!Live(i)' => refresh'[i] = claims'[i]
    BY <1>1, <1>2, <1>3 DEF Signed
  <1>6. \A i \in minted' : claims'[family'[i]] = claims'[i]
    <2>1. \A i \in minted : family[i] \in minted
      BY DEF Given, Handled
    <2>. QED
      BY <1>1, <1>2, <2>1 DEF Signed
  <1>7. ASSUME NEW q \in Proc
        PROVE  /\ call'[q].at = "setex" => call'[q].uid = claims'[call'[q].jti]
               /\ flow'[q].at = "refresh_revoke" /\ call'[q].at \in {"getdel", "srem", "some"}
                      => flow'[q].uid = claims'[call'[q].jti]
               /\ flow'[q].at = "confirm_revoke" /\ call'[q].at \in TS!RevokeAllSteps
                      => call'[q].uid = flow'[q].uid
    <2>1. CASE q = p
      BY <1>1, <1>2, <2>1
    <2>2. CASE q # p
      BY <1>1, <1>2, <1>4, <2>2 DEF Signed, CallsAside, FlowsAside
    <2>. QED
      BY <2>1, <2>2
  <1>. QED
    BY <1>5, <1>6, <1>7 DEF Signed

(* A call begins, returns or breaks off. *)
LEMMA SignedCall ==
  ASSUME Signed, NEW p \in Proc, FlowsAside(p), CallsAside(p), call'[p].at # "setex",
         flow'[p].at = "refresh_revoke" /\ call'[p].at \in {"getdel", "srem", "some"}
             => flow'[p].uid = claims[call'[p].jti],
         flow'[p].at = "confirm_revoke" /\ call'[p].at \in TS!RevokeAllSteps
             => call'[p].uid = flow'[p].uid,
         UNCHANGED <<refresh, minted, claims, family>>
  PROVE  Signed'
  BY DEF Signed, CallsAside, FlowsAside

(* A command. *)
LEMMA SignedCommand ==
  ASSUME Given, Signed, NEW p \in Proc, CommandEffect(p), UNCHANGED <<claims, flow, family>>
  PROVE  Signed'
  <1>1. \A j \in Jti : TS!Live(j)' => refresh'[j] = claims'[j]
    BY DEF CommandEffect, Signed
  <1>2. \A j \in minted' : claims'[family'[j]] = claims'[j]
    BY DEF CommandEffect, Signed
  <1>3. ASSUME NEW q \in Proc
        PROVE  /\ call'[q].at = "setex" => call'[q].uid = claims'[call'[q].jti]
               /\ flow'[q].at = "refresh_revoke" /\ call'[q].at \in {"getdel", "srem", "some"}
                      => flow'[q].uid = claims'[call'[q].jti]
               /\ flow'[q].at = "confirm_revoke" /\ call'[q].at \in TS!RevokeAllSteps
                      => call'[q].uid = flow'[q].uid
    <2>1. CASE q = p
      <3>1. /\ call'[p].jti = call[p].jti /\ call'[p].at # "setex"
            /\ call'[p].at \in {"getdel", "srem", "some"} => call[p].at \in {"getdel", "srem"}
            /\ call'[p].at \in TS!RevokeAllSteps =>
                   call[p].at \in TS!RevokeAllSteps /\ call'[p].uid = call[p].uid
        BY DEF CommandEffect, StepAndNext
      <3>. QED
        BY <2>1, <3>1 DEF Signed
    <2>2. CASE q # p
      BY <2>2 DEF CommandEffect, CallsAside, Signed
    <2>. QED
      BY <2>1, <2>2
  <1>. QED
    BY <1>1, <1>2, <1>3 DEF Signed

-----------------------------------------------------------------------------
(* The steps of the service, by what they leave alone.                     *)

(* A request that is at the tables, but for the two of "confirm" that come  *)
(* after its token is consumed.                                            *)
OnTables(p) ==
    \/ \E u \in Uid, e \in Email, pw \in Password : Register(p, u, e, pw)
    \/ \E u \in Uid : LoginVerify(p, u) \/ DeleteMe(p, u) \/ ResetFind(p, u)
    \/ \E u \in Uid, new \in Password : ChangeVerify(p, u, new)
    \/ \E r \in Reset, new \in Password : Consume(p, r, new)
    \/ \E r \in Reset : ResetCreate(p, r)
    \/ SendPasswordReset(p) \/ ChangeUpdate(p)

(* Where these steps lead: away from signing and from revoking. *)
LEMMA TablesOnly ==
  ASSUME Given, NEW p \in Proc, OnTables(p)
  PROVE  /\ FlowsAside(p)
         /\ flow[p].at \in {"idle", "reset_request", "mail", "change"}
         /\ flow'[p].at \in {"idle", "login", "reset_request", "mail", "change", "confirm_consumed"}
         /\ UNCHANGED <<tokenVars, claims, ghostVars>>
  <1>1. /\ FlowsAside(p)
        /\ flow'[p].at \in {"idle", "login", "reset_request", "mail", "change", "confirm_consumed"}
    <2>1. CASE Enter(p, Idle)
      BY <2>1, FlowMoves DEF Idle
    <2>2. CASE \E u \in Uid : LoginVerify(p, u) \/ ResetFind(p, u)
      <3>1. PICK u \in Uid, step \in {"login", "reset_request"} :
              Enter(p, [Idle EXCEPT !.at = step, !.uid = u])
        BY <2>2 DEF LoginVerify, ResetFind
      <3>2. flow'[p] = [Idle EXCEPT !.at = step, !.uid = u] /\ FlowsAside(p)
        BY <3>1, FlowMoves
      <3>. QED
        BY <3>2 DEF Idle
    <2>3. CASE \E u \in Uid, new \in Password : ChangeVerify(p, u, new)
      <3>1. PICK u \in Uid, new \in Password :
              Enter(p, [Idle EXCEPT !.at = "change", !.uid = u,
                                    !.seen = account[u].password, !.wanted = new])
        BY <2>3 DEF ChangeVerify
      <3>2. flow'[p] = [Idle EXCEPT !.at = "change", !.uid = u,
                                     !.seen = account[u].password, !.wanted = new] /\ FlowsAside(p)
        BY <3>1, FlowMoves
      <3>. QED
        BY <3>2 DEF Idle
    <2>4. CASE \E r \in Reset, new \in Password : Consume(p, r, new)
      <3>1. PICK r \in Reset, new \in Password :
              Enter(p, [Idle EXCEPT !.at = "confirm_consumed", !.uid = reset[r].uid,
                                    !.reset = r, !.wanted = new])
        BY <2>4 DEF Consume
      <3>2. flow'[p] = [Idle EXCEPT !.at = "confirm_consumed", !.uid = reset[r].uid,
                                     !.reset = r, !.wanted = new] /\ FlowsAside(p)
        BY <3>1, FlowMoves
      <3>. QED
        BY <3>2 DEF Idle
    <2>5. CASE \E r \in Reset : ResetCreate(p, r)
      <3>1. PICK r \in Reset :
              \/ Enter(p, Idle)
              \/ Enter(p, [Idle EXCEPT !.at = "mail", !.uid = flow[p].uid, !.reset = r])
        BY <2>5 DEF ResetCreate
      <3>2. CASE Enter(p, [Idle EXCEPT !.at = "mail", !.uid = flow[p].uid, !.reset = r])
        <4>1. /\ flow'[p] = [Idle EXCEPT !.at = "mail", !.uid = flow[p].uid, !.reset = r]
              /\ FlowsAside(p)
          BY <3>2, FlowMoves
        <4>. QED
          BY <4>1 DEF Idle
      <3>. QED
        BY <2>1, <3>1, <3>2
    <2>. QED
      BY <2>1, <2>2, <2>3, <2>4, <2>5 DEF OnTables, Register, DeleteMe, SendPasswordReset,
         ChangeUpdate
  <1>2. flow[p].at \in {"idle", "reset_request", "mail", "change"}
    BY DEF OnTables, Register, LoginVerify, DeleteMe, ResetFind, ChangeVerify, Consume,
       ResetCreate, SendPasswordReset, ChangeUpdate, Free
  <1>3. UNCHANGED <<tokenVars, claims, ghostVars>>
    BY DEF OnTables, Register, LoginVerify, DeleteMe, ResetFind, ChangeVerify, Consume,
       ResetCreate, SendPasswordReset, ChangeUpdate
  <1>. QED
    BY <1>1, <1>2, <1>3

(* A request that asks the token store to revoke, or has its answer.        *)
OnCalls(p) ==
    \/ \E j \in Jti : RefreshBegin(p, j) \/ Logout(p, j)
    \/ \E u \in Uid : LogoutAll(p, u)
    \/ ConfirmRevoke(p) \/ Reply(p) \/ RedisFails(p)

(* Where these steps lead, and that the call is for the user of the        *)
(* handler.                                                                *)
LEMMA CallsOnly ==
  ASSUME Given, Whose, NEW p \in Proc, OnCalls(p)
  PROVE  /\ FlowsAside(p) /\ CallsAside(p)
         /\ call'[p].at \in {"idle", "err", "getdel", "smembers"}
         /\ flow'[p].at = "refresh_revoke" /\ call'[p].at = "getdel"
                => flow'[p].uid = claims[call'[p].jti]
         /\ flow'[p].at = "confirm_revoke" /\ call'[p].at = "smembers"
                => call'[p].uid = flow'[p].uid
         /\ flow[p].at # "login"
         /\ outdated' = outdated \/ outdated' = [outdated EXCEPT ![p] = {}]
         /\ outdated'[p] # {} =>
                \/ flow[p].at = "idle" \/ flow'[p] = flow[p]
                \/ flow'[p].at = "confirm_revoke" /\ flow'[p].uid = flow[p].uid
         /\ UNCHANGED <<refresh, minted, acked, claims, family, ended>>
  <1>. USE DEF ghostVars
  <1>0. outdated \in [Proc -> SUBSET (Jti \cup Proc)]
    BY DEF Given, Handled
  <1>1. ASSUME NEW j \in Jti, NEW step \in {"refresh_revoke", "logout"}, Free(p),
               TS!BeginRevoke(p, j), Enter(p, [Idle EXCEPT !.at = step, !.uid = claims[j]])
        PROVE  /\ flow'[p].at = step /\ flow'[p].uid = claims[j] /\ flow[p].at = "idle"
               /\ call'[p].at = "getdel" /\ call'[p].jti = j
               /\ FlowsAside(p) /\ CallsAside(p) /\ UNCHANGED <<refresh, minted, acked>>
    <2>1. flow'[p] = [Idle EXCEPT !.at = step, !.uid = claims[j]] /\ FlowsAside(p)
      BY <1>1, FlowMoves
    <2>2. flow'[p].at = step /\ flow'[p].uid = claims[j]
      BY <2>1 DEF Idle
    <2>. QED
      BY <1>1, <2>1, <2>2, CallMoves DEF Free
  <1>2. CASE \E j \in Jti : RefreshBegin(p, j) \/ Logout(p, j)
    BY <1>1, <1>2 DEF RefreshBegin, Logout
  <1>3. ASSUME NEW u \in Uid, LogoutAll(p, u)
        PROVE  /\ flow'[p].at = "logout_all" /\ flow[p].at = "idle"
               /\ call'[p].at = "smembers"
               /\ FlowsAside(p) /\ CallsAside(p)
               /\ UNCHANGED <<refresh, minted, acked, claims, ghostVars>>
    <2>1. flow'[p] = [Idle EXCEPT !.at = "logout_all", !.uid = u] /\ FlowsAside(p)
      BY <1>3, FlowMoves DEF LogoutAll
    <2>2. flow'[p].at = "logout_all"
      BY <2>1 DEF Idle
    <2>. QED
      BY <1>3, <2>1, <2>2, CallMoves DEF LogoutAll, Free
  <1>4. CASE ConfirmRevoke(p)
    <2>1. flow[p].at = "confirm_updated" /\ flow[p].uid \in Uid /\ UNCHANGED <<claims, ghostVars>>
      BY <1>4 DEF ConfirmRevoke, Whose, Free
    <2>2. flow'[p].at = "confirm_revoke" /\ flow'[p].uid = flow[p].uid /\ FlowsAside(p)
      BY <1>4, FlowMoves DEF ConfirmRevoke
    <2>. QED
      BY <1>4, <2>1, <2>2, CallMoves DEF ConfirmRevoke
  <1>5. CASE Reply(p)
    <2>1. flow'[p].at = "idle" /\ FlowsAside(p) /\ flow[p].at # "login"
      BY <1>5, FlowMoves DEF Reply, Idle, AwaitingRedis
    <2>2. outdated' = [outdated EXCEPT ![p] = {}] /\ UNCHANGED <<claims, family, ended>>
      BY <1>5 DEF Reply
    <2>3. outdated'[p] = {}
      BY <1>0, <2>2
    <2>. QED
      BY <1>5, <2>1, <2>2, <2>3, CallMoves DEF Reply
  <1>6. CASE RedisFails(p)
    BY <1>6, CallMoves DEF RedisFails, FlowsAside, AwaitingRedis
  <1>. QED
    BY <1>2, <1>3, <1>4, <1>5, <1>6 DEF OnCalls

(* Nothing of what is said here changes by it. *)
Apart == UNCHANGED <<call, refresh, minted, acked, orphaned, sessions, claims, flow, ghostVars>>

(* These are all the steps there are. *)
LEMMA Steps ==
  ASSUME Next
  PROVE  \/ \E p \in Proc :
              \/ OnTables(p) \/ OnCalls(p) \/ ConfirmUpdate(p) \/ Abandon(p) \/ StoreCommand(p)
              \/ \E j \in Jti : LoginSign(p, j) \/ RefreshSign(p, j)
         \/ Tick \/ Apart
  <1>1. ASSUME NEW r \in Reset, ResetExpires(r)
        PROVE  Apart
    BY <1>1 DEF ResetExpires, Apart, tokenVars, redisVars
  <1>2. ASSUME NEW p \in Proc, Request(p)
        PROVE  OnTables(p) \/ OnCalls(p)
    BY <1>2 DEF Request, OnTables, OnCalls
  <1>3. ASSUME NEW p \in Proc, Continue(p)
        PROVE  \/ OnTables(p) \/ OnCalls(p) \/ ConfirmUpdate(p) \/ StoreCommand(p)
               \/ \E j \in Jti : LoginSign(p, j) \/ RefreshSign(p, j)
    BY <1>3 DEF Continue, OnTables, OnCalls
  <1>. QED
    BY <1>1, <1>2, <1>3 DEF Next, OnCalls

(* What the two steps that sign have in common: the token is new, it goes   *)
(* to setex, and it descends from itself or from the one that was spent.    *)
LEMMA Signs ==
  ASSUME Given, Whose, Signed, NEW p \in Proc, NEW j \in Jti, LoginSign(p, j) \/ RefreshSign(p, j)
  PROVE  \E g \in minted \cup {j} :
            /\ g = j \/ (claims[g] = flow[p].uid /\ flow[p].at = "refresh_revoke"
                         /\ call[p].at = "some" /\ g = family[call[p].jti])
            /\ flow[p].uid \in Uid /\ TS!BeginStore(p, j, flow[p].uid)
            /\ claims' = [claims EXCEPT ![j] = flow[p].uid] /\ family' = [family EXCEPT ![j] = g]
            /\ FlowsAside(p) /\ flow'[p].at \in {"login_store", "refresh_store"}
            /\ ended' = ended
  <1>1. CASE LoginSign(p, j)
    <2>1. /\ flow[p].at = "login" /\ flow[p].uid \in Uid
          /\ Goto(p, "login_store") /\ ended' = ended
          /\ TS!BeginStore(p, j, flow[p].uid)
          /\ claims' = [claims EXCEPT ![j] = flow[p].uid] /\ family' = [family EXCEPT ![j] = j]
      BY <1>1 DEF LoginSign, Whose, Free
    <2>2. flow'[p].at = "login_store" /\ FlowsAside(p)
      BY <2>1, FlowMoves
    <2>. QED
      BY <2>1, <2>2
  <1>2. CASE RefreshSign(p, j)
    <2>1. /\ flow[p].at = "refresh_revoke" /\ call[p].at = "some" /\ flow[p].uid \in Uid
          /\ Goto(p, "refresh_store") /\ ended' = ended
          /\ TS!BeginStore(p, j, flow[p].uid)
          /\ claims' = [claims EXCEPT ![j] = flow[p].uid]
          /\ family' = [family EXCEPT ![j] = family[call[p].jti]]
      BY <1>2 DEF RefreshSign, Whose, Free
    <2>2. flow'[p].at = "refresh_store" /\ FlowsAside(p)
      BY <2>1, FlowMoves
    <2>3. call[p].jti \in minted
      BY <2>1 DEF Given, Stored, Args
    <2>4. family[call[p].jti] \in minted /\ claims[family[call[p].jti]] = flow[p].uid
      BY <2>1, <2>3 DEF Signed, Given, Handled
    <2>. QED
      BY <2>1, <2>2, <2>4
  <1>. QED
    BY <1>1, <1>2

(* Every step keeps whose a token is. *)
LEMMA SignedStep ==
  ASSUME Given, Whose, Signed, [Next]_vars
  PROVE  Signed'
  <1>. USE DEF tokenVars, redisVars, ghostVars
  <1>1. ASSUME NEW p \in Proc, OnTables(p)
        PROVE  Signed'
    BY <1>1, TablesOnly, SignedAside
  <1>2. ASSUME NEW p \in Proc, OnCalls(p)
        PROVE  Signed'
    <2>1. /\ FlowsAside(p) /\ CallsAside(p)
          /\ call'[p].at \in {"idle", "err", "getdel", "smembers"}
          /\ flow'[p].at = "refresh_revoke" /\ call'[p].at = "getdel"
                 => flow'[p].uid = claims[call'[p].jti]
          /\ flow'[p].at = "confirm_revoke" /\ call'[p].at = "smembers"
                 => call'[p].uid = flow'[p].uid
          /\ UNCHANGED <<refresh, minted, claims, family>>
      BY <1>2, CallsOnly
    <2>. QED
      BY <2>1, SignedCall
  <1>3. ASSUME NEW p \in Proc, ConfirmUpdate(p) \/ Abandon(p)
        PROVE  Signed'
    <2>1. UNCHANGED <<refresh, minted, call, claims, family>>
      BY <1>3 DEF ConfirmUpdate, Abandon
    <2>2. FlowsAside(p) /\ flow'[p].at \in {"idle", "confirm_updated"}
      BY <1>3, FlowMoves DEF ConfirmUpdate, Abandon, Idle
    <2>. QED
      BY <2>1, <2>2, SignedAside
  <1>4. ASSUME NEW p \in Proc, NEW j \in Jti, LoginSign(p, j) \/ RefreshSign(p, j)
        PROVE  Signed'
    BY <1>4, Signs, SignedSign
  <1>5. ASSUME NEW p \in Proc, StoreCommand(p)
        PROVE  Signed'
    BY <1>5, CommandEffects, SignedCommand DEF StoreCommand
  <1>6. CASE Tick
    <2>1. /\ \A j \in Jti : TS!Live(j)' => refresh'[j] = refresh[j]
          /\ UNCHANGED <<minted, call, claims, family, flow>>
      BY <1>6 DEF Tick, TS!Tick
    <2>. QED
      BY <2>1 DEF Signed
  <1>7. CASE Apart \/ UNCHANGED vars
    BY <1>7 DEF Apart, Signed, vars
  <1>. QED
    BY <1>1, <1>2, <1>3, <1>4, <1>5, <1>6, <1>7, Steps

-----------------------------------------------------------------------------
(* The logins that a reset has to end.                                     *)

(* The steps that add none to them.                                        *)
LEMMA OutdatedAside ==
  ASSUME Given, OutdatedAreTheirs, NEW p \in Proc, FlowsAside(p),
         minted \subseteq minted', \A j \in minted : claims'[j] = claims[j],
         \A q \in Proc : outdated'[q] \subseteq outdated[q],
         flow[p].at # "login" \/ \A q \in Proc : p \notin outdated'[q],
         outdated'[p] # {} =>
             /\ flow'[p].at \in {"confirm_updated", "confirm_revoke"}
             /\ flow'[p].uid = flow[p].uid
  PROVE  OutdatedAreTheirs'
  <1>1. ASSUME NEW q \in Proc, outdated'[q] # {}
        PROVE  /\ flow'[q].at \in {"confirm_updated", "confirm_revoke"}
               /\ flow'[q].uid = flow[q].uid
    <2>1. CASE q = p
      BY <1>1, <2>1
    <2>2. CASE q # p
      BY <1>1, <2>2 DEF OutdatedAreTheirs, FlowsAside
    <2>. QED
      BY <2>1, <2>2
  <1>2. ASSUME NEW q \in Proc, NEW f \in outdated'[q] \ Proc
        PROVE  f \in minted' /\ claims'[f] = flow'[q].uid
    BY <1>1, <1>2 DEF OutdatedAreTheirs
  <1>3. ASSUME NEW q \in Proc, NEW o \in outdated'[q] \cap Proc
        PROVE  flow'[o].at = "login" /\ flow'[o].uid = flow'[q].uid
    <2>1. flow[o].at = "login" /\ flow[o].uid = flow[q].uid
      BY <1>3 DEF OutdatedAreTheirs
    <2>. QED
      BY <1>1, <1>3, <2>1 DEF FlowsAside
  <1>. QED
    BY <1>1, <1>2, <1>3 DEF OutdatedAreTheirs

(* Every step keeps where the logins are that a reset has to end. *)
LEMMA OutdatedStep ==
  ASSUME Given, Whose, Signed, OutdatedAreTheirs, [Next]_vars
  PROVE  OutdatedAreTheirs'
  <1>. USE DEF tokenVars, redisVars, ghostVars
  <1>0. /\ outdated \in [Proc -> SUBSET (Jti \cup Proc)] /\ minted \subseteq Jti
        /\ Jti \cap Proc = {}
    BY RequestsAreNoTokens DEF Given, Handled
  <1>1. ASSUME NEW p \in Proc, OnTables(p)
        PROVE  OutdatedAreTheirs'
    <2>1. outdated[p] = {}
      BY <1>1, TablesOnly DEF OutdatedAreTheirs
    <2>. QED
      BY <1>1, <2>1, TablesOnly, OutdatedAside
  <1>2. ASSUME NEW p \in Proc, OnCalls(p)
        PROVE  OutdatedAreTheirs'
    <2>1. \A q \in Proc : outdated'[q] \subseteq outdated[q]
      BY <1>0, <1>2, CallsOnly
    <2>2. outdated'[p] # {} => /\ flow'[p].at \in {"confirm_updated", "confirm_revoke"}
                               /\ flow'[p].uid = flow[p].uid
      BY <1>2, <2>1, CallsOnly DEF OutdatedAreTheirs
    <2>. QED
      BY <1>2, <2>1, <2>2, CallsOnly, OutdatedAside
  <1>3. ASSUME NEW p \in Proc, ConfirmUpdate(p)
        PROVE  OutdatedAreTheirs'
    <2>. DEFINE u == flow[p].uid
    <2>1. /\ flow[p].at = "confirm_consumed" /\ u \in Uid /\ UNCHANGED <<minted, claims>>
          /\ outdated[p] = {}
      BY <1>3 DEF ConfirmUpdate, Whose, Free, OutdatedAreTheirs
    <2>2. CASE Enter(p, Idle) /\ UNCHANGED outdated
      <3>1. FlowsAside(p)
        BY <2>2, FlowMoves
      <3>. QED
        BY <2>1, <2>2, <3>1, OutdatedAside
    <2>3. CASE Goto(p, "confirm_updated") /\ outdated' = [outdated EXCEPT ![p] = LoginsOf(u)]
      <3>1. flow'[p].at = "confirm_updated" /\ flow'[p].uid = u /\ FlowsAside(p)
        BY <2>3, FlowMoves
      <3>2. /\ \A q \in Proc : q # p => outdated'[q] = outdated[q]
            /\ outdated'[p] = LoginsOf(u)
        BY <1>0, <2>3
      <3>3. \A f \in LoginsOf(u) \ Proc : f \in minted /\ claims[f] = u
        BY <1>0 DEF LoginsOf, Signed, Given, Handled
      <3>4. \A o \in LoginsOf(u) \cap Proc : flow[o].at = "login" /\ flow[o].uid = u
        BY <1>0 DEF LoginsOf, Given, Handled
      <3>5. \A o \in Proc : flow[o].at = "login" => flow'[o] = flow[o]
        BY <2>1, <3>1 DEF FlowsAside
      <3>. HIDE DEF u
      <3>6. ASSUME NEW q \in Proc
            PROVE  /\ outdated'[q] # {} => flow'[q].at \in {"confirm_updated", "confirm_revoke"}
                   /\ \A f \in outdated'[q] \ Proc : f \in minted' /\ claims'[f] = flow'[q].uid
                   /\ \A o \in outdated'[q] \cap Proc :
                          flow'[o].at = "login" /\ flow'[o].uid = flow'[q].uid
        <4>1. CASE q = p
          BY <2>1, <3>1, <3>2, <3>3, <3>4, <3>5, <4>1
        <4>2. CASE q # p
          BY <2>1, <3>1, <3>2, <3>5, <4>2 DEF OutdatedAreTheirs, FlowsAside
        <4>. QED
          BY <4>1, <4>2
      <3>. QED
        BY <3>6 DEF OutdatedAreTheirs
    <2>. QED
      BY <1>3, <2>2, <2>3 DEF ConfirmUpdate
  <1>4. ASSUME NEW p \in Proc, Abandon(p)
        PROVE  OutdatedAreTheirs'
    <2>1. /\ UNCHANGED <<minted, claims>> /\ FlowsAside(p)
          /\ \A q \in Proc : outdated'[q] = IF q = p THEN {} ELSE outdated[q] \ {p}
      BY <1>4, FlowMoves DEF Abandon
    <2>. QED
      BY <2>1, OutdatedAside
  <1>5. ASSUME NEW p \in Proc, NEW j \in Jti, RefreshSign(p, j)
        PROVE  OutdatedAreTheirs'
    <2>1. /\ flow[p].at = "refresh_revoke" /\ UNCHANGED outdated
          /\ minted' = minted \cup {j} /\ j \notin minted /\ FlowsAside(p)
          /\ \A i \in minted : claims'[i] = claims[i]
      BY <1>5, FlowMoves DEF RefreshSign, TS!BeginStore, Given, Handled
    <2>2. outdated[p] = {}
      BY <2>1 DEF OutdatedAreTheirs
    <2>. QED
      BY <2>1, <2>2, OutdatedAside
  <1>6. ASSUME NEW p \in Proc, NEW j \in Jti, LoginSign(p, j)
        PROVE  OutdatedAreTheirs'
    <2>. DEFINE u == flow[p].uid
    <2>1. /\ flow[p].at = "login" /\ minted' = minted \cup {j} /\ j \notin minted
          /\ FlowsAside(p) /\ claims'[j] = u /\ \A i \in minted : claims'[i] = claims[i]
      BY <1>6, FlowMoves DEF LoginSign, TS!BeginStore, Given, Handled
    <2>2. \A q \in Proc : outdated'[q] = IF p \in outdated[q] THEN (outdated[q] \ {p}) \cup {j}
                                         ELSE outdated[q]
      BY <1>6 DEF LoginSign, Rename
    <2>. HIDE DEF u
    <2>3. ASSUME NEW q \in Proc, outdated'[q] # {}
          PROVE  /\ flow'[q] = flow[q] /\ flow[q].at \in {"confirm_updated", "confirm_revoke"}
                 /\ p \in outdated[q] => flow[q].uid = u
      <3>1. outdated[q] # {}
        BY <2>2, <2>3
      <3>2. flow[q].at \in {"confirm_updated", "confirm_revoke"} /\ q # p
        BY <2>1, <3>1 DEF OutdatedAreTheirs
      <3>. QED
        BY <2>1, <3>2 DEF OutdatedAreTheirs, FlowsAside, u
    <2>4. ASSUME NEW q \in Proc, NEW f \in outdated'[q] \ Proc
          PROVE  f \in minted' /\ claims'[f] = flow'[q].uid
      <3>1. CASE f \in outdated[q]
        <4>1. f \in minted /\ claims[f] = flow[q].uid
          BY <2>4, <3>1 DEF OutdatedAreTheirs
        <4>. QED
          BY <2>1, <2>3, <2>4, <4>1
      <3>2. CASE f \notin outdated[q]
        <4>1. f = j /\ p \in outdated[q]
          BY <2>2, <2>4, <3>2
        <4>. QED
          BY <2>1, <2>3, <2>4, <4>1
      <3>. QED
        BY <3>1, <3>2
    <2>5. ASSUME NEW q \in Proc, NEW o \in outdated'[q] \cap Proc
          PROVE  flow'[o].at = "login" /\ flow'[o].uid = flow'[q].uid
      <3>1. o \in outdated[q] /\ o # p
        BY <1>0, <2>2, <2>5
      <3>. QED
        BY <2>1, <2>3, <2>5, <3>1 DEF OutdatedAreTheirs, FlowsAside
    <2>. QED
      BY <2>3, <2>4, <2>5 DEF OutdatedAreTheirs
  <1>7. ASSUME NEW p \in Proc, StoreCommand(p)
        PROVE  OutdatedAreTheirs'
    <2>1. UNCHANGED <<claims, flow, outdated, minted>>
      BY <1>7, CommandEffects DEF StoreCommand, CommandEffect
    <2>. QED
      BY <2>1 DEF OutdatedAreTheirs
  <1>8. CASE Tick \/ Apart \/ UNCHANGED vars
    BY <1>8 DEF Tick, TS!Tick, Apart, vars, OutdatedAreTheirs
  <1>. QED
    BY <1>1, <1>2, <1>3, <1>4, <1>5, <1>6, <1>7, <1>8, Steps

-----------------------------------------------------------------------------
(* What is over stays over.                                                *)

(* The steps that store nothing, spend nothing and end nothing. *)
LEMMA ExtinctAside ==
  ASSUME Given, Extinct, NEW p \in Proc, FlowsAside(p), CallsAside(p),
         call'[p] = call[p] \/ call'[p].at \in {"idle", "err", "getdel", "smembers"},
         flow'[p].at = "refresh_revoke" => call'[p].at \notin {"srem", "some"},
         UNCHANGED <<refresh, minted, acked, family, ended>>
  PROVE  Extinct'
  <1>1. ASSUME NEW j \in minted', family'[j] \in ended', TS!Live(j)'
        PROVE  /\ j \notin acked'
               /\ \A q \in Proc : call'[q].at \in TS!StoreSteps => call'[q].jti # j
    BY <1>1 DEF Extinct, CallsAside
  <1>2. ASSUME NEW q \in Proc
        PROVE  /\ call'[q].at \in {"setex", "sadd"} => family'[call'[q].jti] \notin ended'
               /\ flow'[q].at = "refresh_revoke" /\ call'[q].at \in {"srem", "some"}
                      => family'[call'[q].jti] \notin ended'
    BY DEF Extinct, CallsAside, FlowsAside
  <1>. QED
    BY <1>1, <1>2 DEF Extinct

(* A token is signed that does not descend from an ended login. *)
LEMMA ExtinctSign ==
  ASSUME Given, Extinct, NEW p \in Proc, NEW j \in Jti, NEW u \in Uid, NEW g,
         TS!BeginStore(p, j, u), FlowsAside(p), flow'[p].at # "refresh_revoke",
         family' = [family EXCEPT ![j] = g], g \notin ended, ended' = ended
  PROVE  Extinct'
  <1>1. /\ call'[p].at = "setex" /\ call'[p].jti = j
        /\ j \notin minted /\ minted' = minted \cup {j}
        /\ CallsAside(p) /\ UNCHANGED <<refresh, acked>>
    BY CallMoves
  <1>2. family'[j] = g /\ \A i \in minted : family'[i] = family[i]
    BY <1>1 DEF Given, Handled
  <1>3. \A q \in Proc : call[q].at \in {"setex", "sadd", "srem", "some"} => call[q].jti \in minted
    BY DEF Given, Stored, Args
  <1>4. ASSUME NEW i \in minted', family'[i] \in ended', TS!Live(i)'
        PROVE  /\ i \notin acked'
               /\ \A q \in Proc : call'[q].at \in TS!StoreSteps => call'[q].jti # i
    <2>1. i # j /\ i \in minted /\ family[i] \in ended /\ TS!Live(i)
      BY <1>1, <1>2, <1>4
    <2>. QED
      BY <1>1, <2>1 DEF Extinct, CallsAside
  <1>5. ASSUME NEW q \in Proc
        PROVE  /\ call'[q].at \in {"setex", "sadd"} => family'[call'[q].jti] \notin ended'
               /\ flow'[q].at = "refresh_revoke" /\ call'[q].at \in {"srem", "some"}
                      => family'[call'[q].jti] \notin ended'
    <2>1. CASE q = p
      BY <1>1, <1>2, <2>1
    <2>2. CASE q # p
      BY <1>1, <1>2, <1>3, <2>2 DEF Extinct, CallsAside, FlowsAside
    <2>. QED
      BY <2>1, <2>2
  <1>6. ended' \subseteq minted'
    BY <1>1 DEF Extinct
  <1>. QED
    BY <1>4, <1>5, <1>6 DEF Extinct

(* A command.  The last one of a reset ends logins, and they are extinct:   *)
(* the index of their user is empty, so that a live session of theirs is    *)
(* an orphan or in the hand of a request, and both are excepted.           *)
LEMMA ExtinctCommand ==
  ASSUME IInv, IInv', Signed, OutdatedAreTheirs, Extinct, NEW p \in Proc, StoreCommand(p)
  PROVE  Extinct'
  <1>0. /\ Given /\ CommandEffect(p) /\ UNCHANGED <<claims, flow, family>>
        /\ \A j \in Jti : TS!Live(j) => j \in minted
        /\ \A q \in Proc : call[q].at \in TS!StoreSteps => call[q].jti \in minted
        /\ \A q \in Proc : call[q].at \in TS!RevokeSteps \cup {"some"} => call[q].jti \in acked
        /\ acked \subseteq minted /\ minted \subseteq Jti
    BY GivenHolds, CommandEffects DEF StoreCommand, Given, Stored, Args
  <1>. DEFINE New == IF flow[p].at = "confirm_revoke" /\ call'[p].at = "revokedall"
                     THEN (outdated[p] \ Proc) \ (InHand \cup OrphansNext) ELSE {}
  <1>1. ended' = ended \cup New
    BY DEF StoreCommand
  <1>2. New \subseteq minted /\ \A f \in New : claims[f] = flow[p].uid
    BY DEF OutdatedAreTheirs
  <1>3. New # {} => /\ flow[p].at = "confirm_revoke" /\ call'[p].at = "revokedall"
                    /\ call[p].at \in TS!RevokeAllSteps
                    /\ call[p].uid = flow[p].uid /\ sessions'[flow[p].uid] = {}
    BY <1>0 DEF CommandEffect, StepAndNext, Signed
  <1>4. ASSUME NEW q \in Proc,
               \/ call[q].at \in {"setex", "sadd"}
               \/ flow[q].at = "refresh_revoke" /\ call[q].at \in {"srem", "some"}
        PROVE  family[call[q].jti] \notin ended \cup New
    BY <1>4 DEF InHand, Extinct
  <1>5. ASSUME NEW j \in minted, j \in orphaned', refresh'[j] # None
        PROVE  family[j] \notin New
    <2>1. family'[j] \in OrphansNext
      BY <1>0, <1>5 DEF OrphansNext
    <2>. QED
      BY <1>0, <2>1
  <1>. HIDE DEF New
  <1>. USE DEF CommandEffect, StepAndNext
  <1>6. ASSUME NEW j \in minted, family[j] \in ended, TS!Live(j)'
        PROVE  /\ j \notin acked'
               /\ \A q \in Proc : call'[q].at \in TS!StoreSteps => call'[q].jti # j
    <2>1. TS!Live(j)
      BY <1>0, <1>4, <1>6
    <2>2. j \notin acked /\ \A q \in Proc : call[q].at \in TS!StoreSteps => call[q].jti # j
      BY <1>6, <2>1 DEF Extinct
    <2>3. j \notin acked'
      BY <1>0, <2>2
    <2>4. ASSUME NEW q \in Proc, call'[q].at \in TS!StoreSteps
          PROVE  call[q].at \in TS!StoreSteps /\ call'[q].jti = call[q].jti
      BY <1>0, <2>4 DEF CallsAside
    <2>. QED
      BY <2>2, <2>3, <2>4
  <1>7. ASSUME NEW j \in minted, family[j] \in New, TS!Live(j)'
        PROVE  /\ j \notin acked'
               /\ \A q \in Proc : call'[q].at \in TS!StoreSteps => call'[q].jti # j
    <2>. DEFINE u == flow[p].uid
    <2>1. refresh'[j] = u
      <3>1. refresh'[j] = refresh[j] /\ TS!Live(j)
        BY <1>0, <1>3, <1>7
      <3>. QED
        BY <1>0, <1>2, <1>7, <3>1 DEF Signed
    <2>2. sessions'[u] = {} /\ j \notin orphaned'
      BY <1>3, <1>5, <1>7
    <2>3. /\ \A i \in acked' \ orphaned' : refresh'[i] # None => i \in sessions'[refresh'[i]]
          /\ \A q \in Proc : call'[q].at = "expire" =>
                /\ refresh'[call'[q].jti] \in {call'[q].uid, None}
                /\ refresh'[call'[q].jti] # None /\ call'[q].jti \notin orphaned'
                       => call'[q].jti \in sessions'[call'[q].uid]
      BY DEF IInv, TSP!IInv, TSP!IndexCoversSessions, TSP!StoresOwn, TSP!StoresIndexed, TSP!Live
    <2>4. j \notin acked'
      BY <1>7, <2>1, <2>2, <2>3
    <2>5. ASSUME NEW q \in Proc, call'[q].at \in TS!StoreSteps, call'[q].jti = j
          PROVE  FALSE
      <3>1. q # p /\ call'[q] = call[q]
        BY <1>0, <1>3, <1>7, <2>5 DEF CallsAside
      <3>2. call'[q].at = "expire"
        BY <1>4, <1>7, <2>5, <3>1
      <3>3. call'[q].uid = u
        BY <1>7, <2>1, <2>3, <2>5, <3>2
      <3>. QED
        BY <1>7, <2>2, <2>3, <2>5, <3>2, <3>3
    <2>. QED
      BY <2>4, <2>5
  <1>8. ASSUME NEW q \in Proc,
               \/ call'[q].at \in {"setex", "sadd"}
               \/ flow'[q].at = "refresh_revoke" /\ call'[q].at \in {"srem", "some"}
        PROVE  family'[call'[q].jti] \notin ended'
    <2>1. CASE q # p
      BY <1>0, <1>1, <1>4, <1>8, <2>1 DEF CallsAside
    <2>2. CASE q = p
      <3>1. New = {} /\ call'[p].jti = call[p].jti
        BY <1>0, <1>3, <1>8, <2>2
      <3>2. \/ call[p].at \in {"setex", "sadd"}
            \/ flow[p].at = "refresh_revoke" /\ call[p].at \in {"getdel", "srem"}
        BY <1>0, <1>8, <2>2
      <3>3. CASE call[p].at = "getdel"
        <4>1. TS!Live(call[p].jti) /\ call[p].jti \in acked
          BY <1>0, <1>8, <2>2, <3>3
        <4>. QED
          BY <1>0, <1>1, <2>2, <3>1, <4>1 DEF Extinct
      <3>. QED
        BY <1>0, <1>1, <1>4, <2>2, <3>1, <3>2, <3>3
    <2>. QED
      BY <2>1, <2>2
  <1>9. ended' \subseteq minted'
    BY <1>0, <1>1, <1>2 DEF Extinct
  <1>. QED
    BY <1>0, <1>1, <1>6, <1>7, <1>8, <1>9 DEF Extinct

(* Every step keeps that what is over stays over. *)
LEMMA ExtinctStep ==
  ASSUME IInv, IInv', Signed, OutdatedAreTheirs, Extinct, [Next]_vars
  PROVE  Extinct'
  <1>. USE DEF tokenVars, redisVars, ghostVars
  <1>0. Given /\ Whose
    BY GivenHolds DEF IInv
  <1>1. ASSUME NEW p \in Proc, OnTables(p)
        PROVE  Extinct'
    <2>1. CallsAside(p) /\ call'[p] = call[p] /\ UNCHANGED <<refresh, minted, acked, family, ended>>
      BY <1>0, <1>1, TablesOnly DEF CallsAside
    <2>. QED
      BY <1>0, <1>1, <2>1, TablesOnly, ExtinctAside
  <1>2. ASSUME NEW p \in Proc, OnCalls(p)
        PROVE  Extinct'
    <2>1. /\ FlowsAside(p) /\ CallsAside(p)
          /\ call'[p].at \in {"idle", "err", "getdel", "smembers"}
          /\ UNCHANGED <<refresh, minted, acked, family, ended>>
      BY <1>0, <1>2, CallsOnly
    <2>. QED
      BY <1>0, <2>1, ExtinctAside
  <1>3. ASSUME NEW p \in Proc, ConfirmUpdate(p) \/ Abandon(p)
        PROVE  Extinct'
    <2>1. UNCHANGED <<refresh, minted, acked, call, family, ended>>
      BY <1>3 DEF ConfirmUpdate, Abandon
    <2>2. FlowsAside(p) /\ flow'[p].at \in {"idle", "confirm_updated"}
      BY <1>0, <1>3, FlowMoves DEF ConfirmUpdate, Abandon, Idle
    <2>. QED
      BY <1>0, <2>1, <2>2, ExtinctAside DEF CallsAside
  <1>4. ASSUME NEW p \in Proc, NEW j \in Jti, LoginSign(p, j) \/ RefreshSign(p, j)
        PROVE  Extinct'
    <2>1. PICK g \in minted \cup {j} :
            /\ g = j \/ (flow[p].at = "refresh_revoke" /\ call[p].at = "some"
                         /\ g = family[call[p].jti])
            /\ flow[p].uid \in Uid /\ TS!BeginStore(p, j, flow[p].uid)
            /\ family' = [family EXCEPT ![j] = g]
            /\ FlowsAside(p) /\ flow'[p].at \in {"login_store", "refresh_store"}
            /\ ended' = ended
      BY <1>0, <1>4, Signs
    <2>2. g \notin ended
      <3>1. j \notin minted
        BY <2>1 DEF TS!BeginStore
      <3>. QED
        BY <2>1, <3>1 DEF Extinct
    <2>. QED
      BY <1>0, <2>1, <2>2, ExtinctSign
  <1>5. ASSUME NEW p \in Proc, StoreCommand(p)
        PROVE  Extinct'
    BY <1>5, ExtinctCommand
  <1>6. CASE Tick
    <2>1. /\ \A j \in Jti : TS!Live(j)' => TS!Live(j)
          /\ UNCHANGED <<minted, call, acked, family, flow, ended>>
      BY <1>6 DEF Tick, TS!Tick
    <2>2. minted \subseteq Jti
      BY <1>0 DEF Given
    <2>. QED
      BY <2>1, <2>2 DEF Extinct
  <1>7. CASE Apart \/ UNCHANGED vars
    BY <1>7 DEF Apart, Extinct, vars
  <1>. QED
    BY <1>1, <1>2, <1>3, <1>4, <1>5, <1>6, <1>7, Steps

-----------------------------------------------------------------------------
(* Theorems of the specification.                                          *)

(* No token is signed and no reset is under way. *)
LEMMA InitResetInv ==
  Init => ResetInv
  BY DEF Init, TS!Init, TS!Idle, Idle, ResetInv, Signed, OutdatedAreTheirs, Extinct

(* Every step keeps all three. *)
LEMMA NextResetInv ==
  IInv /\ IInv' /\ ResetInv /\ [Next]_vars => ResetInv'
  BY GivenHolds, SignedStep, OutdatedStep, ExtinctStep DEF ResetInv, IInv

(* In every reachable state a token is of the user it was signed for, the  *)
(* logins a reset has to end are of its user and where its revoke-all finds*)
(* them, and an ended login has no live token that anybody could present.  *)
THEOREM ResetInvariance == Spec => []ResetInv
  BY InitResetInv, NextResetInv, Invariance, PTL DEF Spec

(* What "confirm" is for: when a password reset has succeeded, the logins   *)
(* by an older password are over for good, but for those that "revoke all"  *)
(* could not see as it returned.  No late refresh, no late login and no     *)
(* earlier reset that failed half-way brings a session of one back.         *)
THEOREM ResetsHold == Spec => []ResetEndsOldLogins
  <1>1. IInv /\ ResetInv => ResetEndsOldLogins
    <2>1. IInv => acked \subseteq minted /\ minted \subseteq Jti
      BY StoreKept DEF IInv, Stored, Args, TS!TypeOK
    <2>. QED
      BY <2>1 DEF ResetInv, Extinct, ResetEndsOldLogins
  <1>. QED
    BY <1>1, Invariance, ResetInvariance, PTL
=============================================================================

----------------------- MODULE SessionLifetimeProofs -----------------------
(* Proofs about SessionLifetime, for every set of users, pairs and requests, *)
(* every lifetime and every leeway.                                        *)
EXTENDS SessionLifetime, TLAPS

USE TtlAssumption, NoneIsNoValue

(* A request has what its next step needs. *)
FlowOK ==
    \A p \in Proc :
        /\ flow[p].at = "consume" => flow[p].pair \in held /\ flow[p].uid \in Uid
        /\ flow[p].at = "sign" => flow[p].uid \in Uid
        /\ flow[p].at = "store" =>
              /\ flow[p].uid \in Uid
              /\ flow[p].pair \in Pair
              /\ refresh[flow[p].pair] # None
              /\ refresh[flow[p].pair].sub = flow[p].uid

(* The tokens of a pair are signed together, before anybody holds them or   *)
(* Redis has their key.                                                    *)
Signed ==
    \A k \in Pair :
        /\ k \in held \/ key[k] # 0 => refresh[k] # None
        /\ access[k] = None <=> refresh[k] = None

(* An access token was signed while its user had a session. *)
SignedInSession ==
    \A k \in Pair : access[k] # None =>
        /\ access[k].exp = access[k].iat + ACCESS_TTL
        /\ access[k].iat <= lastSeen[access[k].sub]

(* The key of a refresh token is to expire no earlier than the token. *)
KeyOutlivesToken ==
    \A k \in Pair : refresh[k] # None =>
        /\ refresh[k].exp <= now + REFRESH_TTL
        /\ key[k] # 0 => refresh[k].exp <= key[k]

(* lastSeen is what it says. *)
Seen ==
    \A u \in Uid :
        /\ lastSeen[u] <= now
        /\ HasSession(u) => lastSeen[u] = now

IInv == TypeOK /\ FlowOK /\ Signed /\ SignedInSession /\ KeyOutlivesToken /\ Seen

-----------------------------------------------------------------------------

(* Nothing signed, nobody at work. *)
LEMMA InitIInv == Init => IInv
  BY DEF Init, IInv, TypeOK, FlowOK, Signed, SignedInSession, KeyOutlivesToken, Seen,
         HasSession, Live, Idle, Flow

(* What a step does to lastSeen, whichever it is: it only grows, and is now *)
(* for whoever has a session.                                              *)
Observe == lastSeen' = [u \in Uid |-> IF HasSession(u)' THEN now' ELSE lastSeen[u]]

(* Whoever has a session was last seen now; the others when they had one. *)
LEMMA ObserveKeeps ==
  ASSUME TypeOK, Seen, Observe, now' \in Nat, now <= now'
  PROVE  /\ lastSeen' \in [Uid -> Nat]
         /\ \A u \in Uid : lastSeen[u] <= lastSeen'[u]
         /\ Seen'
  <1>1. \A u \in Uid : lastSeen'[u] = IF HasSession(u)' THEN now' ELSE lastSeen[u]
    BY DEF Observe
  <1>2. lastSeen' \in [Uid -> Nat]
    BY DEF Observe, TypeOK
  <1>3. \A u \in Uid : lastSeen[u] <= lastSeen'[u]
    BY <1>1 DEF Seen, TypeOK
  <1>4. Seen'
    BY <1>1 DEF Seen, TypeOK
  <1>. QED
    BY <1>2, <1>3, <1>4

(* A step that signs nothing and sets no key keeps all about tokens. *)
LEMMA UnsignedKeeps ==
  ASSUME IInv, Observe, now' \in Nat, now <= now', TypeOK', FlowOK',
         UNCHANGED <<access, refresh>>, held' = held,
         \A k \in Pair : key'[k] \in {0, key[k]}
  PROVE  IInv'
  <1>1. Seen' /\ \A u \in Uid : lastSeen[u] <= lastSeen'[u]
    BY ObserveKeeps DEF IInv
  <1>2. Signed'
    BY DEF IInv, Signed
  <1>3. SignedInSession'
    BY <1>1 DEF IInv, SignedInSession, TypeOK, Claims
  <1>4. KeyOutlivesToken'
    BY DEF IInv, KeyOutlivesToken, TypeOK, Claims
  <1>. QED
    BY <1>1, <1>2, <1>3, <1>4 DEF IInv

-----------------------------------------------------------------------------
(* Every action keeps the invariant. *)

(* A login that has found its account has signed nothing yet. *)
LEMMA LoginKeeps ==
  ASSUME IInv, Observe, NEW p \in Proc, NEW u \in Uid, Login(p, u)
  PROVE  IInv'
  <1>1. TypeOK' /\ now' = now
    BY ObserveKeeps DEF IInv, Login, TypeOK, Flow
  <1>2. FlowOK'
    BY DEF IInv, Login, FlowOK, TypeOK, Flow
  <1>. QED
    BY <1>1, <1>2, UnsignedKeeps DEF Login, IInv, TypeOK

(* A refresh token that is accepted says for whom it was signed. *)
LEMMA RefreshVerifyKeeps ==
  ASSUME IInv, Observe, NEW p \in Proc, NEW k \in Pair, RefreshVerify(p, k)
  PROVE  IInv'
  <1>1. refresh[k].sub \in Uid
    BY DEF IInv, RefreshVerify, Signed, TypeOK, Claims
  <1>2. TypeOK' /\ now' = now
    BY <1>1, ObserveKeeps DEF IInv, RefreshVerify, TypeOK, Flow
  <1>3. FlowOK'
    BY <1>1 DEF IInv, RefreshVerify, FlowOK, TypeOK, Flow
  <1>. QED
    BY <1>2, <1>3, UnsignedKeeps DEF RefreshVerify, IInv, TypeOK

(* Its key is gone, but the request still counts as a session. *)
LEMMA RefreshConsumeKeeps ==
  ASSUME IInv, Observe, NEW p \in Proc, RefreshConsume(p)
  PROVE  IInv'
  <1>1. flow[p].pair \in Pair /\ flow[p].uid \in Uid /\ flow[p] \in Flow
    BY DEF IInv, RefreshConsume, FlowOK, TypeOK
  <1>2. flow'[p] = Idle \/ flow'[p] = [at |-> "sign", uid |-> flow[p].uid, pair |-> None]
    BY <1>1 DEF IInv, RefreshConsume, TypeOK, Flow
  <1>3. flow' \in [Proc -> Flow] /\ \A q \in Proc \ {p} : flow'[q] = flow[q]
    BY <1>1 DEF IInv, RefreshConsume, TypeOK, Flow, Idle
  <1>4. key' \in [Pair -> Nat] /\ \A k \in Pair : key'[k] \in {0, key[k]}
    BY DEF IInv, RefreshConsume, TypeOK
  <1>5. TypeOK' /\ now' = now
    BY <1>3, <1>4, ObserveKeeps DEF IInv, RefreshConsume, TypeOK
  <1>6. FlowOK'
    BY <1>1, <1>2, <1>3 DEF IInv, RefreshConsume, FlowOK, Idle
  <1>. QED
    BY <1>4, <1>5, <1>6, UnsignedKeeps DEF RefreshConsume, IInv, TypeOK

(* The one step that needs the ghost: the request that signs is a session.  *)
LEMMA SignKeeps ==
  ASSUME IInv, Observe, NEW p \in Proc, NEW k \in Pair, Sign(p, k)
  PROVE  IInv'
  <1>. DEFINE u == flow[p].uid
  <1>1. u \in Uid /\ refresh[k] = None /\ key[k] = 0 /\ k \notin held /\ now' = now
    BY DEF IInv, Sign, FlowOK, Signed
  <1>2. /\ access'[k] = [sub |-> u, iat |-> now, exp |-> now + ACCESS_TTL, kind |-> "access"]
        /\ refresh'[k] = [sub |-> u, iat |-> now, exp |-> now + REFRESH_TTL, kind |-> "refresh"]
        /\ \A j \in Pair \ {k} : access'[j] = access[j] /\ refresh'[j] = refresh[j]
    BY DEF IInv, Sign, TypeOK, SignAccessToken, SignRefreshToken, SignWithClaims
  <1>3. access'[k] \in Claims("access") /\ refresh'[k] \in Claims("refresh")
    BY <1>1, <1>2 DEF IInv, TypeOK, Claims
  <1>4. /\ flow'[p] = [at |-> "store", uid |-> u, pair |-> k]
        /\ \A q \in Proc \ {p} : flow'[q] = flow[q]
    BY <1>1 DEF IInv, Sign, TypeOK, Flow
  <1>5. TypeOK'
    <2>1. access' \in [Pair -> Claims("access") \cup {None}]
          /\ refresh' \in [Pair -> Claims("refresh") \cup {None}]
      BY <1>2, <1>3 DEF IInv, Sign, TypeOK
    <2>2. flow' \in [Proc -> Flow]
      BY <1>1, <1>4 DEF IInv, Sign, TypeOK, Flow
    <2>. QED
      BY <1>1, <2>1, <2>2, ObserveKeeps DEF IInv, Sign, TypeOK
  <1>6. Seen' /\ \A v \in Uid : lastSeen[v] <= lastSeen'[v]
    BY <1>1, ObserveKeeps DEF IInv, TypeOK
  <1>7. lastSeen'[u] = now
    BY <1>1, <1>4 DEF Observe, HasSession
  <1>8. FlowOK'
    <2>1. \A q \in Proc : flow[q].at = "store" => flow[q].pair # k
      BY <1>1 DEF IInv, FlowOK
    <2>2. held' = held /\ refresh'[k] # None /\ refresh'[k].sub = u
      BY <1>2, <1>3 DEF Sign
    <2>3. \A q \in Proc \ {p} : flow[q].at = "store" => refresh'[flow[q].pair] = refresh[flow[q].pair]
      BY <1>2, <2>1 DEF IInv, FlowOK
    <2>. QED
      BY <1>1, <1>4, <2>2, <2>3 DEF IInv, FlowOK
  <1>9. Signed'
    BY <1>1, <1>2, <1>3 DEF IInv, Signed, Sign
  <1>10. SignedInSession'
    <2>1. ASSUME NEW j \in Pair \ {k}, access'[j] # None
          PROVE  access'[j].exp = access'[j].iat + ACCESS_TTL
                 /\ access'[j].iat <= lastSeen'[access'[j].sub]
      BY <1>2, <1>5, <1>6, <2>1 DEF IInv, SignedInSession, TypeOK, Claims
    <2>2. access'[k].exp = access'[k].iat + ACCESS_TTL
          /\ access'[k].iat <= lastSeen'[access'[k].sub]
      BY <1>2, <1>7 DEF IInv, TypeOK
    <2>. QED
      BY <2>1, <2>2 DEF SignedInSession
  <1>11. KeyOutlivesToken'
    <2>1. key' = key /\ refresh'[k].exp <= now' + REFRESH_TTL
      BY <1>1, <1>2 DEF IInv, TypeOK, Sign
    <2>. QED
      BY <1>1, <1>2, <2>1 DEF IInv, KeyOutlivesToken
  <1>. QED
    BY <1>5, <1>6, <1>8, <1>9, <1>10, <1>11 DEF IInv

(* A key set for the pair of a request that stores. *)
LEMMA SetKeyKeeps ==
  ASSUME IInv, Observe, NEW p \in Proc, flow[p].at = "store",
         key' = [key EXCEPT ![flow[p].pair] = now + STORE_TTL],
         held' \in {held, held \cup {flow[p].pair}},
         flow' = [flow EXCEPT ![p] = Idle],
         UNCHANGED <<now, access, refresh>>
  PROVE  IInv'
  <1>. DEFINE k == flow[p].pair
  <1>1. k \in Pair /\ refresh[k] # None /\ refresh[k].exp <= now + REFRESH_TTL
    BY DEF IInv, FlowOK, KeyOutlivesToken
  <1>2. key'[k] = now + REFRESH_TTL /\ \A j \in Pair \ {k} : key'[j] = key[j]
    BY <1>1 DEF IInv, TypeOK, STORE_TTL
  <1>3. TypeOK'
    BY <1>1, ObserveKeeps DEF IInv, TypeOK, STORE_TTL, Flow, Idle
  <1>4. Seen' /\ \A v \in Uid : lastSeen[v] <= lastSeen'[v]
    BY ObserveKeeps DEF IInv, TypeOK
  <1>5. FlowOK'
    BY DEF IInv, FlowOK, TypeOK, Idle
  <1>6. Signed'
    BY <1>1, <1>2 DEF IInv, Signed
  <1>7. SignedInSession'
    BY <1>4, <1>3 DEF IInv, SignedInSession, TypeOK, Claims
  <1>8. KeyOutlivesToken'
    BY <1>1, <1>2 DEF IInv, KeyOutlivesToken
  <1>. QED
    BY <1>3, <1>4, <1>5, <1>6, <1>7, <1>8 DEF IInv

(* The key is set and the pair answered. *)
LEMMA StoreKeeps ==
  ASSUME IInv, Observe, NEW p \in Proc, Store(p)
  PROVE  IInv'
  BY SetKeyKeeps DEF Store

(* A request breaks off, with its key set or not. *)
LEMMA AbandonKeeps ==
  ASSUME IInv, Observe, NEW p \in Proc, Abandon(p)
  PROVE  IInv'
  <1>1. CASE key' = key
    <2>1. TypeOK' /\ now' = now
      BY <1>1, ObserveKeeps DEF IInv, Abandon, TypeOK, Flow, Idle
    <2>2. FlowOK'
      BY DEF IInv, Abandon, FlowOK, TypeOK, Idle
    <2>. QED
      BY <1>1, <2>1, <2>2, UnsignedKeeps DEF Abandon, IInv, TypeOK
  <1>2. CASE flow[p].at = "store" /\ key' = [key EXCEPT ![flow[p].pair] = now + STORE_TTL]
    BY <1>2, SetKeyKeeps DEF Abandon
  <1>. QED
    BY <1>1, <1>2 DEF Abandon

(* Keys are deleted. *)
LEMMA DeleteKeeps ==
  ASSUME IInv, Observe, key' \in [Pair -> Nat], \A k \in Pair : key'[k] \in {0, key[k]},
         UNCHANGED <<now, access, refresh, held, flow>>
  PROVE  IInv'
  <1>1. TypeOK'
    BY ObserveKeeps DEF IInv, TypeOK
  <1>2. FlowOK'
    BY DEF IInv, FlowOK
  <1>. QED
    BY <1>1, <1>2, UnsignedKeeps DEF IInv, TypeOK

(* One key is deleted. *)
LEMMA LogoutKeeps ==
  ASSUME IInv, Observe, NEW k \in Pair, Logout(k)
  PROVE  IInv'
  BY DeleteKeeps DEF Logout, IInv, TypeOK

(* All keys of a user are deleted, or some. *)
LEMMA RevokeAllKeeps ==
  ASSUME IInv, Observe, NEW u \in Uid, NEW gone \in SUBSET Pair, RevokeAll(u, gone)
  PROVE  IInv'
  BY DeleteKeeps DEF RevokeAll, IInv, TypeOK

(* Keys expire by the clock alone: whoever has a session keeps it or loses it now. *)
LEMMA TickKeeps ==
  ASSUME IInv, Observe, Tick
  PROVE  IInv'
  <1>1. now' \in Nat /\ now <= now'
    BY DEF Tick, IInv, TypeOK
  <1>2. TypeOK'
    BY <1>1, ObserveKeeps DEF IInv, Tick, TypeOK
  <1>3. FlowOK'
    BY DEF IInv, Tick, FlowOK
  <1>. QED
    BY <1>1, <1>2, <1>3, UnsignedKeeps DEF Tick

(* Steps that leave everything as it is. *)
LEMMA StutterKeeps ==
  ASSUME IInv, UNCHANGED vars
  PROVE  IInv'
  BY DEF vars, IInv, TypeOK, FlowOK, Signed, SignedInSession, KeyOutlivesToken, Seen,
         HasSession, Live

(* Every step keeps the invariant. *)
LEMMA NextIInv == IInv /\ [Next]_vars => IInv'
  <1>. SUFFICES ASSUME IInv, [Next]_vars PROVE IInv'
    OBVIOUS
  <1>1. CASE Next
    <2>0. Observe
      BY <1>1 DEF Next, Observe
    <2>1. ASSUME NEW p \in Proc, Step(p) PROVE IInv'
      BY <2>0, <2>1, LoginKeeps, RefreshVerifyKeeps, RefreshConsumeKeeps, SignKeeps,
         StoreKeeps, AbandonKeeps DEF Step
    <2>2. ASSUME NEW k \in Pair, Logout(k) PROVE IInv'
      BY <2>0, <2>2, LogoutKeeps
    <2>3. ASSUME NEW u \in Uid, NEW gone \in SUBSET Pair, RevokeAll(u, gone) PROVE IInv'
      BY <2>0, <2>3, RevokeAllKeeps
    <2>4. CASE Tick
      BY <2>0, <2>4, TickKeeps
    <2>. QED
      BY <1>1, <2>1, <2>2, <2>3, <2>4 DEF Next
  <1>2. CASE UNCHANGED vars
    BY <1>2, StutterKeeps
  <1>. QED
    BY <1>1, <1>2

(* The inductive invariant holds in every reachable state. *)
THEOREM Invariance == Spec => []IInv
  BY InitIInv, NextIInv, PTL DEF Spec

-----------------------------------------------------------------------------

(* Type correctness; access and refresh tokens carry their kinds. *)
THEOREM TypeCorrect == Spec => []TypeOK
  BY Invariance, PTL DEF IInv

(* What authenticates somebody is an access token that was signed while     *)
(* they had a session, so it is good for its own lifetime and the leeway    *)
(* after they had none, and no longer.                                     *)
THEOREM AccessBounded == Spec => []AccessEndsWithSessions
  <1>1. IInv => AccessEndsWithSessions
    <2>. SUFFICES ASSUME IInv, NEW u \in Uid, Authenticated(u)
                  PROVE  now <= lastSeen[u] + ACCESS_TTL + Leeway
      BY DEF AccessEndsWithSessions
    <2>1. PICK k \in held : \E token \in {access[k], refresh[k]} :
                               token.sub = u /\ VerifyAccess(token, now)
      BY DEF Authenticated
    <2>2. k \in Pair /\ access[k] \in Claims("access") /\ refresh[k] \in Claims("refresh")
      BY <2>1 DEF IInv, TypeOK, Signed
    <2>3. access[k].sub = u /\ now <= access[k].exp + Leeway
      BY <2>1, <2>2 DEF VerifyAccess, DecodeAndCheck, Claims
    <2>4. access[k] # None
      BY <2>2
    <2>. QED
      BY <2>2, <2>3, <2>4 DEF IInv, SignedInSession, TypeOK, Claims
  <1>. QED
    BY <1>1, Invariance, PTL

(* A session that nobody ends is good for refresh up to the exp of its token. *)
THEOREM LastingSession == Spec => []SessionLastsUntilExp
  <1>1. IInv => SessionLastsUntilExp
    <2>. SUFFICES ASSUME IInv, NEW k \in held, key[k] # 0, now < refresh[k].exp
                  PROVE  Live(k) /\ VerifyRefresh(refresh[k], now)
      BY DEF SessionLastsUntilExp
    <2>1. k \in Pair /\ refresh[k] # None /\ refresh[k] \in Claims("refresh")
      BY DEF IInv, TypeOK, Signed
    <2>2. Live(k)
      BY <2>1 DEF IInv, KeyOutlivesToken, TypeOK, Claims, Live
    <2>3. VerifyRefresh(refresh[k], now)
      BY <2>1 DEF IInv, TypeOK, Claims, VerifyRefresh, DecodeAndCheck
    <2>. QED
      BY <2>2, <2>3
  <1>. QED
    BY <1>1, Invariance, PTL
=============================================================================

-------------------------- MODULE TokenStoreProofs --------------------------
(* Proofs about TokenStore, for every set of tokens, users and requests. *)
EXTENDS TokenStoreInv, TLAPS

-----------------------------------------------------------------------------
(* How an action changes the calls: the one of p, and no other.            *)

Moves(p, step, jti, uid, jtis, todo) ==
    /\ call' \in [Proc -> Call]
    /\ call'[p].at = step
    /\ call'[p].jti = jti
    /\ call'[p].uid = uid
    /\ call'[p].jtis = jtis
    /\ call'[p].todo = todo
    /\ \A q \in Proc : q # p => call'[q] = call[q]

(* p goes to another step and keeps its locals. *)
LEMMA GotoMoves ==
  ASSUME TypeOK, NEW p \in Proc, NEW step \in Running \cup Ready, Goto(p, step)
  PROVE  Moves(p, step, call[p].jti, call[p].uid, call[p].jtis, call[p].todo)
  <1>1. call' = [call EXCEPT ![p] = [call[p] EXCEPT !.at = step]]
    BY DEF Goto
  <1>2. call[p] \in Call /\ call \in [Proc -> Call]
    BY DEF TypeOK
  <1>3. [call[p] EXCEPT !.at = step] \in Call
    BY <1>2 DEF Call
  <1>. QED
    BY <1>1, <1>2, <1>3 DEF Call, Moves

(* p starts another call, or none. *)
LEMMA BeginMoves ==
  ASSUME TypeOK, NEW p \in Proc, NEW step \in Running \cup Ready,
         NEW jti \in Jti \cup {None}, NEW uid \in Uid \cup {None},
         Start(p, step, jti, uid)
  PROVE  Moves(p, step, jti, uid, {}, {})
  <1>1. [at |-> step, jti |-> jti, uid |-> uid, jtis |-> {}, todo |-> {}] \in Call
    BY DEF Call
  <1>. QED
    BY <1>1 DEF Start, TypeOK, Call, Moves

(* GETDEL moves p by what it found. *)
LEMMA GetDelMoves ==
  ASSUME TypeOK, NEW p \in Proc, call[p].jti \in Jti, GetDel(p)
  PROVE  Moves(p, IF Live(call[p].jti) THEN "srem" ELSE "none",
               call[p].jti, refresh[call[p].jti], call[p].jtis, call[p].todo)
  <1>. DEFINE step == IF Live(call[p].jti) THEN "srem" ELSE "none"
              uid == refresh[call[p].jti]
              moved == [[call[p] EXCEPT !.at = step] EXCEPT !.uid = uid]
  <1>1. call[p] \in Call /\ call \in [Proc -> Call] /\ uid \in Uid \cup {None}
    BY DEF TypeOK
  <1>2. call' = [call EXCEPT ![p] = moved]
    BY DEF GetDel
  <1>3. step \in Running \cup Ready
    BY DEF Running, Ready, Returned, RevokeSteps
  <1>. HIDE DEF step, uid
  <1>4. moved \in Call
    BY <1>1, <1>3 DEF Call
  <1>5. Moves(p, step, call[p].jti, uid, call[p].jtis, call[p].todo)
    BY <1>1, <1>2, <1>3, <1>4 DEF Call, Moves
  <1>. QED
    BY <1>5 DEF step, uid

(* SMEMBERS moves p by what it found. *)
LEMMA SMembersMoves ==
  ASSUME TypeOK, NEW p \in Proc, call[p].uid \in Uid, SMembers(p)
  PROVE  Moves(p, IF sessions[call[p].uid] = {} THEN "revokedall" ELSE "del",
               call[p].jti, call[p].uid, sessions[call[p].uid], sessions[call[p].uid])
  <1>. DEFINE found == sessions[call[p].uid]
              step == IF found = {} THEN "revokedall" ELSE "del"
              moved == [[[call[p] EXCEPT !.at = step] EXCEPT !.jtis = found] EXCEPT !.todo = found]
  <1>1. call[p] \in Call /\ call \in [Proc -> Call] /\ found \in SUBSET Jti
    BY DEF TypeOK
  <1>2. call' = [call EXCEPT ![p] = moved]
    BY DEF SMembers
  <1>3. step \in Running \cup Ready
    BY DEF Running, Ready, Returned, RevokeAllSteps
  <1>. HIDE DEF step, found
  <1>4. moved \in Call
    BY <1>1, <1>3 DEF Call
  <1>5. Moves(p, step, call[p].jti, call[p].uid, found, found)
    BY <1>1, <1>2, <1>3, <1>4 DEF Call, Moves
  <1>. QED
    BY <1>5 DEF step, found

(* One DEL of a refresh key. *)
Deletes(p, j) ==
    /\ j \in call[p].todo
    /\ refresh' = [refresh EXCEPT ![j] = None]
    /\ refreshTtl' = [refreshTtl EXCEPT ![j] = 0]
    /\ Moves(p, IF call[p].todo = {j} THEN "delindex" ELSE "del",
             call[p].jti, call[p].uid, call[p].jtis, call[p].todo \ {j})

(* DEL takes one JTI off the list of p. *)
LEMMA DelRefreshMoves ==
  ASSUME TypeOK, NEW p \in Proc, DelRefresh(p)
  PROVE  \E j \in Jti : Deletes(p, j)
  <1>1. call[p] \in Call /\ call \in [Proc -> Call] /\ call[p].todo \in SUBSET Jti
    BY DEF TypeOK, Call
  <1>2. PICK j \in call[p].todo :
          /\ refresh' = [refresh EXCEPT ![j] = None]
          /\ refreshTtl' = [refreshTtl EXCEPT ![j] = 0]
          /\ call' = [call EXCEPT ![p].todo = @ \ {j},
                                  ![p].at = IF call[p].todo = {j} THEN "delindex" ELSE "del"]
    BY DEF DelRefresh
  <1>. DEFINE step == IF call[p].todo = {j} THEN "delindex" ELSE "del"
              left == call[p].todo \ {j}
              moved == [[call[p] EXCEPT !.todo = left] EXCEPT !.at = step]
  <1>3. step \in Running \cup Ready /\ left \in SUBSET Jti
    BY <1>1 DEF Running, RevokeAllSteps
  <1>4. call' = [call EXCEPT ![p] = moved]
    BY <1>2
  <1>. HIDE DEF step, left
  <1>5. moved \in Call
    BY <1>1, <1>3 DEF Call
  <1>6. Moves(p, step, call[p].jti, call[p].uid, call[p].jtis, left)
    BY <1>1, <1>3, <1>4, <1>5 DEF Call, Moves
  <1>7. Deletes(p, j)
    BY <1>2, <1>6 DEF Deletes, step, left
  <1>. QED
    BY <1>1, <1>2, <1>7

-----------------------------------------------------------------------------
(* Every action keeps the invariant: one lemma for each, with one step for *)
(* each conjunct.                                                          *)

(* What is said of the constants, and the sets of steps, are used so often  *)
(* below that they are not cited.                                          *)
USE NoneAssumption, TtlAssumption
USE DEF StoreSteps, RevokeSteps, RevokeAllSteps, Running, Returned, Ready

(* A fresh JTI is in nobody's hands: nothing is said of it yet. *)
LEMMA BeginStoreKeeps ==
  ASSUME IInv, NEW p \in Proc, NEW j \in Jti, NEW u \in Uid, BeginStore(p, j, u)
  PROVE  IInv'
  <1>1. /\ j \notin minted
        /\ minted' = minted \cup {j}
        /\ prior' = [prior EXCEPT ![p] = {}]
        /\ UNCHANGED <<refresh, refreshTtl, sessions, sessionsTtl, acked, orphaned>>
        /\ Moves(p, "setex", j, u, {}, {})
    BY BeginMoves DEF IInv, BeginStore, redisVars
  <1>2. TypeOK'
    BY <1>1 DEF IInv, TypeOK, Moves, Live, TtlValue, NoExpiry
  <1>3. Args'
    BY <1>1 DEF IInv, TypeOK, Args, Known, Moves, Live
  <1>4. Known'
    BY <1>1 DEF IInv, TypeOK, Known, Moves, Live
  <1>5. Unique'
    BY <1>1 DEF IInv, TypeOK, Args, Unique, Moves
  <1>6. Fresh'
    BY <1>1 DEF IInv, TypeOK, Args, Known, Fresh, Moves, Live
  <1>7. IndexIsByOwner'
    BY <1>1 DEF IInv, IndexIsByOwner, Moves
  <1>8. StoresOwn'
    BY <1>1 DEF IInv, StoresOwn, Moves
  <1>9. Spent'
    BY <1>1 DEF IInv, TypeOK, Spent, Moves, Live
  <1>10. IndexCoversSessions'
    BY <1>1 DEF IInv, TypeOK, IndexCoversSessions, Moves, Live
  <1>11. IndexOutlivesSessions'
    BY <1>1 DEF IInv, IndexOutlivesSessions, Moves, TtlValue, NoExpiry
  <1>12. StoresIndexed'
    BY <1>1 DEF IInv, TypeOK, StoresIndexed, Moves, Live
  <1>13. RevokesListed'
    BY <1>1 DEF IInv, TypeOK, RevokesListed, Moves, Live
  <1>14. RevokeAllCoversIndexed'
    BY <1>1 DEF IInv, TypeOK, RevokeAllCoversIndexed, Moves, Live
  <1>15. StoredIndexHasTtl'
    BY <1>1 DEF IInv, TypeOK, Args, Known, StoresOwn, StoredIndexHasTtl, NoExpiry, Moves
  <1>. QED
    BY <1>2, <1>3, <1>4, <1>5, <1>6, <1>7, <1>8, <1>9, <1>10, <1>11, <1>12, <1>13, <1>14, <1>15
    DEF IInv

(* The key of a token nobody else knows appears; it is not acked yet. *)
LEMMA SetExKeeps ==
  ASSUME IInv, NEW p \in Proc, SetEx(p)
  PROVE  IInv'
  <1>. DEFINE j == call[p].jti
              u == call[p].uid
  <1>1. /\ call[p].at = "setex" /\ j \in minted \ acked /\ u \in Uid
        /\ refresh' = [refresh EXCEPT ![j] = u]
        /\ refreshTtl' = [refreshTtl EXCEPT ![j] = RefreshTtl]
        /\ UNCHANGED <<sessions, sessionsTtl, minted, acked, prior, orphaned>>
        /\ Moves(p, "sadd", j, u, call[p].jtis, call[p].todo)
    BY GotoMoves DEF IInv, Args, SetEx, ghostVars
  <1>2. TypeOK'
    BY <1>1 DEF IInv, TypeOK, Moves, Live, TtlValue, NoExpiry
  <1>3. Args'
    BY <1>1 DEF IInv, Args, Moves
  <1>4. Known'
    BY <1>1 DEF IInv, TypeOK, Known, Moves, Live
  <1>5. Unique'
    <2>. SUFFICES ASSUME NEW q \in Proc, NEW r \in Proc,
                         call'[q].at \in StoreSteps, call'[r].at \in StoreSteps,
                         call'[q].jti = call'[r].jti
                  PROVE  q = r
      BY DEF Unique
    <2>1. \A s \in Proc : call'[s].at \in StoreSteps =>
            call[s].at \in StoreSteps /\ call'[s].jti = call[s].jti
      BY <1>1 DEF Moves
    <2>. QED
      BY <2>1 DEF IInv, Unique
  <1>6. Fresh'
    <2>. SUFFICES ASSUME NEW q \in Proc, call'[q].at = "setex"
                  PROVE  /\ ~Live(call[q].jti)'
                         /\ \A v \in Uid : call'[q].jti \notin sessions'[v]
                         /\ \A r \in Proc : call'[q].jti \notin call'[r].jtis
      BY DEF Fresh
    <2>1. q # p /\ call'[q] = call[q]
      BY <1>1 DEF Moves
    <2>2. /\ ~Live(call[q].jti)
          /\ \A v \in Uid : call[q].jti \notin sessions[v]
          /\ \A r \in Proc : call[q].jti \notin call[r].jtis
      BY <2>1 DEF IInv, Fresh
    <2>3. call[q].jti # j
      BY <1>1, <2>1 DEF IInv, Unique
    <2>4. ~Live(call[q].jti)'
      BY <1>1, <2>1, <2>2, <2>3 DEF IInv, TypeOK, Live
    <2>5. \A v \in Uid : call'[q].jti \notin sessions'[v]
      BY <1>1, <2>1, <2>2, <2>3 DEF IInv, TypeOK
    <2>6. \A r \in Proc : call'[q].jti \notin call'[r].jtis
      BY <1>1, <2>1, <2>2, <2>3 DEF IInv, TypeOK, Moves
    <2>. QED
      BY <2>4, <2>5, <2>6
  <1>7. IndexIsByOwner'
    BY <1>1 DEF IInv, TypeOK, Args, Fresh, StoresOwn, IndexIsByOwner, Moves, Live
  <1>8. StoresOwn'
    BY <1>1 DEF IInv, TypeOK, Args, Unique, Fresh, StoresOwn, Moves, Live
  <1>9. Spent'
    BY <1>1 DEF IInv, TypeOK, Args, Known, Fresh, Spent, Moves, Live
  <1>10. IndexCoversSessions'
    BY <1>1 DEF IInv, TypeOK, IndexCoversSessions, Moves, Live
  <1>11. IndexOutlivesSessions'
    BY <1>1 DEF IInv, IndexOutlivesSessions, Moves, TtlValue, NoExpiry
  <1>12. StoresIndexed'
    BY <1>1 DEF IInv, TypeOK, Args, Unique, Fresh, Spent, StoresOwn, StoresIndexed, Moves, Live
  <1>13. RevokesListed'
    BY <1>1 DEF IInv, TypeOK, Args, Known, RevokesListed, Moves, Live
  <1>14. RevokeAllCoversIndexed'
    BY <1>1 DEF IInv, TypeOK, Args, Known, RevokeAllCoversIndexed, Moves, Live
  <1>15. StoredIndexHasTtl'
    BY <1>1 DEF IInv, TypeOK, Args, Known, StoresOwn, StoredIndexHasTtl, NoExpiry, Moves
  <1>. QED
    BY <1>2, <1>3, <1>4, <1>5, <1>6, <1>7, <1>8, <1>9, <1>10, <1>11, <1>12, <1>13, <1>14, <1>15
    DEF IInv

(* The token joins its user's index, which only grows. *)
LEMMA SAddKeeps ==
  ASSUME IInv, NEW p \in Proc, SAdd(p)
  PROVE  IInv'
  <1>. DEFINE j == call[p].jti
              u == call[p].uid
  <1>1. /\ call[p].at = "sadd" /\ j \in minted \ acked /\ u \in Uid
        /\ sessions' = [sessions EXCEPT ![u] = sessions[u] \cup {j}]
        /\ sessionsTtl' = [sessionsTtl EXCEPT ![u] = IF sessions[u] = {} THEN NoExpiry ELSE sessionsTtl[u]]
        /\ UNCHANGED <<refresh, refreshTtl, minted, acked, prior, orphaned>>
        /\ Moves(p, "expire", j, u, call[p].jtis, call[p].todo)
    BY GotoMoves DEF IInv, Args, SAdd, ghostVars
  <1>2. TypeOK'
    <2>1. TypeOK
      BY DEF IInv
    <2>2. /\ sessions' \in [Uid -> SUBSET Jti]
          /\ sessionsTtl' \in [Uid -> TtlValue]
          /\ \A v \in Uid : sessionsTtl'[v] = 0 <=> sessions'[v] = {}
      BY <1>1, <2>1 DEF TypeOK, TtlValue, NoExpiry
    <2>. QED
      BY <1>1, <2>1, <2>2 DEF TypeOK, Moves, Live
  <1>3. Args'
    BY <1>1 DEF IInv, Args, Moves
  <1>4. Known'
    BY <1>1 DEF IInv, TypeOK, Known, Moves, Live
  <1>5. Unique'
    BY <1>1 DEF IInv, Unique, Moves
  <1>6. Fresh'
    <2>. SUFFICES ASSUME NEW q \in Proc, call'[q].at = "setex"
                  PROVE  /\ ~Live(call[q].jti)'
                         /\ \A v \in Uid : call'[q].jti \notin sessions'[v]
                         /\ \A r \in Proc : call'[q].jti \notin call'[r].jtis
      BY DEF Fresh
    <2>1. q # p /\ call'[q] = call[q]
      BY <1>1 DEF Moves
    <2>2. /\ ~Live(call[q].jti)
          /\ \A v \in Uid : call[q].jti \notin sessions[v]
          /\ \A r \in Proc : call[q].jti \notin call[r].jtis
      BY <2>1 DEF IInv, Fresh
    <2>3. call[q].jti # j
      BY <1>1, <2>1 DEF IInv, Unique
    <2>4. ~Live(call[q].jti)'
      BY <1>1, <2>1, <2>2, <2>3 DEF IInv, TypeOK, Live
    <2>5. \A v \in Uid : call'[q].jti \notin sessions'[v]
      BY <1>1, <2>1, <2>2, <2>3 DEF IInv, TypeOK
    <2>6. \A r \in Proc : call'[q].jti \notin call'[r].jtis
      BY <1>1, <2>1, <2>2, <2>3 DEF IInv, TypeOK, Moves
    <2>. QED
      BY <2>4, <2>5, <2>6
  <1>7. IndexIsByOwner'
    BY <1>1 DEF IInv, TypeOK, Args, Fresh, StoresOwn, IndexIsByOwner, Moves, Live
  <1>8. StoresOwn'
    BY <1>1 DEF IInv, TypeOK, Args, Unique, StoresOwn, Moves
  <1>9. Spent'
    BY <1>1 DEF IInv, TypeOK, Spent, Moves, Live
  <1>10. IndexCoversSessions'
    BY <1>1 DEF IInv, TypeOK, IndexCoversSessions, Moves, Live
  <1>11. IndexOutlivesSessions'
    BY <1>1 DEF IInv, IndexOutlivesSessions, Moves, TtlValue, NoExpiry
  <1>12. StoresIndexed'
    BY <1>1 DEF IInv, TypeOK, StoresIndexed, Moves, Live
  <1>13. RevokesListed'
    BY <1>1 DEF IInv, TypeOK, RevokesListed, Moves, Live
  <1>14. RevokeAllCoversIndexed'
    BY <1>1 DEF IInv, TypeOK, RevokeAllCoversIndexed, Moves, Live
  <1>15. StoredIndexHasTtl'
    BY <1>1 DEF IInv, TypeOK, Args, Known, StoresOwn, StoredIndexHasTtl, NoExpiry, Moves
  <1>. QED
    BY <1>2, <1>3, <1>4, <1>5, <1>6, <1>7, <1>8, <1>9, <1>10, <1>11, <1>12, <1>13, <1>14, <1>15
    DEF IInv

(* The token is acked, and the index has the longest TTL there is. *)
LEMMA ExpireIndexKeeps ==
  ASSUME IInv, NEW p \in Proc, ExpireIndex(p)
  PROVE  IInv'
  <1>. DEFINE j == call[p].jti
              u == call[p].uid
  <1>1. /\ call[p].at = "expire" /\ j \in minted \ acked /\ u \in Uid
        /\ sessionsTtl' = [sessionsTtl EXCEPT ![u] = IF sessions[u] = {} THEN sessionsTtl[u] ELSE RefreshTtl]
        /\ acked' = acked \cup {j}
        /\ UNCHANGED <<refresh, refreshTtl, sessions, minted, prior, orphaned>>
        /\ Moves(p, "stored", j, u, call[p].jtis, call[p].todo)
    BY GotoMoves DEF IInv, Args, ExpireIndex
  <1>2. TypeOK'
    BY <1>1 DEF IInv, TypeOK, Moves, Live, TtlValue, NoExpiry
  <1>3. Args'
    BY <1>1 DEF IInv, TypeOK, Args, Known, Unique, Moves, Live
  <1>4. Known'
    BY <1>1 DEF IInv, TypeOK, Known, Moves, Live
  <1>5. Unique'
    BY <1>1 DEF IInv, Unique, Moves
  <1>6. Fresh'
    <2>. SUFFICES ASSUME NEW q \in Proc, call'[q].at = "setex"
                  PROVE  /\ ~Live(call[q].jti)'
                         /\ \A v \in Uid : call'[q].jti \notin sessions'[v]
                         /\ \A r \in Proc : call'[q].jti \notin call'[r].jtis
      BY DEF Fresh
    <2>1. q # p /\ call'[q] = call[q]
      BY <1>1 DEF Moves
    <2>2. /\ ~Live(call[q].jti)
          /\ \A v \in Uid : call[q].jti \notin sessions[v]
          /\ \A r \in Proc : call[q].jti \notin call[r].jtis
      BY <2>1 DEF IInv, Fresh
    <2>4. ~Live(call[q].jti)'
      BY <1>1, <2>1, <2>2 DEF IInv, TypeOK, Live
    <2>5. \A v \in Uid : call'[q].jti \notin sessions'[v]
      BY <1>1, <2>1, <2>2 DEF IInv, TypeOK
    <2>6. \A r \in Proc : call'[q].jti \notin call'[r].jtis
      BY <1>1, <2>1, <2>2 DEF IInv, TypeOK, Moves
    <2>. QED
      BY <2>4, <2>5, <2>6
  <1>7. IndexIsByOwner'
    BY <1>1 DEF IInv, IndexIsByOwner, Moves
  <1>8. StoresOwn'
    BY <1>1 DEF IInv, StoresOwn, Moves
  <1>9. Spent'
    BY <1>1 DEF IInv, TypeOK, Spent, Moves, Live
  <1>10. IndexCoversSessions'
    BY <1>1 DEF IInv, TypeOK, Args, Known, Spent, IndexIsByOwner, StoresOwn, StoresIndexed,
       IndexOutlivesSessions, IndexCoversSessions, Moves, Live
  <1>11. IndexOutlivesSessions'
    BY <1>1
    DEF IInv, TypeOK, Args, IndexIsByOwner, StoresOwn, IndexOutlivesSessions, Moves, Live,
        TtlValue, NoExpiry
  <1>12. StoresIndexed'
    BY <1>1 DEF IInv, TypeOK, StoresIndexed, Moves, Live
  <1>13. RevokesListed'
    BY <1>1 DEF IInv, TypeOK, RevokesListed, Moves, Live
  <1>14. RevokeAllCoversIndexed'
    BY <1>1 DEF IInv, TypeOK, RevokeAllCoversIndexed, Moves, Live
  <1>15. StoredIndexHasTtl'
    BY <1>1 DEF IInv, TypeOK, Args, Known, StoresOwn, StoredIndexHasTtl, NoExpiry, Moves
  <1>. QED
    BY <1>2, <1>3, <1>4, <1>5, <1>6, <1>7, <1>8, <1>9, <1>10, <1>11, <1>12, <1>13, <1>14, <1>15
    DEF IInv

(* A revocation takes up a token that was handed out. *)
LEMMA BeginRevokeKeeps ==
  ASSUME IInv, NEW p \in Proc, NEW j \in Jti, BeginRevoke(p, j)
  PROVE  IInv'
  <1>1. /\ j \in acked
        /\ prior' = [prior EXCEPT ![p] = {}]
        /\ UNCHANGED <<refresh, refreshTtl, sessions, sessionsTtl, minted, acked, orphaned>>
        /\ Moves(p, "getdel", j, None, {}, {})
    BY BeginMoves DEF IInv, BeginRevoke, redisVars
  <1>2. TypeOK'
    BY <1>1 DEF IInv, TypeOK, Moves, Live, TtlValue, NoExpiry
  <1>3. Args'
    BY <1>1 DEF IInv, Args, Moves
  <1>4. Known'
    BY <1>1 DEF IInv, TypeOK, Known, Moves, Live
  <1>5. Unique'
    BY <1>1 DEF IInv, Unique, Moves
  <1>6. Fresh'
    <2>. SUFFICES ASSUME NEW q \in Proc, call'[q].at = "setex"
                  PROVE  /\ ~Live(call[q].jti)'
                         /\ \A v \in Uid : call'[q].jti \notin sessions'[v]
                         /\ \A r \in Proc : call'[q].jti \notin call'[r].jtis
      BY DEF Fresh
    <2>1. q # p /\ call'[q] = call[q]
      BY <1>1 DEF Moves
    <2>2. /\ ~Live(call[q].jti)
          /\ \A v \in Uid : call[q].jti \notin sessions[v]
          /\ \A r \in Proc : call[q].jti \notin call[r].jtis
      BY <2>1 DEF IInv, Fresh
    <2>4. ~Live(call[q].jti)'
      BY <1>1, <2>1, <2>2 DEF IInv, TypeOK, Live
    <2>5. \A v \in Uid : call'[q].jti \notin sessions'[v]
      BY <1>1, <2>1, <2>2 DEF IInv, TypeOK
    <2>6. \A r \in Proc : call'[q].jti \notin call'[r].jtis
      BY <1>1, <2>1, <2>2 DEF IInv, TypeOK, Moves
    <2>. QED
      BY <2>4, <2>5, <2>6
  <1>7. IndexIsByOwner'
    BY <1>1 DEF IInv, IndexIsByOwner, Moves
  <1>8. StoresOwn'
    BY <1>1 DEF IInv, StoresOwn, Moves
  <1>9. Spent'
    BY <1>1 DEF IInv, TypeOK, Spent, Moves, Live
  <1>10. IndexCoversSessions'
    BY <1>1 DEF IInv, TypeOK, IndexCoversSessions, Moves, Live
  <1>11. IndexOutlivesSessions'
    BY <1>1 DEF IInv, IndexOutlivesSessions, Moves, TtlValue, NoExpiry
  <1>12. StoresIndexed'
    BY <1>1 DEF IInv, TypeOK, StoresIndexed, Moves, Live
  <1>13. RevokesListed'
    BY <1>1 DEF IInv, TypeOK, RevokesListed, Moves, Live
  <1>14. RevokeAllCoversIndexed'
    BY <1>1 DEF IInv, TypeOK, RevokeAllCoversIndexed, Moves, Live
  <1>15. StoredIndexHasTtl'
    BY <1>1 DEF IInv, TypeOK, Args, Known, StoresOwn, StoredIndexHasTtl, NoExpiry, Moves
  <1>. QED
    BY <1>2, <1>3, <1>4, <1>5, <1>6, <1>7, <1>8, <1>9, <1>10, <1>11, <1>12, <1>13, <1>14, <1>15
    DEF IInv

(* The key goes; what is not live needs no index. *)
LEMMA GetDelKeeps ==
  ASSUME IInv, NEW p \in Proc, GetDel(p)
  PROVE  IInv'
  <1>. DEFINE j == call[p].jti
  <1>1. /\ call[p].at = "getdel" /\ j \in acked
        /\ refresh' = [refresh EXCEPT ![j] = None]
        /\ refreshTtl' = [refreshTtl EXCEPT ![j] = 0]
        /\ UNCHANGED <<sessions, sessionsTtl, minted, acked, prior, orphaned>>
        /\ Moves(p, IF Live(j) THEN "srem" ELSE "none", j, refresh[j], call[p].jtis, call[p].todo)
    BY GetDelMoves DEF IInv, Args, TypeOK, GetDel, ghostVars
  <1>2. TypeOK'
    BY <1>1 DEF IInv, TypeOK, Moves, Live, TtlValue, NoExpiry
  <1>3. Args'
    BY <1>1 DEF IInv, TypeOK, Args, Moves, Live
  <1>4. Known'
    BY <1>1 DEF IInv, TypeOK, Known, Moves, Live
  <1>5. Unique'
    BY <1>1 DEF IInv, Unique, Moves
  <1>6. Fresh'
    BY <1>1 DEF IInv, TypeOK, Fresh, Moves, Live
  <1>7. IndexIsByOwner'
    BY <1>1 DEF IInv, TypeOK, Args, IndexIsByOwner, Moves
  <1>8. StoresOwn'
    BY <1>1 DEF IInv, StoresOwn, Moves
  <1>9. Spent'
    BY <1>1 DEF IInv, TypeOK, Spent, Moves, Live
  <1>10. IndexCoversSessions'
    BY <1>1 DEF IInv, TypeOK, IndexCoversSessions, Moves, Live
  <1>11. IndexOutlivesSessions'
    BY <1>1 DEF IInv, TypeOK, IndexOutlivesSessions, Moves, TtlValue, NoExpiry
  <1>12. StoresIndexed'
    BY <1>1 DEF IInv, TypeOK, StoresIndexed, Moves, Live
  <1>13. RevokesListed'
    BY <1>1 DEF IInv, TypeOK, RevokesListed, Moves, Live
  <1>14. RevokeAllCoversIndexed'
    BY <1>1 DEF IInv, TypeOK, RevokeAllCoversIndexed, Moves, Live
  <1>15. StoredIndexHasTtl'
    BY <1>1 DEF IInv, TypeOK, Args, Known, StoresOwn, StoredIndexHasTtl, NoExpiry, Moves
  <1>. QED
    BY <1>2, <1>3, <1>4, <1>5, <1>6, <1>7, <1>8, <1>9, <1>10, <1>11, <1>12, <1>13, <1>14, <1>15
    DEF IInv

(* A token that is not live leaves the index. *)
LEMMA SRemKeeps ==
  ASSUME IInv, NEW p \in Proc, SRem(p)
  PROVE  IInv'
  <1>. DEFINE j == call[p].jti
              u == call[p].uid
  <1>1. /\ call[p].at = "srem" /\ j \in acked /\ u \in Uid
        /\ sessions' = [sessions EXCEPT ![u] = sessions[u] \ {j}]
        /\ sessionsTtl' = [sessionsTtl EXCEPT ![u] = IF sessions[u] \ {j} = {} THEN 0 ELSE sessionsTtl[u]]
        /\ UNCHANGED <<refresh, refreshTtl, minted, acked, prior, orphaned>>
        /\ Moves(p, "some", j, u, call[p].jtis, call[p].todo)
    BY GotoMoves DEF IInv, Args, SRem, ghostVars
  <1>2. TypeOK'
    BY <1>1 DEF IInv, TypeOK, Moves, Live, TtlValue, NoExpiry
  <1>3. Args'
    BY <1>1 DEF IInv, Args, Moves
  <1>4. Known'
    BY <1>1 DEF IInv, TypeOK, Known, Moves, Live
  <1>5. Unique'
    BY <1>1 DEF IInv, Unique, Moves
  <1>6. Fresh'
    <2>. SUFFICES ASSUME NEW q \in Proc, call'[q].at = "setex"
                  PROVE  /\ ~Live(call[q].jti)'
                         /\ \A v \in Uid : call'[q].jti \notin sessions'[v]
                         /\ \A r \in Proc : call'[q].jti \notin call'[r].jtis
      BY DEF Fresh
    <2>1. q # p /\ call'[q] = call[q]
      BY <1>1 DEF Moves
    <2>2. /\ ~Live(call[q].jti)
          /\ \A v \in Uid : call[q].jti \notin sessions[v]
          /\ \A r \in Proc : call[q].jti \notin call[r].jtis
      BY <2>1 DEF IInv, Fresh
    <2>4. ~Live(call[q].jti)'
      BY <1>1, <2>1, <2>2 DEF IInv, TypeOK, Live
    <2>5. \A v \in Uid : call'[q].jti \notin sessions'[v]
      BY <1>1, <2>1, <2>2 DEF IInv, TypeOK
    <2>6. \A r \in Proc : call'[q].jti \notin call'[r].jtis
      BY <1>1, <2>1, <2>2 DEF IInv, TypeOK, Moves
    <2>. QED
      BY <2>4, <2>5, <2>6
  <1>7. IndexIsByOwner'
    BY <1>1 DEF IInv, IndexIsByOwner, Moves
  <1>8. StoresOwn'
    BY <1>1 DEF IInv, StoresOwn, Moves
  <1>9. Spent'
    BY <1>1 DEF IInv, TypeOK, Spent, Moves, Live
  <1>10. IndexCoversSessions'
    BY <1>1 DEF IInv, TypeOK, Args, Known, Spent, IndexIsByOwner, StoresOwn, StoresIndexed,
       IndexOutlivesSessions, IndexCoversSessions, Moves, Live
  <1>11. IndexOutlivesSessions'
    BY <1>1 DEF IInv, TypeOK, IndexOutlivesSessions, Moves, TtlValue, NoExpiry
  <1>12. StoresIndexed'
    BY <1>1 DEF IInv, TypeOK, Args, StoresIndexed, Moves, Live
  <1>13. RevokesListed'
    BY <1>1 DEF IInv, TypeOK, RevokesListed, Moves, Live
  <1>14. RevokeAllCoversIndexed'
    BY <1>1 DEF IInv, TypeOK, RevokeAllCoversIndexed, Moves, Live
  <1>15. StoredIndexHasTtl'
    BY <1>1 DEF IInv, TypeOK, Args, Known, StoresOwn, StoredIndexHasTtl, NoExpiry, Moves
  <1>. QED
    BY <1>2, <1>3, <1>4, <1>5, <1>6, <1>7, <1>8, <1>9, <1>10, <1>11, <1>12, <1>13, <1>14, <1>15
    DEF IInv

(* What revoke-all has to end is the user's, by the definition of prior. *)
LEMMA BeginRevokeAllKeeps ==
  ASSUME IInv, NEW p \in Proc, NEW u \in Uid, BeginRevokeAll(p, u)
  PROVE  IInv'
  <1>1. /\ prior' = [prior EXCEPT ![p] = {j \in acked : refresh[j] = u}]
        /\ UNCHANGED <<refresh, refreshTtl, sessions, sessionsTtl, minted, acked, orphaned>>
        /\ Moves(p, "smembers", None, u, {}, {})
    BY BeginMoves DEF IInv, BeginRevokeAll, redisVars
  <1>2. TypeOK'
    BY <1>1 DEF IInv, TypeOK, Moves, Live, TtlValue, NoExpiry
  <1>3. Args'
    BY <1>1 DEF IInv, Args, Moves
  <1>4. Known'
    BY <1>1 DEF IInv, TypeOK, Known, Moves, Live
  <1>5. Unique'
    BY <1>1 DEF IInv, Unique, Moves
  <1>6. Fresh'
    BY <1>1 DEF IInv, TypeOK, Fresh, Moves, Live
  <1>7. IndexIsByOwner'
    BY <1>1 DEF IInv, IndexIsByOwner, Moves
  <1>8. StoresOwn'
    BY <1>1 DEF IInv, StoresOwn, Moves
  <1>9. Spent'
    BY <1>1 DEF IInv, TypeOK, Spent, Moves, Live
  <1>10. IndexCoversSessions'
    BY <1>1 DEF IInv, TypeOK, IndexCoversSessions, Moves, Live
  <1>11. IndexOutlivesSessions'
    BY <1>1 DEF IInv, IndexOutlivesSessions, Moves, TtlValue, NoExpiry
  <1>12. StoresIndexed'
    BY <1>1 DEF IInv, TypeOK, StoresIndexed, Moves, Live
  <1>13. RevokesListed'
    BY <1>1 DEF IInv, TypeOK, RevokesListed, Moves, Live
  <1>14. RevokeAllCoversIndexed'
    BY <1>1 DEF IInv, TypeOK, RevokeAllCoversIndexed, Moves, Live
  <1>15. StoredIndexHasTtl'
    BY <1>1 DEF IInv, TypeOK, Args, Known, StoresOwn, StoredIndexHasTtl, NoExpiry, Moves
  <1>. QED
    BY <1>2, <1>3, <1>4, <1>5, <1>6, <1>7, <1>8, <1>9, <1>10, <1>11, <1>12, <1>13, <1>14, <1>15
    DEF IInv

(* The list is the index, which covers what revoke-all has to end. *)
LEMMA SMembersKeeps ==
  ASSUME IInv, NEW p \in Proc, SMembers(p)
  PROVE  IInv'
  <1>. DEFINE u == call[p].uid
  <1>1. /\ call[p].at = "smembers" /\ u \in Uid
        /\ UNCHANGED <<refresh, refreshTtl, sessions, sessionsTtl, minted, acked, prior, orphaned>>
        /\ Moves(p, IF sessions[u] = {} THEN "revokedall" ELSE "del", call[p].jti, u, sessions[u], sessions[u])
    BY SMembersMoves DEF IInv, Args, SMembers, redisVars, ghostVars
  <1>2. TypeOK'
    BY <1>1 DEF IInv, TypeOK, Moves, Live, TtlValue, NoExpiry
  <1>3. Args'
    BY <1>1 DEF IInv, Args, Moves
  <1>4. Known'
    BY <1>1 DEF IInv, TypeOK, Known, Moves, Live
  <1>5. Unique'
    BY <1>1 DEF IInv, Unique, Moves
  <1>6. Fresh'
    <2>. SUFFICES ASSUME NEW q \in Proc, call'[q].at = "setex"
                  PROVE  /\ ~Live(call[q].jti)'
                         /\ \A v \in Uid : call'[q].jti \notin sessions'[v]
                         /\ \A r \in Proc : call'[q].jti \notin call'[r].jtis
      BY DEF Fresh
    <2>1. q # p /\ call'[q] = call[q]
      BY <1>1 DEF Moves
    <2>2. /\ ~Live(call[q].jti)
          /\ \A v \in Uid : call[q].jti \notin sessions[v]
          /\ \A r \in Proc : call[q].jti \notin call[r].jtis
      BY <2>1 DEF IInv, Fresh
    <2>4. ~Live(call[q].jti)'
      BY <1>1, <2>1, <2>2 DEF IInv, TypeOK, Live
    <2>5. \A v \in Uid : call'[q].jti \notin sessions'[v]
      BY <1>1, <2>1, <2>2 DEF IInv, TypeOK
    <2>6. \A r \in Proc : call'[q].jti \notin call'[r].jtis
      BY <1>1, <2>1, <2>2 DEF IInv, TypeOK, Moves
    <2>. QED
      BY <2>4, <2>5, <2>6
  <1>7. IndexIsByOwner'
    BY <1>1 DEF IInv, IndexIsByOwner, Moves
  <1>8. StoresOwn'
    BY <1>1 DEF IInv, StoresOwn, Moves
  <1>9. Spent'
    BY <1>1 DEF IInv, TypeOK, Spent, Moves, Live
  <1>10. IndexCoversSessions'
    BY <1>1 DEF IInv, TypeOK, IndexCoversSessions, Moves, Live
  <1>11. IndexOutlivesSessions'
    BY <1>1 DEF IInv, IndexOutlivesSessions, Moves, TtlValue, NoExpiry
  <1>12. StoresIndexed'
    BY <1>1 DEF IInv, TypeOK, StoresIndexed, Moves, Live
  <1>13. RevokesListed'
    BY <1>1 DEF IInv, TypeOK, Args, Known, IndexCoversSessions, RevokesListed, Moves, Live
  <1>14. RevokeAllCoversIndexed'
    BY <1>1 DEF IInv, TypeOK, Args, Known, Spent, IndexCoversSessions, RevokesListed,
       RevokeAllCoversIndexed, Moves, Live
  <1>15. StoredIndexHasTtl'
    BY <1>1 DEF IInv, TypeOK, Args, Known, StoresOwn, StoredIndexHasTtl, NoExpiry, Moves
  <1>. QED
    BY <1>2, <1>3, <1>4, <1>5, <1>6, <1>7, <1>8, <1>9, <1>10, <1>11, <1>12, <1>13, <1>14, <1>15
    DEF IInv

(* A listed token ends, and those deleted so far stay dead. *)
LEMMA DelRefreshKeeps ==
  ASSUME IInv, NEW p \in Proc, DelRefresh(p)
  PROVE  IInv'
  <1>1. /\ call[p].at = "del" /\ call[p].uid \in Uid
        /\ UNCHANGED <<sessions, sessionsTtl, minted, acked, prior, orphaned>>
    BY DEF IInv, Args, DelRefresh, ghostVars
  <1>2. PICK j \in Jti : Deletes(p, j)
    BY DelRefreshMoves DEF IInv
  <1>3. TypeOK'
    BY <1>1, <1>2 DEF IInv, TypeOK, Moves, Deletes, Live, TtlValue, NoExpiry
  <1>4. Args'
    BY <1>1, <1>2 DEF IInv, Args, Moves, Deletes
  <1>5. Known'
    BY <1>1, <1>2 DEF IInv, TypeOK, Known, Moves, Deletes, Live
  <1>6. Unique'
    BY <1>1, <1>2 DEF IInv, Unique, Moves, Deletes
  <1>7. Fresh'
    <2>. SUFFICES ASSUME NEW q \in Proc, call'[q].at = "setex"
                  PROVE  /\ ~Live(call[q].jti)'
                         /\ \A v \in Uid : call'[q].jti \notin sessions'[v]
                         /\ \A r \in Proc : call'[q].jti \notin call'[r].jtis
      BY DEF Fresh
    <2>1. q # p /\ call'[q] = call[q]
      BY <1>1, <1>2 DEF Moves, Deletes
    <2>2. /\ ~Live(call[q].jti)
          /\ \A v \in Uid : call[q].jti \notin sessions[v]
          /\ \A r \in Proc : call[q].jti \notin call[r].jtis
      BY <2>1 DEF IInv, Fresh
    <2>4. ~Live(call[q].jti)'
      BY <1>1, <1>2, <2>1, <2>2 DEF IInv, TypeOK, Live, Deletes
    <2>5. \A v \in Uid : call'[q].jti \notin sessions'[v]
      BY <1>1, <1>2, <2>1, <2>2 DEF IInv, TypeOK, Deletes
    <2>6. \A r \in Proc : call'[q].jti \notin call'[r].jtis
      BY <1>1, <1>2, <2>1, <2>2 DEF IInv, TypeOK, Moves, Deletes
    <2>. QED
      BY <2>4, <2>5, <2>6
  <1>8. IndexIsByOwner'
    BY <1>1, <1>2 DEF IInv, IndexIsByOwner, Moves, Deletes
  <1>9. StoresOwn'
    BY <1>1, <1>2 DEF IInv, StoresOwn, Moves, Deletes
  <1>10. Spent'
    BY <1>1, <1>2 DEF IInv, TypeOK, Spent, Moves, Deletes, Live
  <1>11. IndexCoversSessions'
    BY <1>1, <1>2 DEF IInv, TypeOK, IndexCoversSessions, Moves, Deletes, Live
  <1>12. IndexOutlivesSessions'
    BY <1>1, <1>2 DEF IInv, TypeOK, IndexOutlivesSessions, Moves, Deletes, TtlValue, NoExpiry
  <1>13. StoresIndexed'
    BY <1>1, <1>2 DEF IInv, TypeOK, StoresIndexed, Moves, Deletes, Live
  <1>14. RevokesListed'
    BY <1>1, <1>2 DEF IInv, TypeOK, RevokesListed, Moves, Deletes, Live
  <1>15. RevokeAllCoversIndexed'
    BY <1>1, <1>2 DEF IInv, TypeOK, RevokeAllCoversIndexed, Moves, Deletes, Live
  <1>16. StoredIndexHasTtl'
    BY <1>1, <1>2 DEF IInv, TypeOK, Args, Known, StoresOwn, StoredIndexHasTtl, NoExpiry, Moves, Deletes
  <1>. QED
    BY <1>3, <1>4, <1>5, <1>6, <1>7, <1>8, <1>9, <1>10, <1>11, <1>12, <1>13, <1>14, <1>15, <1>16
    DEF IInv

(* What the index held was listed and is dead, or is orphaned. *)
LEMMA DelIndexKeeps ==
  ASSUME IInv, NEW p \in Proc, DelIndex(p)
  PROVE  IInv'
  <1>. DEFINE u == call[p].uid
  <1>1. /\ call[p].at = "delindex" /\ u \in Uid
        /\ sessions' = [sessions EXCEPT ![u] = {}]
        /\ sessionsTtl' = [sessionsTtl EXCEPT ![u] = 0]
        /\ orphaned' = orphaned \cup (sessions[u] \ call[p].jtis)
        /\ UNCHANGED <<refresh, refreshTtl, minted, acked, prior>>
        /\ Moves(p, "revokedall", call[p].jti, u, call[p].jtis, call[p].todo)
    BY GotoMoves DEF IInv, Args, DelIndex
  <1>2. TypeOK'
    BY <1>1 DEF IInv, TypeOK, Moves, Live, TtlValue, NoExpiry
  <1>3. Args'
    BY <1>1 DEF IInv, Args, Moves
  <1>4. Known'
    BY <1>1 DEF IInv, TypeOK, Known, Moves, Live
  <1>5. Unique'
    BY <1>1 DEF IInv, Unique, Moves
  <1>6. Fresh'
    BY <1>1 DEF IInv, TypeOK, Fresh, Moves, Live
  <1>7. IndexIsByOwner'
    BY <1>1 DEF IInv, IndexIsByOwner, Moves
  <1>8. StoresOwn'
    BY <1>1 DEF IInv, StoresOwn, Moves
  <1>9. Spent'
    BY <1>1 DEF IInv, TypeOK, Spent, Moves, Live
  <1>10. IndexCoversSessions'
    BY <1>1 DEF IInv, TypeOK, Args, Known, Spent, IndexIsByOwner, StoresOwn, StoresIndexed,
       IndexOutlivesSessions, IndexCoversSessions, Moves, Live
  <1>11. IndexOutlivesSessions'
    BY <1>1 DEF IInv, TypeOK, IndexOutlivesSessions, Moves, TtlValue, NoExpiry
  <1>12. StoresIndexed'
    BY <1>1 DEF IInv, TypeOK, Args, Unique, Fresh, Spent, StoresOwn, StoresIndexed, Moves, Live
  <1>13. RevokesListed'
    BY <1>1 DEF IInv, TypeOK, RevokesListed, Moves, Live
  <1>14. RevokeAllCoversIndexed'
    BY <1>1 DEF IInv, TypeOK, Args, Known, Spent, IndexCoversSessions, RevokesListed,
       RevokeAllCoversIndexed, Moves, Live
  <1>15. StoredIndexHasTtl'
    BY <1>1 DEF IInv, TypeOK, Args, Known, StoresOwn, StoredIndexHasTtl, NoExpiry, Moves
  <1>. QED
    BY <1>2, <1>3, <1>4, <1>5, <1>6, <1>7, <1>8, <1>9, <1>10, <1>11, <1>12, <1>13, <1>14, <1>15
    DEF IInv

(* A call that is over is forgotten. *)
LEMMA ReturnKeeps ==
  ASSUME IInv, NEW p \in Proc, Return(p)
  PROVE  IInv'
  <1>1. /\ prior' = [prior EXCEPT ![p] = {}]
        /\ UNCHANGED <<refresh, refreshTtl, sessions, sessionsTtl, minted, acked, orphaned>>
        /\ Moves(p, "idle", None, None, {}, {})
    BY BeginMoves DEF IInv, Return, redisVars
  <1>2. TypeOK'
    BY <1>1 DEF IInv, TypeOK, Moves, Live, TtlValue, NoExpiry
  <1>3. Args'
    BY <1>1 DEF IInv, Args, Moves
  <1>4. Known'
    BY <1>1 DEF IInv, TypeOK, Known, Moves, Live
  <1>5. Unique'
    BY <1>1 DEF IInv, Unique, Moves
  <1>6. Fresh'
    BY <1>1 DEF IInv, TypeOK, Fresh, Moves, Live
  <1>7. IndexIsByOwner'
    BY <1>1 DEF IInv, IndexIsByOwner, Moves
  <1>8. StoresOwn'
    BY <1>1 DEF IInv, StoresOwn, Moves
  <1>9. Spent'
    BY <1>1 DEF IInv, TypeOK, Spent, Moves, Live
  <1>10. IndexCoversSessions'
    BY <1>1 DEF IInv, TypeOK, IndexCoversSessions, Moves, Live
  <1>11. IndexOutlivesSessions'
    BY <1>1 DEF IInv, IndexOutlivesSessions, Moves, TtlValue, NoExpiry
  <1>12. StoresIndexed'
    BY <1>1 DEF IInv, TypeOK, StoresIndexed, Moves, Live
  <1>13. RevokesListed'
    BY <1>1 DEF IInv, TypeOK, RevokesListed, Moves, Live
  <1>14. RevokeAllCoversIndexed'
    BY <1>1 DEF IInv, TypeOK, RevokeAllCoversIndexed, Moves, Live
  <1>15. StoredIndexHasTtl'
    BY <1>1 DEF IInv, TypeOK, Args, Known, StoresOwn, StoredIndexHasTtl, NoExpiry, Moves
  <1>. QED
    BY <1>2, <1>3, <1>4, <1>5, <1>6, <1>7, <1>8, <1>9, <1>10, <1>11, <1>12, <1>13, <1>14, <1>15
    DEF IInv

(* A call that breaks off leaves Redis as it is. *)
LEMMA FailKeeps ==
  ASSUME IInv, NEW p \in Proc, Fail(p)
  PROVE  IInv'
  <1>1. /\ UNCHANGED <<refresh, refreshTtl, sessions, sessionsTtl, minted, acked, prior, orphaned>>
        /\ Moves(p, "err", None, None, {}, {})
    BY BeginMoves DEF IInv, Fail, redisVars, ghostVars, Ready, Returned
  <1>2. TypeOK'
    BY <1>1 DEF IInv, TypeOK, Moves, Live, TtlValue, NoExpiry
  <1>3. Args'
    BY <1>1 DEF IInv, Args, Moves
  <1>4. Known'
    BY <1>1 DEF IInv, TypeOK, Known, Moves, Live
  <1>5. Unique'
    BY <1>1 DEF IInv, Unique, Moves
  <1>6. Fresh'
    BY <1>1 DEF IInv, TypeOK, Fresh, Moves, Live
  <1>7. IndexIsByOwner'
    BY <1>1 DEF IInv, IndexIsByOwner, Moves
  <1>8. StoresOwn'
    BY <1>1 DEF IInv, StoresOwn, Moves
  <1>9. Spent'
    BY <1>1 DEF IInv, TypeOK, Spent, Moves, Live
  <1>10. IndexCoversSessions'
    BY <1>1 DEF IInv, TypeOK, IndexCoversSessions, Moves, Live
  <1>11. IndexOutlivesSessions'
    BY <1>1 DEF IInv, IndexOutlivesSessions, Moves, TtlValue, NoExpiry
  <1>12. StoresIndexed'
    BY <1>1 DEF IInv, TypeOK, StoresIndexed, Moves, Live
  <1>13. RevokesListed'
    BY <1>1 DEF IInv, TypeOK, RevokesListed, Moves, Live
  <1>14. RevokeAllCoversIndexed'
    BY <1>1 DEF IInv, TypeOK, RevokeAllCoversIndexed, Moves, Live
  <1>15. StoredIndexHasTtl'
    BY <1>1 DEF IInv, TypeOK, Args, Known, StoresOwn, StoredIndexHasTtl, NoExpiry, Moves
  <1>. QED
    BY <1>2, <1>3, <1>4, <1>5, <1>6, <1>7, <1>8, <1>9, <1>10, <1>11, <1>12, <1>13, <1>14, <1>15
    DEF IInv

(* Keys expire; an index goes after its sessions, or orphans a store in progress. *)
LEMMA TickKeeps ==
  ASSUME IInv, Tick
  PROVE  IInv'
  <1>. USE DEF Live
  <1>1. /\ \A j \in Jti : refresh'[j] = IF refreshTtl[j] = 1 THEN None ELSE refresh[j]
        /\ \A j \in Jti : refreshTtl'[j] = Age(refreshTtl[j])
        /\ \A u \in Uid : sessions'[u] = IF sessionsTtl[u] = 1 THEN {} ELSE sessions[u]
        /\ \A u \in Uid : sessionsTtl'[u] = Age(sessionsTtl[u])
        /\ UNCHANGED <<minted, call, acked, prior>>
    BY DEF Tick
  <1>2. orphaned \subseteq orphaned'
    BY DEF Tick
  <1>3. \A p \in Proc, u \in Uid :
          call[p].at = "expire" /\ sessionsTtl[u] = 1 /\ call[p].jti \in sessions[u]
            => call[p].jti \in orphaned'
    BY DEF Tick, MidStore
  <1>4. TypeOK'
    BY <1>1 DEF Tick, IInv, TypeOK, Age, MidStore, TtlValue, NoExpiry, Call
  <1>5. Args'
    BY <1>1 DEF IInv, Args
  <1>6. Known'
    BY <1>1 DEF IInv, Known
  <1>7. Unique'
    BY <1>1 DEF IInv, Unique
  <1>8. \A p \in Proc : call[p].at \in StoreSteps \cup RevokeSteps \cup {"some"} => call[p].jti \in Jti
    BY DEF IInv, Args, TypeOK
  <1>9. Fresh'
    BY <1>1, <1>8 DEF IInv, Fresh
  <1>10. IndexIsByOwner'
    BY <1>1 DEF IInv, IndexIsByOwner, TypeOK, Call
  <1>11. StoresOwn'
    BY <1>1, <1>8 DEF IInv, StoresOwn
  <1>12. Spent'
    BY <1>1, <1>8 DEF IInv, Spent, TypeOK, Call
  <1>13. IndexCoversSessions'
    <2>. SUFFICES ASSUME NEW j \in acked' \ orphaned', Live(j)' PROVE j \in sessions'[refresh'[j]]
      BY DEF IndexCoversSessions
    <2>. DEFINE u == refresh[j]
    <2>1. j \in Jti /\ j \in acked \ orphaned
      BY <1>1, <1>2 DEF IInv, TypeOK
    <2>2. refresh'[j] = u /\ u \in Uid /\ Live(j) /\ refreshTtl[j] # 1
      BY <1>1, <2>1 DEF IInv, TypeOK
    <2>3. j \in sessions[u]
      BY <2>1, <2>2 DEF IInv, IndexCoversSessions
    <2>4. refreshTtl[j] \in 2..RefreshTtl
      BY <2>1, <2>2 DEF IInv, TypeOK
    <2>5. sessionsTtl[u] # 1
      BY <2>1, <2>2, <2>3, <2>4 DEF IInv, IndexOutlivesSessions, NoExpiry
    <2>. QED
      BY <1>1, <2>2, <2>3, <2>5
  <1>14. IndexOutlivesSessions'
    BY <1>1, <1>2 DEF IInv, IndexOutlivesSessions, TypeOK, Age, TtlValue, NoExpiry
  <1>15. StoresIndexed'
    BY <1>1, <1>2, <1>3, <1>8 DEF IInv, StoresIndexed, Args
  <1>16. RevokesListed'
    BY <1>1, <1>2 DEF IInv, RevokesListed, TypeOK
  <1>17. RevokeAllCoversIndexed'
    BY <1>1, <1>2 DEF IInv, RevokeAllCoversIndexed, TypeOK
  <1>18. StoredIndexHasTtl'
    BY <1>1, <1>2 DEF IInv, TypeOK, Age, TtlValue, StoredIndexHasTtl, NoExpiry
  <1>. QED
    BY <1>4, <1>5, <1>6, <1>7, <1>9, <1>10, <1>11, <1>12, <1>13, <1>14, <1>15, <1>16, <1>17, <1>18
    DEF IInv

-----------------------------------------------------------------------------
(* The invariant. *)

(* An empty Redis. *)
LEMMA InitIInv == Init => IInv
  BY DEF Init, IInv, Idle, TypeOK, Call, TtlValue, NoExpiry, Live, Args, Known, Unique, Fresh,
      IndexIsByOwner, StoresOwn, Spent, IndexCoversSessions, IndexOutlivesSessions,
      StoresIndexed, RevokesListed, RevokeAllCoversIndexed, StoredIndexHasTtl

(* Every step keeps the invariant. *)
LEMMA NextIInv == IInv /\ [Next]_vars => IInv'
  <1>. SUFFICES ASSUME IInv, [Next]_vars PROVE IInv'
    OBVIOUS
  <1>1. CASE UNCHANGED vars
    BY <1>1 DEF vars, redisVars, ghostVars, IInv, TypeOK, TtlValue, Live, Args, Known, Unique,
       Fresh, IndexIsByOwner, StoresOwn, Spent, IndexCoversSessions, IndexOutlivesSessions,
       StoresIndexed, RevokesListed, RevokeAllCoversIndexed, StoredIndexHasTtl
  <1>2. CASE Tick
    BY <1>2, TickKeeps
  <1>3. ASSUME NEW p \in Proc, Begin(p) PROVE IInv'
    BY <1>3, BeginStoreKeeps, BeginRevokeKeeps, BeginRevokeAllKeeps DEF Begin
  <1>4. ASSUME NEW p \in Proc, Command(p) PROVE IInv'
    BY <1>4, SetExKeeps, SAddKeeps, ExpireIndexKeeps, GetDelKeeps, SRemKeeps, SMembersKeeps,
       DelRefreshKeeps, DelIndexKeeps DEF Command
  <1>5. ASSUME NEW p \in Proc, Return(p) \/ Fail(p) PROVE IInv'
    BY <1>5, ReturnKeeps, FailKeeps
  <1>. QED
    BY <1>1, <1>2, <1>3, <1>4, <1>5 DEF Next

(* The strengthened invariant of TokenStoreInv holds in every reachable     *)
(* state.                                                                  *)
THEOREM Invariance == Spec => []IInv
  <1>1. Init => IInv
    BY InitIInv
  <1>2. IInv /\ [Next]_vars => IInv'
    BY NextIInv
  <1>. QED
    BY <1>1, <1>2, PTL DEF Spec

(* The types of the variables, for every set of tokens, users and requests, *)
(* and that a key has a TTL exactly while it exists.                        *)
THEOREM TypeCorrect == Spec => []TypeOK
  BY Invariance, PTL DEF IInv

(* No interleaving files a token under another user, or gives it to the     *)
(* revoke_all_sessions of another user.                                    *)
THEOREM OwnedIndex == Spec => []IndexIsByOwner
  BY Invariance, PTL DEF IInv

(* A live session whose store ran to its end is in its user's index, except *)
(* for those orphaned by DelIndex or by the expiry of the index.            *)
THEOREM CoveringIndex == Spec => []IndexCoversSessions
  BY Invariance, PTL DEF IInv

(* The index lives as long as any stored session in it, whatever fails.     *)
THEOREM OutlivingIndex == Spec => []IndexOutlivesSessions
  BY Invariance, PTL DEF IInv

(* An index without a TTL, which a store that failed before EXPIRE can      *)
(* leave behind, has no handed-out token in it.                            *)
THEOREM StoredIndexExpires == Spec => []StoredIndexHasTtl
  BY Invariance, PTL DEF IInv

(* revoke_all_sessions returns when every session that was stored before it *)
(* and not orphaned has ended.                                             *)
THEOREM RevokingAll == Spec => []RevokeAllCoversIndexed
  BY Invariance, PTL DEF IInv

-----------------------------------------------------------------------------
(* TokenStore implements OneShotTokens.                                    *)

(* All tokens are unissued at first. *)
LEMMA InitRefines == Init => OneShot!Init
  BY DEF Init, Idle, Live, Unborn, OneShot!Init, TokenState, Granted

(* A call that moves between other steps than SETEX, and whose grant stays. *)
LEMMA MovesStutters ==
  ASSUME IInv, NEW p \in Proc, NEW step, NEW jti, NEW uid, NEW jtis, NEW todo,
         Moves(p, step, jti, uid, jtis, todo),
         UNCHANGED <<refresh, minted>>,
         call[p].at # "setex", step # "setex",
         Granted'[p] = Granted[p]
  PROVE  UNCHANGED OneShot!vars
  <1>1. \A j \in Jti : Unborn(j)' <=> Unborn(j)
    BY DEF Moves, Unborn
  <1>2. TokenState' = TokenState
    BY <1>1 DEF TokenState, Live
  <1>3. Granted' = Granted
    BY DEF Moves, Granted
  <1>. QED
    BY <1>2, <1>3 DEF OneShot!vars

(* p leaves the call in which its token was accepted, if it was in one. *)
LEMMA MovesReleases ==
  ASSUME IInv, NEW p \in Proc, NEW step, NEW jti, NEW uid, NEW jtis, NEW todo,
         Moves(p, step, jti, uid, jtis, todo),
         UNCHANGED refresh,
         \A j \in Jti : Unborn(j)' <=> Unborn(j),
         step \notin {"srem", "some"}
  PROVE  OneShot!Release(p)
  <1>1. TokenState' = TokenState
    BY DEF TokenState, Live
  <1>2. Granted' = [Granted EXCEPT ![p] = None]
    BY DEF Moves, Granted
  <1>. QED
    BY <1>1, <1>2 DEF OneShot!Release

(* Tokens that were minted and whose SETEX is over are withdrawn. *)
LEMMA Withdraws ==
  ASSUME IInv, NEW gone \in SUBSET Jti,
         Granted' = Granted,
         \A j \in gone : ~Live(j)' /\ ~Unborn(j)',
         \A j \in Jti \ gone : refresh'[j] = refresh[j] /\ (Unborn(j)' <=> Unborn(j))
  PROVE  OneShot!Withdraw(gone)
  BY DEF OneShot!Withdraw, TokenState, Live

(* A JTI that was minted is as unissued as before. *)
LEMMA BeginStoreRefines ==
  ASSUME IInv, NEW p \in Proc, NEW j \in Jti, NEW u \in Uid, BeginStore(p, j, u)
  PROVE  OneShot!Release(p)
  <1>1. /\ call[p].at \in Ready /\ j \notin minted
        /\ minted' = minted \cup {j}
        /\ UNCHANGED refresh
        /\ Moves(p, "setex", j, u, {}, {})
    BY BeginMoves DEF IInv, BeginStore, redisVars
  <1>2. \A k \in Jti : Unborn(k)' <=> Unborn(k)
    BY <1>1 DEF Moves, Unborn
  <1>. QED
    BY <1>1, <1>2, MovesReleases

(* SETEX issues the token. *)
LEMMA SetExRefines ==
  ASSUME IInv, NEW p \in Proc, SetEx(p)
  PROVE  OneShot!Issue(call[p].jti)
  <1>. DEFINE j == call[p].jti
  <1>1. /\ call[p].at = "setex" /\ j \in Jti /\ call[p].uid \in Uid /\ ~Live(j)
        /\ refresh' = [refresh EXCEPT ![j] = call[p].uid]
        /\ UNCHANGED minted
        /\ Moves(p, "sadd", j, call[p].uid, call[p].jtis, call[p].todo)
    BY GotoMoves DEF IInv, TypeOK, Args, Fresh, SetEx
  <1>2. \A k \in Jti \ {j} : Unborn(k)' <=> Unborn(k)
    BY <1>1 DEF Moves, Unborn
  <1>3. Unborn(j)
    BY <1>1 DEF Unborn
  <1>4. Granted' = Granted
    BY <1>1 DEF Moves, Granted
  <1>5. TokenState[j] = "unissued" /\ TokenState' = [TokenState EXCEPT ![j] = "live"]
    BY <1>1, <1>2, <1>3 DEF IInv, TypeOK, TokenState, Live
  <1>. QED
    BY <1>4, <1>5 DEF OneShot!Issue

(* GETDEL accepts the token if its key is there. *)
LEMMA GetDelRefines ==
  ASSUME IInv, NEW p \in Proc, GetDel(p)
  PROVE  OneShot!Accept(p, call[p].jti) \/ UNCHANGED OneShot!vars
  <1>. DEFINE j == call[p].jti
  <1>1. /\ call[p].at = "getdel" /\ j \in acked /\ j \in Jti
        /\ refresh' = [refresh EXCEPT ![j] = None]
        /\ UNCHANGED minted
        /\ Moves(p, IF Live(j) THEN "srem" ELSE "none", j, refresh[j], call[p].jtis, call[p].todo)
    BY GetDelMoves DEF IInv, Args, TypeOK, GetDel
  <1>2. CASE Live(j)
    <2>1. \A k \in Jti : Unborn(k)' <=> Unborn(k)
      BY <1>1, <1>2 DEF Moves, Unborn
    <2>2. ~Unborn(j)
      BY <1>1 DEF IInv, Known, Args, Unborn
    <2>3. TokenState[j] = "live" /\ TokenState' = [TokenState EXCEPT ![j] = "spent"]
      BY <1>1, <1>2, <2>1, <2>2 DEF IInv, TypeOK, TokenState, Live
    <2>4. Granted[p] = None /\ Granted' = [Granted EXCEPT ![p] = j]
      BY <1>1, <1>2 DEF Moves, Granted
    <2>. QED
      BY <2>3, <2>4 DEF OneShot!Accept
  <1>3. CASE ~Live(j)
    <2>1. refresh' = refresh
      BY <1>1, <1>3 DEF IInv, TypeOK, Live
    <2>2. Granted'[p] = Granted[p]
      BY <1>1, <1>3 DEF Moves, Granted
    <2>3. (IF Live(j) THEN "srem" ELSE "none") # "setex"
      OBVIOUS
    <2>. QED
      BY <1>1, <2>1, <2>2, <2>3, MovesStutters
  <1>. QED
    BY <1>2, <1>3

(* DEL withdraws one token, live or not. *)
LEMMA DelRefreshRefines ==
  ASSUME IInv, NEW p \in Proc, DelRefresh(p)
  PROVE  \E j \in Jti : OneShot!Withdraw({j})
  <1>1. call[p].at = "del" /\ UNCHANGED minted
    BY DEF DelRefresh
  <1>2. PICK j \in Jti : Deletes(p, j)
    BY DelRefreshMoves DEF IInv
  <1>3. j \in minted /\ \A q \in Proc : call[q].at = "setex" => call[q].jti # j
    BY <1>2 DEF IInv, Args, Known, Fresh, Deletes
  <1>4. \A k \in Jti : Unborn(k)' <=> Unborn(k)
    BY <1>1, <1>2 DEF Deletes, Moves, Unborn
  <1>5. ~Unborn(j)
    BY <1>3 DEF Unborn
  <1>6. ~Live(j)' /\ \A k \in Jti \ {j} : refresh'[k] = refresh[k]
    BY <1>2 DEF Deletes, Live, IInv, TypeOK
  <1>7. Granted' = Granted
    BY <1>1, <1>2 DEF Deletes, Moves, Granted
  <1>. QED
    BY <1>4, <1>5, <1>6, <1>7, Withdraws

(* A failed call releases its token; a store that failed before SETEX never issues it. *)
LEMMA FailRefines ==
  ASSUME IInv, NEW p \in Proc, Fail(p)
  PROVE  OneShot!Release(p) \/ \E gone \in SUBSET Jti : OneShot!Withdraw(gone)
  <1>. DEFINE j == call[p].jti
  <1>1. /\ UNCHANGED <<refresh, minted>>
        /\ Moves(p, "err", None, None, {}, {})
    BY BeginMoves DEF IInv, Fail, redisVars, Ready, Returned
  <1>2. CASE call[p].at = "setex"
    <2>1. j \in Jti /\ j \in minted /\ ~Live(j) /\ Granted' = Granted
      BY <1>1, <1>2 DEF IInv, TypeOK, Args, Fresh, Moves, Granted
    <2>2. \A k \in Jti : k = j => ~Unborn(k)'
      BY <1>1, <1>2, <2>1 DEF IInv, Unique, Moves, Unborn
    <2>3. \A k \in Jti \ {j} : Unborn(k)' <=> Unborn(k)
      BY <1>1, <1>2 DEF Moves, Unborn
    <2>4. \A k \in {j} : ~Live(k)' /\ ~Unborn(k)'
      BY <1>1, <2>1, <2>2 DEF Live
    <2>5. \A k \in Jti \ {j} : refresh'[k] = refresh[k] /\ (Unborn(k)' <=> Unborn(k))
      BY <1>1, <2>3
    <2>6. {j} \in SUBSET Jti
      BY <2>1
    <2>7. OneShot!Withdraw({j})
      BY <2>1, <2>4, <2>5, <2>6, Withdraws
    <2>. QED
      BY <2>6, <2>7
  <1>3. CASE call[p].at # "setex"
    <2>1. \A k \in Jti : Unborn(k)' <=> Unborn(k)
      BY <1>1, <1>3 DEF Moves, Unborn
    <2>. QED
      BY <1>1, <2>1, MovesReleases
  <1>. QED
    BY <1>2, <1>3

(* Expiry withdraws tokens. *)
LEMMA TickRefines ==
  ASSUME IInv, Tick
  PROVE  \E gone \in SUBSET Jti : OneShot!Withdraw(gone)
  <1>. DEFINE gone == {j \in Jti : refreshTtl[j] = 1}
  <1>1. /\ \A j \in Jti : refresh'[j] = IF refreshTtl[j] = 1 THEN None ELSE refresh[j]
        /\ UNCHANGED <<minted, call>>
    BY DEF Tick
  <1>2. \A j \in gone : Live(j) /\ ~Unborn(j) /\ ~Live(j)'
    BY <1>1 DEF IInv, TypeOK, Known, Fresh, Unborn, Live
  <1>3. \A j \in Jti : Unborn(j)' <=> Unborn(j)
    BY <1>1 DEF Unborn
  <1>4. Granted' = Granted
    BY <1>1 DEF Granted
  <1>5. gone \in SUBSET Jti
    OBVIOUS
  <1>. HIDE DEF gone
  <1>6. \A j \in Jti \ gone : refresh'[j] = refresh[j]
    BY <1>1 DEF gone
  <1>. QED
    BY <1>2, <1>3, <1>4, <1>5, <1>6, Withdraws

(* Every step of the store is a step of OneShotTokens, or changes nothing there. *)
LEMMA NextRefines == IInv /\ [Next]_vars => [OneShot!Next]_(OneShot!vars)
  <1>. SUFFICES ASSUME IInv, [Next]_vars PROVE OneShot!Next \/ UNCHANGED OneShot!vars
    OBVIOUS
  <1>1. CASE UNCHANGED vars
    BY <1>1 DEF vars, redisVars, OneShot!vars, TokenState, Granted, Live, Unborn
  <1>2. CASE Tick
    BY <1>2, TickRefines DEF OneShot!Next
  <1>3. ASSUME NEW p \in Proc, Begin(p) PROVE OneShot!Release(p)
    <2>1. ASSUME NEW j \in Jti, BeginRevoke(p, j) PROVE OneShot!Release(p)
      <3>1. call[p].at \in Ready /\ UNCHANGED <<refresh, minted>> /\ Moves(p, "getdel", j, None, {}, {})
        BY <2>1, BeginMoves DEF IInv, BeginRevoke, redisVars
      <3>2. \A k \in Jti : Unborn(k)' <=> Unborn(k)
        BY <3>1 DEF Moves, Unborn
      <3>. QED
        BY <3>1, <3>2, MovesReleases
    <2>2. ASSUME NEW u \in Uid, BeginRevokeAll(p, u) PROVE OneShot!Release(p)
      <3>1. call[p].at \in Ready /\ UNCHANGED <<refresh, minted>> /\ Moves(p, "smembers", None, u, {}, {})
        BY <2>2, BeginMoves DEF IInv, BeginRevokeAll, redisVars
      <3>2. \A k \in Jti : Unborn(k)' <=> Unborn(k)
        BY <3>1 DEF Moves, Unborn
      <3>. QED
        BY <3>1, <3>2, MovesReleases
    <2>. QED
      BY <1>3, <2>1, <2>2, BeginStoreRefines DEF Begin
  <1>4. ASSUME NEW p \in Proc, Command(p) PROVE OneShot!Next \/ UNCHANGED OneShot!vars
    <2>. USE DEF IInv, redisVars
    <2>1. CASE SetEx(p)
      <3>1. call[p].jti \in Jti
        BY <2>1 DEF SetEx, TypeOK, Args
      <3>. QED
        BY <2>1, <3>1, SetExRefines DEF OneShot!Next
    <2>2. CASE SAdd(p)
      <3>1. call[p].at = "sadd" /\ UNCHANGED <<refresh, minted>>
            /\ Moves(p, "expire", call[p].jti, call[p].uid, call[p].jtis, call[p].todo)
        BY <2>2, GotoMoves DEF SAdd
      <3>. QED
        BY <3>1, MovesStutters DEF Moves, Granted
    <2>3. CASE ExpireIndex(p)
      <3>1. call[p].at = "expire" /\ UNCHANGED <<refresh, minted>>
            /\ Moves(p, "stored", call[p].jti, call[p].uid, call[p].jtis, call[p].todo)
        BY <2>3, GotoMoves DEF ExpireIndex
      <3>. QED
        BY <3>1, MovesStutters DEF Moves, Granted
    <2>4. CASE GetDel(p)
      <3>1. call[p].jti \in Jti
        BY <2>4 DEF GetDel, TypeOK, Args
      <3>. QED
        BY <2>4, <3>1, GetDelRefines DEF OneShot!Next
    <2>5. CASE SRem(p)
      <3>1. call[p].at = "srem" /\ UNCHANGED <<refresh, minted>>
            /\ Moves(p, "some", call[p].jti, call[p].uid, call[p].jtis, call[p].todo)
        BY <2>5, GotoMoves DEF SRem
      <3>. QED
        BY <3>1, MovesStutters DEF Moves, Granted
    <2>6. CASE SMembers(p)
      <3>. DEFINE found == sessions[call[p].uid]
                  step == IF found = {} THEN "revokedall" ELSE "del"
      <3>1. call[p].at = "smembers" /\ UNCHANGED <<refresh, minted>>
            /\ Moves(p, step, call[p].jti, call[p].uid, found, found)
        BY <2>6, SMembersMoves DEF SMembers, Args
      <3>2. step \notin {"setex", "srem", "some"}
        OBVIOUS
      <3>. HIDE DEF step, found
      <3>. QED
        BY <3>1, <3>2, MovesStutters DEF Moves, Granted
    <2>7. CASE DelRefresh(p)
      <3>1. PICK j \in Jti : OneShot!Withdraw({j})
        BY <2>7, DelRefreshRefines
      <3>. QED
        BY <3>1 DEF OneShot!Next
    <2>8. CASE DelIndex(p)
      <3>1. call[p].at = "delindex" /\ UNCHANGED <<refresh, minted>>
            /\ Moves(p, "revokedall", call[p].jti, call[p].uid, call[p].jtis, call[p].todo)
        BY <2>8, GotoMoves DEF DelIndex
      <3>. QED
        BY <3>1, MovesStutters DEF Moves, Granted
    <2>. QED
      BY <1>4, <2>1, <2>2, <2>3, <2>4, <2>5, <2>6, <2>7, <2>8 DEF Command
  <1>5. ASSUME NEW p \in Proc, Return(p) PROVE OneShot!Release(p)
    <2>1. call[p].at \in Returned /\ UNCHANGED <<refresh, minted>> /\ Moves(p, "idle", None, None, {}, {})
      BY <1>5, BeginMoves DEF IInv, Return, redisVars
    <2>2. \A k \in Jti : Unborn(k)' <=> Unborn(k)
      BY <2>1 DEF Moves, Unborn
    <2>. QED
      BY <2>1, <2>2, MovesReleases
  <1>6. ASSUME NEW p \in Proc, Fail(p) PROVE OneShot!Next
    BY <1>6, FailRefines DEF OneShot!Next
  <1>. QED
    BY <1>1, <1>2, <1>3, <1>4, <1>5, <1>6 DEF Next, OneShot!Next

(* Whatever is interleaved, lost or expired, a refresh token is accepted    *)
(* at most once, by one request, and never again once it is spent.          *)
THEOREM OneShotRefinement == Spec => OneShotTokensSpec
  <1>1. Init => OneShot!Init
    BY InitRefines
  <1>2. IInv /\ [Next]_vars => [OneShot!Next]_(OneShot!vars)
    BY NextRefines
  <1>. QED
    BY <1>1, <1>2, Invariance, PTL DEF Spec, OneShotTokensSpec, OneShot!Spec

(* A session runs out: nothing but time changes its key or its time to      *)
(* live, until it is deleted.  That is what the liveness property           *)
(* SessionsEnd needs besides a clock that runs.                            *)
SessionRunsOut ==
    [][\A j \in Jti : Live(j) =>
        \/ refresh'[j] = refresh[j] /\ refreshTtl'[j] = refreshTtl[j]
        \/ ~Live(j)' \/ Tick]_vars

(* No command of any request renews a live refresh token: each one moves   *)
(* towards its end by time alone, or is deleted.                           *)
THEOREM SessionsRunOut == Spec => SessionRunsOut
  <1>1. ASSUME IInv, [Next]_vars, NEW j \in Jti, Live(j)
        PROVE  \/ refresh'[j] = refresh[j] /\ refreshTtl'[j] = refreshTtl[j]
               \/ ~Live(j)' \/ Tick
    <2>. DEFINE Kept == refresh'[j] = refresh[j] /\ refreshTtl'[j] = refreshTtl[j]
    <2>. USE DEF redisVars, ghostVars
    <2>1. ASSUME NEW p \in Proc, SetEx(p)
          PROVE  Kept
      <3>1. call[p].jti # j
        BY <1>1, <2>1 DEF SetEx, IInv, Fresh
      <3>. QED
        BY <1>1, <2>1, <3>1 DEF SetEx, IInv, TypeOK
    <2>2. ASSUME NEW p \in Proc, GetDel(p) \/ DelRefresh(p)
          PROVE  Kept \/ ~Live(j)'
      BY <1>1, <2>2 DEF GetDel, DelRefresh, IInv, TypeOK, Live
    <2>3. ASSUME NEW p \in Proc, SAdd(p) \/ ExpireIndex(p) \/ SRem(p) \/ SMembers(p) \/ DelIndex(p)
          PROVE  Kept
      BY <2>3 DEF SAdd, ExpireIndex, SRem, SMembers, DelIndex
    <2>4. ASSUME NEW p \in Proc, Begin(p) \/ Return(p) \/ Fail(p)
          PROVE  Kept
      BY <2>4 DEF Begin, BeginStore, BeginRevoke, BeginRevokeAll, Return, Fail
    <2>5. CASE UNCHANGED vars
      BY <2>5 DEF vars
    <2>. QED
      BY <1>1, <2>1, <2>2, <2>3, <2>4, <2>5 DEF Next, Command
  <1>2. IInv /\ [Next]_vars =>
          [\A j \in Jti : Live(j) =>
              \/ refresh'[j] = refresh[j] /\ refreshTtl'[j] = refreshTtl[j]
              \/ ~Live(j)' \/ Tick]_vars
    BY <1>1
  <1>. QED
    BY <1>2, Invariance, PTL DEF Spec, SessionRunsOut
=============================================================================

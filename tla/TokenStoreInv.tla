---------------------------- MODULE TokenStoreInv ----------------------------
(***************************************************************************)
(* The inductive invariant of TokenStore.  The properties of the index are *)
(* not inductive: what they say after a command depends on what each call  *)
(* in flight still holds in its locals, and the conjuncts below say it.    *)
(* TLC checks the invariant on small sets, TokenStoreProofs proves it.     *)
(***************************************************************************)
EXTENDS TokenStore

(* What a call holds: a store works on a JTI nobody has been told of yet, a *)
(* revocation on one that was handed out.                                  *)
Args ==
    \A p \in Proc :
        /\ call[p].at \in StoreSteps => call[p].jti \in minted \ acked /\ call[p].uid \in Uid
        /\ call[p].at \in RevokeSteps \cup {"some"} =>
               call[p].jti \in acked /\ call[p].jtis = {}
        /\ call[p].at \in RevokeAllSteps \cup {"srem"} => call[p].uid \in Uid
        /\ call[p].todo \subseteq call[p].jtis

(* Every JTI that is anywhere was minted. *)
Known ==
    /\ acked \subseteq minted
    /\ \A j \in Jti : Live(j) => j \in minted
    /\ \A u \in Uid : sessions[u] \subseteq minted
    /\ \A p \in Proc : prior[p] \subseteq acked /\ call[p].jtis \subseteq minted

(* No two stores are for the same JTI. *)
Unique ==
    \A p, q \in Proc :
        call[p].at \in StoreSteps /\ call[q].at \in StoreSteps /\ call[p].jti = call[q].jti
            => p = q

(* Before its SETEX, a JTI is nowhere in Redis and in nobody's locals. *)
Fresh ==
    \A p \in Proc : call[p].at = "setex" =>
        /\ ~Live(call[p].jti)
        /\ \A u \in Uid : call[p].jti \notin sessions[u]
        /\ \A q \in Proc : call[p].jti \notin call[q].jtis

(* A store that is under way wrote the user it is for, and no other index.  *)
StoresOwn ==
    \A p \in Proc : call[p].at \in {"sadd", "expire"} =>
        /\ refresh[call[p].jti] \in {call[p].uid, None}
        /\ \A u \in Uid : call[p].jti \in sessions[u] => u = call[p].uid

(* What a revocation has deleted stays deleted. *)
Spent ==
    \A p \in Proc :
        /\ call[p].at \in {"srem", "some"} => ~Live(call[p].jti)
        /\ call[p].at = "del" => \A j \in call[p].jtis \ call[p].todo : ~Live(j)
        /\ call[p].at \in {"delindex", "revokedall"} => \A j \in call[p].jtis : ~Live(j)

(* The index holds the session of a store that is about to return, too.     *)
StoresIndexed ==
    \A p \in Proc :
        call[p].at = "expire" /\ Live(call[p].jti) /\ call[p].jti \notin orphaned
            => call[p].jti \in sessions[call[p].uid]

(* What "revoke all" has to end is in the index, then in its list.          *)
RevokesListed ==
    \A p \in Proc :
        /\ call[p].at = "smembers" => \A j \in prior[p] : refresh[j] \in {call[p].uid, None}
        /\ call[p].at \in {"del", "delindex"} =>
               \A j \in prior[p] \ orphaned : Live(j) => j \in call[p].jtis

IInv ==
    /\ TypeOK /\ Args /\ Known /\ Unique /\ Fresh
    /\ IndexIsByOwner /\ StoresOwn
    /\ Spent
    /\ IndexCoversSessions /\ IndexOutlivesSessions /\ StoresIndexed
    /\ RevokesListed /\ RevokeAllCoversIndexed
    /\ StoredIndexHasTtl
=============================================================================

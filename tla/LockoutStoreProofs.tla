------------------------- MODULE LockoutStoreProofs -------------------------
(* Proofs about LockoutStore, for every LOCKOUT_MAX, every window and any   *)
(* finite number of concurrent logins.                                     *)
EXTENDS LockoutStore, FiniteSetTheorems, TLAPS

USE ProcAssumption, MaxAssumption, WindowAssumption, MaxFaultsAssumption
USE DEF Unlocked, Steps, Done, Locked, LockedNext

(* Logins that may still add a failure. *)
Pending == {p \in Proc : login[p] \in {"verify", "incr"}}

(* Under a lock, every pending login has its place in the bound already. *)
Reserved == Locked => count + Cardinality(Pending) <= LOCKOUT_MAX - 1 + Cardinality(Proc)

(* Whoever is barred is so by a lock that holds now. *)
Barring == \A p \in barred : Locked /\ login[p] \notin Unlocked

(* The TTL runs down as the time since the last failure goes up. *)
Sliding == ttl > 0 => ttl + age = Window

IInv == TypeOK /\ Reserved /\ Barring /\ Sliding

-----------------------------------------------------------------------------

(* There are no more pending logins than logins. *)
LEMMA PendingFinite ==
  /\ IsFiniteSet(Pending)
  /\ Cardinality(Pending) \in Nat /\ Cardinality(Proc) \in Nat
  /\ Cardinality(Pending) <= Cardinality(Proc)
  <1>1. Pending \subseteq Proc
    BY DEF Pending
  <1>. QED
    BY <1>1, FS_Subset, FS_CardinalityType

(* A pending login that adds its failure is pending no more. *)
LEMMA PendingLess ==
  ASSUME login \in [Proc -> Steps \cup Done], NEW p \in Proc, login[p] = "incr", Goto(p, "expire")
  PROVE  /\ Cardinality(Pending') = Cardinality(Pending) - 1
         /\ Cardinality(Pending') <= Cardinality(Proc) - 1
  <1>1. Pending' = Pending \ {p} /\ p \in Pending
    BY DEF Goto, Pending
  <1>2. Cardinality(Pending') = Cardinality(Pending) - 1
    BY <1>1, PendingFinite, FS_RemoveElement
  <1>. QED
    BY <1>2, PendingFinite

(* Other steps add nobody to the pending logins. *)
LEMMA PendingShrinks ==
  ASSUME Pending' \subseteq Pending
  PROVE  Cardinality(Pending') \in Nat /\ Cardinality(Pending') <= Cardinality(Pending)
  BY PendingFinite, FS_Subset, FS_CardinalityType

-----------------------------------------------------------------------------

(* No counter, and nobody at work. *)
LEMMA InitIInv == Init => IInv
  BY DEF Init, IInv, TypeOK, Reserved, Barring, Sliding, NoExpiry

(* Every step keeps the invariant. *)
LEMMA NextIInv == IInv /\ [Next]_vars => IInv'
  <1>. SUFFICES ASSUME IInv, [Next]_vars PROVE IInv'
    OBVIOUS
  <1>0. TypeOK /\ Reserved /\ Barring /\ Sliding
    BY DEF IInv
  <1>1. TypeOK'
    <2>1. ASSUME NEW p \in Proc, Begin(p) \/ Step(p) \/ Return(p) \/ Fail(p) PROVE TypeOK'
      BY <1>0, <2>1 DEF TypeOK, NoExpiry, Begin, Step, Return, Fail, IsLocked, Verify, Incr,
         Expire, Clear, Goto, Bar
    <2>2. CASE Tick
      BY <1>0, <2>2 DEF TypeOK, NoExpiry, Tick, Bar
    <2>3. CASE UNCHANGED vars
      BY <1>0, <2>3 DEF TypeOK, vars
    <2>. QED
      BY <2>1, <2>2, <2>3 DEF Next
  <1>2. Reserved'
    <2>1. ASSUME NEW p \in Proc, Begin(p) \/ Verify(p) \/ Expire(p) \/ Return(p) \/ Fail(p)
          PROVE  Reserved'
      <3>1. count' = count /\ Pending' \subseteq Pending
        BY <1>0, <2>1 DEF TypeOK, Begin, Verify, Expire, Return, Fail, Goto, Pending
      <3>. QED
        BY <1>0, <3>1, PendingShrinks, PendingFinite DEF TypeOK, Reserved
    <2>2. ASSUME NEW p \in Proc, IsLocked(p) PROVE Reserved'
      <3>1. CASE Locked
        <4>1. count' = count /\ Pending' \subseteq Pending
          BY <1>0, <2>2, <3>1 DEF TypeOK, IsLocked, Goto, Pending
        <4>. QED
          BY <1>0, <4>1, PendingShrinks, PendingFinite DEF TypeOK, Reserved
      <3>2. CASE ~Locked
        BY <2>2, <3>2 DEF IsLocked, Reserved
      <3>. QED
        BY <3>1, <3>2
    <2>3. ASSUME NEW p \in Proc, Incr(p) PROVE Reserved'
      <3>1. count' = count + 1 /\ login[p] = "incr" /\ Goto(p, "expire")
        BY <2>3 DEF Incr
      <3>. QED
        BY <1>0, <3>1, PendingLess, PendingFinite DEF TypeOK, Reserved
    <2>4. ASSUME NEW p \in Proc, Clear(p) PROVE Reserved'
      BY <2>4 DEF Clear, Reserved
    <2>5. CASE Tick
      BY <1>0, <2>5 DEF Tick, Reserved, Pending
    <2>6. CASE UNCHANGED vars
      BY <1>0, <2>6 DEF vars, Reserved, Pending
    <2>. QED
      BY <2>1, <2>2, <2>3, <2>4, <2>5, <2>6 DEF Next, Step
  <1>3. Barring'
    <2>1. ASSUME NEW p \in Proc, Begin(p) \/ Step(p) \/ Return(p) \/ Fail(p) PROVE Barring'
      BY <1>0, <2>1 DEF TypeOK, Barring, Begin, Step, Return, Fail, IsLocked, Verify, Incr,
         Expire, Clear, Goto, Bar
    <2>2. CASE Tick
      BY <1>0, <2>2 DEF TypeOK, Barring, Tick, Bar
    <2>3. CASE UNCHANGED vars
      BY <1>0, <2>3 DEF Barring, vars
    <2>. QED
      BY <2>1, <2>2, <2>3 DEF Next
  <1>4. Sliding'
    <2>1. ASSUME NEW p \in Proc, Begin(p) \/ Step(p) \/ Return(p) \/ Fail(p) PROVE Sliding'
      BY <1>0, <2>1 DEF TypeOK, NoExpiry, Sliding, Begin, Step, Return, Fail, IsLocked, Verify,
         Incr, Expire, Clear
    <2>2. CASE Tick
      BY <1>0, <2>2 DEF TypeOK, NoExpiry, Sliding, Tick
    <2>3. CASE UNCHANGED vars
      BY <1>0, <2>3 DEF Sliding, vars
    <2>. QED
      BY <2>1, <2>2, <2>3 DEF Next
  <1>. QED
    BY <1>1, <1>2, <1>3, <1>4 DEF IInv

(* The strengthened invariant. *)
THEOREM Invariance == Spec => []IInv
  <1>1. Init => IInv
    BY InitIInv
  <1>2. IInv /\ [Next]_vars => IInv'
    BY NextIInv
  <1>. QED
    BY <1>1, <1>2, PTL DEF Spec

(* The types of the variables, for every number of requests, limit and      *)
(* window, and that the counter has a TTL exactly while it exists.          *)
THEOREM TypeCorrect == Spec => []TypeOK
  BY Invariance, PTL DEF IInv

(* However many logins run at once, the counter passes LOCKOUT_MAX - 1 by    *)
(* no more than their number.                                              *)
THEOREM BoundedCount == Spec => []CountBounded
  <1>1. IInv => CountBounded
    BY PendingFinite DEF IInv, TypeOK, Reserved, CountBounded
  <1>. QED
    BY <1>1, Invariance, PTL

(* No login that begins under a lock gets to the password while it holds.   *)
THEOREM HoldingLock == Spec => []LockHolds
  <1>1. IInv => LockHolds
    BY DEF IInv, Barring, LockHolds
  <1>. QED
    BY <1>1, Invariance, PTL

(* A lock is lifted by a whole window without a failure, or by a login that *)
(* was let in before it was placed.                                        *)
THEOREM LastingLock == Spec => LockLastsWindow
  <1>. DEFINE Lifted == Locked /\ ~LockedNext =>
                age = Window - 1 \/ \E p \in Proc : login[p] = "del" /\ p \notin barred
  <1>1. IInv /\ [Next]_vars => [Lifted]_vars
    <2>. SUFFICES ASSUME IInv, Next, Locked, ~LockedNext
                  PROVE  age = Window - 1 \/ \E p \in Proc : login[p] = "del" /\ p \notin barred
      OBVIOUS
    <2>1. count \in Nat /\ ttl \in {NoExpiry} \cup 0..Window /\ age \in 0..Window
      BY DEF IInv, TypeOK
    <2>2. ASSUME NEW p \in Proc, Begin(p) \/ Step(p) \/ Return(p) \/ Fail(p)
          PROVE  login[p] = "del" /\ p \notin barred
      <3>1. Clear(p)
        BY <2>1, <2>2 DEF Begin, Step, Return, Fail, IsLocked, Verify, Incr, Expire
      <3>. QED
        BY <3>1 DEF Clear, IInv, Barring
    <2>3. CASE Tick
      BY <2>1, <2>3 DEF Tick, IInv, Sliding, NoExpiry
    <2>. QED
      BY <2>2, <2>3 DEF Next
  <1>. QED
    BY <1>1, Invariance, PTL DEF Spec, LockLastsWindow
=============================================================================

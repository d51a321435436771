-------------------------- MODULE RateLimitProofs --------------------------
(* Proofs about RateLimit, for every maximum, window and set of requests. *)
EXTENDS RateLimit, TLAPS

USE MaxAssumption, WindowAssumption, MaxFaultsAssumption
USE DEF Steps, Done, NoExpiry

(* The admitted requests the counter has counted: it admits no more.        *)
Counted == IF count > RATE_LIMIT_MAX THEN RATE_LIMIT_MAX ELSE count

(* What the counter admitted, against what it counts.  While there is no    *)
(* counter at most one window is behind; the request that created the       *)
(* counter is not in yet while it has no TTL; and of a window that began    *)
(* Window - ttl ticks ago the counter has counted all that was admitted     *)
(* since, whatever the window before it let in.                             *)
AdmittedIsCounted ==
    /\ \A a \in 1..Window - 1 : recent[a - 1] <= recent[a]
    /\ count = 0 => recent[0] = 0 /\ recent[Window - 1] <= RATE_LIMIT_MAX
    /\ ttl = NoExpiry => /\ recent[0] < Counted
                         /\ recent[Window - 1] < RATE_LIMIT_MAX + Counted
    /\ ttl > 0 => /\ recent[Window - 1] <= RATE_LIMIT_MAX + Counted
                  /\ \A a \in 0..Window - 1 : a <= Window - ttl => recent[a] <= Counted

(* The types and the single window are inductive as they stand; the rate    *)
(* needs the account above.                                                 *)
IInv == TypeOK /\ WindowOpenedOnce

(* No counter, and nobody at work. *)
LEMMA InitIInv == Init => IInv
  BY DEF Init, IInv, TypeOK, WindowOpenedOnce

(* Every step keeps the invariant. *)
LEMMA NextIInv == IInv /\ [Next]_vars => IInv'
  <1>. SUFFICES ASSUME IInv, [Next]_vars PROVE IInv'
    OBVIOUS
  <1>1. TypeOK /\ WindowOpenedOnce
    BY DEF IInv
  <1>2. ASSUME NEW p \in Proc, Begin(p) \/ Return(p) PROVE IInv'
    BY <1>1, <1>2 DEF Begin, Return, Goto, IInv, TypeOK, WindowOpenedOnce
  <1>3. ASSUME NEW p \in Proc, Incr(p) PROVE IInv'
    <2>1. TypeOK'
      BY <1>1, <1>3 DEF Incr, AddOne, Incremented, Admit, Goto, TypeOK
    <2>2. CASE count = 0
      BY <1>1, <1>3, <2>1, <2>2
      DEF Incr, AddOne, Incremented, Admit, Goto, IInv, TypeOK, WindowOpenedOnce
    <2>3. CASE count # 0
      <3>1. UNCHANGED <<ttl, faults>> /\ \E step \in {"admitted", "refused"} : Goto(p, step)
        BY <1>1, <1>3, <2>3 DEF Incr, AddOne, Incremented, Admit, TypeOK
      <3>. QED
        BY <1>1, <1>3, <2>1, <3>1 DEF Incr, Goto, IInv, TypeOK, WindowOpenedOnce
    <2>. QED
      BY <2>2, <2>3
  <1>4. ASSUME NEW p \in Proc, Expire(p) PROVE IInv'
    BY <1>1, <1>4 DEF Expire, SetTtl, Admit, Goto, IInv, TypeOK, WindowOpenedOnce
  <1>5. ASSUME NEW p \in Proc, FailOpen(p) \/ HangUp(p) PROVE IInv'
    <2>1. /\ Unanswered(p)
          /\ \E step \in Done : Goto(p, step)
      BY <1>5 DEF FailOpen, HangUp
    <2>2. TypeOK'
      BY <1>1, <2>1 DEF Unanswered, AddOne, Incremented, SetTtl, Goto, TypeOK
    <2>3. CASE UNCHANGED <<count, ttl>>
      BY <1>1, <2>1, <2>2, <2>3 DEF Unanswered, Goto, IInv, TypeOK, WindowOpenedOnce
    <2>4. CASE request[p] = "incr" /\ AddOne
      BY <1>1, <2>1, <2>2, <2>4
      DEF Unanswered, AddOne, Incremented, Goto, IInv, TypeOK, WindowOpenedOnce
    <2>5. CASE request[p] = "expire" /\ SetTtl
      BY <1>1, <2>1, <2>2, <2>5 DEF Unanswered, SetTtl, Goto, IInv, TypeOK, WindowOpenedOnce
    <2>. QED
      BY <2>1, <2>3, <2>4, <2>5 DEF Unanswered
  <1>6. CASE Tick
    BY <1>1, <1>6 DEF Tick, IInv, TypeOK, WindowOpenedOnce
  <1>7. CASE UNCHANGED vars
    BY <1>1, <1>7 DEF vars, IInv, TypeOK, WindowOpenedOnce
  <1>. QED
    BY <1>2, <1>3, <1>4, <1>5, <1>6, <1>7 DEF Next, Step

(* The types, and: no two requests ever open the same window, no EXPIRE     *)
(* prolongs one, and a key without a TTL has its EXPIRE on the way unless a *)
(* call failed.                                                            *)
THEOREM Invariance == Spec => [](TypeOK /\ WindowOpenedOnce)
  <1>1. Init => IInv
    BY InitIInv
  <1>2. IInv /\ [Next]_vars => IInv'
    BY NextIInv
  <1>. QED
    BY <1>1, <1>2, PTL DEF Spec, IInv

(* The types of the variables, for every maximum and window, and that the   *)
(* counter has a TTL exactly while it exists.                              *)
THEOREM TypeCorrect == Spec => []TypeOK
  BY Invariance, PTL

(* Every step keeps the account. *)
LEMMA NextAdmitted == IInv /\ AdmittedIsCounted /\ [Next]_vars => AdmittedIsCounted'
  <1>. SUFFICES ASSUME IInv, AdmittedIsCounted, [Next]_vars PROVE AdmittedIsCounted'
    OBVIOUS
  <1>1. TypeOK /\ WindowOpenedOnce /\ TypeOK' /\ WindowOpenedOnce'
    BY NextIInv DEF IInv
  <1>2. ASSUME UNCHANGED <<count, ttl, recent>> PROVE AdmittedIsCounted'
    BY <1>2 DEF AdmittedIsCounted, Counted
  (* A hit that lets nobody in leaves the account below what it counts. *)
  <1>3. ASSUME AddOne, UNCHANGED recent PROVE AdmittedIsCounted'
    <2>1. CASE count = 0
      BY <1>1, <1>3, <2>1 DEF AddOne, Incremented, AdmittedIsCounted, Counted, TypeOK
    <2>2. CASE count # 0
      <3>1. ttl' = ttl /\ count' # 0 /\ Counted \in Nat /\ Counted' \in Nat /\ Counted <= Counted'
        BY <1>1, <1>3, <2>2 DEF AddOne, Incremented, Counted, TypeOK
      <3>. QED
        BY <1>1, <1>3, <2>2, <3>1 DEF AdmittedIsCounted, TypeOK
    <2>. QED
      BY <2>1, <2>2
  (* A TTL that starts now starts a window in which all are counted. *)
  <1>4. ASSUME ttl = NoExpiry, SetTtl,
               \/ UNCHANGED recent
               \/ recent' = [a \in 0..Window - 1 |-> recent[a] + 1]
        PROVE AdmittedIsCounted'
    <2>1. count # 0 /\ count' = count /\ ttl' = Window /\ Counted' = Counted /\ Counted \in Nat
      BY <1>1, <1>4 DEF SetTtl, Counted, TypeOK
    <2>2. \A a \in 0..Window - 1 : recent[a] \in Nat /\ recent'[a] \in Nat /\ recent'[a] <= recent[a] + 1
      BY <1>1, <1>4 DEF TypeOK
    <2>3. recent'[0] <= Counted /\ recent'[Window - 1] <= RATE_LIMIT_MAX + Counted
      BY <1>4, <2>1, <2>2 DEF AdmittedIsCounted
    <2>4. \A a \in 1..Window - 1 : recent'[a - 1] <= recent'[a]
      <3>. TAKE a \in 1..Window - 1
      <3>1. a - 1 \in 0..Window - 1 /\ a \in 0..Window - 1 /\ recent[a - 1] <= recent[a]
        BY DEF AdmittedIsCounted
      <3>. QED
        BY <1>4, <2>2, <3>1
    <2>. QED
      BY <2>1, <2>3, <2>4 DEF AdmittedIsCounted
  <1>5. ASSUME NEW p \in Proc, Begin(p) \/ Return(p) PROVE AdmittedIsCounted'
    BY <1>2, <1>5 DEF Begin, Return
  <1>6. ASSUME NEW p \in Proc, Incr(p) PROVE AdmittedIsCounted'
    <2>1. CASE UNCHANGED recent
      BY <1>3, <1>6, <2>1 DEF Incr
    <2>2. CASE Incremented \in 2..RATE_LIMIT_MAX /\ Admit(p)
      <3>1. /\ ttl' = ttl /\ count # 0 /\ count' # 0
            /\ Counted \in Nat /\ Counted' = Counted + 1
            /\ \A a \in 0..Window - 1 : recent[a] \in Nat /\ recent'[a] = recent[a] + 1
        BY <1>1, <1>6, <2>2 DEF Incr, AddOne, Incremented, Admit, Counted, TypeOK
      <3>2. \A a \in 1..Window - 1 : a - 1 \in 0..Window - 1 /\ a \in 0..Window - 1
        OBVIOUS
      <3>3. \A a \in 1..Window - 1 : recent'[a - 1] <= recent'[a]
        BY <3>1, <3>2 DEF AdmittedIsCounted
      <3>4. \A a \in 0..Window - 1 : recent[a] <= Counted => recent'[a] <= Counted'
        BY <3>1
      <3>5. 0 \in 0..Window - 1 /\ Window - 1 \in 0..Window - 1
        OBVIOUS
      <3>6. ttl = NoExpiry => /\ recent'[0] < Counted'
                              /\ recent'[Window - 1] < RATE_LIMIT_MAX + Counted'
        BY <3>1, <3>5 DEF AdmittedIsCounted
      <3>7. ttl > 0 => recent'[Window - 1] <= RATE_LIMIT_MAX + Counted'
        BY <3>1, <3>5 DEF AdmittedIsCounted
      <3>8. ttl > 0 => \A a \in 0..Window - 1 : a <= Window - ttl => recent'[a] <= Counted'
        BY <3>4 DEF AdmittedIsCounted
      <3>. QED
        BY <3>1, <3>3, <3>6, <3>7, <3>8 DEF AdmittedIsCounted
    <2>. QED
      BY <1>6, <2>1, <2>2 DEF Incr
  <1>7. ASSUME NEW p \in Proc, Expire(p) PROVE AdmittedIsCounted'
    BY <1>1, <1>4, <1>7 DEF Expire, Admit, WindowOpenedOnce
  <1>8. ASSUME NEW p \in Proc, Unanswered(p) PROVE AdmittedIsCounted'
    BY <1>1, <1>2, <1>3, <1>4, <1>8 DEF Unanswered, WindowOpenedOnce
  <1>9. CASE Tick
    <2>1. \A a \in 0..Window - 1 : recent'[a] = (IF a = 0 THEN 0 ELSE recent[a - 1])
      BY <1>9 DEF Tick
    <2>2. \A a \in 0..Window - 1 : recent'[a] <= recent[a]
      <3>. TAKE a \in 0..Window - 1
      <3>1. CASE a = 0
        BY <1>1, <2>1, <3>1 DEF TypeOK
      <3>2. CASE a \in 1..Window - 1
        BY <2>1, <3>2 DEF AdmittedIsCounted
      <3>. QED
        BY <3>1, <3>2
    <2>3. \A a \in 1..Window - 1 : recent'[a - 1] <= recent'[a]
      <3>. TAKE a \in 1..Window - 1
      <3>1. recent'[a - 1] <= recent[a - 1]
        BY <2>2
      <3>. QED
        BY <2>1, <3>1
    <2>4. \A a \in 0..Window - 1 : recent[a] \in Nat /\ recent'[a] \in Nat
      BY <1>1 DEF TypeOK
    <2>5. 0 \in 0..Window - 1 /\ Window - 1 \in 0..Window - 1 /\ recent'[0] = 0
      BY <2>1
    <2>6. CASE ttl > 1
      <3>1. ttl' = ttl - 1 /\ count' = count /\ count # 0 /\ Counted' = Counted /\ Counted \in Nat
        BY <1>1, <1>9, <2>6 DEF Tick, Counted, TypeOK
      <3>2. recent'[Window - 1] <= RATE_LIMIT_MAX + Counted
        <4>1. recent[Window - 1] <= RATE_LIMIT_MAX + Counted
          BY <1>1, <2>6 DEF AdmittedIsCounted, TypeOK
        <4>. QED
          BY <2>2, <2>4, <2>5, <3>1, <4>1
      <3>3. ASSUME NEW a \in 0..Window - 1, a <= Window - ttl' PROVE recent'[a] <= Counted
        <4>1. CASE a = 0
          BY <2>5, <3>1, <4>1
        <4>2. CASE a # 0
          <5>1. a - 1 \in 0..Window - 1 /\ a - 1 <= Window - ttl
            BY <1>1, <2>6, <3>1, <3>3, <4>2 DEF TypeOK
          <5>2. ttl > 0
            BY <1>1, <2>6 DEF TypeOK
          <5>3. recent[a - 1] <= Counted
            BY <5>1, <5>2 DEF AdmittedIsCounted
          <5>. QED
            BY <2>1, <4>2, <5>3
        <4>. QED
          BY <4>1, <4>2
      <3>. QED
        BY <1>1, <2>3, <2>6, <3>1, <3>2, <3>3 DEF AdmittedIsCounted, TypeOK
    (* The window ends: all it let in was counted. *)
    <2>7. CASE ttl = 1
      <3>1. ttl' = 0 /\ count' = 0 /\ Counted \in 0..RATE_LIMIT_MAX
        BY <1>1, <1>9, <2>7 DEF Tick, Counted, TypeOK
      <3>2. recent[Window - 1] <= Counted
        BY <2>5, <2>7 DEF AdmittedIsCounted
      <3>3. recent'[Window - 1] <= RATE_LIMIT_MAX
        BY <2>2, <2>4, <2>5, <3>1, <3>2
      <3>. QED
        BY <2>3, <2>5, <3>1, <3>3 DEF AdmittedIsCounted
    <2>8. CASE ttl \in {0, NoExpiry}
      <3>1. ttl' = ttl /\ count' = count /\ Counted' = Counted /\ Counted \in 0..RATE_LIMIT_MAX
        BY <1>1, <1>9, <2>8 DEF Tick, Counted, TypeOK
      <3>2. recent'[Window - 1] <= recent[Window - 1] /\ recent'[0] <= recent[0]
        BY <2>2, <2>5
      <3>. QED
        BY <2>3, <2>4, <2>5, <2>8, <3>1, <3>2 DEF AdmittedIsCounted
    <2>. QED
      BY <1>1, <2>6, <2>7, <2>8 DEF TypeOK
  <1>10. CASE UNCHANGED vars
    BY <1>2, <1>10 DEF vars
  <1>. QED
    BY <1>5, <1>6, <1>7, <1>8, <1>9, <1>10 DEF Next, Step, FailOpen, HangUp

(* In any stretch of Window ticks the counter lets in at most twice its     *)
(* maximum, for every maximum and window, however the INCRs and EXPIREs of  *)
(* concurrent requests fall and whichever of them fail.                     *)
THEOREM RateHolds == Spec => []RateBounded
  <1>1. Init => IInv /\ AdmittedIsCounted
    BY InitIInv DEF Init, AdmittedIsCounted, Counted
  <1>2. IInv /\ AdmittedIsCounted /\ [Next]_vars => IInv' /\ AdmittedIsCounted'
    BY NextIInv, NextAdmitted
  <1>3. IInv /\ AdmittedIsCounted => RateBounded
    BY DEF IInv, TypeOK, AdmittedIsCounted, Counted, RateBounded
  <1>. QED
    BY <1>1, <1>2, <1>3, PTL DEF Spec

(* A window that has its TTL runs out: nothing but time changes it, however *)
(* many requests come, are refused or fail meanwhile.  That is what the     *)
(* liveness property RefusalEndsInTime needs besides a clock that runs.     *)
WindowRunsOut == [][ttl > 0 => ttl' = ttl \/ Tick]_vars

(* Once EXPIRE has arrived, no INCR, no second EXPIRE and no failed call    *)
(* moves the end of the window.                                            *)
THEOREM WindowsRunOut == Spec => WindowRunsOut
  <1>1. ASSUME IInv, [Next]_vars, ttl > 0
        PROVE  ttl' = ttl \/ Tick
    <2>. USE DEF IInv
    <2>1. count # 0 /\ ttl # NoExpiry
      BY <1>1 DEF TypeOK, NoExpiry
    <2>2. ASSUME NEW p \in Proc, Incr(p) \/ Expire(p) \/ Unanswered(p)
          PROVE  ttl' = ttl
      BY <1>1, <2>1, <2>2 DEF Incr, Expire, Unanswered, AddOne, SetTtl, WindowOpenedOnce
    <2>3. ASSUME NEW p \in Proc, Begin(p) \/ Return(p)
          PROVE  ttl' = ttl
      BY <2>3 DEF Begin, Return
    <2>. QED
      BY <1>1, <2>2, <2>3 DEF Next, Step, FailOpen, HangUp, vars
  <1>2. TypeOK /\ WindowOpenedOnce /\ [Next]_vars => [ttl > 0 => ttl' = ttl \/ Tick]_vars
    BY <1>1 DEF IInv
  <1>. QED
    BY <1>2, Invariance, PTL DEF Spec, WindowRunsOut
=============================================================================

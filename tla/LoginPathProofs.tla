-------------------------- MODULE LoginPathProofs --------------------------
(***************************************************************************)
(* Proofs about LoginPath.  What is proved of RateLimit and LockoutStore   *)
(* alone holds of the login path, whose steps are steps of these two; and  *)
(* its answers are never staler than their requests.                       *)
(***************************************************************************)
EXTENDS LoginPath, TLAPS

(* Every step of a request in the login path is a step of the limiter or    *)
(* leaves it alone.                                                        *)
LEMMA LimiterStep == [Next]_vars => [RL!Next]_(RL!vars)
  <1>. SUFFICES ASSUME Next PROVE RL!Next \/ UNCHANGED limiterVars
    BY DEF vars, limiterVars, RL!vars
  <1>1. ASSUME NEW p \in Proc, Arrive(p) \/ Step(p) \/ CallFails(p) \/ HangUp(p)
        PROVE  RL!Next \/ UNCHANGED limiterVars
    BY <1>1 DEF Arrive, Step, Limit, Refuse, Reject, Validate, Verify, Count, Unauthorized, Store,
       CallFails, HangUp, RL!Next
  <1>2. CASE \E r \in Password \cup {None} : SetRow(r)
    BY <1>2 DEF SetRow
  <1>3. CASE Tick
    BY <1>3 DEF Tick, RL!Next
  <1>. QED
    BY <1>1, <1>2, <1>3 DEF Next

(* And of the lockout. *)
LEMMA LockoutStep == [Next]_vars => [LS!Next]_(LS!vars)
  <1>. SUFFICES ASSUME Next PROVE LS!Next \/ UNCHANGED lockoutVars
    BY DEF vars, lockoutVars, LS!vars
  <1>1. ASSUME NEW p \in Proc, Arrive(p) \/ Step(p) \/ CallFails(p) \/ HangUp(p)
        PROVE  LS!Next \/ UNCHANGED lockoutVars
    BY <1>1 DEF Arrive, Step, Limit, Refuse, Reject, Validate, Verify, Count, Unauthorized, Store,
       CallFails, HangUp, EndsHandler, LS!Next, LS!Step
  <1>2. CASE \E r \in Password \cup {None} : SetRow(r)
    BY <1>2 DEF SetRow
  <1>3. CASE Tick
    BY <1>3 DEF Tick, LS!Next
  <1>. QED
    BY <1>1, <1>2, <1>3 DEF Next

-----------------------------------------------------------------------------
(* What is proved of the limiter and of the lockout, for the login path.    *)
(* The modules of their proofs are instantiated the way LoginPath           *)
(* instantiates theirs, and their theorems are cited; the lemmas below say  *)
(* that both instances describe the same steps.                            *)

RLP == INSTANCE RateLimitProofs WITH
    Window <- RATE_LIMIT_WINDOW, count <- hits, ttl <- hitsTtl, faults <- limiterFaults
LSP == INSTANCE LockoutStoreProofs WITH
    Window <- LOCKOUT_WINDOW, count <- failures, ttl <- failuresTtl, faults <- lockoutFaults

(* The limiter of the login path is the one the proofs are about. *)
LEMMA SameLimiter == Spec => RLP!Spec
  <1>1. RL!Init => RLP!Init
    BY DEF RL!Init, RLP!Init
  <1>2. RL!Next => RLP!Next
    BY DEF RL!Next, RL!Begin, RL!Step, RL!Incr, RL!Expire, RL!FailOpen, RL!HangUp, RL!Return,
       RL!Tick, RL!Unanswered, RL!AddOne, RL!Incremented, RL!SetTtl, RL!Admit, RL!Goto,
       RL!Steps, RL!Done, RL!NoExpiry,
       RLP!Next, RLP!Begin, RLP!Step, RLP!Incr, RLP!Expire, RLP!FailOpen, RLP!HangUp, RLP!Return,
       RLP!Tick, RLP!Unanswered, RLP!AddOne, RLP!Incremented, RLP!SetTtl, RLP!Admit, RLP!Goto,
       RLP!Steps, RLP!Done, RLP!NoExpiry
  <1>3. [RL!Next]_(RL!vars) => [RLP!Next]_(RLP!vars)
    BY <1>2 DEF RL!vars, RLP!vars
  <1>4. Init => RL!Init
    BY DEF Init
  <1>. QED
    BY <1>1, <1>3, <1>4, LimiterStep, PTL DEF Spec, RLP!Spec

(* And so is its lockout. *)
LEMMA SameLockout == Spec => LSP!Spec
  <1>1. LS!Init => LSP!Init
    BY DEF LS!Init, LSP!Init
  <1>2. LS!Next => LSP!Next
    BY DEF LS!Next, LS!Begin, LS!Step, LS!IsLocked, LS!Verify, LS!Incr, LS!Expire, LS!Clear,
       LS!Return, LS!Fail, LS!Tick, LS!Goto, LS!Bar, LS!Locked, LS!LockedNext, LS!NoExpiry,
       LS!Steps, LS!Done, LS!Unlocked,
       LSP!Next, LSP!Begin, LSP!Step, LSP!IsLocked, LSP!Verify, LSP!Incr, LSP!Expire, LSP!Clear,
       LSP!Return, LSP!Fail, LSP!Tick, LSP!Goto, LSP!Bar, LSP!Locked, LSP!LockedNext,
       LSP!NoExpiry, LSP!Steps, LSP!Done, LSP!Unlocked
  <1>3. [LS!Next]_(LS!vars) => [LSP!Next]_(LSP!vars)
    BY <1>2 DEF LS!vars, LSP!vars
  <1>4. Init => LS!Init
    BY DEF Init
  <1>. QED
    BY <1>1, <1>3, <1>4, LockoutStep, PTL DEF Spec, LSP!Spec

(* At POST /login, too, each window is opened once and the counter admits   *)
(* at most twice its maximum in any stretch of a window.                   *)
THEOREM LimiterHolds == Spec => [](RL!TypeOK /\ RL!WindowOpenedOnce /\ RL!RateBounded)
  <1>1. RLP!Spec => [](RLP!TypeOK /\ RLP!WindowOpenedOnce)
    BY RLP!Invariance, LimitAssumption, WindowAssumption, MaxFaultsAssumption
  <1>2. RLP!Spec => []RLP!RateBounded
    BY RLP!RateHolds, LimitAssumption, WindowAssumption, MaxFaultsAssumption
  <1>3. RLP!TypeOK /\ RLP!WindowOpenedOnce /\ RLP!RateBounded
          => RL!TypeOK /\ RL!WindowOpenedOnce /\ RL!RateBounded
    BY DEF RL!TypeOK, RL!WindowOpenedOnce, RL!RateBounded, RL!Steps, RL!Done, RL!NoExpiry,
       RLP!TypeOK, RLP!WindowOpenedOnce, RLP!RateBounded, RLP!Steps, RLP!Done, RLP!NoExpiry
  <1>. QED
    BY <1>1, <1>2, <1>3, SameLimiter, PTL

(* At POST /login, too, the failures over the limit are no more than the    *)
(* logins in flight, a login that begins under a lock does not get to the  *)
(* password, and only a whole quiet window or a login admitted before lifts *)
(* a lock.                                                                 *)
THEOREM LockoutHolds ==
    Spec => [](LS!TypeOK /\ LS!CountBounded /\ LS!LockHolds) /\ LS!LockLastsWindow
  <1>. DEFINE Lifted == LS!Locked /\ ~LS!LockedNext =>
                age = LOCKOUT_WINDOW - 1 \/ \E p \in Proc : login[p] = "del" /\ p \notin barred
              LiftedThere == LSP!Locked /\ ~LSP!LockedNext =>
                age = LOCKOUT_WINDOW - 1 \/ \E p \in Proc : login[p] = "del" /\ p \notin barred
  <1>0. LSP!ProcAssumption
    BY ProcAssumption DEF LSP!ProcAssumption, IsFiniteSet, LSP!IsFiniteSet
  <1>. USE <1>0, LimitAssumption, WindowAssumption, MaxFaultsAssumption
  <1>1. LSP!Spec => []LSP!TypeOK
    BY LSP!TypeCorrect
  <1>2. LSP!Spec => []LSP!CountBounded
    BY LSP!BoundedCount
  <1>3. LSP!Spec => []LSP!LockHolds
    BY LSP!HoldingLock
  <1>4. LSP!Spec => LSP!LockLastsWindow
    BY LSP!LastingLock
  <1>5. LSP!TypeOK /\ LSP!CountBounded /\ LSP!LockHolds
          => LS!TypeOK /\ LS!CountBounded /\ LS!LockHolds
    BY DEF LS!TypeOK, LS!CountBounded, LS!LockHolds, LS!Steps, LS!Done, LS!Unlocked, LS!NoExpiry,
       LSP!TypeOK, LSP!CountBounded, LSP!LockHolds, LSP!Steps, LSP!Done, LSP!Unlocked,
       LSP!NoExpiry, LSP!Cardinality, LS!Cardinality
  <1>6. [LiftedThere]_(LSP!vars) => [Lifted]_(LS!vars)
    BY DEF LSP!vars, LS!vars, LSP!Locked, LS!Locked, LSP!LockedNext, LS!LockedNext
  <1>. QED
    BY <1>1, <1>2, <1>3, <1>4, <1>5, <1>6, SameLockout, PTL
    DEF LSP!LockLastsWindow, LS!LockLastsWindow

-----------------------------------------------------------------------------
(* An answer is not staler than its request.                               *)

(* What the handler of a request has found out was true while it ran: on    *)
(* its way to a refusal the password was wrong, the account gone or locked; *)
(* on its way to the tokens the password was right, and the lock was open.  *)
Grounded ==
    \A p \in Proc :
        /\ body[p] = None <=> login[p] = "idle"
        /\ login[p] = "verify" => "unlocked" \in facts[p]
        /\ login[p] \in {"del", "cleared"} => {"right", "unlocked"} \subseteq facts[p]
        /\ login[p] \in {"refused", "unknown", "incr", "expire", "recorded"}
                => "wrong" \in facts[p]

(* The types it needs. *)
Typed ==
    /\ login \in [Proc -> LS!Steps \cup LS!Done]
    /\ body \in [Proc -> Password \cup {None}]
    /\ DOMAIN answer = Proc
    /\ DOMAIN facts = Proc

IInv == Typed /\ Grounded

(* A request is not in the limiter and in the handler at once. *)
Apart ==
    /\ DOMAIN request = Proc
    /\ \A p \in Proc : request[p] = "idle" \/ login[p] = "idle"

USE DEF LS!Steps, LS!Done, LS!Unlocked

(* Nobody is in the handler. *)
LEMMA InitIInv == Init => IInv /\ Apart
  BY DEF Init, RL!Init, LS!Init, IInv, Typed, Grounded, Apart

(* What was true once is remembered until the answer. *)
LEMMA FactsKept ==
  ASSUME Observe, NEW p \in Proc, body'[p] # None
  PROVE  facts'[p] = facts[p] \cup Now(p)'
  BY DEF Observe

(* A step that leaves the place of each request in the handler. *)
LEMMA StandingStep ==
  ASSUME IInv, Observe, UNCHANGED <<login, body>>, DOMAIN answer' = Proc
  PROVE  IInv'
  BY FactsKept DEF IInv, Typed, Grounded, Observe

(* A step of p that moves it in the handler, on grounds that hold now. *)
LEMMA MovingStep ==
  ASSUME IInv, Observe, NEW p \in Proc, NEW step \in LS!Steps \cup LS!Done,
         UNCHANGED <<body, answer>>, LS!Goto(p, step), login[p] # "idle", step # "idle",
         step = "verify" => "unlocked" \in facts'[p],
         step \in {"del", "cleared"} => {"right", "unlocked"} \subseteq facts'[p],
         step \in {"refused", "unknown", "incr", "expire", "recorded"} => "wrong" \in facts'[p]
  PROVE  IInv'
  <1>1. Typed'
    BY DEF IInv, Typed, LS!Goto, Observe
  <1>2. ASSUME NEW q \in Proc \ {p}
        PROVE  login'[q] = login[q] /\ (login[q] # "idle" => facts[q] \subseteq facts'[q])
    BY FactsKept DEF IInv, Typed, Grounded, LS!Goto
  <1>3. login'[p] = step
    BY DEF IInv, Typed, LS!Goto
  <1>. QED
    BY <1>1, <1>2, <1>3 DEF IInv, Typed, Grounded

(* A step of p that answers it. *)
LEMMA AnsweringStep ==
  ASSUME IInv, Observe, NEW p \in Proc, NEW status, Reply(p, status),
         login' = [login EXCEPT ![p] = "idle"]
  PROVE  IInv'
  <1>1. Typed'
    BY DEF IInv, Typed, Reply, Observe
  <1>2. ASSUME NEW q \in Proc \ {p}
        PROVE  /\ login'[q] = login[q] /\ body'[q] = body[q]
               /\ login[q] # "idle" => facts[q] \subseteq facts'[q]
    BY FactsKept DEF IInv, Typed, Grounded, Reply
  <1>3. login'[p] = "idle" /\ body'[p] = None
    BY DEF IInv, Typed, Reply
  <1>. QED
    BY <1>1, <1>2, <1>3 DEF IInv, Typed, Grounded

(* A step of p that takes it into the handler. *)
LEMMA EnteringStep ==
  ASSUME IInv, Observe, NEW p \in Proc, NEW b \in Password,
         UNCHANGED answer, body' = [body EXCEPT ![p] = b], LS!Goto(p, "get")
  PROVE  IInv'
  <1>1. Typed'
    BY DEF IInv, Typed, LS!Goto, Observe
  <1>2. ASSUME NEW q \in Proc \ {p}
        PROVE  /\ login'[q] = login[q] /\ body'[q] = body[q]
               /\ login[q] # "idle" => facts[q] \subseteq facts'[q]
    BY FactsKept DEF IInv, Typed, Grounded, LS!Goto
  <1>3. login'[p] = "get" /\ body'[p] # None
    BY NotPasswords DEF IInv, Typed, LS!Goto
  <1>. QED
    BY <1>1, <1>2, <1>3 DEF IInv, Typed, Grounded

(* Only a request that is nowhere arrives, and only one that has left the   *)
(* limiter goes on to the handler.                                         *)
LEMMA ApartStep ==
  ASSUME IInv, Apart, Next
  PROVE  Apart'
  <1>1. ASSUME NEW p \in Proc, Arrive(p)
        PROVE  Apart'
    BY <1>1 DEF Arrive, InLimiter, InHandler, RL!Begin, RL!Goto, lockoutVars, IInv, Typed, Apart
  <1>2. ASSUME NEW p \in Proc, Limit(p)
        PROVE  Apart'
    <2>1. request[p] # "idle" /\ \E step : RL!Goto(p, step)
      BY <1>2 DEF Limit, RL!Step, RL!Incr, RL!Expire, RL!FailOpen, RL!Unanswered, RL!Admit, RL!Steps
    <2>. QED
      BY <1>2, <2>1 DEF Limit, RL!Goto, lockoutVars, Apart
  <1>3. ASSUME NEW p \in Proc, Refuse(p) \/ Reject(p)
        PROVE  Apart'
    BY <1>3 DEF Refuse, Reject, RL!Return, RL!Goto, lockoutVars, Apart
  <1>4. ASSUME NEW p \in Proc, NEW b, Validate(p, b)
        PROVE  Apart'
    <2>1. RL!Goto(p, "idle") /\ (UNCHANGED login \/ LS!Goto(p, "get"))
      BY <1>4 DEF Validate, RL!Return, LS!Begin, lockoutVars
    <2>. QED
      BY <2>1 DEF RL!Goto, LS!Goto, IInv, Typed, Apart
  <1>5. ASSUME NEW p \in Proc, Verify(p) \/ Count(p) \/ Unauthorized(p) \/ Store(p)
        PROVE  Apart'
    <2>1. login[p] # "idle" /\ UNCHANGED request /\ \E step : LS!Goto(p, step)
      BY <1>5 DEF Verify, Count, Unauthorized, Store, LS!Verify, LS!IsLocked, LS!Incr, LS!Expire,
         LS!Clear, LS!Return, limiterVars
    <2>. QED
      BY <2>1 DEF LS!Goto, IInv, Typed, Apart
  <1>6. ASSUME NEW p \in Proc, CallFails(p)
        PROVE  Apart'
    BY <1>6 DEF CallFails, EndsHandler, LS!Fail, LS!Return, LS!Goto, limiterVars, IInv, Typed, Apart
  <1>7. ASSUME NEW p \in Proc, HangUp(p)
        PROVE  Apart'
    <2>1. \/ RL!Goto(p, "idle") /\ UNCHANGED login
          \/ LS!Goto(p, "idle") /\ UNCHANGED request
      BY <1>7 DEF HangUp, RL!HangUp, RL!Return, EndsHandler, LS!Fail, LS!Return, limiterVars, lockoutVars
    <2>. QED
      BY <2>1 DEF RL!Goto, LS!Goto, IInv, Typed, Apart
  <1>8. CASE \E r \in Password \cup {None} : SetRow(r)
    BY <1>8 DEF SetRow, limiterVars, lockoutVars, Apart
  <1>9. CASE Tick
    BY <1>9 DEF Tick, RL!Tick, LS!Tick, Apart
  <1>. QED
    BY <1>1, <1>2, <1>3, <1>4, <1>5, <1>6, <1>7, <1>8, <1>9 DEF Next, Step

(* And each step of the program has its grounds. *)
LEMMA NextIInv ==
  ASSUME IInv, Apart, Next
  PROVE  IInv'
  <1>. Observe
    BY DEF Next
  <1>1. ASSUME NEW p \in Proc, Arrive(p) \/ Limit(p)
        PROVE  IInv'
    <2>1. UNCHANGED <<login, body>> /\ DOMAIN answer' = Proc
      BY <1>1 DEF Arrive, Limit, lockoutVars, IInv, Typed
    <2>. QED
      BY <2>1, StandingStep
  <1>2. ASSUME NEW p \in Proc, Refuse(p) \/ Reject(p)
        PROVE  IInv'
    <2>1. login' = [login EXCEPT ![p] = "idle"]
      BY <1>2 DEF Refuse, Reject, lockoutVars, IInv, Typed, Apart
    <2>. QED
      BY <1>2, <2>1, AnsweringStep DEF Refuse, Reject
  <1>3. ASSUME NEW p \in Proc, NEW b \in Password \cup {Invalid}, Validate(p, b)
        PROVE  IInv'
    <2>1. CASE Fails(p, "Validation") /\ UNCHANGED lockoutVars
      <3>1. login' = [login EXCEPT ![p] = "idle"]
        BY <1>3, <2>1 DEF Validate, lockoutVars, IInv, Typed, Apart
      <3>. QED
        BY <2>1, <3>1, AnsweringStep DEF Fails
    <2>2. CASE b \in Password /\ LS!Begin(p) /\ body' = [body EXCEPT ![p] = b] /\ UNCHANGED answer
      BY <2>2, EnteringStep DEF LS!Begin
    <2>. QED
      BY <1>3, <2>1, <2>2 DEF Validate
  <1>4. ASSUME NEW p \in Proc, Verify(p)
        PROVE  IInv'
    <2>1. /\ login[p] = "verify" /\ body[p] # None /\ UNCHANGED <<row, body, answer, failures>>
          /\ facts'[p] = facts[p] \cup Now(p)' /\ "unlocked" \in facts[p]
      BY <1>4, FactsKept DEF Verify, LS!Verify, IInv, Typed, Grounded
    <2>2. ASSUME NEW step, LS!Goto(p, step)
          PROVE  login'[p] = step
      BY <2>2 DEF LS!Goto, IInv, Typed
    <2>3. CASE row = body[p] /\ LS!Goto(p, "del")
      <3>1. "right" \in facts'[p]
        BY <2>1, <2>2, <2>3 DEF Now
      <3>. QED
        BY <2>1, <2>3, <3>1, MovingStep
    <2>4. ASSUME NEW step \in {"incr", "unknown"}, row # body[p], LS!Goto(p, step)
          PROVE  IInv'
      <3>1. "wrong" \in facts'[p]
        BY <2>1, <2>2, <2>4 DEF Now
      <3>. QED
        BY <2>1, <2>4, <3>1, MovingStep
    <2>. QED
      BY <1>4, <2>1, <2>2, <2>3, <2>4 DEF Verify, LS!Verify
  <1>5. ASSUME NEW p \in Proc, Count(p)
        PROVE  IInv'
    <2>1. UNCHANGED <<row, body, answer>>
      BY <1>5 DEF Count
    <2>2. CASE LS!IsLocked(p)
      <3>1. login[p] = "get" /\ body'[p] # None /\ UNCHANGED failures
        BY <2>1, <2>2 DEF LS!IsLocked, IInv, Grounded
      <3>2. /\ facts'[p] = facts[p] \cup Now(p)' /\ LS!Locked' = LS!Locked
            /\ login'[p] # "cleared"
        BY <2>2, <3>1, FactsKept DEF LS!Locked, LS!IsLocked, LS!Goto, IInv, Typed
      <3>3. CASE LS!Locked /\ LS!Goto(p, "refused")
        <4>1. "wrong" \in facts'[p]
          BY <3>2, <3>3 DEF Now
        <4>. QED
          BY <2>1, <3>1, <3>3, <4>1, MovingStep
      <3>4. CASE ~LS!Locked /\ LS!Goto(p, "verify")
        <4>1. "unlocked" \in facts'[p]
          BY <3>2, <3>4 DEF Now
        <4>. QED
          BY <2>1, <3>1, <3>4, <4>1, MovingStep
      <3>. QED
        BY <2>2, <3>3, <3>4 DEF LS!IsLocked
    <2>3. CASE LS!Incr(p) \/ LS!Expire(p) \/ LS!Clear(p)
      <3>1. PICK step \in {"expire", "recorded", "cleared"} :
              /\ LS!Goto(p, step)
              /\ login[p] = IF step = "expire" THEN "incr" ELSE
                            IF step = "recorded" THEN "expire" ELSE "del"
        BY <2>3 DEF LS!Incr, LS!Expire, LS!Clear
      <3>2. body'[p] # None /\ facts[p] \subseteq facts'[p]
        BY <2>1, <3>1, FactsKept DEF IInv, Grounded
      <3>. QED
        BY <2>1, <3>1, <3>2, MovingStep DEF IInv, Grounded
    <2>. QED
      BY <1>5, <2>2, <2>3 DEF Count
  <1>6. ASSUME NEW p \in Proc, Unauthorized(p) \/ Store(p) \/ CallFails(p)
        PROVE  IInv'
    <2>1. login' = [login EXCEPT ![p] = "idle"] /\ \E status : Reply(p, status)
      BY <1>6 DEF Unauthorized, Store, CallFails, EndsHandler, LS!Fail, LS!Return, LS!Goto, Fails
    <2>. QED
      BY <2>1, AnsweringStep
  <1>7. ASSUME NEW p \in Proc, HangUp(p)
        PROVE  IInv'
    <2>1. CASE (RL!HangUp(p) \/ request[p] \in {"admitted", "open"}) /\ UNCHANGED lockoutVars
      <3>1. login[p] = "idle"
        BY <2>1 DEF RL!HangUp, RL!Unanswered, RL!Steps, Apart
      <3>2. login' = [login EXCEPT ![p] = "idle"]
        BY <2>1, <3>1 DEF lockoutVars, IInv, Typed
      <3>. QED
        BY <1>7, <3>2, AnsweringStep DEF HangUp
    <2>2. CASE EndsHandler(p)
      BY <1>7, <2>2, AnsweringStep DEF HangUp, EndsHandler, LS!Fail, LS!Return, LS!Goto
    <2>. QED
      BY <1>7, <2>1, <2>2 DEF HangUp
  <1>8. CASE (\E r \in Password \cup {None} : SetRow(r)) \/ Tick
    <2>1. UNCHANGED <<login, body, answer>>
      BY <1>8 DEF SetRow, Tick, LS!Tick, lockoutVars
    <2>. QED
      BY <2>1, StandingStep DEF IInv, Typed
  <1>. QED
    BY <1>1, <1>2, <1>3, <1>4, <1>5, <1>6, <1>7, <1>8 DEF Next, Step

(* In every reachable state each request in the handler is where it is on   *)
(* grounds that held since it came there.                                  *)
THEOREM Invariance == Spec => [](IInv /\ Apart)
  <1>1. IInv /\ Apart /\ [Next]_vars => (IInv /\ Apart)'
    <2>1. ASSUME IInv, Apart, UNCHANGED vars
          PROVE  (IInv /\ Apart)'
      BY <2>1 DEF vars, limiterVars, lockoutVars, IInv, Typed, Grounded, Apart
    <2>. QED
      BY <2>1, NextIInv, ApartStep
  <1>. QED
    BY <1>1, InitIInv, PTL DEF Spec

-----------------------------------------------------------------------------
(* The types of what the login path adds to the limiter and the lockout.    *)
Status == {None, OK, TOO_MANY_REQUESTS, Dropped, 401, 422, 500} \cup JsonRejection
OwnTypes ==
    /\ row \in Password \cup {None}
    /\ answer \in [Proc -> Status]
    /\ facts \in [Proc -> SUBSET {"right", "wrong", "unlocked"}]

(* Every answer has a status that the limiter, the extractor or the handler gives. *)
LEMMA NextOwnTypes ==
  ASSUME OwnTypes, IInv, Next
  PROVE  OwnTypes'
  <1>. Observe
    BY DEF Next
  <1>. USE DEF StatusCode, OK, TOO_MANY_REQUESTS, Dropped, JsonRejection, Status
  <1>1. facts' \in [Proc -> SUBSET {"right", "wrong", "unlocked"}]
    BY DEF Observe, Now, OwnTypes
  <1>2. ASSUME NEW p \in Proc, NEW status \in Status, Reply(p, status)
        PROVE  answer' \in [Proc -> Status]
    BY <1>2 DEF Reply, OwnTypes
  <1>3. ASSUME NEW p \in Proc, Arrive(p) \/ Step(p) \/ CallFails(p) \/ HangUp(p)
        PROVE  answer' \in [Proc -> Status] /\ row' = row
    <2>1. UNCHANGED answer \/ answer' = [answer EXCEPT ![p] = None] \/ \E status \in Status : Reply(p, status)
      BY <1>3 DEF Arrive, Step, Limit, Refuse, Reject, Validate, Verify, Count, Unauthorized, Store,
         CallFails, HangUp, Fails, DataErrorStatus, DomainErrorStatus
    <2>2. row' = row
      BY <1>3 DEF Arrive, Step, Limit, Refuse, Reject, Validate, Verify, Count, Unauthorized, Store,
         CallFails, HangUp
    <2>. QED
      BY <1>2, <2>1, <2>2 DEF OwnTypes
  <1>. QED
    BY <1>1, <1>3 DEF Next, SetRow, Tick, OwnTypes

(* The types of the variables, for every set of requests and passwords and  *)
(* all limits, and: a request has a body exactly while it is in the handler *)
(* and is not in the limiter at the same time.                             *)
THEOREM TypeCorrect == Spec => []TypeOK
  <1>1. Init => OwnTypes
    BY DEF Init, OwnTypes, Status
  <1>2. OwnTypes /\ IInv /\ [Next]_vars => OwnTypes'
    BY NextOwnTypes DEF vars, OwnTypes
  <1>3. RL!TypeOK /\ LS!TypeOK /\ OwnTypes /\ IInv /\ Apart => TypeOK
    BY DEF TypeOK, OwnTypes, Status, IInv, Typed, Grounded, Apart, InLimiter, InHandler
  <1>. QED
    BY <1>1, <1>2, <1>3, Invariance, LimiterHolds, LockoutHolds, PTL DEF Spec

-----------------------------------------------------------------------------
(* A request gets 200 or 401 only where its grounds are those of the answer. *)
LEMMA AnswersAreCurrent ==
  ASSUME IInv, Next, NEW p \in Proc, answer'[p] # answer[p]
  PROVE  /\ answer'[p] = OK => {"right", "unlocked"} \subseteq facts[p]
         /\ answer'[p] = StatusCode["Unauthorized"] => "wrong" \in facts[p]
  <1>. USE DEF StatusCode, OK, TOO_MANY_REQUESTS, Dropped
  <1>1. PICK q \in Proc : Arrive(q) \/ Step(q) \/ CallFails(q) \/ HangUp(q)
    BY DEF Next, SetRow, Tick
  <1>2. ASSUME NEW status, answer' = [answer EXCEPT ![q] = status]
        PROVE  q = p /\ answer'[p] = status
    BY <1>2 DEF IInv, Typed
  <1>3. CASE Arrive(q)
    BY <1>2, <1>3, NoStatus DEF Arrive
  <1>4. CASE Refuse(q) \/ Reject(q)
    BY <1>2, <1>4 DEF Refuse, Reject, JsonRejection, Reply
  <1>5. CASE \E b \in Password \cup {Invalid} : Validate(q, b)
    BY <1>2, <1>5 DEF Validate, Fails, Reply
  <1>6. CASE Unauthorized(q)
    BY <1>2, <1>6 DEF Unauthorized, Fails, Reply, IInv, Grounded
  <1>7. CASE Store(q)
    BY <1>2, <1>7 DEF Store, Reply, IInv, Grounded
  <1>8. CASE CallFails(q)
    BY <1>2, <1>8 DEF CallFails, Fails, Reply, DataErrorStatus, DomainErrorStatus
  <1>9. CASE HangUp(q)
    BY <1>2, <1>9 DEF HangUp, Reply
  <1>. QED
    BY <1>1, <1>3, <1>4, <1>5, <1>6, <1>7, <1>8, <1>9 DEF Step, Limit, Verify, Count

(* No answer is staler than its request. *)
THEOREM CurrentAnswers == Spec => AnswerIsCurrent
  <1>1. IInv /\ [Next]_vars => [\A p \in Proc : answer'[p] # answer[p] =>
          /\ answer'[p] = OK => {"right", "unlocked"} \subseteq facts[p]
          /\ answer'[p] = StatusCode["Unauthorized"] => "wrong" \in facts[p]]_vars
    BY AnswersAreCurrent
  <1>. QED
    BY <1>1, Invariance, PTL DEF Spec, AnswerIsCurrent
=============================================================================

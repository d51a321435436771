------------------------------ MODULE RateLimit ------------------------------
(***************************************************************************)
(* The per-address rate limiter, src/src/middleware/mod.rs: rate_limit and *)
(* check_rate_limit.                                                       *)
(*                                                                         *)
(* Redis keeps one counter per route and client address, rl:{route}:{ip};  *)
(* one such key is modelled.  A request adds one with INCR; the request    *)
(* that created the key (INCR answered 1) then gives it a TTL with EXPIRE. *)
(* Requests over RATE_LIMIT_MAX are refused.  When Redis cannot be reached *)
(* the request is let through: the limiter "fails open".                   *)
(*                                                                         *)
(* The code tells two things from the counter, whether it is 1 and whether *)
(* it is over the maximum, so the counter stops at RATE_LIMIT_MAX + 1 here and no     *)
(* behaviour is lost by it.                                                *)
(***************************************************************************)
EXTENDS Integers

CONSTANTS
    Proc,       \* requests in flight for the key
    RATE_LIMIT_MAX,
    Window,     \* RATE_LIMIT_WINDOW_SECS, in clock ticks
    MaxFaults   \* bound: how many calls fail in a run

ASSUME MaxAssumption == RATE_LIMIT_MAX \in Nat \ {0}
ASSUME WindowAssumption == Window \in Nat \ {0}
ASSUME MaxFaultsAssumption == MaxFaults \in Nat

VARIABLES
    count,     \* rl:{route}:{ip}, 0 if no such key; RATE_LIMIT_MAX + 1 stands for more, too
    ttl,       \* its remaining time to live, 0 if no such key
    request,   \* where each request is in the limiter
    faults     \* calls that failed so far

(* What the properties speak about and the program does not keep: how many  *)
(* requests the counter admitted in this tick and the a before it.          *)
VARIABLE recent

vars == <<count, ttl, request, faults, recent>>

-----------------------------------------------------------------------------

NoExpiry == -1    \* what Redis answers for a key without a TTL

Steps == {"incr", "expire"}
Done  == {"idle", "admitted", "refused", "open"}

Goto(p, step) == request' = [request EXCEPT ![p] = step]

(* The request is passed on to its handler. *)
Admit(p) ==
    /\ Goto(p, "admitted")
    /\ recent' = [a \in 0..Window - 1 |-> recent[a] + 1]

Init ==
    /\ count = 0
    /\ ttl = 0
    /\ request = [p \in Proc |-> "idle"]
    /\ faults = 0
    /\ recent = [a \in 0..Window - 1 |-> 0]

-----------------------------------------------------------------------------

Begin(p) ==
    /\ request[p] \in Done
    /\ Goto(p, "incr")
    /\ UNCHANGED <<count, ttl, faults, recent>>

(* The counter after INCR.  A key that INCR creates has no TTL. *)
Incremented == IF count > RATE_LIMIT_MAX THEN count ELSE count + 1
AddOne ==
    /\ count' = Incremented
    /\ ttl' = IF count = 0 THEN NoExpiry ELSE ttl

(* Seeded faults: EXPIRE on every admitted hit; a TTL renewed by every hit;  *)
(* one request more than the maximum.                                      *)
IncrAndExpire(p) ==
    /\ request[p] = "incr"
    /\ AddOne
    /\ Goto(p, IF Incremented > RATE_LIMIT_MAX THEN "refused" ELSE "expire")
    /\ UNCHANGED <<faults, recent>>

IncrRenewing(p) ==
    /\ request[p] = "incr"
    /\ count' = Incremented
    /\ ttl' = Window
    /\ \/ Incremented <= RATE_LIMIT_MAX /\ Admit(p)
       \/ Incremented > RATE_LIMIT_MAX /\ Goto(p, "refused") /\ UNCHANGED recent
    /\ UNCHANGED faults

IncrRefusingLate(p) ==
    /\ request[p] = "incr"
    /\ AddOne
    /\ \/ count = 0 /\ Goto(p, "expire") /\ UNCHANGED recent
       \/ count \in 1..RATE_LIMIT_MAX /\ Admit(p)
       \/ count > RATE_LIMIT_MAX /\ Goto(p, "refused") /\ UNCHANGED recent
    /\ UNCHANGED faults

(* INCR rl:{route}:{ip}, and what its answer decides. *)
Incr(p) ==
    /\ request[p] = "incr"
    /\ AddOne
    /\ \/ Incremented = 1 /\ Goto(p, "expire") /\ UNCHANGED recent
       \/ Incremented \in 2..RATE_LIMIT_MAX /\ Admit(p)
       \/ Incremented > RATE_LIMIT_MAX /\ Goto(p, "refused") /\ UNCHANGED recent
    /\ UNCHANGED faults

(* Seeded fault: the window is passed in another unit. *)
ExpireInMinutes(p) ==
    /\ request[p] = "expire"
    /\ ttl' = IF count = 0 THEN 0 ELSE 60 * Window
    /\ Admit(p)
    /\ UNCHANGED <<count, faults>>

(* EXPIRE rl:{route}:{ip}.  Nothing happens if the key is gone. *)
SetTtl ==
    /\ ttl' = IF count = 0 THEN 0 ELSE Window
    /\ UNCHANGED count

(* The first request of a window is not over the maximum. *)
Expire(p) ==
    /\ request[p] = "expire"
    /\ SetTtl
    /\ Admit(p)
    /\ UNCHANGED faults

(* A command whose answer does not come: Redis has run it, or not. *)
Unanswered(p) ==
    /\ faults < MaxFaults
    /\ faults' = faults + 1
    /\ \/ request[p] \in Steps /\ UNCHANGED <<count, ttl>>
       \/ request[p] = "incr" /\ AddOne
       \/ request[p] = "expire" /\ SetTtl
    /\ UNCHANGED recent

(* A Redis call fails: the request is let through. *)
FailOpen(p) ==
    /\ Unanswered(p)
    /\ Goto(p, "open")

(* The client hangs up and the request is dropped while it awaits Redis. *)
HangUp(p) ==
    /\ Unanswered(p)
    /\ Goto(p, "idle")

(* The request leaves the limiter, for its handler or with its refusal. *)
Return(p) ==
    /\ request[p] \in Done \ {"idle"}
    /\ Goto(p, "idle")
    /\ UNCHANGED <<count, ttl, faults, recent>>

(* Time passes; Redis drops the counter when its TTL has run out. *)
Tick ==
    /\ ttl' = IF ttl > 0 THEN ttl - 1 ELSE ttl
    /\ count' = IF ttl = 1 THEN 0 ELSE count
    /\ recent' = [a \in 0..Window - 1 |-> IF a = 0 THEN 0 ELSE recent[a - 1]]
    /\ UNCHANGED <<request, faults>>

-----------------------------------------------------------------------------

Step(p) == Incr(p) \/ Expire(p)

Next ==
    \/ \E p \in Proc : Begin(p) \/ Step(p) \/ FailOpen(p) \/ HangUp(p) \/ Return(p)
    \/ Tick

Spec == Init /\ [][Next]_vars

(* A request in flight goes on and the clock runs; nobody has to call.      *)
FairSpec == Spec /\ (\A p \in Proc : WF_vars(Step(p))) /\ WF_vars(Tick)

-----------------------------------------------------------------------------

(* The types of the variables; the counter has a TTL exactly while it exists. *)
TypeOK ==
    /\ count \in 0..RATE_LIMIT_MAX + 1
    /\ ttl \in {NoExpiry} \cup 0..Window
    /\ request \in [Proc -> Steps \cup Done]
    /\ faults \in 0..MaxFaults
    /\ recent \in [0..Window - 1 -> Nat]
    /\ ttl = 0 <=> count = 0

(* Each window is opened once.  A request about to send EXPIRE is the only  *)
(* one, and the key it sends it for is the one it created, still without a *)
(* TTL: a late EXPIRE never prolongs somebody else's window.  And a key has *)
(* no TTL only while that request is there, or because it failed.           *)
WindowOpenedOnce ==
    /\ \A p, q \in Proc : request[p] = "expire" /\ request[q] = "expire" => p = q
    /\ \A p \in Proc : request[p] = "expire" => ttl = NoExpiry
    /\ ttl = NoExpiry => faults > 0 \/ \E p \in Proc : request[p] = "expire"

(* The rate that is really enforced.  The window is fixed, so the end of    *)
(* one and the start of the next may both be spent: in any stretch of       *)
(* RATE_LIMIT_WINDOW_SECS the counter admits up to twice RATE_LIMIT_MAX     *)
(* requests, and however the INCRs of concurrent requests fall, never more. *)
RateBounded == recent[Window - 1] <= 2 * RATE_LIMIT_MAX

(* A refusal does not last: a window that has its TTL ends, whatever fails  *)
(* and even if the address never stops trying, and then it is let in again. *)
RefusalEndsInTime == count > RATE_LIMIT_MAX /\ ttl > 0 ~> count <= RATE_LIMIT_MAX

(* The promise of the doc of rate_limit, "Allows [RATE_LIMIT_MAX] requests   *)
(* per [RATE_LIMIT_WINDOW_SECS] seconds": every refusal ends.               *)
RefusalEnds == count > RATE_LIMIT_MAX ~> count <= RATE_LIMIT_MAX
=============================================================================

----------------------------- MODULE LoginPath -----------------------------
(***************************************************************************)
(* POST /login from the socket to its answer, as the production router     *)
(* puts it together (src/src/lib.rs, build_production_router): the rate    *)
(* limiter, which is module RateLimit, runs around the handler; axum's     *)
(* Json extractor reads the body and rejects one it cannot parse; the      *)
(* handler validates it, asks the lockout, which is module LockoutStore,   *)
(* looks the account up, and records a failure or clears the counter; then *)
(* it signs and stores the tokens.  Whatever fails in the handler becomes  *)
(* a status of the answer (ApiError).                                      *)
(*                                                                         *)
(* One address, one email and the account that has it.  Meanwhile the      *)
(* other handlers, which are module AuthService, set its password, delete  *)
(* it and register it again.  What the store does with the tokens is       *)
(* there, too: here it succeeds or fails.                                  *)
(***************************************************************************)
EXTENDS Integers, FiniteSets

CONSTANTS
    Proc,               \* requests in flight
    Password,           \* passwords
    Invalid,            \* a body that parses and does not validate
    None,               \* no account, no body, no answer
    RATE_LIMIT_MAX, RATE_LIMIT_WINDOW,
    LOCKOUT_MAX, LOCKOUT_WINDOW,
    MaxFaults           \* bound: how many calls fail, in the limiter and the lockout each

ASSUME NotPasswords == None \notin Password /\ Invalid \notin Password
ASSUME NoStatus == None \notin Nat
ASSUME ProcAssumption == IsFiniteSet(Proc)
ASSUME LimitAssumption == RATE_LIMIT_MAX \in Nat \ {0} /\ LOCKOUT_MAX \in Nat \ {0}
ASSUME WindowAssumption == RATE_LIMIT_WINDOW \in Nat \ {0} /\ LOCKOUT_WINDOW \in Nat \ {0}
ASSUME MaxFaultsAssumption == MaxFaults \in Nat

(* Those of RateLimit.                                                     *)
VARIABLES hits, hitsTtl, request, limiterFaults, recent
(* Those of LockoutStore.                                                  *)
VARIABLES failures, failuresTtl, login, lockoutFaults, barred, age

VARIABLES
    row,      \* the password of the account that has the email, None if there is none
    body,     \* the password each request in the handler was sent with
    answer    \* the status of its answer, once it has one

(* What the properties speak about and the program does not keep.          *)
VARIABLE
    facts     \* what was true of a request at some instant since its handler began

RL == INSTANCE RateLimit WITH
    Window <- RATE_LIMIT_WINDOW, count <- hits, ttl <- hitsTtl, faults <- limiterFaults
LS == INSTANCE LockoutStore WITH
    Window <- LOCKOUT_WINDOW, count <- failures, ttl <- failuresTtl, faults <- lockoutFaults

limiterVars == <<hits, hitsTtl, request, limiterFaults, recent>>
lockoutVars == <<failures, failuresTtl, login, lockoutFaults, barred, age>>
vars == <<limiterVars, lockoutVars, row, body, answer, facts>>

-----------------------------------------------------------------------------
(* Errors, and the status each becomes.                                    *)

DataErrorStatus == [Cache |-> "Internal", Database |-> "Internal", NotFound |-> "Internal",
                    EmailConflict |-> "Conflict"]

DomainErrorStatus == [InvalidToken |-> "Unauthorized", WrongTokenKind |-> "Unauthorized",
                      Hashing |-> "Internal"]

StatusCode == [BadRequest |-> 400, Conflict |-> 409, Unauthorized |-> 401,
               Validation |-> 422, Internal |-> 500]

OK == 200
TOO_MANY_REQUESTS == 429
Dropped == 0   \* the client hung up and gets no answer

(* What axum's Json extractor answers instead of calling the handler: bad   *)
(* syntax or a body that breaks off, one that is too large, one that is not *)
(* declared as JSON, one with missing or wrong fields.                     *)
JsonRejection == {400, 413, 415, 422}

-----------------------------------------------------------------------------

(* A request is in the limiter, then in the handler, then answered. *)
InLimiter(p) == request[p] # "idle"
InHandler(p) == login[p] # "idle"

Reply(p, status) ==
    /\ body' = [body EXCEPT ![p] = None]
    /\ answer' = [answer EXCEPT ![p] = status]

Fails(p, error) == Reply(p, StatusCode[error])

(* What is true of request p at this instant, until it has cleared the      *)
(* counter itself.                                                         *)
Now(p) ==
    {f \in {"right", "wrong", "unlocked"} :
        /\ login[p] # "cleared"
        /\ \/ f = "right" /\ row = body[p]
           \/ f = "wrong" /\ (row # body[p] \/ LS!Locked)
           \/ f = "unlocked" /\ ~LS!Locked}

Observe == facts' = [p \in Proc |-> IF body'[p] = None THEN {} ELSE facts[p] \cup Now(p)']

Init ==
    /\ RL!Init
    /\ LS!Init
    /\ row = None
    /\ body = [p \in Proc |-> None]
    /\ answer = [p \in Proc |-> None]
    /\ facts = [p \in Proc |-> {}]

-----------------------------------------------------------------------------
(* The limiter.                                                            *)

Arrive(p) ==
    /\ ~InLimiter(p) /\ ~InHandler(p)
    /\ RL!Begin(p)
    /\ answer' = [answer EXCEPT ![p] = None]
    /\ UNCHANGED <<lockoutVars, row, body>>

(* Seeded fault: a refused request goes on to the handler, too. *)
RefuseAndRun(p) ==
    /\ request[p] = "refused"
    /\ RL!Return(p)
    /\ LS!Begin(p)
    /\ Reply(p, TOO_MANY_REQUESTS)
    /\ UNCHANGED row

(* check_rate_limit, and what becomes of an error. *)
Limit(p) ==
    /\ RL!Step(p) \/ RL!FailOpen(p)
    /\ UNCHANGED <<lockoutVars, row, body, answer>>

Refuse(p) ==
    /\ request[p] = "refused"
    /\ RL!Return(p)
    /\ Reply(p, TOO_MANY_REQUESTS)
    /\ UNCHANGED <<lockoutVars, row>>

-----------------------------------------------------------------------------
(* The handler.                                                            *)

(* Json(body): the body is read here, behind the limiter, and does not      *)
(* parse.  The handler is not called.                                      *)
Reject(p) ==
    /\ request[p] \in {"admitted", "open"}
    /\ RL!Return(p)
    /\ \E status \in JsonRejection : Reply(p, status)
    /\ UNCHANGED <<lockoutVars, row>>

(* The body parses, and is validated. *)
Validate(p, b) ==
    /\ request[p] \in {"admitted", "open"}
    /\ RL!Return(p)
    /\ \/ b = Invalid /\ Fails(p, "Validation") /\ UNCHANGED lockoutVars
       \/ /\ b # Invalid
          /\ LS!Begin(p)
          /\ body' = [body EXCEPT ![p] = b]
          /\ UNCHANGED answer
    /\ UNCHANGED row

(* find_by_email, and verify on the row it read. *)
Verify(p) ==
    /\ LS!Verify(p)
    /\ \/ row = None /\ login'[p] = "unknown"
       \/ row \notin {None, body[p]} /\ login'[p] = "incr"
       \/ row = body[p] /\ login'[p] = "del"
    /\ UNCHANGED <<limiterVars, row, body, answer>>

(* is_locked, record_failure and clear. *)
Count(p) ==
    /\ LS!IsLocked(p) \/ LS!Incr(p) \/ LS!Expire(p) \/ LS!Clear(p)
    /\ UNCHANGED <<limiterVars, row, body, answer>>

Unauthorized(p) ==
    /\ login[p] \in {"refused", "recorded", "unknown"}
    /\ LS!Return(p)
    /\ Fails(p, "Unauthorized")
    /\ UNCHANGED <<limiterVars, row>>

(* Both tokens are signed and the refresh token is stored. *)
Store(p) ==
    /\ login[p] = "cleared"
    /\ LS!Return(p)
    /\ Reply(p, OK)
    /\ UNCHANGED <<limiterVars, row>>

-----------------------------------------------------------------------------
(* Failures.  The limiter fails open (Limit); the handler needs Postgres    *)
(* and Redis and fails closed.                                             *)

(* Besides a call that fails: the answer to the last command of             *)
(* record_failure or clear may be lost, and the handler has come to the     *)
(* token store, which may fail, when it has cleared the counter.            *)
EndsHandler(p) == LS!Fail(p) \/ (login[p] \in {"recorded", "cleared"} /\ LS!Return(p))

CallFails(p) ==
    /\ EndsHandler(p)
    /\ \E error \in {DataErrorStatus["Cache"], DataErrorStatus["Database"],
                     DomainErrorStatus["Hashing"]} : Fails(p, error)
    /\ UNCHANGED <<limiterVars, row>>

(* The client hangs up: in the limiter, while its body is read, or in the   *)
(* handler.                                                                *)
HangUp(p) ==
    /\ \/ RL!HangUp(p) /\ UNCHANGED lockoutVars
       \/ request[p] \in {"admitted", "open"} /\ RL!Return(p) /\ UNCHANGED lockoutVars
       \/ EndsHandler(p) /\ UNCHANGED limiterVars
    /\ Reply(p, Dropped)
    /\ UNCHANGED row

(* A registration, a change or a reset of the password, a deletion. *)
SetRow(r) ==
    /\ r # row
    /\ row' = r
    /\ UNCHANGED <<limiterVars, lockoutVars, body, answer>>

Tick ==
    /\ RL!Tick
    /\ LS!Tick
    /\ UNCHANGED <<row, body, answer>>

-----------------------------------------------------------------------------

Step(p) ==
    \/ Limit(p) \/ Refuse(p) \/ Reject(p)
    \/ \E b \in Password \cup {Invalid} : Validate(p, b)
    \/ Verify(p) \/ Count(p) \/ Unauthorized(p) \/ Store(p)

Next ==
    /\ \/ \E p \in Proc : Arrive(p) \/ Step(p) \/ CallFails(p) \/ HangUp(p)
       \/ \E r \in Password \cup {None} : SetRow(r)
       \/ Tick
    /\ Observe

Spec == Init /\ [][Next]_vars

(* A request in flight goes on and the clock runs; nobody has to log in.    *)
FairSpec == Spec /\ (\A p \in Proc : WF_vars(Step(p) /\ Observe)) /\ WF_vars(Tick /\ Observe)

-----------------------------------------------------------------------------

(* The types of the variables; a request has a body exactly while it is in  *)
(* the handler, and it is never in the limiter, too.                       *)
TypeOK ==
    /\ RL!TypeOK
    /\ LS!TypeOK
    /\ row \in Password \cup {None}
    /\ body \in [Proc -> Password \cup {None}]
    /\ answer \in [Proc -> {None, OK, TOO_MANY_REQUESTS, Dropped, 401, 422, 500} \cup JsonRejection]
    /\ facts \in [Proc -> SUBSET {"right", "wrong", "unlocked"}]
    /\ \A p \in Proc : body[p] # None <=> InHandler(p)
    /\ \A p \in Proc : ~(InLimiter(p) /\ InHandler(p))

(* An answer is not staler than its request.  Whatever other requests,      *)
(* resets and deletions run meanwhile: 200 means that after the handler of  *)
(* this request began, and before it cleared the counter itself, there was  *)
(* an instant at which the account had the password it was sent with, and   *)
(* one at which it was not locked; 401 that it had another password, was    *)
(* locked, or was gone.                                                    *)
AnswerIsCurrent ==
    [][\A p \in Proc : answer'[p] # answer[p] =>
        /\ answer'[p] = OK => {"right", "unlocked"} \subseteq facts[p]
        /\ answer'[p] = StatusCode["Unauthorized"] => "wrong" \in facts[p]]_vars

(* Neither counter is left without a TTL over its limit (runs               *)
(* rate_limit_fault and lockout say when it is); who comes, comes with the  *)
(* right password in a body that parses and validates; the handler's calls  *)
(* do not fail and nobody hangs up.                                        *)
Quiet ==
    /\ ~(hits > RATE_LIMIT_MAX /\ hitsTtl = RL!NoExpiry)
    /\ ~(LS!Locked /\ failuresTtl = LS!NoExpiry)
    /\ \A p \in Proc : body[p] \in {row, None} /\ answer[p] \in {None, OK, TOO_MANY_REQUESTS, 401}

(* Limiter, lockout and handler together let the owner of an account in     *)
(* again: whatever has happened before, once only the right password comes, *)
(* the waiting ends, although every try is counted by the limiter and      *)
(* those under a lock are refused.                                         *)
OwnerGetsIn ==
    <>[]Quiet /\ []<>(\E p \in Proc : InLimiter(p)) => []<>(\E p \in Proc : answer[p] = OK)
=============================================================================

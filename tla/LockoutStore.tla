---------------------------- MODULE LockoutStore ----------------------------
(***************************************************************************)
(* The login lockout: src/src/data/lockout_store.rs and the part of login  *)
(* (src/src/routes/mod.rs) that calls it.                                  *)
(*                                                                         *)
(* Redis keeps one counter per email, lockout:{email}; keys of different   *)
(* emails never meet, so one email is modelled.  A login reads the counter *)
(* (is_locked), verifies the password, and then either adds one to the     *)
(* counter and renews its TTL (record_failure) or deletes it (clear).      *)
(* Between any two of these commands the request awaits, and other logins  *)
(* for the same email, and the clock, may run: the read is stale when the  *)
(* password is verified, and INCR and EXPIRE are two commands.             *)
(***************************************************************************)
EXTENDS Integers, FiniteSets

CONSTANTS
    Proc,       \* login requests in flight, for the email
    LOCKOUT_MAX,
    Window,     \* LOCKOUT_WINDOW_SECS, in clock ticks
    MaxFaults   \* bound: how many calls fail in a run

ASSUME ProcAssumption == IsFiniteSet(Proc)
ASSUME MaxAssumption == LOCKOUT_MAX \in Nat \ {0}
ASSUME WindowAssumption == Window \in Nat \ {0}
ASSUME MaxFaultsAssumption == MaxFaults \in Nat

VARIABLES
    count,    \* lockout:{email}, 0 if no such key
    ttl,      \* its remaining time to live, 0 if no such key
    login,    \* where each request is
    faults    \* calls that failed so far

(* What the properties speak about and the program does not keep.          *)
VARIABLES
    barred,   \* requests that began under a lock that has held ever since
    age       \* ticks since record_failure last ran to its end, up to Window

vars == <<count, ttl, login, faults, barred, age>>

-----------------------------------------------------------------------------

NoExpiry == -1    \* what Redis answers for a key without a TTL

(* Requests that were told "not locked" and have not touched the counter.   *)
Unlocked == {"verify", "incr", "del"}
Steps    == {"get", "expire"} \cup Unlocked
Done     == {"idle", "refused", "recorded", "cleared", "unknown"}

Locked == count >= LOCKOUT_MAX
LockedNext == count' >= LOCKOUT_MAX

Goto(p, step) == login' = [login EXCEPT ![p] = step]

(* A lock that is lifted frees the requests that began under it. *)
Bar(began) == barred' = IF LockedNext THEN barred \cup began ELSE {}

Init ==
    /\ count = 0
    /\ ttl = 0
    /\ login = [p \in Proc |-> "idle"]
    /\ faults = 0
    /\ barred = {}
    /\ age = Window

-----------------------------------------------------------------------------
(* login, up to the point where tokens are signed.                         *)

Begin(p) ==
    /\ login[p] \in Done
    /\ Goto(p, "get")
    /\ barred' = IF Locked THEN barred \cup {p} ELSE barred \ {p}
    /\ UNCHANGED <<count, ttl, faults, age>>

(* Seeded faults: > in place of >=; a refused try renews the lock. *)
IsLockedLate(p) ==
    /\ login[p] = "get"
    /\ Goto(p, IF count > LOCKOUT_MAX THEN "refused" ELSE "verify")
    /\ UNCHANGED <<count, ttl, faults, barred, age>>

IsLockedRenewing(p) ==
    /\ login[p] = "get"
    /\ Goto(p, IF Locked THEN "refused" ELSE "verify")
    /\ ttl' = IF Locked THEN Window ELSE ttl
    /\ UNCHANGED <<count, faults, barred, age>>

(* is_locked: GET lockout:{email}. *)
IsLocked(p) ==
    /\ login[p] = "get"
    /\ Goto(p, IF Locked THEN "refused" ELSE "verify")
    /\ UNCHANGED <<count, ttl, faults, barred, age>>

(* find_by_email and verify.  A login for an email nobody has is refused    *)
(* and not counted.                                                        *)
Verify(p) ==
    /\ login[p] = "verify"
    /\ \E outcome \in {"incr", "del", "unknown"} : Goto(p, outcome)
    /\ UNCHANGED <<count, ttl, faults, barred, age>>

(* record_failure, first command: INCR lockout:{email}.  A key that INCR    *)
(* creates has no TTL.                                                     *)
Incr(p) ==
    /\ login[p] = "incr"
    /\ count' = count + 1
    /\ ttl' = IF count = 0 THEN NoExpiry ELSE ttl
    /\ Goto(p, "expire")
    /\ UNCHANGED <<faults, barred, age>>

(* Seeded fault: only the first failure sets the TTL, as in the rate limiter. *)
ExpireOnFirst(p) ==
    /\ login[p] = "expire"
    /\ ttl' = IF count = 1 THEN Window ELSE ttl
    /\ age' = 0
    /\ Goto(p, "recorded")
    /\ UNCHANGED <<count, faults, barred>>

(* record_failure, second command: EXPIRE lockout:{email}.  Nothing happens *)
(* if the key is gone.                                                     *)
Expire(p) ==
    /\ login[p] = "expire"
    /\ ttl' = IF count = 0 THEN 0 ELSE Window
    /\ age' = 0
    /\ Goto(p, "recorded")
    /\ UNCHANGED <<count, faults, barred>>

(* Seeded fault: the counter is set to zero, not deleted. *)
SetToZero(p) ==
    /\ login[p] = "del"
    /\ count' = 0
    /\ ttl' = NoExpiry
    /\ Goto(p, "cleared")
    /\ Bar({})
    /\ UNCHANGED <<faults, age>>

(* clear: DEL lockout:{email}; the login goes on to sign its tokens. *)
Clear(p) ==
    /\ login[p] = "del"
    /\ count' = 0
    /\ ttl' = 0
    /\ Goto(p, "cleared")
    /\ Bar({})
    /\ UNCHANGED <<faults, age>>

(* The request is done with the counter, and goes on to its answer. *)
Return(p) ==
    /\ login[p] \in Done \ {"idle"}
    /\ Goto(p, "idle")
    /\ UNCHANGED <<count, ttl, faults, barred, age>>

(* A Redis or Postgres call fails, or the client hangs up and the request   *)
(* is dropped: what was done stays, the rest is not.                       *)
Fail(p) ==
    /\ faults < MaxFaults
    /\ login[p] \in Steps
    /\ faults' = faults + 1
    /\ Goto(p, "idle")
    /\ UNCHANGED <<count, ttl, barred, age>>

(* Time passes; Redis drops the counter when its TTL has run out. *)
Tick ==
    /\ ttl' = IF ttl > 0 THEN ttl - 1 ELSE ttl
    /\ count' = IF ttl = 1 THEN 0 ELSE count
    /\ age' = IF age < Window THEN age + 1 ELSE age
    /\ Bar({})
    /\ UNCHANGED <<login, faults>>

-----------------------------------------------------------------------------

Step(p) == IsLocked(p) \/ Verify(p) \/ Incr(p) \/ Expire(p) \/ Clear(p)

Next ==
    \/ \E p \in Proc : Begin(p) \/ Step(p) \/ Return(p) \/ Fail(p)
    \/ Tick

Spec == Init /\ [][Next]_vars

(* A request in flight goes on and the clock runs; nobody has to log in.    *)
FairSpec == Spec /\ (\A p \in Proc : WF_vars(Step(p))) /\ WF_vars(Tick)

-----------------------------------------------------------------------------

(* The types of the variables; the counter has a TTL exactly while it exists. *)
TypeOK ==
    /\ count \in Nat
    /\ ttl \in {NoExpiry} \cup 0..Window
    /\ login \in [Proc -> Steps \cup Done]
    /\ faults \in 0..MaxFaults
    /\ barred \in SUBSET Proc
    /\ age \in 0..Window
    /\ ttl = 0 <=> count = 0

(* The lock is not exact, and this is by how much.  Logins that read the    *)
(* counter before it reached LOCKOUT_MAX may all fail after it did; none    *)
(* that reads it later adds to it.  So an email is locked after at most     *)
(* LOCKOUT_MAX - 1 failures plus one for every request in flight.           *)
CountBounded == count <= LOCKOUT_MAX - 1 + Cardinality(Proc)

(* A login that begins under a lock, and is still in flight under it, never *)
(* gets to the password: not even the right one.                           *)
LockHolds == \A p \in barred : login[p] \notin Unlocked

(* The lock slides with the last failure: unless a login that was let in    *)
(* before it was placed succeeds and clears it, it is lifted by nothing but *)
(* a whole window without a recorded failure.                              *)
LockLastsWindow ==
    [][Locked /\ ~LockedNext =>
        age = Window - 1 \/ \E p \in Proc : login[p] = "del" /\ p \notin barred]_vars

(* When fewer calls fail than it takes to lock an email, every lock is      *)
(* lifted some day, even if the user keeps trying.  (With LOCKOUT_MAX        *)
(* failures, each between its INCR and its EXPIRE, the key has no TTL.)     *)
LockIsLifted == Locked ~> ~Locked
=============================================================================

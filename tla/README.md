# Verification of rustauth

rustauth is a small authentication service: REST handlers over two stores, Postgres (accounts and
password-reset tokens) and Redis (refresh tokens, login lockout, rate limits). Each handler is an
async function that awaits one store after the other. No handler opens a transaction, none takes a
lock, and the two stores know nothing of each other. What can go wrong is therefore not in a single
function but between its awaits: other requests run there, keys expire there, calls fail there, and
a client that hangs up makes the rest of the handler disappear. The modules here model that level:
**one action per Redis command and per SQL statement**.

## Inventory

| Part | Source | State | Operations |
|---|---|---|---|
| `TokenStore` | `src/src/data/token_store.rs` | `refresh:{jti}` -> user, with TTL; `sessions:{user}`, a set of JTIs, with TTL | store (SETEX, SADD, EXPIRE in one pipeline), revoke (GETDEL, then SREM), revoke all (SMEMBERS, then a pipeline of DELs) |
| `LockoutStore` | `src/src/data/lockout_store.rs` | `lockout:{email}`, a counter with a sliding TTL | is_locked (GET), record_failure (INCR, EXPIRE), clear (DEL) |
| Rate limiter | `src/src/middleware/mod.rs` | `rl:{route}:{ip}`, a counter with a fixed TTL | check (INCR, and EXPIRE if it answered 1); fails open |
| `UserRepository` | `src/src/data/user_repository.rs`, migration 0001 | `users`, email unique | INSERT, two SELECTs, UPDATE of the password, DELETE |
| `ResetTokenRepository` | `src/src/data/reset_token_repository.rs`, migration 0002 | `password_reset_tokens`, cascading with users | INSERT, consume (one conditional UPDATE) |
| Handlers | `src/src/routes/mod.rs` | none of their own but locals held across awaits | register, login, refresh, logout, revoke-all, change password, delete account, reset request, reset confirm; me, health |
| `JwtManager`, `AuthUser` | `src/src/domain/jwt.rs`, `src/src/middleware/mod.rs` | signing keys, constant | sign, verify |
| Validation | `src/src/routes/mod.rs` | none | `validate` of each body |
| `PasswordService` | `src/src/domain/password.rs` | none | hash, verify |
| gRPC `VerifyToken` | `src/src/services/mod.rs` | none | verify an access token |
| Email client | `src/src/email.rs` | none | send one mail |
| Bootstrap, routers | `src/src/main.rs`, `src/src/lib.rs` | none | wiring; only `/login`, `/register` and `/password-reset/request` are rate limited |

How they interact: a request to a rate-limited route passes the limiter, then its handler runs. The
handlers call the repositories and stores as plain async calls; the only shared state is in Postgres
and Redis. Refresh tokens are checked by signature and then against Redis; access tokens by signature
alone, so revoking sessions or deleting the account does not touch them.

What is hard to test, and is therefore what the properties are about:

* **the session index** - two keys that must agree (a token and its user's set) without a
  transaction, with TTLs of their own, under concurrent stores, revocations and failures;
* **one-shot credentials** - a refresh or reset token presented twice at once;
* **rotation** - the old token is consumed before the new one is stored, and anything may happen in
  between;
* **stale reads** - the lock is read before the password is verified, the password verified before it
  is replaced;
* **INCR, then EXPIRE** - counters that live without a TTL between two commands, or for ever;
* **two clocks** - `exp` in a signed token, the TTL of its key in Redis; access tokens know only the first;
* **parts that each behave** - limiter, lockout and handler answer one request together, and what one of them
  refuses the others still count; mails that are lost between two stores that agree;
* **limits** - positions in an address, bytes and characters, limits that several requests must agree on.

`PROJECT.json` lists every such hazard at its line, with the properties that would catch it.

## Modules

| Module | Models |
|---|---|
| `OneShotTokens` | abstract: a token is issued, accepted at most once, withdrawn |
| `TokenStore` | `token_store.rs`, command by command |
| `TokenStoreInv`, `TokenStoreProofs` | its inductive invariant; its theorems |
| `LockoutStore`, `LockoutStoreProofs` | `lockout_store.rs` with the part of `login` that calls it; its theorems |
| `RateLimit`, `RateLimitProofs` | the limiter; its theorems |
| `AuthService`, `AuthServiceProofs`, `ResetProofs` | the handlers over the two tables, the mail service and, by `INSTANCE`, `TokenStore`; their theorems, those on password reset in a module of their own |
| `LoginPath`, `LoginPathProofs` | `POST /login` as the production router runs it: `RateLimit`, then the handler with `LockoutStore`, down to its status; its theorems |
| `JwtManager` | `jwt.rs`: what is signed and what is accepted when |
| `SessionLifetime`, `SessionLifetimeProofs` | sessions against a clock, with `AuthUser` and `VerifyToken`; their theorems |
| `Validation`, `ValidationProofs` | the checks on request bodies, as operators; their theorems |
| `MC*` | small sets for TLC |

### TokenStore

`refresh`, `refreshTtl`, `sessions` and `sessionsTtl` are the keys of Redis and their TTLs. TTLs follow
Redis: a set that SADD creates has none (`NoExpiry`), one that loses its last member is gone, EXPIRE
of a missing key does nothing. `call[p]` is the method request `p` is in: the command it sends next,
its arguments, and for `revoke_all_sessions` the JTIs SMEMBERS returned (`jtis`) and those still to be
deleted (`todo`). redis-rs pipelines without `.atomic()` are not transactions, so commands of other
requests run between the commands of one.

`Begin*` actions are the calls, `SetEx` ... `DelIndex` the commands, `Return` the end. `Fail` is a call
that breaks off, by an error or because the client hung up and axum dropped the future: what was done
stays. `Tick` lets time pass and drops expired keys. The caller is left open: any request may store a
fresh JTI, revoke one it was handed out, or revoke all of any user. `AuthService` shows that the
handlers stay within that (`TokenStoreSpec`), so everything checked and proved here holds for them.

Three variables are only for properties: `acked` (tokens whose store ran to its end, so that a client
can have them), `prior` (what a revoke-all has to end: the user's live acked tokens when it was
called), and `orphaned`, tokens that the index lost in one of exactly two ways: deleted with the index
although they joined it after SMEMBERS, or expired with the index between SADD and EXPIRE of their own
store.

### LockoutStore

One email (keys of different emails never meet). `Begin`, `IsLocked`, `Verify`, then `Incr` and
`Expire`, or `Clear`; the outcome of `Verify` is any. `age` counts the ticks since `record_failure` last
ran to its end; `barred` is the set of logins that began under a lock that has held since. `Return` is the
handler taking the answer. `MaxFaults` bounds how many calls fail in a run.

### RateLimit

One key. The counter saturates at `RATE_LIMIT_MAX + 1`, because the code tells only "is 1" and "is over the
maximum" apart. A failed call passes the request on (`FailOpen`); a dropped one ends it (`HangUp`). `Return` is
the request leaving for its handler, or with 429. `recent[a]` counts the requests that the counter admitted in
this tick and the `a` ticks before it, so `recent[Window - 1]` is what one window's length has let in.

### AuthService

`account` and `reset` are the rows of the two tables, `enrolled` and `drawn` the ids and tokens ever given
out, `claims` the user in each signed refresh token, `flow[p]` the handler of request `p` and its locals.
One action is one await: a SQL statement, or the start of a token store call whose commands then run as
`StoreCommand`. Uniqueness of the address, the foreign key and the cascade are as in the migrations.

A reset link leaves by mail: after the INSERT the handler awaits the mail service (`SendPasswordReset`), which
takes the mail or not; the handler logs that and answers 200. `mailed` holds the tokens whose link arrived, and
only those can be shown to `Consume`. A request that breaks off before leaves an open row behind.

For the properties only: `family[j]` is the login that token `j` descends from by rotation; `outdated[p]` the
logins by an older password when the reset `p` is in replaced it, among them requests that had verified but not
signed, named by the request until they have a token; `ended` the logins that some reset which succeeded has to
have ended. Two groups are left out of `ended`, because "revoke all" cannot see them as it returns: logins in the
middle of a rotation or a store (`InHand`), and those whose token the index has lost (`OrphansNext`, the race of
`revoke_all_misses`); and a login that verified the old password and has not signed. What a stale login or a
failed reset leaves behind is thereby spoken of: the next reset that succeeds must end it.

Abstractions: a password stands for its hash; requests begin when validation, rate limit and lockout have let
them in; an access token is available to whoever was given a refresh token of the user (its fifteen minutes are
left out, which only adds behaviours; they are in `SessionLifetime`).

### LoginPath

`lib.rs` wraps `/login` in the limiter, so the limiter runs before the body is read. A request is in the limiter
(`request[p]`, of `RateLimit`), then in the handler (`login[p]`, of `LockoutStore`), then answered; both modules
are instantiated, with counters and windows of their own, and each action here is an action of one of them, or of
both, together with what the handler does. Behind the limiter axum's `Json` extractor reads the body: one it
cannot parse it answers itself, with a status of `JsonRejection`, and the handler is not called (`Reject`); one
that parses is validated (`Validate`; 422 if it is `Invalid`). `Verify` reads the row (`row`, the password of the
account with that email) and decides what `LockoutStore` leaves open, `Unauthorized` and `Store` answer. A client
may hang up in the limiter, while its body is read, and at every await of the handler.
`SetRow` is any other handler that registers, changes, resets or deletes the account meanwhile.

Errors are the tables `DataErrorStatus`, `DomainErrorStatus` and `StatusCode`. The limiter fails open, the
handler closed: an error of Redis or Postgres, or of Argon2, becomes 500 (`CallFails`), also when the command was
run and only its answer was lost. So the comment of the
limiter, "a cache outage never takes down the auth service", is true of the limiter alone: nobody logs in
without Redis. The token store's part of a login is only "succeeds or fails" here; it is in `AuthService`. Not
here: a failure to sign, which would answer 401 and does not happen with a key that was loaded.

`facts[p]` is for the properties: which of "the password is right", "it is wrong, or the account gone or locked"
and "not locked" was true at some instant since the handler of `p` began and before its own DEL of the counter.

### JwtManager and SessionLifetime

`JwtManager` has no state: its operators are the methods, with the instant as a parameter. A token is its
claims. `SessionLifetime` puts it next to the keys of Redis: `access[k]` and `refresh[k]` are the claims of
the pair of tokens that one login or refresh signs, `key[k]` the instant at which `refresh:{jti}` expires (0
when it was never set, or was deleted), `held` the pairs that clients got. A login or refresh verifies,
consumes, signs and stores in separate steps, with time passing between them, and may break off anywhere,
even with the key set and nothing answered. `RevokeAll` deletes all of the user's keys or only some, which
covers calls that fail and the races of `TokenStore`. `lastSeen[u]` is only for the property: the last
instant at which `u` had a live key or a login or refresh about to store one.

### Validation

A text is a sequence of characters of four classes: `@`, `.`, another of one byte, one of several. The
operators are the `validate` methods; the state is one text being typed, so that TLC meets every text up to
`MaxLen`. `IsAddress` is the reference, said without positions. (Limits are in bytes, as in the code; the
message of `validate_password` speaks of characters, which is a shorter password if they are wide.)

## Runs

| Run | Instance | Shows |
|---|---|---|
| `token_store` | 2 requests, 2 tokens, 2 users, TTL 2, failures | types; `IndexIsByOwner`; `IndexCoversSessions`; `IndexOutlivesSessions`; `StoredIndexHasTtl`; `RevokeAllCoversIndexed`; the inductive invariant; refinement of `OneShotTokens`; `SessionsEnd`, `IndexesEnd` |
| `revoke_all_misses` | no failures, TTL 5 | **violated**: `RevokeAllRevokesAll` |
| `lockout` | 3 logins, limit 3, window 2, 2 failed calls | `CountBounded`, `LockHolds`, `LockLastsWindow`, `LockIsLifted` |
| `rate_limit` | 3 requests, limit 2, window 3, 2 failed calls | `WindowOpenedOnce`, `RateBounded`, `RefusalEndsInTime` |
| `rate_limit_fault` | 1 failed call | **violated**: `RefusalEnds` |
| `rotation` | 3 tokens, 2 requests, 1 user, failures, no reset tokens | `OneSessionPerLogin`, `TokenStoreSpec` |
| `password_reset` | 2 tokens, 2 users, 1 address, 1 password, 2 reset tokens, failures, lost mails | `ResetEndsOldLogins`, `ResetOneShotSpec`, `DeletedStaysDeleted`, types |
| `reset_ends_logins` | no failures | **violated**: `ResetEndsLogins` |
| `change_password` | no failures | **violated**: `ChangeReplacesKnownPassword` |
| `session_lifetime` | 2 requests, 3 pairs, 2 users, access 1, leeway 1, refresh 3, 4 ticks | `AccessEndsWithSessions`, `SessionLastsUntilExp`, types |
| `validation` | texts of up to 8 characters, a wide one of 2 bytes, limits 7, 2, 3 and 6 | `EmailIsAddress`, `SetPasswordLogsIn` |
| `login` | 2 requests, 2 passwords, limit 1 in 1 tick, lockout at 2 for 2 ticks, 1 failed call in each | `AnswerIsCurrent`, `OwnerGetsIn`, types |

**Bounds.** Two requests are enough for every race of two commands, and the code has no operation that
involves a third; the counters run with three, so that overshoot by more than one stale reader
occurs. `token_store` has two tokens, one stored and one joining or replacing it, because it checks liveness,
too, and its safety properties are proved for any number; `rotation` has three, a login and two rotations.
A TTL of 2 lets an index be older than the token in it; TTL 1 in the compositions keeps "expires
at any moment" and little else, the finer timing being `token_store`'s. One user is enough for `rotation`:
sessions of different users meet in the token store alone (`token_store` has two). `password_reset` has two users
and one address: the address is asked for while it is taken and registered again after a deletion. Two reset
tokens let two
resets run at once, and one succeed after one that failed halfway. One password is enough in `password_reset`:
no property of it compares passwords, a reset there makes the logins before it old even if it sets the same
one again; those that compare them run with two. In `session_lifetime` a
refresh token outlives an access token and its leeway by a tick, so that one taken for the other shows;
`MaxTime` lets every token reach its `exp`. In `validation` every limit is within the texts tried, from
both sides, for narrow and wide characters. In `login` the smallest limits make both counters refuse within a few
requests; the limiter's window is shorter than the lock, as in the code, so that who keeps trying is let
through to a lock again and again. Where a property is also proved, for all sizes, the bounds of
its run do not matter.

`MaxFaults` (2) is below the lockout's limit (3) on purpose: with as many failed calls as it takes to lock
an email, each between its INCR and its EXPIRE, the key has no TTL and the lock stays (with the code's
limit, ten such failures in a row); `LockIsLifted` says what holds short of that. Symmetry is used in runs
without liveness only.

**What `IndexesEnd` assumes.** Every store gives the index of its user a new TTL, so while somebody goes on logging
in or refreshing the index stays, as it should. The property is about a user for whom stores end some day
(`<>[]~Storing(u)`). TLC's instance has two tokens, hence two stores, so there the premise is always met; what the
run adds is that no failed, late or concurrent SADD, SREM or DEL takes from an index the TTL that it has. An index
whose stores all failed before EXPIRE has none and stays until a later store, or "revoke all";
`StoredIndexHasTtl` says that no such index holds a token that was handed out.

**Fairness.** `Command(p)` and `Step(p)` are weakly fair: a started Redis command is answered or fails, and
tokio polls a ready task. `Tick` is weakly fair: the clock runs. Requests beginning, failing or being dropped
are never fair: no liveness property needs anybody to call. `LoginPath` is the same: `Step(p)` and `Tick` are
weakly fair. `OwnerGetsIn` takes the rest as its premise: from some point on (`Quiet`) only the right password
comes, the handler's calls do not fail, and neither counter is stuck without a TTL; if then requests keep
coming, they are answered 200 again and again. What went before is left open.

### What the violated runs say

* `revoke_all_sessions` is documented to revoke "all active sessions". A session stored between its
  SMEMBERS and its final DEL stays live and is in no index. That the same call misses it may be called
  concurrency; but a second "revoke all", begun after that session was handed out, finds an empty index
  and returns with the session still alive, and so will every later one. Only its TTL, a logout with
  that very token, or its rotation ends it.
* The limiter sends EXPIRE only after the INCR that answered 1. If that one EXPIRE is lost (an error, or
  the client hung up between the two commands), no later request repeats it and the address is refused
  for ever.
* A refresh between GETDEL and SETEX has no key in Redis. A password reset that runs there revokes
  everything it sees, and the refresh then stores a live token: the login outlives the reset.
* `change_password` verifies against the row it read, then updates by id. A reset in between is
  overwritten by a caller that knows only the older password.

What holds instead, precisely: `RevokeAllCoversIndexed`, `RefusalEndsInTime`, `ResetEndsOldLogins`.

## Proofs

TLAPS checks these for every set of tokens, users and requests, every TTL, limit and window. Assumed are only
the `ASSUME`s of the modules: `None` is no token, user, address, password or row; TTL, limit and window are
positive; a request is not a token (`RequestsAreNoTokens`: a login is named by the one or, before it has signed,
by the other); for the lockout, finitely many requests are in flight; for validation, the four classes of
characters are different, every limit is positive, the shortest password is not longer than the longest, and the
limit on an address leaves room for `a@b.c`.

Every invariant and every safety property of a passing run is proved.

* `TokenStoreProofs`: `Invariance` (`Spec => []IInv`), and from it `TypeCorrect`, `OwnedIndex`, `CoveringIndex`,
  `OutlivingIndex`, `StoredIndexExpires`, `RevokingAll`; and `OneShotRefinement`, that the store implements `OneShotTokens`.
  `SessionsRunOut`: no command renews a live token, only time brings its end nearer.
* `LockoutStoreProofs`: `TypeCorrect`, `BoundedCount`, `HoldingLock`, and the action property `LastingLock`.
* `RateLimitProofs`: `Invariance` (`WindowOpenedOnce`), `TypeCorrect` and `RateHolds` (`RateBounded`).
  `WindowsRunOut`: no request renews a window that has its TTL.
* `AuthServiceProofs`: `TypeCorrect` (with what the tables promise each other), `RotationHolds`
  (`OneSessionPerLogin`), `DeletionIsFinal` (`DeletedStaysDeleted`), and two refinements:
  `TokenStoreRefinement`, that the handlers use the token store as `TokenStore` lets anybody, and
  `ResetRefinement`, that reset tokens are one-shot. `StoreHolds`: the properties of the token store hold of the
  whole service.
* `ResetProofs`: `ResetsHold` (`ResetEndsOldLogins`), through `ResetInvariance`.
* `SessionLifetimeProofs`: `TypeCorrect`, `AccessBounded` and `LastingSession`, through an `Invariance` of their
  own, for all lifetimes and any leeway.
* `LoginPathProofs`: `LimiterHolds` and `LockoutHolds`: what is proved of `RateLimit` and `LockoutStore` holds of
  `POST /login`, each of whose steps is by construction one of theirs or leaves them alone. `TypeCorrect`, and the
  action property `CurrentAnswers`, through an `Invariance`.
* `ValidationProofs`: `AddressesAreValid` (for every text and every limit, `validate_email` accepts exactly the
  addresses), `EmailsHold` (`EmailIsAddress`) and `PasswordsHold` (`SetPasswordLogsIn`).

**The token store's invariant.** "Every live session is in the index" is not inductive. Between SETEX and
EXPIRE it is false on purpose, and its truth after EXPIRE depends on what the call wrote before
(`StoresOwn`, `StoresIndexed`); `StoresOwn` also keeps a token that is handed out from being in an index that its
store did not give a TTL (`StoredIndexHasTtl`). A SREM is harmless only because the token it removes is dead and
stays dead (`Spent`), which needs JTIs to be fresh (`Fresh`, `Unique`, `Known`). An index that expires is
harmless only because it outlives its members (`IndexOutlivesSessions`), which is why expiry appears in an
invariant about membership. Deleting the index is harmless because everything in it was either read and
deleted before (`Spent`) or becomes orphaned. And "revoke all" ends what it should because, from SMEMBERS
on, its list contains it (`RevokesListed`). Each action has one lemma, `<Action>Keeps`, with a step per
conjunct; `Moves` says once how an action changes `call`.

**The refinement.** A token is live while its key exists, unissued until its SETEX, spent afterwards; a
request holds a grant from the GETDEL that found the key to the end of its call. SETEX is `Issue`, a
successful GETDEL `Accept`, deletion, expiry and a store that fails before SETEX `Withdraw`, the end of a call
`Release`; all else stutters.

**The handlers' invariant.** Rotation is safe because a login's session is always in one place: in Redis, live,
or in the hand of one request, which has had it from GETDEL and not yet put its successor with SETEX (`Hand`,
`InPlay`, `Alone`). A step that stores a new token either starts a login of its own, which no token in play
descends from, or puts the successor in the place of what its hand holds; all others only lose. The rest says
what a handler carries across its awaits (`Whose`: its user, the password to set, the token to mail), on which
rest that its calls are ones the token store knows (`StoreStep`) and that its writes keep the tables together
(`Rows`). What the store promises is not proved again: `TokenStoreProofs` is instantiated over the same
variables (`TSP`), each step of the handlers is a step of its `TokenStore` or leaves the store alone, and so its
whole inductive invariant is a conjunct of this one.

**The reset's invariant.** That an ended login has no live session says nothing of the next step. What is
inductive is that it is *extinct* (`Extinct`): nor does any request hold a token of it that is about to be
stored or replaced; a token comes of a token of the same login, so none comes any more. `ended` grows where
"revoke all" of a reset returns. There three parts of the store's invariant meet: DEL has left the index of its
user empty (`CommandEffect`), every stored live session is in that index or orphaned (`IndexCoversSessions`),
and a session not yet in it is in the hand of the call that stores it. The orphaned and those in a hand are what
`ended` leaves out; the others have no live token. That the index is the right one needs the claims: the
revocation is for the user whose password was set, and each token of a login, and its key in Redis, names the
user who logged in (`Signed`), who is the one whose logins the reset found outdated (`OutdatedAreTheirs`).
`CommandEffects` says once what each Redis command does to all this, `TablesOnly` and `CallsOnly` what the other
steps leave alone.

**The lockout's invariant** counts: every login that may still add to the counter, because it was told
"not locked", reserves a place above the limit, so counter plus such logins stays bounded.

**The rate's invariant** (`AdmittedIsCounted`) says what the counter knows of what it admitted. Within `Window -
ttl` ticks it counted every one of them; before that lies at most one window, which let in no more than the
maximum. While the key has no TTL the request that created it has not been let in, so the counter has counted
one more than it admitted; if its EXPIRE fails, that stays so, in a window without an end.

**The invariant of session lifetimes.** An access token is good until `iat` plus its lifetime plus the leeway, so
what bounds access is that `iat <= lastSeen` (`SignedInSession`). It holds when the token is signed only
because the request that signs counts as a session, and that needs `FlowOK`: it knows for whom it signs.
The key outlives the token because SETEX comes after signing and asks for no less (`KeyOutlivesToken`).

**The invariant of the login path** says for each place in the handler what must have been true to come there
(`Grounded`): "verify" that the lock was open, "del" that the password was right as well, each way to a refusal
that it was wrong. Facts are remembered while the handler runs, so a step has to show only what it finds out
itself (`MovingStep`); the rest stand (`StandingStep`). That a request is not in limiter and handler at once
(`Apart`) is needed where a body is answered that does not parse or validate.

**Validation** needs no invariant but that the field holds a text. `find` and `rfind` are the least and the
greatest of the positions of a character, which exist because the naturals are well founded (`LeastOf`,
`GreatestOf`; `FindIs`, `RFindIs`). From that follow what the slices around the `@` contain (`Slices`), that the
domain is tested for a dot inside it by its first character and by what is after its last dot (`DomainIs`), and
the equivalence, in both directions. Bytes matter where a limit is on them: a text has at least one for each
character (`BytesIs`).

**Only model-checked**: the five liveness properties, `SessionsEnd`, `IndexesEnd`, `LockIsLifted`,
`RefusalEndsInTime` and `OwnerGetsIn`: fairness and ENABLED are out of the prover's reach. Of two of them the
safety half is proved, that nothing stands in the way of time (`SessionsRunOut`, `WindowsRunOut`). The four
violated properties have counterexamples instead.

## Not modelled

Argon2 and Ed25519: cryptography without state. Hashing blocks its thread for a while, which delays other
requests and orders nothing. The email in the claims of a token, copied from login to refresh and never looked
at. The variables `ACCESS_TOKEN_EXPIRY_SECONDS` and `REFRESH_TOKEN_EXPIRY_SECONDS` of `src/README.md`: the
source does not read them, and its lifetimes are the constants of `jwt.rs`. The leeway of sixty seconds is the
default of the `jsonwebtoken` library and is modelled from there. The text of the mail. `GET /me` and `/health`:
they read, answer and change nothing; `/health` is 503 unless both stores answer. `main`: it reads its
configuration, migrates and serves; when it ends, all requests in flight are abandoned at once, which is the
actions that abandon one, in a row, and nothing is kept in memory that a restart could lose. The statuses of the
handlers other than `/login`: the tables in `LoginPath` are the same for all.

## Plan

Done: the token store with its abstract specification and proofs; lockout and rate limiter with proofs; the
handlers over both databases and the mail service, with proofs; `/login` from the limiter to its status, with
proofs; lifetimes with a clock, and their proofs; validation, with proofs; password reset, proved through the
token store's invariant.

1. *Model the rest.* The statuses of the other handlers, if a property needs them.
2. *Prove more.* The safety halves of the other liveness properties: what can renew an index and a lock.

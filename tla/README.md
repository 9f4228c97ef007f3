# ZooLink backend: TLA+ models, checks and proofs

ZooLink is a marketplace for pets and livestock. Its backend (`src/backend`) is a NestJS monolith over
PostgreSQL (through Prisma) and Redis, run as several HTTP instances and several worker instances. Nothing
holds a lock across requests: a handler is a chain of awaits, and between two of them any other request, job
or instance may run, the process may die, and a statement may fail. This directory models the parts of the
backend whose correctness depends on that, checks them with TLC on small instances, and proves the properties
that matter most for every value of the constants with TLAPS.

The models are written from the code as it is, with its races, not as it should be. A property therefore says what
holds *in spite of* a race, or names the race that is the only way to break it; where a document or a comment of the
repository claims more than the code keeps, a separate run shows the counterexample or section 5 records the difference.

## 1. The system

| Component | State | Operations | What is hard about it | Module |
|---|---|---|---|---|
| Refresh-token sessions (`modules/auth`) | `refresh_tokens` | issue with eviction over the family cap, rotate with reuse detection, revoke by token, family and user; refresh re-checks the account | two rotations of one token; rotations racing revocations; logins racing the cap; a lost response | `RefreshTokens` |
| Transactional outbox (`lib/outbox`) | `outbox_events` | publish, claim under a lease, dispatch, mark, back off, dead-letter | lapsed leases, crashes between handling and marking, throwing consumers, marks written by id | `Outbox`, `Delivery` |
| Accounts (`modules/identity`, retention job) | `users`, `audit_log` | registration, OTP and OAuth login, recovery, profile, deactivation, reactivation, role change, rebind, erasure on request and after the grace | every handler decides on a row it read earlier and writes by id | `Accounts` |
| One-time passwords (`otp.service.ts`) | four Redis keys per subject | issue with cooldown, verify with attempts counter and lock-out | commands of different requests interleave; INCR and EXPIRE are two commands; keys lapse | `Otp` |
| Scheduler lock (`lib/scheduler`) | one PostgreSQL session lock | `runExclusive` around each tick of the retention job | the pool chooses the session of each statement; the lock is re-entrant; instances die | `AdvisoryLock`, `Listings` |
| Reference-data registry, If-Match, Idempotency-Key (`modules/admin`, `lib/http`) | five reference tables, answers kept in Redis, `audit_log` | create, PATCH, toggle | check and write are two statements; the audit row and the stored answer come after the write; ETags have milliseconds | `ReferenceData` |
| Feature toggles (`lib/feature-toggle`) | `feature_toggles`, a cache per instance | read through the cache, flip | a read that straddles a flip puts the old value back; the TTL starts when the answer arrives; flips race | `FeatureToggle` |
| Roles: guards, access tokens, role changes (`lib/auth`, `admin-user.service.ts`) | `users.role`; copies of it in access tokens | login and refresh (which sign), admission, `setRole` | the role in a token outlives a demotion, and may be used to change roles; a change, the revocation of the sessions and the audit row are three statements | `Roles`, `Access` |
| Animals and their pedigree (`database_schema.sql`) | `animals` | whatever INSERT, UPDATE or DELETE arrives, against the immutability and pedigree triggers and the foreign keys | a trigger reads what is committed, query by query, and the row is written later; the ancestor walk stops at depth 64 | `Pedigree` |
| Listings and moderation, expiry job (`database_schema.sql`; `retention.service.ts`) | `listings`, `users.deactivated_at`, `animals.deactivated_at` | statements of clients against the gate trigger, the index of active listings and the cascades; `expireListings` in each tick | an UPDATE of many rows picks them before it locks them; cascades fire only on NULL -> date; overlapping ticks, two at once after a lost session | `Listings` |
| HTTP layer: guards, pipes, controllers, problem filter (all controllers; `lib/auth`, `lib/http`, `lib/rate-limit`) | none of its own | 27 routes, each with its guards, DTO, handler paths and answers | thirteen handlers that write, revoke and record in statements of their own; early returns and failures between them; what an error becomes | `Endpoint`, `Roles`, `Requests` |
| Configuration and providers (`config`, `lib/providers`, `oauth`) | none | validation at boot, the choice between adapter and stub, what callers see of a provider | a stub believes anything, and production boots without credentials | `Requests` |
| Maps, storage and payment adapters, logging, tracing, clients, migrations | none that another part depends on | | | not modelled |

How they interact. A request passes the guards, then a handler of accounts, sessions or reference data. Accounts
call `Otp` (issue, verify) and the session service (issue, revoke all). `AuthService.refresh` reads the account after
a rotation. The retention job runs under the scheduler lock, erases accounts and revokes their sessions. A domain
transaction may add a row to the outbox, which the relay of a worker later hands to consumers. Audit rows are
written by the operation that they are about.

Each module represents its neighbours by what they can do to it: `RefreshTokens` has the status writes of accounts
(`Block`, `Reactivate`); `Listings` has the dates accounts and animals carry, with the state `kept` of an account that `Accounts`
shows to be made ACTIVE without clearing its date; `Requests` has every answer a query may give, and leaves to the other modules which of them can happen when; `Accounts` has a code that is or is not stored, any answer `OtpService.verify` may give,
and the set of users with an unrevoked family; what a tick does under the lock is in `Listings` (its first pass) and `Accounts` (its second).

## 2. The modules

Conventions. One await is one action, for what comes before it in the handler is decided on local state. The local state
of a handler is a record in `req` (`task`, `hand`, `pc`): where it is, and exactly what it still remembers of what it read.
`Crash`/`Fail` drops that record between any two awaits. Columns, keys and arguments no decision depends on are left
out. Definitions marked `seeded fault` are not part of the specification: each is a plausible slip in the definition after it,
used to confirm that a property would notice.

### RefreshTokens
`rows` is the table in insertion order, so a row id is also `issued_at`, and a family is named by the row that
founded it. `Present`, `Rotate`, `Recheck` are `rotate`'s read, its transaction and the account check in
`AuthService.refresh`; `Scan`, `Evict`, `Create` are `issue`; `Burn` and `Sweep` are `revokeFamily` and
`revokeAllForUser` from wherever they are called. `closed`, `stale` and `swept` are history: the properties use
them, no action's guard does.

- `OneLivePerFamily`, `ClosedIsFinal`: a family has one usable row, and none again after it was revoked as a whole,
  unless a rotation consumed a row revoked since the rotation read it (`stale`). The `UPDATE` by id alone in
  `rotate` is the only way.
- `BlockedSessionsAreLogins`: once a blocked account has been swept, a usable secret in a client's hands was issued by a
  login past its status check, never by a refresh in flight. This is what the re-check after the rotation is for.
- `CapUnderConcurrency`: racing logins exceed the family cap by at most one each.

### Delivery and Outbox
`Delivery` is what the outbox promises: an event is handed to every subscriber before it counts as processed. `Outbox`
is the relay: `Claim` (one `UPDATE ... FOR UPDATE SKIP LOCKED`, which counts the attempt and sets the lease),
`Dispatch` and `Deliver` per row and per consumer, `MarkProcessed`, `Throw`, `OnFailure`. `next_attempt_at` is kept as the time
left until it, so time itself needs no bound. `LoseAnswer` is an `UPDATE` that commits and throws.

- `AtLeastOnce` = `D!Spec`: the relay implements `Delivery` under the identity mapping.
- `AttemptIsFencing`: two workers never have one row in hand under one attempt number, though both may have the row.
- `OneVerdict`: processed and dead-lettered exclude each other until the first fault.
- `EventuallySettled`: every published event is processed or parked.

### Accounts
`row` is `users` reduced to status, `is_active`, `deactivated_at`, `erased_at`, identifiers and `email_verified`.
`Ask*`/`Verify*`/`Select*` are the load of the row and the checks on it, `req[p].seen` is what the handler remembers of
it, and the action named for the operation is the write; `AskCode` and `RegisterPhone` go on to `IssueCode`, which stores the code. `Tick` is a day: it outlives access tokens and codes.

- `DeactivatedIsDated`: three columns written by seven handlers stay in step, or the retention job would never find the row.
- `IllegalOnlyByLostRace`: a step that leaves the documented state machine is made by a handler whose snapshot is out of date.
- `OutOfReachStays`: who has no way in (a provider, a verified address, a phone still to be verified), no token, no session and no request under way
  stays out; only an administrator's rebind of an account that is not deactivated makes a way. So an erasure is final when the last token lapses. It
  holds too of an account with nothing but a verified phone that has logged out. (`devToken`, which exists outside production only, is left out.)
- `OverdueIsErased`, `ErasureIsAudited`: no account stays overdue for ever; an erasure is audited or a process died.

### Otp
Four keys with the time each has left; `Forever` is a key without a TTL, which INCR creates until EXPIRE arrives. Codes are
numbered; `tried`, `fresh` and `spent` are history.

- `SpentIsGone`: a code that was answered OK is not stored again by any late command.
- `CounterOutlivesCode`: the attempts counter does not lapse before the code, or guessing would start over.
- `GuessBound`: guesses at one code are bounded by `OTP_MAX_ATTEMPTS` plus one for each request in flight or dead.

### AdvisoryLock
A session lock has a holder and a depth. `Acquire` and `Release` run on any connection of the instance's pool, which
is all that the code determines; `AcquireLost` is a lock taken whose answer never arrives. The lock may leak, and then shuts out every other instance; it is never given to two:
`OneInstanceWorks`. It is stated for the time before a session is lost under a
running tick, which the code cannot notice; what then becomes of the work is in `Listings`.

### Listings
Extends `AdvisoryLock` with what a tick does first. `listing` is the table, `owner` whether an account or animal has `deactivated_at`, `tx` the open
transaction of each session: the rows it has written, which others see from `Commit` on, and for an UPDATE of many rows those it has picked and not yet
taken (`TakeRow` waits for a locked row and then looks at its newest version, as PostgreSQL does under READ COMMITTED). `Deactivate` is an UPDATE of
`users` or `animals` with the cascade in its AFTER trigger, `Expire` the one UPDATE of `expireListings`, `Report` its audit row. The backend has no
handlers for listings yet, so `Write` is any statement the constraints let through.

- `CascadeMissesNewcomersOnly`: a deactivation leaves nothing of its owner on the market but what another session put there after the cascade had picked
  its rows, or everything, if the date was set already (an account in state `kept`).
- `ExpiryReportedOnce`: ticks that work at once, of one instance or of two, report each expiry once between them: what a tick is about to report is
  what the market has lost by its commit (`owed`, history, by the committed table and not by the tick's own count) and what it lost counts is lost only between the UPDATE and the audit row.

### Endpoint, Roles and Requests
`Endpoint` is what the API conventions promise of any endpoint: one answer; success only when what was changed is in the audit log; a refusal leaves
nothing but counters, burnt codes and sessions or a pending account; a code that belongs to the status. `Requests` is one process: `Boot` takes an
environment that `validateEnv` accepts and chooses adapters and stubs; `Arrive` is a request with any credential at any route, past throttle, guards and
Idempotency-Key; `Enter` the pipes with a body of at most one irregularity (a field missing, null, malformed, in excess, or one that passes and is not what the
code behind expects, or one that cannot be converted); `Garbled` is a body that the parser refuses before there is a route; `Perform` the next statement of the handler, `StatementFails` its failure, `Answer` the answer or the problem document.
A handler is an operator whose value is the set of its paths, written with the sequence `**` of steps and alternatives, so that an operator reads like the method it models
and its early returns end a path. What a query finds is an alternative. The code `"none"` stands for no code, of an answer that is not a problem or of an exception of the
framework. `Roles` has the hierarchy of the `RolesGuard`, which `Access` needs too.

- `Promise` = `E!Spec`: every endpoint implements `Endpoint`. `done` is what the trace has of effects, `unrecorded` the changes no audit row has followed.
- `IdentityIsProven`: in production a session comes of a code that was sent and spent or of a payload the provider signed, in every configuration that boots.
- `ChangesAreAuthorised`: what only an ADMIN may do is done for an ADMIN's token, and no profile is changed without one.
- `InternalHasCause`: without an outage a 500 comes of a body that is not parsed or not converted, of a value that its validator accepts and PostgreSQL or a provider does
  not, of a null on four routes, of an OAuth login, or of a PATCH of two datasets. What the DTOs refuse, what is missing, taken or unknown never ends in one.

### ReferenceData
An entry is its body, the key it was created under and its versions, each with `updated_at` in milliseconds. `view` is the
version an administrator last saw, hence the ETag a PATCH carries. `stored` and `flying` are the answers in Redis and
those on their way there. The `UPDATE`'s timestamp is any moment between the read and the write, since `now()` is the
start of the statement, which may have waited for the row.

- `CreatedOnce`, `StoredIsDone`: what an Idempotency-Key is good for, and when it is not.
- `TrailComplete`, `TrailAlternates`: each version has its audit row unless the request failed in between, and equal toggles in a
  row mean that two administrators raced.
- `SilentOverwriteNeedsARace`: a PATCH overwrites a version its client has not seen only in the window after the If-Match
  check, or within one millisecond.

### FeatureToggle
One key. `log` is every state the row of `feature_toggles` has had, so that a version is an index of it and 0 is "no row"; `cache`
has an entry per instance, with the version it shows and when it was filled. `Miss`, `Select`, `Fill` are `read` as its caller, the database and
its continuation see it; a hit changes nothing. `AskFlip`, `FindBefore`, `Upsert`, `Commit`, `Forget` are `flip`: the read of the previous
state, the upsert (which holds the row's lock until the commit and merges with what is committed then), the audit row with the commit, and
the deletion of the instance's own entry. `Commit(p, TRUE)` is a commit whose answer is lost, after which nothing is deleted. `MaxFetch`
is not a bound of the check but an assumption on the environment: time does not pass while an answer has been under way that long.

- `StaleBound`: a state served from the cache was current less than the TTL and the duration of a fetch ago, whatever order
  fetches return in.
- `OwnFlipIsSeen`: an administrator's instance shows an older state than the flip it has returned only if a read straddled the flip's return.
- `NoFieldIsLost`: two flips of different fields do not undo each other, although each read the toggle earlier.
- `TrailChains`: each committed state has its audit row, and a "before" that was not so comes of a race.

### Access
`hist` is every role each user has had, with its date and who set it; the last is the column. `session` are families of refresh tokens, one
record each (their rows are in `RefreshTokens`), `token` the access tokens not yet expired. `Load`, `OpenSession` are a
login, which signs with the role of the row it had before the session was inserted; `Present`, `Rotate`, `Recheck`, `SignRefreshed` a refresh, which
reads the column after the rotation. `AskSetRole` is admission by the guards and the check of the body; `ReadTarget`, `UpdateRole`, `Sweep`, `Record`
are the awaits of `setRole`. `Fail` may come between any two: since a role that is there already ends the request, a retry
does not revoke what a failed attempt left. `MaxFlight` is an assumption like `MaxFetch`: no request is under way longer.

- `AuthorityIsRecent`: whoever changes a role was ADMIN less than a token's life and two requests before, even if he
  has been demoted since. The instance reaches the bound: with one request less TLC finds a counterexample.
- `RecordedIsSwept`: when a role change is in the audit log, a session from before it survives only through a rotation that straddles the revocation.

### Pedigree
The backend has no handlers for `animals` yet, so any statement may arrive: the module is about what the schema
guarantees by itself. `row` holds what is committed; `stmt` is a statement under way, whose `pc` is the next query of
`enforce_pedigree_integrity` (mother, father, ancestor walk) or the write. Other sessions commit between any two of
these, as under READ COMMITTED. `Begin` takes the lock on the row (or on the new key), `CommitRow` checks the foreign
keys. `Edit` is an UPDATE that leaves the parents alone, for which the trigger does not fire; `Delete` includes the
`SET NULL` on the offspring, which does fire it.

- `ParentsFit`: parents exist, with the right sex and species and an earlier birth, although the trigger looked at them earlier.
- `Acyclic`: of any animals, one has no parent among them. The walk alone does not give this: it is cut at a depth, and two
  sessions can each make their animal a parent of the other's without seeing it. The birth dates do.

## 3. The runs

| Run | Instance | Question |
|---|---|---|
| `sessions` | one user, two handlers, four rows, cap 2 | revocation, single secret, blocked accounts, cap |
| `outbox` | two workers, two events (one with two consumers), two attempts, one fault, fair | delivery, fencing, verdicts, progress |
| `accounts` | one account with phone, provider id and address; two handlers, the job, one day | the state machine under races |
| `accounts_live` | two accounts, a handler, the job, a crash, fair | the grace ends in an erasure, the erasure in an audit row |
| `accounts_stale_otp` | as `accounts`, with a crash | *violated*: "never re-activate ... via a stale OTP" (`identity.service.ts:131-132`) |
| `otp` | two requests, two codes, three attempts, TTLs 2/1/3, one crash | guesses, counter, spent codes |
| `listings` | two workers, one with two connections and two overlapping ticks; two clients, two listings of one animal, two statements, one lost session, one lost count | one instance works, expiries reported once, cascades |
| `refdata` | two administrators, one key, three versions, two milliseconds, one fault | keys, trail, overwrites |
| `access` | two users, one ADMIN at first, two requests, two sessions, token and request of one unit, two units of time | how long an old role has power; what a role change leaves |
| `toggle` | two instances, two requests, two flips of different fields, TTL and fetch of one unit, two units of time | staleness, own flips, lost updates, trail |
| `requests` | all 27 routes, four roles and none, every environment, bodies with one irregularity or refused by the parser, failures at any statement | promises of an endpoint, identity, authority, internal errors |
| `pedigree` | three animals, two sessions, two dates, a walk of one level | the triggers under concurrent statements |

Why the bounds are enough to be of interest. Each hazard of the code is between two actors, and each instance has two of
them with every await between. Four token rows hold a login and three rotations or two families over the cap; a cap
of 2 makes eviction happen. Two attempts reach the retry and the dead letter, two consumers the failure of the second. A lease of 2
lapses while a batch of 2 is in hand. TTLs 2/1/3 keep the order of the real ones (300, 60, 900 s) where it matters: cooldown
below code, code below lock-out. A grace of 0 with a clock of one day makes both "within" and "past" the grace reachable. Three versions allow create,
PATCH, PATCH, the shortest lost update; two milliseconds make equal and different ETags. With
a TTL and a fetch of one unit each, an entry can be fresh, lapsed, or filled a unit after what it shows was replaced; two flips are the fewest that race. In `access`,
two units of time are a login of one and a token of one, after which the next request is already outside the bound. A
walk of one level makes a cycle of two one that the trigger cannot see, as one of 65 is in the code; with two dates a birth can be
before, with or after another (the instance with three dates, 620 000 states, was checked too). In `listings`, two statements
are a cascade and its newcomer, or a deactivation and a reactivation; three ticks are one of each worker and one that overlaps. A request of `requests` has no neighbours (what
queries find is open), so one at a time is enough, and one irregularity per body is what a path can tell apart, since the first one ends it. The proofs then remove these
bounds for the safety properties.

Deadlock is not checked where the bounds make the system stop (a bounded clock, a bounded number of
codes or faults); `sessions`, `listings`, `requests` and `refdata` check it. `toggle` and `access` stop at the end of their clocks, `pedigree`
when all ids are used and deleted. Symmetry is used over handlers, in `toggle` over instances, in `listings` over clients, listings, and the connections and ticks of one worker, and in `pedigree` over animals and sessions, in runs of safety only.

Fairness. `Outbox`: `WF(Step(w))`, since the poll timer fires as long as the process lives and a `handle` call resolves or
throws; `WF(Tick)`, since time passes; faults are finitely many, which the bound states. A handler of `Accounts` that has begun goes
on (`WF(Step(p))`, a crash included). `WF(SelectOverdue)` is the hourly job; it assumes that the job's instance
gets the scheduler lock infinitely often, which a lock leaked to a session of another instance can prevent:
`OverdueIsErased` is conditional on that.

## 4. The proofs

Every property of the passing runs but the three of liveness is proved for all values of the constants: 47 theorems, in eight modules. The assumptions are the
`ASSUME`s of the modules: types of the constants, sentinels outside their sets (`RouteAssumption` keeps the name `"none"` free), finiteness where something is
counted (the handlers of `RefreshTokens` and `Otp`, workers, jobs, listings). `PowersAssumption` in `Outbox` is arithmetic (`2^n \in Nat`) the SMT solver cannot derive. A proof module
extends its component's module; `Schema_proofs` and `Authorisation_proofs` extend those of several components that share a subject.

- **RefreshTokens_proofs.** Types are inductive together with the well-formedness of what handlers remember. `OneLivePerFamily` needs
  that the row a rotation has in hand is the newest of its family or has been revoked since; `ClosedIsFinal` that a rotation in a
  closed family holds a revoked row; `BlockedTheorem` that a successor not yet handed out is in the hands of the handler about to re-check it.
  `CapTheorem` ranks the handlers between their scan and their insert by when they last scanned (`Within`): whoever scanned later has seen what those before him had
  inserted by then, so the families that a handler will leave, together with the handlers ranked no later than it, are at most `MaxFamilies - 1` plus the number of
  handlers. For a handler about to insert that is the cap with its own family counted; a step of another handler adds one family and takes that handler from the ranking.
- **Outbox_proofs.** `FencingTheorem` from: a claim in hand has an attempt number no larger than the row's, and a claim makes a larger one.
  `VerdictTheorem` from: without faults a row in hand is under its lease, so not due. `RefinementTheorem`: the subscribers no
  longer on a worker's list have handled the event; each step is then a step of `Delivery` or a stutter.
- **Accounts_proofs.** `DatedTheorem` is inductive as it stands. `LostRaceTheorem`
  needs what each `pc` implies about the status the handler saw (a handler at "deactivate" saw a status that is not blocked, and
  so on), action by action. `ReachTheorem` goes action by action too: each that opens a way asks for one that is open already.
- **Otp_proofs.** `SpentTheorem`: codes only grow, and a code that is spent is deleted by the step that spends it. `CounterTheorem`: only the counter's
  first increment is without TTL, and it gets one no shorter than the code has left. `GuessTheorem`: the wrong guesses not counted yet are
  those of requests at "count" or dead, by cardinality.
- **ReferenceData_proofs.** One invariant of four parts: references between requests, versions and records; who will audit which version; what a
  toggle had read; which keys are excused.
- **FeatureToggle_proofs.** `StaleTheorem` from: what a read in flight has selected was current when it did, which is at most `MaxFetch` ago, and what the cache
  shows was current at most `MaxFetch` before it was filled (`CurrentKept`: a later flip is dated later). `OwnFlipTheorem` from: a read that began
  after a flip returned selects that flip or a newer one. `TrailTheorem`: what a flip read before its upsert is the last
  version, or it is marked as raced by the commit that came in between.
- **Schema_proofs**, of what the database keeps. *Pedigree*: no step reuses an id or changes what an animal is born with (`Keeps`), so that a parent that was checked is
  gone for good or still fits (`Checked`), and the row an UPDATE has locked is still there (`OwnRow`); `ParentsFit` follows. `AcyclicTheorem`: the eldest of any
  animals exists because the dates are well-founded, and none of them is its parent; the proof uses neither the walk nor its depth. *AdvisoryLock*: `HeldWhileBusy`
  is the invariant: the lock has been taken at least as often as there are ticks that will still give it back, by a session of their instance, by counting busy ticks;
  exclusion follows. *Listings*: each step is one of the lock's or leaves it alone (`LockIsImplemented`), which carries exclusion over. A row that a transaction has
  written is written by no other until it ends (`Apart`), so an expiry's rows are ACTIVE for everybody else until it commits (`Turning`: each counts once), and what a
  cascade has not yet taken is on its list or a newcomer (`Sweeping`).
- **Authorisation_proofs.** *Access*: a role passes from the column to a login or refresh, from there to a token, and from the token to a role change. `Remembered` and
  `TokensRemember` bound how long ago each of them was true of the column; a role that was held within a period has been held within it whatever happens later (`HeldOn`), and
  `AuthorityIsRecent` adds up the three ages. For `RecordedIsSwept`, a change about to be recorded is swept already (`SweptBefore`), and no step but a stale rotation
  revives a session. *Requests*: a request does what a path of its route says, up to the statement that fails, so each property is first one of paths. There is a class of
  paths for each: steps the caller's role licenses (`Paths`), an answer at the end (`Finish`), ground before a session (`Vetted`), nothing but tolerated effects before a
  refusal (`Fair`), every change audited before a success (`Neat`). Each class is closed under `**`, so it contains the value of a handler when it contains its parts; one
  lemma per class says so of all 27 (`FitHandler` to `NeatHandler`), and one says that nothing reaches a handler that the guards should have stopped (`Gate`). `RInv`
  ties what a request has done to what it has still to do, and no step breaks it. `PromiseTheorem` then shows that each step is one of `Endpoint`'s or a stutter.

The type invariants are proved of every component (`TypeCorrect`, `PedigreeTypes`, `HeldTheorem`, `ListingsTypes`, `AccessTypes`, `RequestsTypes`); only the runs of `Listings`,
`Access` and `Requests` still check theirs, where it says what a body or a statement may bring in.

Only model-checked: the liveness properties (`EventuallySettled`, `OverdueIsErased`, `ErasureIsAudited`), which depend on fairness and are beyond the prover, and the
counterexample of `accounts_stale_otp`. The proofs are of the models; that `Otp`'s keys, PostgreSQL's READ COMMITTED or Prisma behave as modelled is not proved anywhere.

## 5. Where the repository says more than the code keeps

With a run: see the violated property above. Seen while modelling, without a run of their own:

- If-Match "prevents silent last-write-wins" (`API_CONVENTIONS.md:146`): the check and the `UPDATE` are two statements, so two PATCHes with one
  ETag can both pass, and the first is overwritten silently; `SilentOverwriteNeedsARace` is what holds.
- The staleness of a toggle is "bounded by CACHE_TTL_MS" (`feature-toggle.service.ts:27-28`): the TTL starts when the answer arrives, not when the
  row is read, so the bound is the TTL and the duration of the fetch (`StaleBound`).
- Requests that verify at the same time compare more than `OTP_MAX_ATTEMPTS` wrong guesses with one code, since the digest is compared before
  the attempt is counted (`docs/specs/01-identity-domain.md:106`: "max 5 verify attempts"); `GuessBound` is what holds.
- "Presenting an already-revoked/rotated token = **theft**" (`refresh-token.service.ts:19-20`): two requests that read one row before either
  rotates it get a usable successor each, and no reuse is seen.
- "revokes ALL refresh families" (`admin-user.service.ts:49`): not those of a rotation in flight, nor after a failure between the update and the
  revocation, however often the request is repeated; `RecordedIsSwept` is what holds.
- A race of logins leaves more than `MAX_ACTIVE_FAMILIES` families; a stale rotation leaves a usable row in a revoked family.
- `attempts` of an outbox row can exceed `MAX_ATTEMPTS`, since only `onFailure` compares; a lapsed lease shows the row to another worker
  while the first still works on it; after a fault an event can be both processed and dead-lettered; a late failure overwrites
  `next_attempt_at`. `event-catalog.md:15-26` promises order per aggregate: the claim orders, `RETURNING` and retries do not.
- A deactivation in flight overwrites a suspension. An account made `ACTIVE` by `verifyPhone` keeps a `deactivated_at` it had. An access token that
  outlives an erasure can reactivate or update the anonymised row, where `01-identity-domain.md:126` says it is not recoverable;
  `user_state_machine.md:64` has DEACTIVATED as terminal.
- The job erases "DEACTIVATED accounts past the grace window" (`retention.service.ts:24`). It selects those, and erases by id (`retention.service.ts:118`):
  an owner asks to reactivate within the grace, the grace ends, the job selects the account, the reactivation commits, and the job anonymises an account that is ACTIVE. No
  property of a run speaks of it, since one the code keeps would excuse just this.
- `RETENTION_GRACE_DAYS` is configured and the recoverable grace is a constant: nothing relates the two.
- Two verifications that read a code before either deletes it both answer OK. Two issues that read the cooldown before either sets it both send a code.
- Overlapping requests with one Idempotency-Key both run (`idempotency.interceptor.ts:24-27` accepts this). Two versions of one millisecond share an ETag.
- "The lock is always released in `finally` (even if `work` throws), so the next tick is free." (`advisory-lock.ts:35`): lock and unlock are two statements on a pooled
  client, the first of them before the `try`. If its answer is lost nobody unlocks. An unlock that runs on another session has no effect, the lock stays with the first, and until that session ends every other instance is shut out.
- A deactivation forces the listings off the market (`listing_state_machine.md:91-92`): not those inserted after it, nor any of an account that was made ACTIVE with its
  date kept; the cascade looks only when `deactivated_at` was NULL.
- "full login surface (phone OTP + OAuth)" (`auth-api.yaml:396`): a phone lets its owner in once, when it is verified. `register` then answers 409 and `verify` 409; an account with
  nothing else that loses its session needs an administrator (`OutOfReachStays`).
- `ListReferenceDataQueryDto` has no upper bound on `limit`, where the conventions have 100; `includeInactive=false` is converted to true; `page-query.dto.ts` says that offset pagination
  is not used, where the registry lists by offset.
- Whole numbers beyond int4, a NUL in free text (`fullName`, `avatarUrl`, `nameLocalized`, `search`, `oauthId`), null for a column that is NOT NULL, an OAuth name longer
  than its column, a PATCH of `market` that makes a duplicate, a body over the parser's limit and a value that cannot be converted to the DTO's type end in 500
  (`InternalHasCause`). A `reason` with a NUL is refused by the audit row alone: the rebind has been made by then, the sessions are gone, and no record says so.
- `registerPhone` sets the cooldown before the message is sent: after a provider's failure (503) the retry is refused (429). An SMS the provider does not accept is taken for sent.
- Outside validation, production boots without credentials for SMS and e-mail, and messages then go to a stub.
- `PATCH /me` changes the address and leaves `email_verified`, and its If-Match has the race of the registry's.

## 6. Not modelled, and why

Object-level abilities have no caller, and the agent authenticator is not in the chain. Maps, storage and payment adapters are stateless and no handler calls them.
The counters of the throttle are the library's; `Requests` has its place before the guards. Tables without code (organisations, payments, notifications,
conversations) have only constraints. Hashing, signatures, localisation, logging, metrics and the wording of answers are abstracted. Who may moderate or edit a listing is not
modelled, since no code decides it yet. Roles are left out of `Accounts`, where `SetRole` is its revocation only, and statuses are left out of `Access`.

## 7. Plan

1. Composition of `Accounts` with `RefreshTokens`: the set `session` as an abstraction of the token table.
2. Pagination: `findMany` and `count` of a page are two statements, and pages are taken by offset while entries are added.

# Miles Identity: TLA+ specifications and proofs

These modules model the identity core of Miles Identity: which person a handle
belongs to and how people enter, how two accounts are merged and how the dedup
job drives merges, how a one-time code becomes a session, how vendors' identity
providers and their employees are administered, how vendor access reaches the
OpenFGA graph through the transactional outbox, and how the schema under all
this is migrated. TLC checks them on small instances; TLAPS proves the main
results for every value of the constants. Paths below are relative to the
repository.

## 1. The system

| Component | State it keeps | Operations | Modelled |
|---|---|---|---|
| Merge procedure (`src/identity/merge.ts`) | `user_identity`, `user_product_access`, `identity_merge_log`, `"user".status`, `merged_into_user_id`; Better Auth's sessions and tokens | `pickSurvivor`, `mergeUsers` | `IdentityMerge`, `DedupRun` |
| Alias-identity rows (`src/db/identity.ts`, `src/identity/resolve.ts`) | `user_identity` | verified and unverified inserts, lookups by handle | `IdentityMerge` |
| Dedup job (`src/services/dedup.ts`, `src/db/dedup.ts`) | `dedup_candidate` | find, queue, merge, mark decided | `DedupRun` |
| Vendor access and outbox (`src/db/access.ts`, `src/db/outbox-worker.ts`, `src/jobs/outbox-*.ts`, `src/authz/tuples.ts`) | vendor rows of `user_product_access`, `outbox`, the OpenFGA store | grant, revoke, drain, claim, apply, mark | `AccessOutbox` |
| One-time-code sign-in (`src/services/otp-signin.ts`, `src/auth/alias-otp.ts`, `src/lib/rate-limit.ts`) | Better Auth's verification values and rate-limit counters, both in Redis | start, verify, count | `OtpSignin`; against merges in `IdentityMerge` |
| Better Auth configuration (`src/auth.ts`) | `"user"`, `session`, `account`, `oauth*`, SSO providers | password sign-in, rehash hook, OAuth tokens, `sso()` | partly: external actions of `IdentityMerge`, `VendorSso`, `LegacyLogin` |
| Salesforce provisioning (`src/services/salesforce-provisioning.ts`, `src/routes/internal/provision.ts`) | user, handles, grants, contact link | provision | `Intake`; its outbox row in `AccessOutbox` |
| Legacy import, rehash (`src/services/legacy-*.ts`) | user, handles, password and its format | import, rehash at login | `Intake`, `LegacyLogin` |
| Vendor SSO (`src/services/vendor-sso.ts`, `src/db/vendor.ts`) | `vendor`, Better Auth's SSO providers | create, register, verify, disable, provision an employee | `VendorSso` |
| Access administration (`src/services/access.ts`) | rows of `user_product_access` | admin check, grant, revoke | `AccessAdmin` |
| Migrations (`src/db/migrate.ts`) | `schema_migration`, the advisory lock | run, dry run | `Migrate` |
| Health, Redis client (`src/services/health.ts`, `src/lib/redis.ts`) | probe cache | probe | no |
| Shadow reconciliation (`src/authz/shadow.ts`) | none (reads rows and tuples, logs) | reconcile | no |
| Routes, pages, configuration, logging, adapters, seeds | none | parsing, formatting, single I/O calls | no |

### How they interact

All components meet in PostgreSQL, through two pools that never share a
transaction: the program's own `Bun.sql`, and Better Auth's `pg`. A merge
commits in the first and then revokes sessions through the second. A sign-in
reads `user_identity` from the first and opens a session in the second. Grants
write their outbox row in their own transaction; a cron job claims one row at a
time under a row lock, and calls OpenFGA or Salesforce while it holds the lock.
Codes and rate-limit counters live in Redis, where single commands are atomic
and a sequence of them is not. A vendor is a row of ours that names a provider
row of Better Auth, and no transaction covers both. Callouts, the import and
sign-ups create users through Better Auth and handles through our pool, in
separate calls that only unique constraints hold together.

### What is hard

* **Merges.** The idempotence check is outside the transaction; the survivor is
  neither checked nor locked, so two transactions at READ COMMITTED see each
  other's statements only in part; `createVerifiedIdentity` asks for no status;
  four revocation calls follow the commit and are never retried; sign-ins
  resolve a user before and open its session after.
* **Dedup.** Candidates are computed once and used one by one while the users
  they name change; the run stops at the first error; a queued pair is skipped
  by later runs.
* **Outbox.** Ids are taken before the commit and are visible after it; two
  workers; a failed row is overtaken by later ones; a crash after the external
  write and before the commit; rows that always fail.
* **Codes.** Find, compare, and delete or write back are separate calls: two
  verifications may hold one record, and a late one writes or deletes over a
  newer code. INCR and EXPIRE are two calls too.
* **Vendors.** Every operation reads the vendor some calls before it writes it,
  so register, verify and disable cross; the first sign-in of an employee is
  provisioned once, and may stop half way.
* **Intake.** A lookup and the creation after it are apart; any two sources may
  create the same person; an import that stops leaves a user without a handle.
* **Migrations.** The lock belongs to one connection of a pool: the unlock may
  go to another, and the lock may be lost under a run that goes on. A release's
  own file 0001 is executed before anything is compared.

The full list, one entry per line of code where it bites, is `hazards` in
`PROJECT.json`.

### What correctness means, by component

* Merge: a handle belongs to one user and moves only by a logged merge; one
  primary per live user and verified type; log, status and pointer agree; a
  handle is with a merged user only for a cause that can be named; access is a
  union that undoes no revocation; nobody stays signed in through a merge except
  in windows that can be named.
* Dedup: only deterministic tiers merge; survivors follow `pickSurvivor`, so
  pointers never run in a circle; a decided candidate is a merged one.
* Outbox: the last event of a row says what the row says; a row is claimed by
  one worker; nothing uncommitted is delivered; a processed event was delivered;
  every deliverable event is processed.
* Codes: one code opens one session and is guessed a bounded number of times;
  the newest code is the one that counts; a rate limit lifts.
* Vendors: an active vendor names a verified provider; a disabled vendor lets
  nobody in; who is signed in has been provisioned; who loses the ADMIN role
  stops changing things.
* Intake: a contact's link never moves; the import leaves no account out; a user
  without a handle has a cause that can be named; a repeated callout gets
  through; the password that counts is the one set last, and no legacy hash
  loses its flag.
* Migrations: statements and ledger row are committed together and once; a
  release with an edited file commits none of its pending files; nobody waits
  for ever.

## 2. Modules

| Module | Contents |
|---|---|
| `IdentityMerge` | tables, sign-ins and `mergeUsers`; the properties of merges |
| `IdentityMergeMC` | symmetry and the bounds on credentials and merges |
| `IdentityMergeProofs` | types, log and pointers, single merges, handle moves, primaries, stranded handles, access |
| `SessionProofs` | which sessions outlive a merge |
| `DedupRun` | the dedup job; EXTENDS `IdentityMerge`, a run drives a merger |
| `DedupRunMC` | three users and two candidate pairs |
| `DedupProofs` | implementation of `IdentityMerge`, survivors, pointer chains, manual tiers, decisions |
| `OutboxPromise` | what the transactional outbox promises |
| `AccessOutbox` | grant and revoke transactions, outbox, workers, tuples; implements `OutboxPromise` |
| `AccessOutboxMC` | the subjects of access rows |
| `AccessOutboxProofs` | types, last events, exclusive claims, deliveries, the implementation, causes of disagreement |
| `OtpSignin` | start, verify, the verification store, the rate limiter |
| `OtpProofs` | types, logins per code, guesses, the newest code, counters |
| `MigrationLedger` | what the migration runner promises |
| `Migrate` | the runner; implements `MigrationLedger` |
| `MigrateMC` | three files in five releases |
| `MigrateProofs` | types, application once and in order, edited files, the implementation |
| `AccessAdmin` | the admin check, grant and revoke |
| `VendorSso` | vendors, providers, employees; EXTENDS `AccessAdmin`, whose requests it serves |
| `VendorSsoMC` | one vendor, one employee, one administrator; symmetry |
| `VendorProofs` | types, former administrators, active vendors, disabled vendors, employees |
| `Intake` | callouts, the import, sign-ups |
| `LegacyLogin` | passwords, sign-in and rehash; EXTENDS `Intake` |
| `LegacyLoginMC` | two emails, two contacts |
| `IntakeProofs` | types, links, coverage of the import, handles, passwords |

### IdentityMerge

State and code:

| Variable | Code |
|---|---|
| `status`, `mergedInto` | `"user".status` and `.merged_into_user_id` (`src/auth.ts:255`) |
| `owner`, `verified`, `primary`, `verifiedAt` | `user_identity` (migration 0002), one row for each (type, value); `verifiedAt` is only an order |
| `access` | `user_product_access.status` for each user and (product, role); "none" is no row |
| `mergeLog` | `identity_merge_log` |
| `creds` | `session`, `oauthAccessToken`, `oauthRefreshToken` rows, by user and by whether a merge of the user has committed since |
| `job` | a call of `mergeUsers`: idle, at a statement of its transaction, or at the i-th of its four revocation calls |
| `txn` | that transaction: the rows its statement has found, and its uncommitted writes |
| `creating` | users whose creator has still to call `createVerifiedIdentity` |
| `login` | a sign-in between `resolveVerifiedUser` and `createSession` |
| `clock`, `exposed`, `late` | the next `verified_at`; history for `MergedSessionsEnd`; history for `StrandedExplained` |

Actions: `StartMerge` is lines 83-93 of `merge.ts`. `TakeSnapshot` starts a
statement of the transaction, and `ClearPrimaries` (2a), `MoveHandles` (2b),
`PromotePrimary` (2c, once for each type) and `UniteAccess` (3) end it.
`CommitMerge` is the log row, the update of `"user"` and COMMIT, `AbortMerge` the
failure of any statement, `Revoke` one call of lines 160-163,
`InterruptRevocation` a throw or a stop between them.
`CreateUser`, `AttachVerified`, `Provision`, `GrantAccess`, `RevokeAccess` are
the writes of the other services to the same tables; `ResolveLogin`,
`OpenSession`, `RejectLogin` a one-time-code sign-in; `PasswordSignIn`,
`IssueTokens`, `RefreshTokens`, `EndCredential` what Better Auth does under the
configuration in `src/auth.ts`.

Abstractions, all of which admit more behaviours than the code except where
said:

* The merge transaction is modelled as PostgreSQL runs it at READ COMMITTED. A
  statement first takes a snapshot of the committed rows and of its own
  transaction's; other transactions may commit before it ends. An UPDATE waits
  for the rows another open transaction has written (`Unlocked`), reads its WHERE
  clause again on a row that was locked (`StillOwned`, and `status = 'active'` in
  `UniteAccess`), but not the subqueries, whose rows are those of the snapshot:
  step 2c updates the row it has found by its id, whoever owns it by then.
  `KeyFree` is the partial unique index `uq_primary_per_type`: a writer waits for
  an open transaction's row and fails at a committed one. A statement that fails,
  a deadlock or a lost connection is `AbortMerge`, possible at every statement.
  Nothing locks the survivor.
* Steps 4 and 5 and COMMIT are one step: the log row has no key to wait for, and
  the row of `"user"` is locked until COMMIT, so the order of commits is that of
  the pointers. The statements of the other services are one step each, and
  their transactions too: `Provision` locks no row that a merge has written,
  except the access rows it waits for (`AccessLocked`).
* `Provision` may resolve to any existing user; the code resolves by contact id
  or by handle. Any user may have a password. An SSO sign-in is not separate
  from a password sign-in: both end in a session for a `"user"` row found
  without `user_identity`.
* Only emails are ever verified: no code path in `src/` writes a verified phone.
  Phones are handles that provisioning attaches unverified.
* Access rows carry no vendor here; `AccessOutbox` has them.

### DedupRun

`candidate` is `dedup_candidate.status` by pair; `run` is the place of each run
in the loop of `runDedup`. `StartRun` takes any set of pairs of users not merged
at that moment, which is the contract of `DedupDeps.findCandidates`; with the
finders wired today, tier A returns nothing (`salesforce_contact_id` is unique)
and tier E is manual, so automatic merges happen only once more finders are
wired, as the comments of `src/db/dedup.ts` announce. The run's merge is
`job[m]` of `IdentityMerge`: `CallMerge` conjoins `StartMerge`, `MergeProceeds`
conjoins the statements, `CommitMerge` or `Revoke`, `RunFails` conjoins the failures.
`MergeIsNoOp` is `{merged: false}`. `Linked` (users with a Salesforce contact
id) is fixed while runs go on.

`fetchMergeCandidateUser` selects `created_at` from `"user"`
(`src/db/dedup.ts:178`), whose column is `"createdAt"`
(`src/db/better-auth-schema.sql:1`). As wired, that query fails, which is
`RunFails` between the insert and the merge; the model is of the injected
contract, with a fetch that can also succeed.

### AccessOutbox

`row` is the committed access row of a (user, product, role) with a vendor role,
`tx` a writer's open transaction, which holds the row and its outbox id;
`outbox`, `committed` and `nextId` are the outbox table, the ids that are
visible, and the sequence; `worker` is a drain with its claimed id, the ids it
failed on and its budget of attempts; `tuples` is OpenFGA. `Open` writes the
access row and takes the id; `Commit` publishes both, `Rollback` loses the id.
`Claim` takes the lowest visible pending id that is not locked and not tried
(`FOR UPDATE SKIP LOCKED`); `ApplyOk`, `ApplyThrows` are the awaited call, which
may have had its effect even when it throws; `MarkProcessed`, `MarkFailed`
commit; `Crash` rolls the claim back. `lastWrite` is history. `attempts` and
`last_error` are only reported, and left out. Grants of non-vendor roles write
no outbox row and are left out, as is the admin check. Two rows of one user and
role in different products share a tuple; `Subject` maps rows to what the tuple
names.

`OutboxPromise` is what migration 0006 says of the table, "A domain write and
its outbox row commit together, or neither commits", and what the worker adds:
an access row and its event change in one step, with an id above those of the
row's earlier events; an event that is there and pending, and no other, reaches
the tuples; it goes from pending to delivered to processed, and back to pending
if the process stops in between. `OutboxKept` states that `AccessOutbox`
implements it. The refinement mapping is `Events`: an outbox row that is not
committed is not there, and one is delivered while the worker that holds it has
its answer.

`TuplesErrForACause` says exactly how far "mirror" can be taken (finding 3 of
section 4): once the events on a tuple are processed it exists if and only if an
active row asks for it, unless an older event was delivered after the newest
(`Overtaken`), the row of the newest was granted to another vendor since
(`Replaced`), or rows of two products share the tuple (`Shared`). Each of the
three is needed: on two rows of one subject and two vendors, TLC finds the
property violated when one of them is taken out.

### OtpSignin

| Variable | Code |
|---|---|
| `verified` | handles that `resolveVerifiedUser` finds; none ever stops being verified |
| `store` | the `VerificationStore` of `alias-otp.ts`: for each handle the code and its attempts |
| `verifier` | a call of `verifyOtpSignin`: the record it found, and the call of the store it makes next |
| `starter` | a call of the start endpoint: behind INCR, behind EXPIRE, or let in |
| `count`, `armed` | the counter of `checkRateLimit` in Redis, and whether it has a time to live |
| `newest`, `ended`, `raced`, `shared`, `refused`, `logins`, `broken` | history |

`Find` is lines up to `store.find`, `Compare` the hash, `WriteAttempt` the
`store.update` of a refusal, `DeleteLocked` the deletion of a code with too many
attempts, `Consume` the deletion of a right one, `OpenSession` the session.
Update and delete act on whatever the store holds by then, not on the record
that was read; that is where overlapping verifications go wrong. A code is its
identity: a guess is right or wrong. `RedisFails` is the limiter's "fail open";
`StartEnds` and `VerifyFails` are a reply, an exception or the end of the
process. Delivery of the code and the reply's wording are left out. Sessions of
a user who is merged meanwhile are `IdentityMerge`'s matter.

### Migrate and MigrationLedger

`lock` is the runner whose connection holds the advisory lock, `ledger` the rows
of `schema_migration`, `done` the contents committed with a row for each
version, `bootstrap` the contents of 0001 that `ensureLedger` has executed
without one, `runner` a process: its release's files, whether it is a dry run,
and what it found pending. `Acquire`, `EnsureLedger`, `ReadApplied`, `ApplyOne`
and `Unlock` are the calls of `migrate` in turn, with the ways each can end.
`EnsureLedger` executes the release's own 0001, edited or not, in its own
transaction and before anything is compared; `SetupFails` is its failure, and
that of the query after it. An edited 0001 may fail a second time or not: both
are possible.
`Unlock` goes to the connection that holds the lock or to another one of the
pool, where it does nothing; `Exit` and `Crash` close all of them; `LoseLock`
breaks the one that holds it while the run goes on. `Executable` says whether a
file can be executed over itself: a `CREATE TABLE` cannot, an `INSERT ... ON
CONFLICT DO NOTHING` can. `MigrationLedger` is the promise: statements and row
in one step, once, until exclusion is lost; it says nothing of `bootstrap`. `LedgerKept` states that `Migrate`
implements it, with `exclusive <- (lost = 0)`.

### AccessAdmin and VendorSso

`request` is a request of an administrator that has passed `CheckAdmin`; `Grant`
and `Revoke` are the transactions of `src/services/access.ts`. The requests of
`src/services/vendor-sso.ts` pass the same check and go on in `vop`:
`ReadVendor` is `getVendorById`, then `RegisterProvider`, `SetProvider`,
`VerifyDomain`, `Activate`, `DeleteProvider`, `DisableRow` are one awaited call
each. `prov` is Better Auth's provider rows, `vstatus` and `vprov` the vendor's
row. `login` is a sign-in at an identity provider: `BeginSignIn` and `Callback`
are the plug-in's, with the setting that accounts are not linked; `FindVendor`,
`AttachEmail`, `GrantVendorRole` are the calls of `provisionVendorUser`, which
is called for a new account only. `account` is Better Auth's account row of an
employee. `Abandon` and `SignInFails` stop a request or a sign-in anywhere.
`ClaimEmail` is another service giving the employee's email to another user.

A member of `Vendors` is a vendor's name, which is unique. Its allowed domain is
`Domain`; nothing in the schema keeps two vendors from naming one domain. Users
of a disabled vendor keep their sessions and access rows, in the code and here.

### Intake and LegacyLogin

`email`, `contact` are columns of `"user"`; `owner`, `verified` the handles;
`links` the contact-link rows of the outbox. A callout is `Receive` (the lookup
by contact id), `LookUp` (by email), then `Create` or `Link`, and `Commit`, the
transaction of handles, grants and outbox row; `Refuse` is a unique constraint
or `MayLink`. The import takes the legacy accounts one by one. `Legacy` holds the
normalised emails of the active ones; inactive accounts and those whose email
does not normalise (`skippedInvalid`) are only counted. Its calls: `NextAccount`,
`ImportUser`, `ImportAccount`, `ImportIdentity`; `ImportEnds` and
`ImportThrows` are its ends, and it may be run again at any time, though not twice
at once, since it is a script run by hand. `LegacyLogin` adds passwords:
`secret` is the hash as (password, format), `algo` the flag `importedHashAlgo`;
`SignIn`, `FindImported`, `Rehash`, `ClearAlgo` are a sign-in and the after hook
of `src/auth.ts`, `ChangePassword` and `SignUpWith` Better Auth's. Failures of
callouts, of the import and of the hook share the bound `MaxFailures`.

## 3. What TLC checks

Every property has a mutant of the code that violates it under the run's own
configuration (`mutants` in `PROJECT.json`; the mutated operators stand before
the ones they replace).

| Run | Instance | Shows |
|---|---|---|
| `merge_rows` | 3 users, 2 emails, 2 mergers, 2 merges, statement by statement | one primary per live user and type; log, status and pointer agree; a handle moves only by a logged merge, and stays with a merged user only for the causes named below |
| `merge_sessions` | 2 users, 1 email, 2 mergers, 1 sign-in, at most 2 live credentials | types; a session outlives a merge only in the windows named below |
| `merge_refresh_tokens` | 2 users, 1 merger, at most 3 credentials | **violated**: refresh tokens survive a merge |
| `dedup_run` | 3 users, 2 pairs that share their loser, 1 run at a time, repeated | survivors climb in `pickSurvivor`'s order; only automatic pairs merge; decided pairs are merged; one log row per merged user; access is united |
| `dedup_shared_user` | 3 users, 2 pairs, the survivor of one loses the other | **violated**: handles end on a merged user, and none came late |
| `outbox_drain` | 1 access row, 2 writers, 2 workers, 3 events, budget 2, 1 crash, link events always fail | events and rows, exclusive claims, why a tuple disagrees with its row, progress; `OutboxPromise` is implemented |
| `outbox_mirror` | 1 access row, 2 vendors | **violated**: a re-grant leaves the old vendor's tuple |
| `otp_signin` | 1 handle, 2 codes, 2 verifications, 1 start, 2 attempts, limit 2 | one login and `MaxAttempts` guesses per code unless verifications overlap, and a bound if they do; the newest code stands; the limit lifts |
| `migrate` | 3 files, 5 releases, 2 runners, 1 lost lock | files are applied once, in order and with their row; a release with an edited file and a dry run commit nothing but their own 0001; waiters get their turn; `MigrationLedger` is implemented |
| `vendor_sso` | 1 vendor, 2 providers, 1 employee, 2 requests, 2 sign-ins | former administrators, active vendors, providers of disabled vendors, and provisioning, each up to exceptions that are named |
| `vendor_disable` | 1 vendor, 2 providers, 1 request, 1 sign-in | **violated**: a replaced provider survives the disable of its vendor |
| `intake` | 2 emails, 2 contacts, 1 callout at a time, the import, 1 sign-in, 2 passwords, 1 failure | links stay, the import leaves nobody out, users without handles are explained, flags and passwords are right, a repeated callout gets through or stays blocked |

### Bounds

* `Users`, `Emails`, `Mergers`: three users are the least with a chain of
  merges; two mergers the least that overlap; two handles the least for which a
  survivor has one of its own and gains one. Phones are empty in these runs: the
  two types never interact, and the proofs cover both.
* `MaxMerges` (constraint `FewMerges`, in `merge_rows`): two merges, l into s and
  s into t or the same loser twice, are what it takes to strand a handle or to
  overlap; states with two log rows are checked and not continued. Before that
  any number of transactions start, fail and start again. The constraint also
  leaves out revocation calls after the first and users created "invited", who
  differ in nothing but that no verified handle follows.
* `MaxCreds` (constraint `FewCredentials`): two live credentials hold a session
  of each user, or one older and one newer than a merge; the constraint cuts off
  states with more, and the theorem needs no bound.
* `MaxEvents`, `MaxLinks`, `MaxCrashes`, `MaxRows`: three events are a grant, a
  revocation and a failing row before or after them; a budget of two is one
  failing row and one that works; the code's budget is 100. With one row and one
  vendor only the first cause of `TuplesErrForACause`, `Overtaken`, occurs in
  `outbox_drain`; `outbox_mirror` ends in a state of the second, `Replaced`;
  rows that share a tuple are left to the theorem, since liveness on a graph
  with two rows takes TLC too long.
* `Codes`, `MaxAttempts`, `HandleLimit`, `MaxCount`: two codes are the least
  that replace one another; two attempts the least for which a count is lost
  before the limit; a limit of two and a counter up to three refuse once. The
  handles do not interact, and the theorems are of any number.
* `Releases`, `MaxLost`: one release before, one with, the newest file, one with
  an edited second file, one with an edited 0001 and one without it; one lost
  lock is what it takes to
  have two runs at work. The run shows what happens then, and before.
* `Providers`: two, one that is replaced and one that replaces it. One vendor
  and one employee: what a provider does to its vendor is the same for each, and
  the theorems are of any number.
* `Callouts`, `UserIds`, `Phones`: with two emails there are at most two users.
  One callout at a time meets the import, sign-ups and the calls before it;
  callouts that overlap one another are covered by the theorems, which are of
  any number: `LinksAreKept` is exercised by overlapping callouts only there.
  Only `RepeatedIsLinked` is not proved. One legacy account is imported, so the
  accounts behind one that throws (section 4) are not in the run: a second
  multiplies the states by more than seven. No phone is needed for a collision
  of handles. `MaxFailures` of one stops one process once, anywhere.
* Symmetry is used in runs of `IdentityMerge`, whose properties are invariants
  and action properties, and in `vendor_sso`, of requests, providers and
  sign-ins, which nothing distinguishes; that run has invariants only.
* Deadlock is checked in the merge, dedup, outbox and `migrate` runs, where the
  processes never all stop. It is not in `otp_signin` (codes and counters reach
  their bounds), `vendor_sso` and `vendor_disable` (provider ids run out and the
  last administrator may revoke their own role), and `intake` (every email
  taken): there nothing has to happen any more.

### Windows in which a session outlives a merge

`MergedSessionsEnd` says a session of a merged user, or one older than a merge
of its user, is (1) still to be deleted by a merger at work, (2) of a user whose
merge was interrupted after its commit, whose sign-in was past
`resolveVerifiedUser` at the commit, or who signed in with a password after
being merged, or (3) of a merged user to whom a later merge gave a verified
handle. (1) is the design; (2) and (3) are what the code leaves, and the theorem
says that there is nothing else.

### Handles that stay with a merged user

`StrandedExplained` says a verified handle whose owner is merged (1) is with a
user that a call chose as survivor after it had been merged, or (2) came late:
`createVerifiedIdentity` attached it to a user already merged, or in the middle
of a merge that had taken its snapshot for step 2b, or an overlapping merge
moved it to such a user. An instance of the last: A merges l into s and B merges
s into t at once; A's step 2c sees s's primary and promotes nothing, B's step 2b
does not see the row A moves, and after both commits l's handle is verified, not
primary, on s. `PrimaryPerType` therefore speaks of users that are not merged.
In (1) and (2) the user is merged for good, and no later call looks at it as a
loser, so the handle stays.

### Fairness

Four runs need it.

`outbox_drain`: `Bun.cron` starts a drain every minute and its loop goes on
(`WF` of each step of a worker); a transaction commits or rolls back (`WF`); the
call to OpenFGA succeeds sooner or later when it is tried again and again (`SF`
of `ApplyOk`), unless its event type is in `Broken`. Crashes are bounded, and
nothing forces a writer to start. `EventuallyProcessed` holds because each drain
skips what it has tried; it would fail with as many always-failing rows as a
drain may attempt.

`otp_signin`: Redis drops a key whose time to live has run out (`WF` of
`WindowEnds`), and a request that is between INCR and its end goes on or ends
(`WF`). No request has to arrive. `LimitLifts` holds but for a counter whose
EXPIRE failed or whose process stopped before it; that handle is refused for
good.

`migrate`: a run goes on (`WF` of `Proceed`); PostgreSQL grants an advisory lock
to those that wait in turn, so who waits again and again is granted it (`SF` of
`Acquire`). `WaitersEnd` then needs `Exit` to free the lock: the unlock may have
gone to another connection.

`intake`: a callout that is being served goes on (`WF`); Salesforce repeats a
callout that failed, and it is received whenever it is possible again and again
(`SF` of `Receive`). The import, sign-ups and sign-ins have no fairness.

`vendor_sso` has none: its properties are invariants.

## 4. Where the code and the documents differ

1. **Refresh tokens survive a merge.** README.md:130 and `merge.ts:10` promise
   their revocation; `src/services/dedup.ts:111` deletes access tokens only.
2. **The survivor may itself be merged.** `merge.ts` checks the loser's status
   only. Two candidates that share a user leave verified handles on a merged
   account, and no lookup follows `merged_into_user_id`. Two overlapping merges,
   and a user merged before its first handle is attached, do so too
   (`StrandedExplained`, above); `SignInsStayLive` is the converse for the job:
   without shared users, handles that did not come late lead to live users.
3. **A re-grant with another vendor is half recorded.** `src/db/access.ts:90-92`
   overwrites the vendor and writes no 'revoked' row for the old one;
   prompts/012:90 says events mirror rows exactly. `TuplesErrForACause` names
   the two other causes of a difference, and says there is no fourth.
4. **A replaced provider survives the disable of its vendor.** Registering a
   second provider overwrites the vendor's `sso_provider_id`
   (`src/services/vendor-sso.ts:145`); the first stays in Better Auth with its
   verified domain. `disableVendor` deletes only the provider the row names, of
   which line 248 says "The deletion, not a status flag, is what blocks every
   future sign-in immediately" and prompts/011:129 that a previously provisioned
   employee is turned away too. An employee whose account is with the first
   provider still gets a session.

Three more were met and have no run of their own, as they are plain in the code:

* **An edited 0001 is executed.** `ensureLedger` executes and commits the
  release's own file 0001 before `verifyChecksums` and before the test of
  `dryRun` (`src/db/migrate.ts:160-171`). `migrate.ts:97-100` says of a release
  with an edited file "stop, apply nothing", prompts/002:133 the same and :136
  "without applying" of a dry run. With the file as it is, a `CREATE TABLE IF NOT
  EXISTS`, nothing changes once the table is there; with an edited one its
  statements are applied, and no row says so. `BarredRunsOnlyBootstrap` states
  what is left of the promise: nothing else is committed.
* **One code may open two sessions.** `src/services/otp-signin.ts:126` says "One
  code, one login." Two verifications that both find the record before either
  deletes it both sign in. `OneCodeOneLogin` excepts exactly the codes that two
  verifications held at once, and so shows that there is no other way, not that
  the sentence holds; `GuessesBounded` is what remains of the limit on guesses.
* `src/services/legacy-import.ts` calls the import idempotent: a rerun "skips
  everything already imported". An account whose import stopped between its user
  and its handle makes every rerun throw at its email (`ImportThrows`), and the
  accounts after it are not reached. `ImportCovers` speaks only of runs that
  come to their end.

## 5. What is proved

For every value of the constants, from assumptions on them that the code meets:
`MergeAssumption` (NULL is no user, and no handle is both an email and a phone),
`DedupAssumption`, `OutboxAssumption`, `OtpAssumption` (the limits are numbers,
NULL is neither a code, a handle nor a record, and verifications are served at a
finite number at a time), `MigrateAssumption` (version 1
is among the versions and can be executed twice), `AdminAssumption` (requests
are served at a finite number at a time; rows are of users, products and roles,
with an ADMIN role), `VendorAssumption` (every employee has a VENDOR row of
Masterclass that may be granted), `IntakeAssumption` (legacy emails are emails,
and none is a phone) and `LoginAssumption` (the legacy password is a password).

| Module | Theorem | States |
|---|---|---|
| `IdentityMergeProofs` | `TypesHold` | `[]TypeOK` |
| | `LogAndPointersAgree` | `[]LogMatchesPointer` |
| | `MovesAreLogged` | `IdentityMovesAreLogged` |
| | `PrimaryIsUnique` | `[]PrimaryPerType` |
| | `AccessIsUnited` | `MergeUnionsAccess` |
| | `MergedOnce` | `[]LosersApart` implies `[]SingleLogRow` |
| | `OneMergerMergesOnce` | with one merger, `[]SingleLogRow` |
| | `StrandingIsExplained` | `[]StrandedExplained` |
| `SessionProofs` | `MergedSessionsAreEnded` | `[]MergedSessionsEnd` |
| `DedupProofs` | `DedupTypesHold` | `[]DedupTypeOK` |
| | `DedupImplementsMerge` | `DedupSpec => Spec` |
| | `SurvivorsClimb` | `[]PointersClimb` |
| | `ChainsEnd` | every chain of `merged_into_user_id` ends at a live user |
| | `OnlyAutoPairsAreMerged` | `[]OnlyAutoPairsMerge` |
| | `DecidedPairsAreMerged` | `[]DecidedPairsMerged` |
| | `SignInsStayLive` | without shared users, `[]SignInsReachLiveUsers`, which excepts handles that came late |
| | `OneRunMergesOnce` | with one run at a time, `[]SingleLogRow` |
| `AccessOutboxProofs` | `OutboxTypesHold` | `[]TypeOK` |
| | `LastEventsDecide` | `[]LastEventDecides` |
| | `ClaimsAreExclusive` | `[]ClaimExclusive` |
| | `TuplesAreGranted` | `[]TuplesHaveGrants` |
| | `ProcessedAreDelivered` | `[]ProcessedWasDelivered` |
| | `TuplesAreSynced` | `[]SyncedWhenInOrder` |
| | `OutboxIsKept` | `OutboxKept`, which is `OutboxPromise`'s `Spec` |
| | `TuplesErrForThreeCauses` | `[]TuplesErrForACause` |
| `OtpProofs` | `OtpTypesHold` | `[]TypeOK` |
| | `OneLogin` | `[]OneCodeOneLogin` |
| | `GuessesLimited` | `[]AttemptsCounted` |
| | `NewestStands` | `[]NewestCodeStands` |
| | `GuessesAreBounded` | `[]GuessesBounded` |
| | `WindowsEnd` | `[]CountersExpire` |
| `MigrateProofs` | `MigrateTypesHold` | `[]TypeOK` |
| | `VersionsAppliedOnce` | `[]AppliedOnce` |
| | `LedgerIsSchema` | `[]LedgerMatchesSchema` |
| | `EditedFilesOnlyBootstrap` | `BarredRunsOnlyBootstrap` |
| | `FilesApplyInOrder` | `AppliedInOrder` |
| | `LedgerIsKept` | `LedgerKept`, which is `MigrationLedger`'s `Spec` |
| `VendorProofs` | `VendorTypesHold` | `[]TypeOK` |
| | `FormerAdminsBounded` | `[]RevokedAdminBounded` |
| | `ActiveIsVerified` | `[]ActiveMeansVerified` |
| | `DisabledAreGone` | `[]DisabledProvidersGone` |
| | `SessionsAreProvisioned` | `[]SignedInAreProvisioned` |
| `IntakeProofs` | `IntakeTypesHold` | `[]TypeOK` |
| | `LinksHold` | `[]LinksAreKept` |
| | `ImportLeavesNobodyOut` | `[]ImportCovers` |
| | `HandlelessHaveACause` | `[]HandlelessAreExplained` |
| | `FlagOutlivesHash` | `[]ClearedMeansRehashed` |
| | `LatestStands` | `[]LatestPasswordStands` |

The argument of each:

* `LogMatchesPointer` is inductive with the types: `CommitMerge` is the only
  step that touches log and pointers, and it appends the row that matches the
  pointer it sets.
* `SingleLogRow` is false of two overlapping calls for one loser: both pass the
  check and write a row. `MergedOnce` says that this is the only way: as long as
  no two checked calls have the same loser (`LosersApart`), what a checked call
  has read of its loser is still so (`CheckHolds`), and its row is the first.
  One merger, or one run of the job at a time, meets the condition.
* `PrimaryPerType` rests on `RowsInv`, which says of every open transaction what
  its writes have to do with the committed rows and with those of the others:
  `CallsOK` and `PhasesOK` (a call is of two users; what is written at which
  statement), `VerifiedOK` (verified rows have an owner and a time of their own,
  primary ones are verified, step 2c finds one at most), `LocksOK` (no row is
  written in two transactions; a row 2a or 2b has written still has the loser as
  its committed owner), `KeysOK` (the unique index, over the committed rows and
  those of every open transaction) and `LiveOK`. The last is the heart: a user
  that is not merged has a primary handle for each type it has a verified handle
  of, and if a transaction moves a verified handle to such a user and is past
  its step 2c, there is a primary row in its view. The primary that 2c saw can be
  taken away only by the user's own merge, after which the user is merged. That
  a non-empty set of handles has one verified first (`EarliestExists`) is by
  well-foundedness of the naturals.
* `StrandedExplained` adds `LateOK`: once a merge of a user has its snapshot for
  2b, every verified handle of the user is among the rows it moves or came late.
  So a commit leaves its loser late handles only, and strands what it moves only
  on a user in the middle of its own merge (late) or merged before, which
  `LogMatchesPointer` turns into two rows of the log. For `SignInsStayLive`,
  `LogClimbs` ties each row of the log to an automatic pair in `pickSurvivor`'s
  order; those two rows would be two pairs, one losing the user that the other
  keeps.
* `IdentityMovesAreLogged` needs `LocksOK`: what a commit publishes was the
  loser's until then. `MergeUnionsAccess` needs `AccessOK`: the access rows that
  step 3 has moved stay free to move until COMMIT, in one transaction only, and
  what it leaves behind meets a row of the survivor, unless that one is merged
  meanwhile.
* `MergedSessionsEnd` needs the sign-ins under way and the mergers that have not
  yet started to revoke: `SessionInv` adds that a sign-in resolved to a merged
  user is exposed or the user has a verified handle again, and that a checked
  call starts at its first revocation. The lemma for a commit shows that every
  session it makes stale is on the list of that merger; that a commit takes a
  verified handle from nobody but its loser is `LocksOK`.
* `DedupImplementsMerge` maps each step of a run to a step of the merge
  procedure or to a stutter, so the theorems about merges hold of the job. The
  refinement mapping is the identity: the job's module keeps the merge
  procedure's variables.
* `PointersClimb` needs that every call of `mergeUsers` that has passed its
  check was given its users in `pickSurvivor`'s order. `OnlyAutoPairsMerge`
  needs the same of the pair a run has in hand. That pointers never run in a
  circle follows: the most preferred user of a set cannot point into it.
  `DecidedInv` ties a run that is merging to its call, and one that has merged
  to a user of its pair; a merged user stays merged.
* `LastEventDecides` rests on `TypeInv` (an open transaction has an id of its
  own, taken and not visible; events of vendor roles name a vendor) and on
  `LockInv`: the lock on an access row admits one open transaction for it, whose
  id is above those of all the row's committed events. Ids of different rows may
  commit out of order; those of one row cannot.
* `ClaimExclusive`, `TuplesHaveGrants` and `ProcessedWasDelivered` rest on
  `DeliveryInv`: the last write of a tuple is a committed event on it and says
  whether the tuple exists; an event processed, or called and not yet marked,
  has been written, or another on its tuple since. A claim is of a pending row,
  and an event in an open transaction is not processed. `SyncedWhenInOrder`
  follows from this and `LastEventDecides`.
* `OutboxIsKept` maps `Commit` to `Grant`, `Revoke` or `Link`, `ApplyOk` to
  `Deliver`, a throw after the write to `DeliverLost`, `MarkProcessed` to
  `Finish`, a crash after the answer to `Forget`, and every other step to a
  stutter. That a commit is a step of the promise needs `LockInv` (its event is
  the row's newest) and `TellInv` (what a revocation read of its row is still
  so, under the lock); that a delivery is one needs the exclusive claims.
* `TuplesErrForACause` has no invariant of its own. The last write of a tuple is
  a committed event on it; if it was not overtaken, it is the newest on the
  tuple; if it is the newest of its row too, `LastEventDecides` says what the
  row says, and if not, a later event of the row names another vendor. The other
  way, an active row has a last event (`LastExists`), and that is on the tuple.
* `GuessesBounded` counts how often a code can be refused while verifications
  overlap: less often than there are nondecreasing functions from attempt counts
  below the limit to numbers of verifications (`Distributions`), which are
  `MaxAttempts + 1` for one verification and `C(n + MaxAttempts, MaxAttempts)`
  for n. The argument is a measure: `Spread` says for each count below the limit
  how many verifications may still refuse a guess at the code from a record with
  at most that count, in hand or stored. Every refusal takes it down in the
  lexicographic order (`RefusalLowers`), nothing takes it up, and `GuessInv`
  says that the refusals so far and the distributions below the present one are
  together fewer than all distributions.
* `OneCodeOneLogin` and `AttemptsCounted` speak of codes no two verifications
  held. Of those, `CodeInv` says that every trace of a code is of one that was
  issued, all on one handle (`TracedAreIssued`, `OneHandle`); that one
  verification at a time holds a code, and nobody, nor the store, once it is
  used (`UsedOnce`); and that the attempts in a record are the refusals so far
  (`AttemptsAreRefusals`). `NewestCodeStands` needs that a record in hand of a
  handle whose newest code did not meet a verification is of that code
  (`NewestIsHeld`). `CountersExpire`, the safety half of `LimitLifts`, is
  inductive by itself.
* `AppliedOnce` and `BarredRunsOnlyBootstrap` rest on `Excludes`: until the lock
  is lost, a runner at work holds it, so what it read is still so when it
  applies (`PendingAreNew`, `PendingHaveFiles`). `LedgerMatchesSchema` holds
  with or without the lock: both are written in one transaction. `LedgerIsKept`
  maps `ApplyOne` to `Commit` or, after a loss, to `CommitAgain`, `LoseLock` to
  `LoseExclusion`, and every other step to a stutter. `AppliedInOrder` needs
  `RestIsDone`: a file of a run that applies is pending or done, with or without
  the lock.
* `RevokedAdminBounded` counts: `LateInv` says that the late changes of a former
  administrator and that user's requests still under way are together fewer than
  the requests there are (the revocation was one of them); each late change ends
  one. `OpInv` and `ProviderInv` say what a request under way knows of its
  provider (whose it is, that a provider read from a vendor's row was registered
  for that vendor, what became of it if the row has since moved on);
  `ActiveMeansVerified` and `DisabledProvidersGone` follow, with their
  exceptions. `SignInInv` accounts for every employee who has an account.
* `LinksAreKept`: a callout about to link has the owner of its email in hand,
  and one that is resolved a user that has its contact (`CalloutInv`), and no
  step takes a contact from a user. `ImportCovers` needs that an account the
  import has passed has an owner (`ImportInv`), which no step undoes.
  `HandlelessAreExplained` is one of the conjuncts of `EntryInv`. `PasswordInv`
  says of a sign-in in the hook that it is of the latest password unless its
  user changed it, and that the hash is argon2id before the flag is cleared.

Proved, with no run of their own: `TuplesHaveGrants`, `ProcessedWasDelivered` and
`AppliedOnce`, which say of tuples and versions what `OutboxPromise` and
`MigrationLedger` say step by step, and so what the runs of `OutboxKept` and
`LedgerKept` cover; `SyncedWhenInOrder`, which speaks of a tuple in order before
all its events are processed; and `LedgerMatchesSchema`, `CountersExpire`,
`DedupTypeOK` and `EveryChainEnds`.

Only model-checked: liveness (`EventuallyProcessed`, `LimitLifts`, `WaitersEnd`,
`RepeatedIsLinked`), which is beyond the prover. The four violated properties
are not theorems; for two of them a theorem says under which condition they
hold (`SignInsStayLive`), or that their causes are complete
(`TuplesErrForThreeCauses`).

## 6. Plan

Done: `IdentityMerge`, `DedupRun`, `AccessOutbox`, `OutboxPromise`, `OtpSignin`,
`Migrate`, `MigrationLedger`, `AccessAdmin`, `VendorSso`, `Intake`,
`LegacyLogin`, their runs and the theorems above. Left, in order of importance:

1. Merges beside the outbox: access rows that move to the survivor without an
   event (`src/identity/merge.ts:127`), and the shadow reconciliation that
   reports the difference.
2. Merges beside intake: a merged user that keeps its contact id
   (`src/services/salesforce-provisioning.ts:118`).

## 7. Not modelled

* **Health and the Redis client.** The probe reads, shares one flight and caches
  its answer; nothing depends on it but the reply.
* **Shadow reconciliation, the FGA client.** They read rows and tuples and log;
  see the plan.
* **Normalisation and name similarity.** Pure functions on strings. Handles are
  normalised model values, which is the state the CHECK constraints admit; the
  finders may return any pairs.
* **Routes, pages, configuration, logging, errors, row types.** Parsing and
  wording around the services. The endpoints' checks that only reject (signature
  of a callout, shape of a body, a missing session) change nothing.
* **Adapters and one-off scripts.** One request or one query each; seeds and the
  model push are sequential scripts run by hand.
* **Inside Better Auth, OpenFGA, Redis, PostgreSQL.** Modelled by what the code
  relies on: atomic commands, unique constraints, row locks, advisory locks, and
  the settings in `src/auth.ts`.

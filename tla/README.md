# FiFi Alert server: a TLA+ verification project

The repository is a NestJS 11 server for missing-pet alerts: an owner raises an
alert, people near the place are notified by push and e-mail in three waves,
neighbours report sightings, and the owner resolves or withdraws the alert.
State lives in PostgreSQL/PostGIS (through Prisma); Redis holds rate limits,
caches, WebAuthn challenges and the BullMQ notification queue.  Production runs
one Node process, so there is no parallelism, but every handler is a chain of
awaited statements, almost never in a transaction, and handlers interleave at
every `await`.

## Inventory

| Part | State | Operations | What is hard |
|---|---|---|---|
| Alert lifecycle (`alert/alert.service.ts`) | alert rows | create, resolve, cancel, renew, hourly expiry | check-then-write without conditions, several statements per request |
| Content of alerts and pets (`alert.service.ts`, `pet/pet.service.ts`) | photos, contact details | update, addPhotos, pet update and its copies, the viewers' routes | two writers of one list, what a viewer may see |
| Reunion cards (`alert/reunion-snapshot.service.ts`) | one row per tag | upsert (delete + create), read with lazy delete, daily purge | two unique keys, no transaction |
| Rate limits (`alert/rate-limit.service.ts`) | Redis sorted set per user | check, record, trim, reset | check-then-record, window boundaries, rounding |
| Sessions (`auth/services/token*.ts`) | session rows | issue, rotate, replay, revoke, revoke-all, clean-up | rotation races, reuse detection, crash in the middle |
| Accounts (`user/user.service.ts`, `auth/auth/auth.controller.ts`) | user, account, verification rows | sign-up, social sign-in, login, reset, change of password and address, deletion | checks around calls of better-auth, sessions that must end |
| Account events (`auth.ts`, `user.service.ts`, `audit/*`, `shared/email`) | listeners in flight, `audit_log` | hooks, listeners, mails, audit queries | listeners run after the account has changed or gone |
| Guards, administration, gates (`auth/guards`, `admin`, `gate`) | sessions, bans, roles, gates | admit, ban, unban, revoke, assign, remove | a request is admitted on one read and acts later |
| Passkeys (`auth/passkeys/*`) | challenges, credentials | begin/finish registration and login, list, remove | single-use challenges, counters |
| Notification fan-out (`notification/*`) | notification rows, BullMQ jobs | three waves, push jobs, e-mails, success story, receipts | at-least-once jobs, crashes, alert closed meanwhile |
| Device matching (`location/location.service.ts`) | none (queries) | six strategies, deduplication | rows move and grow old between the queries |
| Devices (`device/device.service.ts`) | device rows | register, updateLocation, updatePushToken | a row written in two statements from an old read |
| Alert zones (`user/alert-zone*.ts`) | zone rows, cache | create, update, delete, cache-aside | limit before insert, stale refill |
| Adoption board, pets, pet types (`adoption/*`, `pet/*`, `pet-types/*`) | listing, pet, type rows | create, adopt, withdraw, relist, photos, remove | overlapping status writes, limit before push |
| Sightings (`sighting/*`) | sighting rows | create, dismiss, add photos | read-modify-write of the photo list |
| Invitations (`invitation/*`) | invitation rows, send log | create, resend, revoke, list, stats, preview, deliver, accept, sweep | status written by overlapping requests |
| Saved zones, social configuration, health, i18n, upload stores, CLI, simulation | various | I/O and look-ups | not modelled, see below |

How the parts interact: `AlertService.create` asks the rate limits, inserts the
alert and queues its waves; the queue's worker asks `LocationService` for
matches and writes notification rows, push jobs and e-mails; a push answer may
clear a device's token; a sighting queues the waves again; `resolve` closes the
alert, makes the public card and queues the success story;
`PetService.markAsFound` closes all alerts of a pet, `updatePet` refreshes the
copies in them.  Sign-up and verification emit events that `InvitationService`
turns into conversions and `UserService` into mails; mails and changes end as
audit entries.  Password changes, logout-all and the detection of token reuse
revoke the sessions of a user.  Everything else shares only rows.

What makes the parts correct, in a sentence each: a closed alert stays closed,
and nothing celebrates an alert that is still open; a login has one usable
refresh token and every presentation of a token gets the same answer; no session
outlives its account or its password, logins that overlapped aside; a request
acts on what admitted it; nobody is alerted twice, nobody in range is missed,
and every notification settles; an invitation is withdrawn, expired or accepted
for a reason its own history shows; a challenge succeeds once; the log tells of
no mail that was not sent; a limit that is checked before it is used is exceeded
by no more than the requests in flight; and where two writers share a row,
exactly the overlapping write is lost, never more.

## Modules

| Module | Code | Contents |
|---|---|---|
| `AlertStatus` | `enum AlertStatus` | abstract: what readers may rely on about an alert's status |
| `AlertLifecycle` (+`Proofs`) | `alert.service.ts`, `alert.controller.ts`, `pet.service.ts`, `reunion-snapshot.service.ts` | alerts, pets, cards, queued jobs; implements `AlertStatus` |
| `AlertContent` | `alert.service.ts`, `pet.service.ts`, `pet.mapper.ts`, `client-key.guard.ts` | photos of one pet and its alert, and what each viewer sees |
| `RateLimit` | `rate-limit.service.ts` | the three windows over one sorted set |
| `TokenRotation` (+`Proofs`) | `token.service.ts`, `token-cleanup.service.ts`, `login-issuer.service.ts` | the session rows of one user |
| `Accounts` (+`Proofs`) | `auth.controller.ts`, `user.service.ts`, `user.controller.ts`, the admin commands | one account from registration to deletion |
| `AccountEvents` | `auth.ts`, listeners of `user.service.ts`, `audit-log.*`, `email.service.ts` and its transports | events, mails, audit rows and their readers |
| `Access` | `validateAccessToken`, the guards, `admin.controller.ts`, `gate.*`, role commands | admission of requests, bans, roles, gates |
| `SingleUse` | | abstract: the life of a challenge |
| `Passkeys` (+`Proofs`) | `passkey.service.ts`, `passkey-challenge.store.ts`, `passkey.controller.ts` | ceremonies and credentials; implements `SingleUse` |
| `ThankYou` | | abstract: what the success story promises |
| `NotificationFanout` (+`Proofs`) | `notification-queue.processor.ts`, `notification.service.ts`, push and mail services | one alert's waves, rows, jobs and e-mails; implements `ThankYou` |
| `Matching` | `location.service.ts` | one wave's six queries and the deduplication |
| `Devices` | `device.service.ts`, `device.controller.ts` | one phone, its row, and the queue's clearing of tokens |
| `Zones` | `alert-zone.service.ts`, `alert-zone-cache.service.ts`, `user.controller.ts` | one user's zones and the cache of all zones |
| `Adoption` | `adoption.*`, `pet.*`, `pet-types.*`, `upload.service.ts` | one pet and its listing, pet types, photos |
| `Sightings` | `sighting.*`, `upload.service.ts` | reports on one alert and their photos |
| `Invitation` (+`Proofs`) | `invitation.service.ts`, `invitation.controller.ts` | invitations to one address, send log, deliveries, hooks |
| `MC*` | | values for TLC; `MCRevocation` adds a history variable (the logins a revoke-all swept) |
| `MCServices` (+`ServicesProofs`) | | `AccountEvents`, `Access`, `Passkeys`, `RateLimit` side by side |
| `MCRecords` (+`RecordsProofs`) | | `Devices`, `Zones`, `Matching`, `Adoption`, `Sightings`, `AlertContent`, side by side |

Conventions.  One action is one awaited statement with the synchronous code up
to the next `await`; it is named after the handler and the statement
(`ResolveRead`, `ResolveWrite`, ...).  A handler in flight is a record in `req`
(`work` for a worker of the queue, `call`, `job` elsewhere): the statement it
will execute next and the values it read and still uses.  A statement with a
`WHERE` on more than the id is a guarded action with a case for "no row
matched"; an `UPDATE` by id alone is unguarded, exactly as in the code.  Rows
are functions from ids, times are abstracted to the comparisons the code makes.
Read-only routes are operators (`preview`, `listSessions`, `SeenPets`,
`LogsRoute`, ...): the properties are stated on what they return, so they are
about what a client sees.  Requests that are refused and change nothing are left
out.  A controller's operator (`AlertController`, `Ceremonies`, ...) is what it
hands to its service.  A definition `Mut_X_...` stands before `X` and is `X`
with a plausible mistake; each property of a passing run is violated when its
mutant takes X's place.  Variables marked "history" record what a property has
to know about the past; no action reads them.

### AlertLifecycle

`status`, `petOf`, `overdue` and `renewals` are columns of the alert; `pet`
combines the pet's existence and `isMissing`; `snapshot` is the card stored
under a tag; `queued` the jobs handed to the queue.  `Tick` lets an alert reach
`expires_at`, `CheckExpired` is the hourly `UPDATE`, `Abort` (with `Faults`)
ends a request at any statement: an exception or a process that stops.
`UpdatePet` is the part of `PUT /pets/:id` that concerns alerts: its body may
carry `isMissing`, which is written whatever alerts are live.  `late` is a
history: the creates and cancels about to write on what they read (the pet's
flag, the number of live alerts) and another request has changed since.
`AlertStatus` is the refined specification: a row appears once, ACTIVE; nothing
makes it ACTIVE again; EXPIRED is reached from ACTIVE only.  It allows RESOLVED
and CANCELLED to overwrite each other, because the code does.

### TokenRotation

A login or a rotation mints a pair: an access row, then a refresh row with the
same id in the model.  `blob` is the encrypted replacement that a rotation
stores on the row it consumed, `age` the time since `revokedAt` as the code
distinguishes it (awaiting, grace window, reuse), `family` the login a pair
descends from.  `child` and `answers` are histories.  The sweep of
`revokeAllUserTokens` is two statements (`SweepBlobs`, `SweepRows`), logout
likewise.

### Accounts, AccountEvents, Access

`Accounts` follows one user row with its credential and provider accounts,
single-use links (`ticket`), signed links (`jwt`) and sessions.  A password is
the number of the write that set it, so that a session knows which password
opened it; `swept` remembers the newest password whose writer revoked the
sessions.  better-auth is external: `signUpEmail`, `FollowLink` are modelled
from how the controller uses them.

`AccountEvents` has a bag of listeners in flight.  Each carries the payload as
its emitter knew it, runs in one or two statements, and ends in a mail and an
audit event; the account may be changed or deleted between any two.

`Access` has sessions, bans, roles, gates, and requests that carry what
`validateAccessToken` read.  `late` marks a request whose user lost a right
after that read: the property is about all the others.  `updateUser` is `PUT
/users/:id`, for managers and for one's own row: the body reaches Prisma with
little taken away, so it may write the ban, the user's own sessions or roles, one
of them per body in the model; relations nested deeper, and those of the account
(in `Accounts`), are not followed.  `cleanupExpiredBans` is the nightly cron of
`TokenCleanupService`.

### Passkeys and SingleUse

`store` is the challenge store (GETDEL), `call` the finishers between their
statements, `chip` the counter inside an authenticator, which stays 0 in a
synced passkey (`Presented`).  `SingleUse` says what a
challenge promises: issued once, taken once, at most one success.  `Phase` maps
the tables to it.

### NotificationFanout, Matching, Devices

The alert was inserted and its waves queued (`Init`).  A worker takes a wave
job, matches, and makes a push pass (check, row, job for each device of each
matched user) and, in the HIGH wave, an e-mail pass (check, send, record); or a
push job; or the success story.  `Crash`, `PushThrows` and `Stall` are the
failures BullMQ answers with another attempt.  `Register`, `Unsubscribe`,
`Close` and `Sighting` are HTTP handlers or providers that run in between.  The
handler of a sighting is in `sightings`, a record for each of `Reports`: the look
at the alert, the INSERT, the creator's devices, a row for each of them, the
waves queued again after each row; the alert may be closed between any two, and
a failed statement leaves out what follows.
Matches carry the representation of their ids, because the processor's maps are
keyed by it: text from the alert-zone query, numbers from the others.
`ThankYou` knows nothing of workers, jobs and attempts: the story is announced
once and after the alert was closed; then a device gets at most one row and a
user at most one recorded e-mail, and only those who have helped by then.
`Promise` maps the tables to it.

`Matching` is what a wave asks: six queries in a row, while a clock runs and
devices report.  A distance is a class (inside the radius, inside the expanded
one, far).  `Devices` is the row those queries read: coordinates, their time and
the point come from different statements, and fields the client left out are
written back as they were read.  The accuracy is not followed: a client may
leave it out, and a row then keeps an earlier fix's without any overlap.

### AlertContent, Zones, Adoption, Sightings, RateLimit

`AlertContent`: `copy` is `alert.pet_photos`, written by the edit (list it read
plus its own), by uploads (`array_cat`) and by the pet's update (replaced).
`Zones`: `cache` is empty or one cached list; a change goes from its write to the
row it reads back (`Reread`) to the delete of the entry, and may stop at either
(`Stop`); `excused` marks an entry that a stopped change left behind, or that was
stored by a read which a change overtook.  `Adoption`: `listing` with `adoptedAt`, `lost`
marks a status written over one the writer had not read; `shown` is what the
board's first query returned.  `Sightings`: `stored` is what the list must hold,
`lost` uploads aside.  `RateLimit`: a time is its own member of the set, as in
Redis; waiting times are rounded up to seconds.

### Invitation

`link` is the send whose token the row holds, `outcome` and `of` the send log,
`mail` the deliveries scheduled in memory after the response, `tokens` and
`matches` the conversion handlers in progress.  Sends are numbered in the order
of the log; `aged` counts those older than a day.  `AcceptElsewhere` is the use
of a link by somebody who registers another address.  `late` is a history: the
requests in flight whose row is accepted or revoked and was not when they read it.

## Runs

| Run | Instance | Shows |
|---|---|---|
| `lifecycle_races` | 2 alerts, 1 pet, 2 requests, 1 renewal, failures | cards and stories only for closed alerts, the renewal limit, no reference to a deleted pet; a live alert's pet loses its missing flag only by the owner's own update, a "pet found" that stops, or a create or cancel that was overtaken |
| `lifecycle_ends` | 1 alert, 1 pet, 2 requests, 3 renewals | every ACTIVE alert ends; `AlertLifecycle` implements `AlertStatus` |
| `rotation` | 3 pairs of 1 login, 2 requests, failures | one answer per token, one usable refresh token per login |
| `revocation` | 2 pairs of 1 login, 2 requests, 2 polls, failures | revoke-all leaves alive only a login that was minting meanwhile; every request ends, the loser of a claim that polls for a pair which may never be stored included |
| `revocation_survivor` | 2 pairs, 2 logins, 2 requests | violated: a rotation in progress survives revoke-all |
| `fanout` | a helper's device, HIGH and LOW waves, 1 worker, 1 failure, 2 attempts, 1 token change, tight cap, flaky provider | a device's pushes beyond one per worker are paid for by retries and failures; every alert and story row ends SENT or FAILED, but one per failure |
| `fanout_story` | owner and helper with a device each, HIGH wave, 2 workers; 1 failure, or 1 sighting | the story is sent once, to users who were reached or helped; `NotificationFanout` implements `ThankYou`; a user's e-mails beyond one per worker are paid for by a failed statement |
| `fanout_reach` | 1 device | violated: a user matched under a number gets no push row |
| `invitation` | 1 member, 2 invitations, 3 sends, 2 requests, daily limit 1 | late failures, one PENDING row, overshoot of the quota; a closed invitation is reopened only by a request that had read it before |
| `accounts` | 1 account, 1 session, 2 requests, 2 addresses, 2 passwords, 1 link of each kind | sessions end with their account, need a proven address, and outlive a reset only when their login overlapped it; an account is announced complete |
| `services` | events: 1 owner, 2 addresses, 3 listeners; access: 2 users, 2 requests, 2 levels; passkeys: 1 credential, 3 challenges, 2 calls; limits: 2 creations, clock 0..7 | mails and log entries are true, requests act on what admitted them, bans are ended by administrators, managers or requests let in before them, `Passkeys` implements `SingleUse`, limits overshoot by the requests in flight, a client that waits as told is not early |
| `records` | devices: 2 users, 2 tokens, 2 fixes, 2 calls; zones: 4 ids, limit 2, 2 calls; matching: 2 devices, clock to 3; adoption: 2 users, limit 3, 2 files, 2 calls; sightings: 3 uploads at once, 4 in all, one photo each, limit 2; content: 2 photos, 2 calls | each damage an overlap or a failure in the middle can do is the one the property names |

`MCServices` and `MCRecords` put components that share no state into one state
machine: `part` says which of them a behaviour is about, and the others stay
where they began.  Nothing is lost by this, since no action reads two of them.
Both declare the constants of their parts and state what these satisfy
(`LimitsAssumption`, `EventsAssumption`, `UsersAssumption`,
`RecordsAssumption`), so that the theorems about them hold for every instance
and not only for the one of the configuration.

Why the bounds are enough.  The races are between two handlers over one row,
with a background step (cron, sweep, delivery, crash) in between, so two
requests and two rows meet them; a third request repeats the part of one of
them.  Three pairs are a rotation of a rotated token while the first is
presented again; three sends are a resend after an expiry while another
invitation is open, and one send more than the quota and one racer allow.  One
renewal is the limit and the state below it; `lifecycle_ends` has the code's
three.  Two polls are one that finds nothing and one more, by which the winner
has stored the pair, failed or stopped.  Two passwords are a reset that a login
with the first one overlaps; two addresses are a change of address, and the
address taken by somebody else.  Three challenges are one presented twice, one
that expires and one for another ceremony.  The windows of `RateLimit` (3, 4 and 6 ticks with a second of 2) end
at different residues of a second, so that the rounding matters; the clock runs
past the end of each.  A tight cap (2 for HIGH) is reached by a failed push
and an e-mail.  The theorems below remove the bounds for the properties they
state.  Deadlock is not checked: each bound on ids ends the behaviours, and a
server without requests may rest.

Symmetry is used for interchangeable ids in runs without liveness only.  Four
runs have a state constraint, without which TLC takes too long.  TLC checks the
states at the edge of a constraint, and the steps into them, and does not go on
from there; none of the theorems has a constraint or a bound.

* `SharedPet` (`lifecycle_races`): two alerts that are both inserted are about
  the same pet.  Others, and those whose pet was deleted, share no row; an alert
  without a pet, and the deletion under a create, are explored beside one alert.
* `LinksApart` (`accounts`): a change of address and an open single-use link are
  not under way at the same time, since the one is about addresses and the other
  about ids.
* `Registering` (`services`): three listeners run at once only after a
  registration, which starts up to three by itself.  `OneBan`, of the same run:
  one user is banned at a time.
* `Apart` (`fanout_story`) makes two instances of one run: two workers with a
  failure and the helper's device alone; and one worker at a time, without a
  failure, beside a sighting or the owner's device, with which the rows stop at
  `OwnersRows`.  The owner, who is never thanked, reports no sighting
  (`NeighboursReport`).  A statement of the sighting's own handler may fail all
  the same.

### Fairness

`AlertLifecycle`: time passes (`Tick`) and the hourly cron keeps running
(`CheckExpired`); no request is assumed to finish.  `TokenRotation`: a handler
whose statements do not fail runs on (`RequestStep`), as the event loop does.
`NotificationFanout`: a worker runs its jobs (`Job`), which BullMQ guarantees
while the process lives.  The other modules have no liveness property and no
fairness.

## Proofs

All theorems hold for every value of the constants under the `ASSUME` of the
module (the constants that stand for null are no values, bounds are naturals,
sets that are counted are finite); TLC evaluates those assumptions in each run.
Where a theorem needs more, its statement says so, as named below.  Every
invariant and every safety property of a passing run has a theorem.  The type invariants are proved; a run checks that of the alerts, the
others are part of the inductive invariants and follow for every instance.

**Alerts** (`AlertLifecycleProofs`): `TypeCorrect`, `RenewalCap`,
`CelebrationSafe`, `ReferencesLive`, and `ImplementsStatusContract`, the
refinement of `AlertStatus`.  The inductive invariant adds `Held`: what a
request remembers.  A renewal in progress saw a count below the limit, and a
resolve past its `UPDATE` has an alert that is closed for good; without it the
later statements of a handler could do anything.  `FlagSafe` is
`LiveAlertsStayFlagged`, for any number of overlapping requests: `ReadsHold` says
that a create about to insert, or a cancel about to clear the flag, still has
what it read unless it is in `late`, and `FlagCleared` that each of the three
statements which clear a flag marks the creates it overtakes.

**Sessions** (`TokenRotationProofs`): `TypeCorrect`, `ChainPerLogin`,
`PresentationsAgree`.  The idea is that the right to mint is one thing that
moves: a live refresh row, or the request between its claim and its insert
(`OneSource`).  `Rows` relates the columns of a row (a stored replacement is the
child that was minted), `Held` the requests to the rows.

* `NoSurvivor` is not true of the code: `revocation_survivor` finds a rotation
  that mints after the sweep.  Two theorems say what it takes.
  `SurvivorNeedsAMint`, for any number of requests: a swept login is usable again
  only if a mint for it was under way when its rows were swept
  (`SurvivorsWereMinting`, which `revocation` checks).  `OneAtATime`: `NoSurvivor`
  holds when the requests never overlap, failures and crashes included.  The
  invariant of the first, `SweptStay`, says that any other swept login has no
  usable row and no mint to come; of the second, that no sweep finds a mint.

**Notifications** (`NotificationFanoutProofs`).  `Base` is what holds whatever
happens: types, and workers at rows that exist.

* `StoryOnceSafe` and `StoryHelpersSafe` have no condition: crashes, stalls,
  retries, any number of workers.  `Claim`: one worker, ever, gets past the
  claim of the story, and it has written no row for a device still on its list.
  `Helpers`: a user whose row is SENT, who has a story row or is about to get
  one, is one the alert reached or who reported, and that is never taken back.
* `ImplementsStoryContract` is the refinement of `ThankYou`: every step of every
  worker, job, handler and crash is one of its actions or a stutter.  Three facts
  carry it beyond the two above: the claim, the rows and the mails of the story
  come after the alert was closed (`AfterClose`); whoever is about to record a
  mail for a user is the only worker past the claim, and has recorded none for
  that user (`MailClaim`); most steps leave the alert, the claim and the helpers
  alone (`Uneventful`), the others are named (`Event`).
* `PushesPaidSafe` and `EmailsPaidSafe` say how often somebody is told, whatever
  fails: a device is pushed at most once per worker, plus once per retry of its
  own pushes, plus once per failed statement; a user is mailed at most once per
  worker, plus once per failed statement.  With the queue's one worker
  (`@Processor` sets no concurrency, `notification-queue.processor.ts:42`, and
  BullMQ's default is 1), no second attempt and no failure this is "once", and
  what the code sends more (see below) is exactly what these terms count.
  `Ledger` keeps the books of a device: the pushes made, the jobs waiting and
  the workers at one (`Owed`) do not exceed its rows that did not fail plus its
  retries and the failures (`Backed`), so a device without such a row owes
  nothing but these, and with the workers that plan a push of it they stay
  within the bound (`Covered`).  Nearly all steps leave the ledger alone
  (`Calm`), which is proved once; `Paying` names the steps that do not.
  `EmailLedger` is the same for mails and the workers about to record one.
  Sightings, waves queued again and every mixture of tokens are in these
  theorems, although the runs take each on a small instance only.

**Invitations** (`InvitationProofs`): `TypeCorrect`, `FailureSafe`,
`OnePendingSafe`, `QuotaSafe`, `ClosedSafe`.  The row's token is one of its own sends
(`Linked`), a scheduled delivery has no outcome yet (`MailQueued`), a revoke
works on a row that exists (`RequestsMatch`).  The quota is counted by `Places`:
the log entries of the day and the requests past the check together stay below
the limit plus the number of requests.  That rows do not outnumber the sends
that paid for them is an injection, from a row to the send whose token it holds.
`ClosedSafe` is about revoke and resend, which check the row they read and write
by id: what they undo, they had read open.  Its invariant says what the requests
in flight know: a create has its row for itself (`CreatesAlone`), a revoke or a
resend works on a row that is open still or is in `late` (`ReadOpen`).

**Accounts** (`AccountsProofs`): `TypeCorrect`, `SessionsSafe`, `ProvenSafe`,
`OldPasswordSafe`, `RegistrationSafe`.  The four properties are about sessions
and announcements; `Rows` relates the account's columns and the revocations that
followed its passwords, `Links` a link to an account, `Held` a request to what
it found.  Nearly all the work is that a request's knowledge survives the
others' steps: the lemma `Waiting` proves it once, from what no step takes back
(`Grow`: an account that existed is remembered, a proof of an address is never
undone, passwords and revocations only get newer).

**Passkeys** (`PasskeysProofs`): `SingleUseImplemented`, the refinement of
`SingleUse` (assumption: 0 stands for "no challenge" and is none).  `Custody`
says that a challenge is in one place (in the store, with the one call that took
it, or used up); without it a second holder could succeed again.

**Limits, guards, events** (`ServicesProofs`, about `MCServices`).

* `OvershootSafe`: the creations in a window exceed the limit by at most the
  creates in flight.  `LimitsInv` counts, for each window, the times in the
  sorted set and the creates that have passed the check; the trim removes only
  what no window sees.  `RetryAfterSafe` rests on the rounding lemma `RoundUp`
  and on `Waiting`: while the time a client was told is a second or more away,
  some limit is full of creations that leave its window less than a second
  before that time, or later.
* `AdmissionSafe`: `AccessInv` says that the session, the ban, the roles and the
  gate that let a request through are still so unless `late` was set.  `BansSafe`
  is an action property: a ban in force is ended, but by time, only in the step of
  a request let in with the role of an administrator or a manager, or of the
  banned user's own request let in before the ban (`LetInBefore`), which lifts an
  expired ban it had read or writes the user's own row.  The code gives no more:
  `PUT /users/:id` takes `banned` from the body.
* `MailsSafe` and `TrailSafe`: `EventsInv` says what a listener carries about its
  account (an address the account has had) and what it has done before it writes
  its entry (the mail was accepted).

**Records** (`RecordsProofs`, about `MCRecords`).  An invariant for each part,
shown for the part's steps and carried to `Spec`, in which the other parts stand
still.

* `DeviceRowSafe`: each statement of an update in flight wants what its own
  report said, or is marked `torn`.  `CacheSafe`: a reader has the table's zones
  until a change overtakes it, and a cached list that differs from the table's is
  about to be deleted, unless the change that was to do so stopped.
  `AdoptedSafe`: a call about to write a status still sees the one it read, or
  the write is noted in `lost`.
  `AlertShowsPetSafe`: an edit that overlaps an upload takes back exactly what
  it had not read.
* `SightingPhotosSafe`, and `LimitsSafe` for zones, listings and sightings: the
  calls that have read a list below its limit and not yet written are counted
  with what is stored.  For sightings the bound has the factor `overtaken`:
  without it three uploads at once, seven in all, exceed it, since a write over
  photos it had not read makes room for others, which a writer that had read the
  longer list adds to it.  The attempt to prove the simpler bound showed this.
* `NobodyMissedSafe`: the radii and the ages of the two tiers leave no gap, for
  every pair of them with the narrower radius first.
* `BestMatchSafe` is about `deduplicateMatches` for a list of any length.  `Keep`
  is a recursive function; that it is one, and what its value is after n matches,
  are shown by a least counterexample (`LeastOf`, `KeepChain`, `KeepBest`): a
  match that enters is kept or one at least as good is (`EnterBest`), and "at
  least as good" is transitive (`AtLeastOrder`).  The pass by device compares
  sources only; nothing is lost by that, because a search finds a device at most
  once in each source (`Sources`).

Only model-checked: liveness (`EveryAlertEnds`, `EveryRequestEnds`,
`RowsSettle`), which the prover does not reach.

## Where the code and its documents differ

Two runs keep a difference (PROJECT.json, findings).  Others were met while
modelling and can be read off the actions.

Alerts, pets, sightings, listings:

* `isMissing` after a race: a cancel that has counted no live alert clears the
  flag although a create has just set it (`CancelCount`, `CancelClear`;
  `ALERT_MODULE.md:356`).  `PUT /pets/:id` with `isMissing` false clears it under a
  live alert with no race at all (`UpdatePet`).  `LiveAlertsStayFlagged` says that
  these, and a "pet found" that stops half-way, are the only ways.
* A cancel that read the alert before a resolve overwrites RESOLVED
  (`CancelWrite`; `guidance.md:929` promises 422).
* Concurrent renewals share a count, so an alert can be renewed more often than
  its counter says (`RenewWrite`; `E2E_SCENARIO_TEST_PLAN.md:191`).
* `retry_after_seconds` can name the very moment at which the oldest creation
  still counts; two creations in the same millisecond count once, because the
  time is the member of the set (`RateLimit`).
* `POST /alerts/:id/photos` is accepted from every signed-in user although the
  controller documents 403; photos added to an alert vanish when the pet is
  updated (`AlertContent`).
* A sighting can be inserted after its alert was closed; of two overlapping
  uploads to a sighting one is lost; the comment "Queue push notification job"
  (`sighting.service.ts:409`) queues the waves again and leaves the row for the
  owner QUEUED (`Sighting`).
* An overlapping withdraw and markAdopted can bring an adopted pet back to the
  board; the board's two queries may show a listing adopted in between; a
  listing may hold 10 photos while an update of the pet refuses more than 5; a
  pet stays readable by its tag whatever the status of its listing (`Adoption`).

Sessions, accounts, administration:

* A refresh token revoked by logout and presented after the grace window counts
  as reuse and revokes everything (`RotateRead`; `CLIENT_INTEGRATION_GUIDE.md:528`).
* A password change keeps the caller's access row but not the refresh row
  (`SweepRows`; `auth.controller.ts:1138`).
* A login that overlaps a reset keeps its session (`OldPasswordOverlaps` says
  exactly which).  An account without a role is announced again by overlapping
  social sign-ins.  `PUT /users/:id` can change the address and keep its
  verified mark.
* The owner's own deletion is never recorded: the entry names the deleted user
  and its foreign key fails, which is swallowed.  Password changes are written
  as UPDATE, not among the security events the comment of `getSecurityEvents`
  lists, and the change itself is not audited although `auth.controller.ts`
  says so.  Dates become `{}` in stored values.  Totals and their parts are
  counted by separate queries.
* A mail may reach an address that has passed to another account meanwhile.
* The lifting of an expired ban names the user only and may erase a ban set
  after the read; `PUT /users/:id` writes `banned` and `banExpires` from its body, also
  of the caller's own row and for managers of any level, although the unban
  route asks for a level (`UnbanExpired`, `unbanUser`, `updateUser`).
* The administrator's revocation of one session hands a text id to a numeric
  column and fails; the audit routes are marked "Admin only." and have no role
  guard.
* Gates: deletion and the list of users name a column that does not exist; the
  slug is never set, so a second gate collides; no route deactivates one.
* `convert-to-admin` takes a higher level for more privilege, `create-role`
  defaults to level 0, and `GET /users` lists accounts with a role of level 99
  or less.
* Overlapping passkey logins can move a stored counter back (`Passkeys`).

Notifications, devices, zones, invitations:

* After a transient failure a later wave and the queue's retry both push the
  device; after an e-mail whose row could not be written the next wave sends it
  again (`PushRetry`, `RecordEmail`; `NOTIFICATION_MODULE.md:167`).  `PushesPaid`
  and `EmailsPaid` therefore count retries and failures.
* A push job does not look at the alert, so pushes leave after it was closed
  (`PushRead`; `ALERT_MODULE.md:325`).
* The owner is not excluded when matched under a numeric id, and a user matched
  under both kinds of id is not merged (`WaveStart`;
  `notification-queue.processor.ts:126`).
* A dead token is cleared by device id, also when a newer one was registered
  (`ClearToken`; `Devices`).
* A device that reports between the fresh and the stale query is matched by
  neither (`NobodyMissed` allows exactly this); GPS and postal matching do not
  ask for bans; a coordinate of exactly 0 is taken for a missing one
  (`location.service.ts:95`); nothing writes `ip_point`.
* A worker that stops between the INSERT of a push row and the job, or whose job
  is refused, leaves the row QUEUED for good: later waves skip its device
  (`CreateRow`, `AddJob`; `notification-queue.processor.ts:250`).  `RowsSettle`
  allows one such row for each failure.
* A change to a zone that fails between its write and the invalidation leaves the
  old list cached until it expires (`Stop`; `alert-zone.service.ts:107` and `:331`).
* Overlapping updates of a device may leave a point without its time, or with
  another report's, until the next report; a phone registered by one user cannot
  be registered by another (`Devices`).
* Invitations: revoke and resend update by id, so a conversion between their
  read and their write is overwritten (`RevokeWrite`, `ResendWrite`);
  `ClosedByOvertakenOnly` says that nothing else undoes one.

## Not modelled

* Libraries and services: PostGIS geometry, WebAuthn cryptography, better-auth,
  BullMQ and the push and mail providers.  Where the server depends on their
  answers, the answers are nondeterministic.
* Saved zones of a device: creating and updating one names a table that does not
  exist, so the service has no reachable state.
* Social sign-in configuration, health probes, languages and settings: look-ups
  and I/O without a protocol.  The stores behind uploads: file I/O.
* The simulation, the seeders and the smoke scripts: developer tools that drive
  the HTTP interface.  Generated code (the Prisma client).
* Code without a caller: `sendSightingDismissedEmail`, `sendAlertNearYouEmails`,
  `validateRefreshToken`, `calculateConfidence`, `handleDeliveryReceipt`,
  `batchSend`.
* Wording, templates, translations, request validation and search filters.

## Plan

1. Done: alert lifecycle and content, creation limits, sessions, accounts, their
   events and the audit log, guards and administration, passkeys, fan-out,
   matching, devices, zones, adoption board, sightings, invitations; the
   refinements of `AlertStatus`, `SingleUse` and `ThankYou`.
2. Done: a theorem for every invariant, action property and refinement that a
   passing run checks.
3. Next: an abstract specification of a request's admission in `Access`, and one
   of a device's pushes ("once", under one worker that does not fail), from
   `Ledger`.

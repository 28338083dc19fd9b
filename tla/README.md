# lulab_backend in TLA+

lulab_backend is a NestJS program: accounts and tokens over PostgreSQL and Redis, scheduled tasks over
BullMQ, and the synchronisation of Tencent Meeting and Lark events into a Lark Bitable and PostgreSQL.
This directory holds TLA+ models of the parts of it that keep state, the TLC configurations that check them on small
instances, and TLAPS proofs of what holds for every instance. `PROJECT.json` maps each definition to the
source lines it stands for, lists the runs, the hazards the properties are aimed at, and a changed form of the
code ("mutant") that breaks each property.

Paths below are relative to the repository; `token.service.ts:159` names a line.

Contents: [inventory](#1-inventory) · [how the models are made](#2-how-the-models-are-made) ·
[modules](#3-modules) · [runs](#4-runs) · [fairness](#5-fairness) · [proofs](#6-proofs) ·
[where code and documentation differ](#7-where-code-and-documentation-differ) ·
[not modelled](#8-not-modelled) · [plan](#9-plan)

## 1. Inventory

One process runs a single-threaded event loop, so two requests interleave at every `await` and nowhere else.
Several processes may share PostgreSQL and Redis. Nothing in the program uses a distributed lock; only
`TencentMeetingRepository` uses a transaction.

| Component (`src/` path) | State | Operations | What is hard | What makes it correct |
|---|---|---|---|---|
| Token blacklist (`auth/services/token-blacklist.service.ts`) | keys in Redis with a TTL; a Map and timers in each process | `add`, `isTokenBlacklisted` | which of two stores is asked is decided per call; TTL rounding; restarts, evictions | an entry lasts as long as the token, but for the last second |
| Token service (`auth/services/token.service.ts`) | table `refresh_tokens`, the blacklist | issue, rotate, log out (one token, device, all devices) | four awaits between the reading and the revoking of a row; revocation and blacklisting fail on their own | a delivered token has its predecessor barred; the two stores agree; a logout of all devices is final |
| Scheduled tasks (`task/`) | table `scheduled_tasks`, the BullMQ queue `tasks` | create once / cron, update, delete, pause, resume, run now; worker events | two stores without a transaction; repeat keys shared by expressions; status updates of events in any order; stalled jobs | the schedule in the queue agrees with the table; a deleted task does not run, a stored one does |
| Verification codes (`verification/`) | tables `verification_codes`, `code_send_limits` | `sendCode`, `verifyCode` | count-then-create, find-then-mark | limits and single use, up to the calls in flight together |
| Bitable meeting tables (`hook-tencent-mtg/services/meeting-bitable.service.ts`, `integrations/lark/`) | rows of a remote table with no unique keys | upsert of user, meeting; read-modify-write of participants | search-then-create in two requests; a stale list written back; answers without data, answers that are lost | duplicates and losses only where calls overlap; participants are rows |
| Postgres meeting tables (`hook-tencent-mtg/repositories/`, `user-platform/`) | tables `user_platforms`, `meetings` | platform user upsert, meeting upsert in a transaction | find-then-create; row locks in varying order | a meeting is committed with its people or not at all; no upsert waits for ever |
| Tencent webhook and handlers (`hook-tencent-mtg/`) | none of its own | one handler per event, started and not waited for | repeated and reordered deliveries; a restart drops what was under way | each event's upserts end, and leave nothing half written |
| Recording and transcript services (`hook-tencent-mtg/services/`) | none | page through the Tencent API; merge and format | what is returned where a request fails | a failure costs no more than the part that failed |
| Recording events (`recording.completed`, `smart.fullsummary`) | rows of recording files and number records in Bitable; tables of recordings and summaries in Postgres | upsert of meeting, then per file, then per participant; find-then-create of a recording | rows found several requests ago are linked; errors are caught on four levels; a file sent again may bring less | links name the rows they were made from; only a fault loses rows |
| Signature and decryption of webhooks | none | verify, decrypt | – | – |
| Lark meeting events (`lark-meeting/`) | queue `lark-events` | enqueue from webhook and from websocket; upsert the meeting | the event may come twice; the processor swallows errors; stalled jobs | the meeting is written |
| Meeting records REST service (`meeting/`) | table `meetings` | create, update, delete, reprocess | no route reaches a change ([section 8](#8-not-modelled)) | – |
| Login and lockout (`auth/services/login.service.ts`, `auth-policy.service.ts`) | table `login_logs` | log in with password or code | counts read before the failure is logged | lockout after N failures, up to the attempts in flight |
| Registration and password reset (`register.service.ts`, `password.service.ts`) | table `users` | register, reset | the code is spent before the change is made | every effect has an accepted code of its own; only a reset changes a password |
| User profile (`user/services/profile.service.ts`) | table `users` | read, update | check-then-update | one user per name, e-mail, phone |
| Seeding (`prisma/seed.ts`, `prisma/seeds/`) | all tables | seed, clean, reset, drop, analyze | eighty batches without a transaction, the last of which throws; `TRUNCATE ... CASCADE` in a computed order | seeding can be taken up again; a cascade empties nothing that was not to be emptied |
| Mail | queue `mail` | send, enqueue | failure of the SMTP server | the caller learns of it |
| Remote service clients | none | one HTTP request each | failures | – |
| Text analysis, interface declarations | none | – | – | – |

How they interact: the login, registration and password services call `VerificationService.verifyCode` and then
`TokenService.generateTokens`; every guarded request asks the blacklist through `JwtStrategy`; the webhook
controller answers Tencent at once and starts a handler; a handler starts up to three upserts on Bitable and up to
two on Postgres with `Promise.allSettled`, all at once; the task processor and `TasksService` share the table and
the queue but never call each other. The recording handlers use the upsert of the meeting tables, and what Postgres knows of a
meeting decides whether a summary is stored.

The full list of hazards, each at its line, is in `PROJECT.json` under `hazards`.

## 2. How the models are made

* **One action per await.** The code between two awaits is one action, including the synchronous work that
  follows it (signing, building a row). A request is a slot with the point it waits at and its local variables.
* **A failed call** is a disjunct of the action that makes it, or an action of its own, taken at most a bounded number of times
  (`MaxFaults`, `MaxTableFaults`, `MaxDbFaults`); each follows the catch blocks of the code.
* **A restart** drops every request of the process and what it kept in memory; stores survive. A request that
  a dying process had sent counts as answered before it died or as never sent. A commit whose answer is lost looks like a commit.
* **History variables** (`parent`, `lost`, `sessions`, `accepts`, `effects`, `through`, `early`, `disturbed`, `loose`, `seen`, `version` and so on) record
  what happened and never guard an action.
* **Data** (names, tokens, texts) are model values. Conversions that properties depend on are kept: the TTL in
  whole seconds, the repeat key of an expression, the search filter of a meeting, the lower case in which an upsert searches for its key.
* **Definitions marked "Mutant"** stand before the definition they are a broken form of, and no specification uses them.

Assumptions about what lies outside `src/`:

* Redis commands and single SQL statements are atomic; PostgreSQL runs at READ COMMITTED, locks a row that a
  transaction updated until it ends, and aborts one of two transactions that wait for each other; `findFirst`
  without an order may return any matching row; the upsert of a meeting on its unique key is PostgreSQL's own.
* Bitable returns rows of a search in the order they were created, and its operator `is` compares whole values. Whether it minds case the repository does not say, and it matters:
  `buildSearchFilter` (`bitable.service.ts:715`) puts the value of each upsert's search in lower case, while the row keeps the uuid as it came (`recording-completed-demo.json:17` has `WMLpMlho8GkeoNz`).
  So it is a constant, `IgnoresCase`, with `Lower[u]` the lower case of a uuid and `PlainRows` the rows whose record id, the key of a number record, has no capitals; nothing is assumed of these but that no two uuids
  differ in case only. The ids of meetings and files are digits, and the same in lower case.
* BullMQ: adding an existing job id does nothing; a repeatable is keyed by name, time zone and pattern; a job is
  taken in FIFO order by one worker at a time; a job whose worker died runs again once and then fails. These are external
  definitions of `TaskQueue`.
* The participants API of Tencent and a model's summary either answer or fail; which names a transcript has does not change.
* The default lifetimes (15 minutes, 7 days) are below the 24.8 days that `setTimeout` takes.

## 3. Modules

| Module | Models | State ↔ code | Actions ↔ code |
|---|---|---|---|
| `TokenBlacklist` | `TokenBlacklistService` | `redis`: keys `jwt:blacklist:*`; `local[n]`: the Map of process n; `ready`: `client.status`; `age`: the token's remaining life in three steps | `Add`, `Check` (building blocks of a request); time, connections, evictions, restarts |
| `AuthTokens` (extends it) | `TokenService`, the JWT guard | `stored`, `owner`, `device`, `revoked`, `replacedBy`: columns of `refresh_tokens`; `pc`, `req`: requests in flight; `issued`: what clients hold | points `rf*` are `refreshToken`, `lo*` are `logout` with its guard, `reply` is the response on its way |
| `TaskQueue` | BullMQ, as the repository uses it (external) | `job`, `stalls`, `repeat`, `next`, `paused` | `AddJob`, `AddRepeatable`, `RemoveRepeatable`, `RemoveJob`, `SetPaused`, `TakeJob`, ... |
| `ScheduledTasks` (extends it) | `TasksService`, `TaskProcessor` | `stored`, `deleted`, `row`: `scheduled_tasks`; `pending`: updates that worker events started | `CreateOnceAdds`/`Stores`, `UpdateReads`/..., `RemoveReads`/..., `PauseQueue`/`PauseMarks`, `StartJob`, `ApplyUpdate`, ... |
| `OneTimeCodes` | what callers of `VerificationService` rely on (abstract) | `issued`, `open`, `claim`, `accepts`: a code's purpose, whether it can be claimed, by whom it is, how often it was accepted | `Issue`, `Claim`, `Accept`, `GiveUp`, `Close` |
| `VerificationCodes` (implements it) | `VerificationService` | `rows`: `verification_codes` by `createdAt`; `expired`, `hour`, `day`: three cuts of that order; `vpc`, `vreq`: calls | points `sd*` are `sendCode`, `vf*` are `verifyCode` |
| `MeetingTables` | `BitableService.upsertRecord` and its callers for users and meetings, `updateMeetingParticipants` | `userRows`, `meetingRows`: the Bitable tables; `call[c]`: an upsert in flight | one per request: `ReadMeeting`, `FindUser`, `SearchRecord`, `UpdateRecord`, `CreateRecord`; failures `RequestThrows`, `RequestWithoutData`, `AnswerLost` |
| `MeetingDatabase` | `PlatformUserRepository`, `TencentMeetingRepository`, `MeetingDatabaseService` | `platformUsers`, `records`; `dbCall[c]`: an upsert, with the rows its transaction wrote and has locked | one per statement; `tx*` inside the transaction, `TxCommits` |
| `TencentEvents` (instantiates both) | controller, dispatch, the handlers of `meeting.started`, `meeting.end`, `meeting.participant-joined` | `delivered`: the webhook requests received; `down`: a store that is down throughout; `crashes` | `Deliver` starts all upserts of a handler; `TableSteps`, `DatabaseSteps`, `Crash` |
| `MeetingRecordings` | the handlers of `recording.completed` and `smart.fullsummary`, the Lark event from receipt to upsert, and the repositories below them | `rows[t]`: the four Bitable tables; `recordings`, `summaries`, `known`: Postgres; `job[d]`: a delivery with its place in the loop over files and people | one per request: `UpsertNext` for all tables, `CompletedNext`, `SummaryNext`, `EndedNext`; `Crash` with the stalled job |
| `Accounts` (instantiates `OneTimeCodes`) | `LoginService`, `AuthPolicyService`, `RegisterService`, `PasswordService`, `ProfileService` | `users`, `logs`: tables, rows never deleted; `aged`: logs older than the fifteen minutes; `apc`, `areq`: calls | points `lg*` are `login`, `rg*` `register`, `rs*` `resetPassword`, `up*` `updateProfile`; `QueryFails`, `AccountsCrash` |
| `Seeding` | `prisma/seed.ts` and the data of `prisma/seeds` | `db`: rows, each of its table and look-up key, with the number of its copy; `schema`: the tables there are; `step`: the batch; `todo`: what a clean has before it | the commands, one batch a step, partly written where it fails; `CleanupTableData` |
| `MC*` | – | constants and symmetry for TLC; `MCSeeding` also checks `TopologicalSort` on every graph of three tables | – |
| `AuthTokensProofs`, `VerificationCodesProofs`, `AccountsProofs`, `ScheduledTasksProofs`, `MeetingTablesProofs`, `TencentEventsProofs`, `MeetingRecordingsProofs`, `SeedingProofs` | – | – | theorems, [section 6](#6-proofs) |

`MeetingTables` and `MeetingDatabase` are specifications in their own right (`TablesSpec`, `DatabaseSpec`): any calls, started at
any time. They are what the handlers rely on; `TencentEvents` is shown to implement both (`ImplementsTables`,
`ImplementsDatabase`), so that what is shown of a store holds for the handlers of today and for callers that are
added (`BareCall` stands for the Lark processor and the recording handler, which call the same repository).

`OneTimeCodes` joins two components in the same way: `VerificationCodes` implements it (`ImplementsOneTimeCodes`, run and proved), and
`Accounts` has no other knowledge of codes. So what `Accounts` shows of logins, registrations and resets holds over the real service, whose two-step
acceptance lets overlapping callers share a code. Issuing a code is there for any purpose at any time; the send limits concern `VerificationCodes` alone.

`MeetingRecordings` has the upsert of `MeetingTables` in the form its own tables need, with the same failures: its loops
hold the rows of earlier upserts, and that is what its properties are about. It takes the meetings that Postgres knows from outside (`MeetingRecorded` stands for the transaction of
`MeetingDatabase`).

## 4. Runs

Run a configuration with `tlc -config X.cfg M` in this directory. All runs switch the deadlock check off: every system here may
stop, because the bounds on arrivals and faults are used up and idle is a normal state.

| Run | Configuration | What it shows |
|---|---|---|
| `auth_faults` | `MCAuthTokens.cfg` | Two slots, three arrivals, three token pairs, one of which may run out, one failure and one loss. `ReplacementStored`: `replacedBy` names a stored successor of the same user. `SpentOnceDelivered`: whoever holds the new token, the old one is barred by the table or, that update lost, by the blacklist. `StoresAgree`: a blacklisted refresh token is revoked. `NoStaleExchange`: a token revoked before the request came mints nothing. |
| `auth_sessions` | `MCAuthTokensSessions.cfg` | Two users who may share a device. `EndedSessionsStayEnded`: a logout of all devices that met no refresh is final. `OnlyConcernedRequestsRevoke`: no request touches another user's rows. |
| `tasks` | `MCScheduledTasks.cfg` | Two requests at a time, three in all, two tasks, two expressions, one failure, one restart. `ScheduleMatchesRows`: an expression is repeated exactly if a row has it. `PauseAgrees`: no row stays PAUSED in a running queue. `DeletedOnceNeverStarts`: a one-time task deleted before its job was taken never is, whatever overlaps, restarts or fails, but for a job whose removal itself failed or whose id was another's (`loose`). The other two leave out the overlaps and failures that `disturbed` and `blurred` record. |
| `tasks_live` | `MCScheduledTasksLive.cfg` | `OnceTasksRun`: a stored one-time task is taken at last, with two restarts (the second time a stalled job fails) and a failure. |
| `codes` | `MCVerificationCodes.cfg` | Two calls at a time, limits of two, three rows, one failure. `TargetOverrunBounded`, `IpOverrunBounded`: overlapping sends exceed a limit by less than their number. `OverlappingAcceptsOnly`: a code is accepted only by calls in flight together. `ImplementsOneTimeCodes`. A verification for a login may come without a code (`Given`). There is one value of a code, so that the rows of a target all have the same; with two values the run has 5,945,970 states and takes longer than the others, and passes as well. |
| `accounts` | `MCAccounts.cfg` | Two calls at a time, three in all, one code, one failure or restart, a user who registered by telephone. `FailuresBounded`: failed logins exceed the lockout by no more than the attempts in flight. `EffectsSpendCodes`: each user created, password reset and login by code has an acceptance of its own, for that purpose and address. `OnlyResetsSetPasswords`: an update of the profile that overlaps a reset loses neither the password nor the marks of verification. |
| `meeting_tables` | `MCTencentEventsTables.cfg` | A start that is sent twice, or with a join; the start names a meeting without its occurrence, the join an occurrence of it: eighteen requests in any order, one failure of any of the four kinds. One user's uuid has capitals and Bitable ignores case. `TwinsOverlap`: a duplicate has one cause. `LostOnlyToStaleWrites`: so has a lost participant. `PeopleAreRows`: the list links to rows. `ParticipantsWereThere`: each participant and creator is there because of a received event that may be about the row ([section 6](#6-proofs) has what `may` is). `ImplementsTables`. |
| `meeting_database` | `MCTencentEventsDatabase.cfg` | Two requests out of start (also twice), join, end, leave; one failed statement, one restart. `PlatformTwinsOverlap`; `RecordsHaveTheirCreator`: a committed meeting names committed people, of an event that came; `ImplementsDatabase`; `DeliveriesSettle`: all upserts end, also where two transactions block each other. |
| `recordings` | `MCMeetingRecordings.cfg` | Two deliveries out of recordings, summaries and Lark meetings, two files, one of which has a speaker, one failed, unanswered or empty request, two restarts. Bitable minds case; the speaker's uuid has no capitals, the record ids have. `TwinsOverlapped`: as above, for all tables and for recordings in Postgres, but for keys that the lower-cased search cannot find. `LinksAgree`: a participant's summary names the file it was made from, a file a meeting, a summary a recording of its meeting. `ThroughIsWritten`: a delivery that met no fault left all its rows, except the summary of a file whose meeting was not in the database yet (`early`). `PartsAreKept`: a file sent again with less keeps what it had. |
| `seeding` | `MCSeeding.cfg` | Any two commands in a row, one failure at any row. `SeededSound`: what is looked up is there once, and references lead to rows that are there. `CascadesHitEmptyTables`: a clean truncates children before parents, so that a cascade reaches empty tables only, or ones whose own cleaning failed. |
| `single_use`, `shared_cron` | `MCSingleUse.cfg`, `MCCronTasksStayScheduled.cfg` | What comments and the API documentation say and the code does not keep: [section 7](#7-where-code-and-documentation-differ). |

Distinct states, up to symmetry: `auth_faults` 359,591; `auth_sessions` 85,500; `tasks` 1,470,239; `tasks_live` 44,428; `codes` 1,471,030; `accounts` 965,658;
`meeting_tables` 738,775; `meeting_database` 15,917; `recordings` 940,848; `seeding` 109,514. None takes more than three minutes on four cores.

Why the bounds are enough for the cases that matter:

* *Two slots for requests.* Every hazard found in this code is between two requests, or one and a worker or a failure. A third
  arrival lets a later request meet what the first two left.
* *Three pairs*: a login and two refreshes, so that a token is rotated twice, or by two requests at once.
* *Limits of two and three rows*: with one row under the limit, two overlapping sends pass it; the third row shows that nobody passes once it is exceeded.
* *A meeting and an occurrence of it*: a search by the meeting alone may find the occurrence's row or, without data, create one beside it; two occurrences never match each other, which the proof covers.
* *One answer to whether Bitable minds case in each run*: `meeting_tables` says no, with a user that has capitals, `recordings` yes, with keys that have. The other way round both pass too, in the longer time that the added twins take
  (`meeting_tables` has 1,522,969 states if Bitable minds case, `recordings` 1,907,912 with capitals in the uuid). The proofs hold for both.
* *Two deliveries*: six concurrent upserts on Bitable and four on Postgres, enough for each pair of upserts to overlap and for two
  duplicates; the third writer that `LaterTwinsNeverWritten` needs is left to the proof.
* *A limit of one failed login, one code, three calls*: two attempts in flight pass the lockout together and a third comes after; two calls can share the one
  code, and a third meets it spent. Three is also the fewest for a reset between the look-ups and the write of an update.
* *Two files, one speaker*: the loop over files carries rows from one file to the next, with and without participants in between.
* *Two commands of seeding*: a rerun, and a rerun after a clean or a drop, also after a failed one.
* *One failure*: a second one only ends more requests. *Two restarts* in `tasks_live` and `recordings`: BullMQ runs a stalled job again once and then fails it.
* Symmetry is used only where values are interchangeable (slots, pairs other than the one that expires, targets, addresses, rows) and never with a liveness property.

The two meeting runs look at one store each, with the other down from the start: the stores share nothing but the handler, whose upserts
are independent promises, and an upsert on a store that is down throws before it changes anything.

## 5. Fairness

* `ScheduledTasks!FairSpec`: weak fairness of the steps of requests, of the queue's own turns, of finishing a job and of the
  check for stalled jobs – a promise that is settled resumes, BullMQ's timers run. Strong fairness of taking a
  job: the worker is busy again and again, and the waiting list is FIFO. Nothing is assumed of arrivals, failures and restarts.
* `TencentEvents!FairSpec`: weak fairness for each call in flight – Bitable and Postgres answer every request in the end, PostgreSQL hands a free lock on
  and detects deadlocks. Nothing is assumed of deliveries, failures and restarts.
* All other properties are safety properties and are checked without fairness.

## 6. Proofs

`tlapm M.tla` checks each module from nothing. All theorems hold for any constants that meet the assumptions stated with them:
any number of slots, pairs, users, tasks, deliveries, rows, faults and restarts. The only assumptions are the named `ASSUME`s: `None` is no other
value, bounds are naturals, the slots of calls are finite, the ids of one-time, manual and cron jobs are apart (`IdsAssumption`: BullMQ's own ids are numbers,
those of repeated jobs begin with `repeat:`), clients send statuses of the enumeration, PENDING included (`StatusesAssumption`; `update-task.dto.ts:30` refuses others), no two uuids differ in case only (`TablesAssumptions`, `CaseAssumption`), an event names known users and a known meeting.
`UpsertsNeverWedge` alone is stated for finitely many deliveries.

**`AuthTokensProofs`** – seven safety properties of `Spec`, and a lemma on the TTL.
The invariants the runs check are not inductive: they speak of the tables, and break when a request in an unreachable state continues.
The strengthening says what a request in flight has established and what stays true while others interleave:
`RequestsOK` (a refresh holds an issued token; from `rfRevoke` on, the minted token is stored, is a child of the presented one and has the same owner),
`BarringOK` (a token about to be blacklisted is revoked or its update was lost), `StaleOK` (a token revoked on arrival is still revoked),
`ReplyOK` (a response is under way only when the token it replaces is spent), `EndedOK` (no refresh of an ended user's token is past the reading of its
row). Each theorem conjoins `TypeOK` with the ones it needs. They rest on three facts proved once: rows accumulate and stay revoked (`RowsAccumulate`),
what is barred stays barred unless its lifetime ends or a loss is counted (`BarredStaysBarred`), and other requests do not touch a slot (`OthersWait`).
`RedisEntryOutlivesAllButLastSecond` justifies the age `lastSecond` of `TokenBlacklist`.

**`ScheduledTasksProofs`** – `TypeOK`, `ScheduleMatchesRows`, `PauseAgrees` and `DeletedOnceNeverStarts`, from one invariant, `TasksInv`. Its parts are
* `RowsOK`: each row is a one-time or a cron row throughout, and each await point of a request says what it holds – a row that was read keeps its type and job, and an update has planned an
  expression exactly at the points between the two that change the queue;
* `PauseOK`: who sets the flag marks rows later, so that rows are marked in a running queue only while a resume is on its way; whoever clears the flag passes every row that is marked then. It needs no overlap of
  a pause, a resume and an update, which is what `blurred` records;
* `OnceOK`: the job of a one-time task is gone from the queue or taken (`Quiet`) from the dequeuing of its deletion on, and nothing adds it again, unless the dequeuing failed or the id is another's: those are what `loose` has, and no overlap, restart or other failure is in it;
* `CronsOK`: an expression that nothing disturbed has one row and one request at most, and for each await point of that request it is known whether the
  queue repeats it. A failure between two calls would break that, and marks the expression as disturbed.

A second invariant, `QueueInv`, follows the jobs themselves (`QueueInvariant`); TLC checked it before it was proved, on the instance of `tasks` and on one of 4.3 million states.
A one-time job that nothing disturbed has one holder, a row, stored or deleted, or the request that is about to store it; and from the moment it is added until the worker takes it or the deletion of its row dequeues it, it is in the queue,
from which no pause, stall, restart or other request removes it. Each expression that is repeated has its next date delayed, or the date before it waits for the worker, whose taking adds the next.
* `OnceTasksStayQueued` is the safety half of `OnceTasksRun`: what fairness adds is that the queue's turns come.
* `CronTasksStayQueued` joins it to `ScheduleMatchesRows`: the row of a CRON task has not only a repeatable but a next run.

**`VerificationCodesProofs`** – types, both overrun bounds, `OverlappingAcceptsOnly` and the refinement `ImplementsOneTimeCodes`. The counts range over rows and calls at once. The inductive step
shows that no step increases the sum of what was sent and the calls that have passed the check, except the check itself, which
runs only below the limit, and that the calls in flight are at most the slots. For acceptances: an unused row was never accepted, and a call
that finds a row finds it unused. For the refinement each step is matched with one of `OneTimeCodes` or a stutter, under the invariant.

**`AccountsProofs`** – types, `OnlyResetsSetPasswords`, `EffectsSpendCodes` and `FailuresBounded`. `CallOK` says of a call at each await for whom it works, that it has passed the lockout, and that the code it has claimed
or was accepted with was sent for its purpose to its address. The other two are budgets: an acceptance adds one to what a code allows and to the calls that
hold it at once, and an effect moves one from the calls to the effects; a logged failure moves one from the attempts that passed the count to the
failures, and the count admits an attempt only below the limit.

**`MeetingTablesProofs`** – `TablesTypeOK`, `TwinsOverlap`, `PeopleAreRows`, `LostOnlyToStaleWrites` and `LaterTwinsNeverWritten` of
`TablesSpec`. `TwinsOverlap` is about the rows that an upsert can find (`Searchable`): a lower-cased uuid finds the row of the uuid exactly if the table ignores case or there are no capitals (`Finds`, `UserFound`). The invariant `TablesInv` says of a call in flight what it may rely on although others write: the row it
will update is still the first that matches (`SearchOK`; rows are never removed, nor change their key), a matching row that its search did not
see has a later place than the search saw, the participants it has gathered are rows (`PeopleOK`), and if the row still has the
version that was read, it still has the participants that were read (`SnapshotOK`). `CallKept` shows that any growth of the tables (`Grown`) preserves all this. The
lemmas are stated of any two sequences, so that they concern constants; that the first of several hits exists is proved from the
well-foundedness of strict inclusion on finite intervals, since the library's least-number principle takes an operator.

**`TencentEventsProofs`** – `Spec => ImplementsTables` and `Spec => ImplementsDatabase`, and the properties of both stores for the handlers. A delivery may start its calls because the slots
of a delivery that has not come are free (`SlotsFree`, `DbSlotsFree`).
* Of the database alone, `DatabaseInv` says of an upsert in flight that the rows it has found are rows of its user, and that one it
  did not see has a later place, through statements, aborts and commits of others (`PlatformTwinsOverlap`).
* `RecordsHaveTheirCreator` needs in addition that a transaction works for the meeting and the creator of its event from
  its first statement to its commit (`CallsOfEvents`).
* `ParticipantsWereThere` was first stated as "each participant of a row is in an event of that row's meeting", and an attempt to prove it showed that it is false: a call that names a
  meeting without its occurrence (`meeting.repository.ts:112`) reads the people of the first occurrence's row; if its own search is then answered without data, it creates a second row with them.
  The run had one meeting and did not see it. `MayBeAbout` now says which events may put somebody into a row: those whose meeting the row matches and, for a row
  without an occurrence, those of any occurrence of its meeting. The run has both kinds. The invariant, `PeopleInv`, says the same of what each call holds: between its read and its write,
  the people it carries came from a row that its own filter matches, and each of them through an event. `MeetingTablesProofs` has
  what a step of the tables passes on from a row to a call and from a call to a row (`Carries`, `RowCarries`), without knowing of events; here the carried people are traced to them.
* `UpsertsNeverWedge` and `UpsertsGoOn` are what the steps contribute to `DeliveriesSettle`. An upsert may wait for a row that another transaction holds (`NoWedge`): of any set of upserts that only wait
  for each other, one can run, or one lies in a circle, which PostgreSQL detects and breaks; a finite set in which each waits for another contains a set in which each is waited for as well (`CircleWithin`). Such circles do occur in
  the run. And each step takes its upsert further along the order of its statements (`GoesOn`), so that no failure or abort takes it back. Together with the fairness of section 5
  they leave of `DeliveriesSettle` the temporal reasoning only. TLC checked both formulas on both meeting runs.

**`MeetingRecordingsProofs`** – all five properties of the run `recordings`, from one invariant, `RecordingsInv`, and `RowsStay`: a row of Bitable keeps its place and key. The invariant has, for a
delivery at each of its requests, the shape of what it holds; that a row a search found is the first of its key and a matching row it has not seen came later (`SearchOK`, `RecordingOK`; rows are never removed, `HitsGrow`), for the twins; that what it holds of earlier upserts – the meeting's row, the file's, a recording's – names
rows of the key they were made with (`HeldOK`), for the links; and, as long as it met no fault, which of its files and people are done: all that its loops have
left behind, and of the current one what its place in the body implies (`WholeOK`). At the end, with both loops exhausted, that is `ThroughIsWritten` (`OnlyFaultsOrEarlinessLoseRows`). Errors are caught on four levels, so the proof has to show that none of the ways past a row is open to a delivery without a fault.

**`SeedingProofs`** – all three properties of the run `seeding`. For `SeededSound`, `SeedInv`: while a seeding is at a batch, all batches before it are there (`WrittenUpTo`), in tables that exist, and the rows are sound at any time: each row that is looked up has one copy, each row has those it refers to. Failures within a batch keep this because what a row
needs is written before it (`Partial`). A clean keeps it because what it truncates takes with it all tables that refer to it: `TRUNCATE ... CASCADE` is closed under references because none is more than eight tables deep. The data and the schema are constants of the repository, not parameters; what the proof uses of them is two assumptions,
`PlanAssumption` (each batch refers to what is in it or in an earlier one, and so on) and `DepthAssumption`, which TLC evaluates as they stand. The numbers of commands and of faults are any.

`SeedTypeOK` and `CascadesHitEmptyTables` need what `topologicalSort` returns, a recursion whose depth depends on the graph. The library's induction theorems cannot be used, so its ends are reached another way: `Ended` is the least relation between calls and results that is closed under the
recursion's cases, every call is shown to have a result in it by the well-foundedness of the pair of unvisited tables and list left, and `VisitAll` is the function it describes (`VisitAllRecurs`). A second induction of the same kind shows what a visit adds:
each table it reaches, once, after all those it refers to (`EveryVisitEndsOrderly`). `SortsChildrenFirst` states it of any finite set of tables and any references that have a rank but for self-references; `DepthAssumption` gives the rank of this schema.
`DeletionInv` then carries the order through a clean: what is before it is ordered, what it is past is empty, apart from tables whose cleaning failed.

Model-checked only: the liveness properties `OnceTasksRun` and `DeliveriesSettle`, since liveness under fairness and ENABLED are out of reach of the installed provers. What the steps contribute to them is proved: `OnceTasksStayQueued`, and `UpsertsNeverWedge` with `UpsertsGoOn`.
All other invariants and action properties of the passing runs are proved. `MCSeeding` also compares `TopologicalSort` with a definition of its order on all graphs of three tables, those with cycles included, which the theorem leaves out.

## 7. Where code and documentation differ

The first two are runs that TLC finds violated, and findings in `PROJECT.json`.

1. `SingleUse` – the comment at `token.service.ts:236` says a refresh token can be used once. Two refreshes that both pass `findByJti`
   (159) before either revokes (229) both deliver a pair.
2. `CronTasksStayScheduled` – `tasks.decorators.ts:127` says a CRON task is run by its expression. Tasks with the same expression share a repeatable, and
   deleting or moving one removes it for both.

The next four have no run of their own: a property says exactly how far the code departs from the words.

3. `logout-implementation.md:21` says a logout of all devices revokes all tokens of the user. A refresh past `token.service.ts:159` stores a live one after it.
   `EndedSessionsStayEnded` says that this is the only way.
4. `data-flow.md:224` says a code is void after one use. Two verifications may both find the unused row. `OverlappingAcceptsOnly` says how far it goes, and `EffectsSpendCodes` what
   it comes to.
5. `README.md:260` says that the synchronisation removes duplicates by an upsert on the unique key. One join event runs two upserts of
   its user at once and may leave two rows. `TwinsOverlap` says that overlap or an answer without data is the only cause for a uuid that the search can find.
6. The same line, `meeting-user.repository.ts:68` ("If a record with the same uuid exists, update it") and `upsert-operations.md:23` and `bitable.service.ts:480` (`caseSensitive`: whether case matters, by default not): the flag puts only the value searched for in lower case. If Bitable
   minds case, no upsert of a uuid with capitals finds its row, and each makes another, without any overlap; number records, whose key is a record id, as well. Which it is the repository does not tell, so that this is no finding of a run; `Searchable` and `Hits` say what the properties leave out.

Others were met while modelling; the models follow the code.

* A token blacklisted in the Map of a process while Redis was away is accepted again once Redis is
  ready, since only Redis is asked then (`token-blacklist.service.ts:71-88`; `logout-implementation.md:11` says the token is invalid at once) – for refresh tokens the table
  still bars it, which is what `SpentOnceDelivered` shows.
* An update of a task that names no status writes back the status it read before its awaits (`tasks.service.ts:154`).
* `data-flow.md:161` says that a disabled account gets 403; no code looks at `active`.
* A login with a country code, and a registration with both a phone and one, always fail: `findFirst` is given a `unique_phone_combination`, which only `findUnique` takes.
* `updateProfile` leaves `emailVerifiedAt` when it changes the e-mail.
* The number record gets `record_file: ['']` (`recording-completed.handler.ts:138`) when the upsert of the file failed: the participant's row then names no file (`link` 0 in the model).
* Every meeting summary is stored as version 1 and the latest one. A summary that comes before its meeting is dropped with a warning (`smart-fullsummary.handler.ts:87`), and nothing brings it later.
* A login by code names its code optionally (`login.dto.ts:35`), the service passes `code!` (`login.service.ts:64`), and Prisma leaves a condition that is undefined out of a query (`verification.repository.ts:32`): a login without a code finds any open code of the target. `VerificationCodes` has this, and for `Accounts` it is one of the ways to claim a code. No property depends on the digits.
* Seeding never completes: its last batch passes `createdBy`, which `MeetingSummary` does not have (`prisma/seeds/meetings.ts:374`, `prisma/models/meet.prisma`). Orders, refunds, participants and transcripts are written again by each rerun.
* `package-scripts.md` says that `db:cleandata` removes the data only and `db:drop` the database: the first also truncates `_prisma_migrations`, the second drops the tables one by one. The branch of the clean that calls `deleteMany`
  is never reached, since no table name is the name of a Prisma model; a table filter with a capital letter matches nothing.
* A comment at `prisma/seeds/permissions.ts:435` says the administrator gets everything but the system's configuration; `relations.ts:101` gives all.

## 8. Not modelled

* Signature checks and decryption of webhooks, mail templates, DTOs, guards, documentation, modules: no state, one request.
* The routes of the meeting records REST service: ids are cuids and `ParseUUIDPipe` refuses them, a create lacks required columns and always fails, and `GET health` is
  hidden by the route of an id. What is left are reads.
* Text analysis, the formatting of transcripts and the prompts: functions on characters.
* Clients of remote services: one request each; their failures are the faults of the models. Mail is modelled where a caller depends on its failure (`SendDelivers`).
* Operations without a caller: `cleanExpiredCodes`, `findByToken`, `isJtiValid`, most methods of the Prisma and Bitable repositories, batch, delete and iterator calls of `BitableService`.
* Fields no property distinguishes: IP and user agent of tokens, titles and times of meetings, payloads of tasks, name, avatar and bio of a user. An empty string as a phone number.
* In `MeetingRecordings`: the order in which a payload has its files, which is left open; that `contains` on a participant's link compares record ids is assumed. The checked instance has one participant.
* In `Seeding`: the columns that are neither keys nor references; the forty permission codes are seven, one for each set of roles that gets it, and the curricula one for each project.
* The processing statuses of a meeting, which each event sets back.

## 9. Plan

The order put first what every user and every event passes through, and what most interleaves.

1. Tokens (`TokenBlacklist`, `AuthTokens`), proofs – done.
2. Scheduled tasks (`TaskQueue`, `ScheduledTasks`), proofs – done.
3. Verification codes, the abstract one-time code they implement, proofs – done.
4. Meeting events (`MeetingTables`, `MeetingDatabase`, `TencentEvents`), proofs of both stores – done.
5. `Accounts` over `OneTimeCodes`, proofs – done.
6. `MeetingRecordings` with the Lark queue, proofs of all its properties – done.
7. `Seeding`, proofs of its rows and of the order of its deletions – done.
8. Open: what status a finished task should end with (no document says it), and `LaterTwinsNeverWritten` for the tables of the recordings.

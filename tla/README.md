# TLA+ models of the task management system

The repository is a small set of Python services behind an nginx gateway: a task
service and an auth service with an HTTP API, and a pipeline of background
processes that react to the events of the task service. This directory holds a
TLA+ model of the parts that carry the system's own logic, the TLC
configurations that check it on small instances, and TLAPS proofs of its main
invariants for instances of any size. Paths below are relative to `src/`;
`task:` stands for `services/task_service/app/`.

## 1. The system

### 1.1 Components

| Component | State | Operations | Talks to |
|---|---|---|---|
| task_service API (`task:api/routers.py`) | tables `tasks`, `task_status_history`, `outbox_events`, `audit_log`, `idempotency_keys` | create, update, change status, delete; list, get, history, metrics (read only) | PostgreSQL, Redis |
| idempotency (`task:core/idempotency.py`) | `idempotency_keys`, unique per key, operation and user | look up, replay or refuse, drop when expired, record | called inside the API's transaction |
| rbac (`task:core/rbac.py`) | none | who may see, manage and delete a task | guard of the API |
| task cache (`task:cache/`) | Redis keys `tasks:*` | get, set with TTL, invalidate all | API, before a read and after a commit |
| rate limit (`shared/rate_limit.py`) | Redis counters with TTL | count a request, refuse with 429 | both APIs, first statement of a write |
| outbox and publisher (`task:tasks/outbox.py`, `task:messaging/outbox_publisher.py`) | `outbox_events.status` | load a locked batch, publish each row, mark, commit once | API (rows), RabbitMQ (messages) |
| broker (RabbitMQ, external) | one queue and one dead-letter queue per consumer | route by topic, deliver, requeue, dead-letter | publisher, workers |
| worker runtime (`task:messaging/worker_runtime.py`, `worker_store.py`) | `processed_events`, `worker_event_logs`, `worker_errors` | declare queue, receive, claim, handle, commit, ack; on failure record, retry, dead-letter | broker, handlers |
| enrichment_service | `task_enrichments`, `outbox_events` | derive `task.enriched` from created and status_changed | is a handler of the runtime |
| notification_service, worker | `notification_deliveries` | queue a delivery for `task.enriched` | is a handler of the runtime |
| notification_service, cron | `notification_deliveries`, `outbox_events`, `worker_errors` | send a batch, report `notification.sent` | mail sender (a mock) |
| audit_service | a CSV file | rewrite the report for each event, hourly, on request and by hand | is a handler of the runtime; reads both databases |
| auth_service | `users`, `user_roles`, `team_memberships`, `refresh_token_sessions`, `audit_log` | register, login, refresh, logout, roles, teams | issues the tokens the task service decodes |
| gateway, frontend | none on the server | routing; browser UI that refreshes on 401 | the two APIs |

A task write and its outbox row commit in one transaction. The publisher moves
rows to the exchange `tasks.events`; the enrichment service turns a task event
into a `task.enriched` event (another outbox row), the notification worker turns
that into a delivery row, the cron sends it and writes `notification.sent`
(another outbox row), and the audit worker receives everything.

### 1.2 What is hard about it, and what makes it correct

- **API.** Requests run in a thread pool over one database at READ COMMITTED, and
  `change_task_status` decides on a status it read without a lock. Correct means:
  a key has one effect, the status agrees with its history, the events of a task
  follow its life, deadlocks have one cause and every request is answered.
- **Pipeline.** Three commits that are not one: the broker's, the database's and the
  acknowledgement. Each process may die between any two. Retries go back to the
  *shared* exchange, so the failure of one consumer redelivers to the others.
  Correct means: each consumer's work for an event is committed once, nothing
  marked published is lost, and an event reaches a final state.
- **Dispatch.** A mail cannot be rolled back, the batch around it can. Correct means:
  one sent event for one delivery, mails repeated only by a fault, none forgotten.
- **Accounts.** No request locks what it reads, and rights are those of a token's past.
  Correct means: a refresh token is spent once used or revoked, roles are those asked for
  last, and the role admin has an origin.
- **Teams.** Admins add and remove members at once. Correct means: a user is in a team
  once, and every membership that ended is on record.
- **Cache.** A fill reads, then stores; an invalidation lists, then deletes; either overlaps
  commits, and Redis may fail at every call. A hit skips rbac. Correct means: an old row is
  served only for a reason, only for a while, and only to those who were shown it.
- **Rate limit.** INCR and EXPIRE are two calls. Correct means: no window lets through
  more than the limit, and every window ends.
- **Report.** Three programs rewrite one file without a lock. Correct means: it becomes
  whole and current again.

`PROJECT.json` lists every hazard with its line and the properties that watch it.

## 2. Modules

| Module | Models | Composes |
|---|---|---|
| `EventRouting` | event types, binding keys, topic matching | |
| `EventPipeline` | outbox, publisher, broker, worker runtime, the three handlers, cron as one step | `EventRouting` |
| `EventChain` | abstract specification: at most one event of each kind in a chain | implemented by `EventPipeline` (`ImplementsChain`) |
| `NotificationDispatch` | `dispatch_once` step by step, several dispatchers | refines the step `DispatchOnce` informally |
| `TaskApi` | the write endpoints, idempotency, rbac, row locks | `EventRouting` |
| `AuthSessions` | registration, login, refresh, logout, roles, access tokens, teams | |
| `RateLimit` | `check_fixed_window_rate_limit` | |
| `TaskCache` | the cached read against the writes, from their rate limit to their invalidation | `RateLimit` |
| `AuditReport` | the writers of the CSV report | |
| `MC...` | constants for TLC | |
| `EventPipelineProofs`, `EventDeliveryProofs` | theorems about `EventPipeline`: its tables; its messages and the refinement | |
| `TaskApiProofs`, `NotificationDispatchProofs`, `TaskCacheProofs` (with `RateLimit`), `AuthSessionsProofs`, `AuditReportProofs` | theorems about the module they are named after | |
| `FiniteNaturals` | lemmas on sets of numbers, for `NotificationDispatchProofs` and `AuditReportProofs` | |

Definitions keep the names of the functions they stand for
(`claim_event_for_processing` is `ClaimEventForProcessing`); `PROJECT.json` maps
each one to its lines. A definition whose name ends in an underscore and a word
(`MoveToDlq_Early`) is a deliberately wrong variant of the one that follows it: put in
its place it breaks a property, which shows that the property says something
about that piece of code.

### 2.1 EventPipeline

An event is the position of its outbox row; rows are numbered by `created_at`. A row
keeps its type, its status and its `cause`, the event it was derived from (0
for an event of the API). A message is an event and its `x-retry-count`.

| State | Code |
|---|---|
| `outbox` | `outbox_events` |
| `publisher[p]` | the open transaction of `publish_pending_events_once`: locked rows, rows to try, rows published |
| `bound`, `queue`, `dlq` | durable queues declared by `_create_queue`, their ready messages, their dead letters |
| `worker[w]` | where the loop of `run_task_event_consumer` is, and its unacknowledged message |
| `processed`, `eventLog`, `errors` | `processed_events`, `worker_event_logs`, `worker_errors` |
| `enrichments`, `deliveries`, `delivered` | `task_enrichments`, `notification_deliveries`, those with status success |

A worker moves through `received` (message taken), `claimed` (row of
`processed_events` inserted, not committed), `acking` (committed or duplicate),
and after an exception `failed`, `saved` (error row stored or its failure logged),
`retried` (copy published). `ProcessEvent` is one step because everything between the
claim and the commit is private to the transaction. The insert of a claim waits while
another open transaction holds the same one (`ClaimHeldByOther`): PostgreSQL's
behaviour for `ON CONFLICT DO NOTHING`. A worker may take any of the messages that the
prefetch of the other workers of its queue leaves reachable (`Reachable`), so
messages are not in order once there are two workers.

Faults, each counted against `MaxFaults`: a publish that raises, an exception at any
point of the processing, a failure to store the error row (`ErrorStoreFails`), and
the death of any process in any state. A failed retry publish ends the worker, which is
`CrashWorker`. An exception that is certain, a second delivery row for the
same event, is not a fault but a consequence (`UniqueViolation`).

### 2.2 TaskApi

Each request is one transaction; its steps are the statements between which others can
run: lookup of the key, deletion of an expired record (takes a lock), read of the
task, flush of a status change (takes the lock of the row), commit. The rest of a
request (objects added to the session) reaches the database with the commit, as
`autoflush=False`, so a create, an update and a delete are one step. What a step
sees is the committed state; what it writes is committed state plus locks, as
READ COMMITTED has it: an UPDATE by primary key overwrites a status that has
changed since it was read; an UPDATE of a row that is gone is an error
(`StaleDataError`); a DELETE of one is only a warning. SQLAlchemy writes only changed
columns, which `UpdateTask` keeps.

Requests wait for each other in two places. An UPDATE or DELETE of a task waits for the
transaction that has updated its row (`WaitsForTask`, held from the flush of a status change to
the commit). And an INSERT into `idempotency_keys` that meets, in the unique index, a row that
an open transaction has deleted waits for the outcome of that transaction (`WaitsForKey`): if it commits,
its own record is there, if it is rolled back, the old one is back, and the insert fails
(`KeyConflict`). The two waits can close a circle: A has dropped the expired record of its key and waits for the task's
row at its flush; B, which looked the key up before that record was written, holds the row and
waits for the deletion at its commit. PostgreSQL then fails one of them
(`BreakDeadlock`), and the client gets a 500. `Circle` is stated for any number of requests:
with several keys and tasks longer circles are possible.

A request names the rows it inserts, so `audit` is a set of requests. The fields
of a task are those the code decides on: owner, assignee, team, status.

### 2.3 NotificationDispatch

The dispatchers select rows `FOR UPDATE SKIP LOCKED` in the order of a random id, send
one by one (`mails` counts what the mail server accepted, a fact no rollback undoes),
and commit once. A refused send (`SendFails`) raises inside `record_worker_error`.
The shipped `MockEmailSender` never fails; the action stands for the sender
protocol's other outcome, which `dispatcher.py` handles.

### 2.4 AuthSessions

| State | Code |
|---|---|
| `users`, `userRoles` | `users`, `user_roles`; a row of the latter carries the number of the request that inserted it, as its identity |
| `teams`, `members` | `teams`, `team_memberships`, the latter like `user_roles` |
| `recorded` | `audit_log`: memberships recorded as added, less those recorded as removed |
| `sessions` | `refresh_token_sessions`, each with the claims (`roles`, `iat`) of the access token issued beside it; `given`: the response has left, so the client has both tokens |
| `req[w]` | the request a thread runs: where it is, and what it has read |
| `now` | the time that tokens expire by |
| `adminAt` | history, no code |

A request reads, then flushes and commits; `autoflush=False` and no `FOR UPDATE`, so
whatever it has read may be stale at its commit. `set_user_roles` deletes the rows it read
by their ids: rows that are gone only give a warning, rows it has not seen stay
(`OthersRows`). A refresh flushes `revoked_at`, then holds the lock of the session's row
until `build_auth_response` commits it with the new session; another refresh or
logout of the same token waits, and then writes `revoked_at` again without noticing. The
audit row is a commit of its own just before the response (`Respond`). `Abort` cuts a request
off anywhere. Rights come from the roles in the access token, not from the tables
(`PrincipalRoles`), unless the token has none: then from the tables.

A request may ask for no role: `roles=[""]` is long enough for `schemas.py:12,54`,
`normalize_role_codes` drops the blank, and `set_user_roles` deletes and inserts nothing. So
`RoleRequests` may contain `{}`.

A membership is added after a look for an existing one and the unique constraint settles
the race (`AlreadyMember`). A removal deletes the row it read by its id and records the removal in any case:
of two that read the same row both are recorded, and one that comes after the user has been
added again does not touch the new row.

### 2.5 RateLimit and TaskCache

`RateLimit` has one step per Redis call that can be told apart: INCR, and EXPIRE for the
first request of a counter (TTL only feeds the header `Retry-After`). A call that fails lets the
request through, as `degraded`; a failed INCR may have counted. `granted` counts what a
counter has let through in its life, `cut` marks keys whose first request failed before EXPIRE.

`TaskCache` extends it: a write passes the limit, commits, refreshes its row and invalidates.
One task is watched, by its version and the column that visibility depends on.

| State | Code |
|---|---|
| `row`, `version` | the row in `tasks`; the number of commits that changed it |
| `write[r]` | where a write is after the rate limit, and the keys its invalidation has listed |
| `get[c]` | the row that `get_task` has read and not yet stored, for a user with certain roles and teams |
| `entry[c]` | the key `tasks:item:{hash of user, roles, teams}:{task_id}`, its row and TTL |
| `missed` | history: versions whose writer ended without removing the keys |

A transaction is its commit here, as `TaskApi` has its inside. A write may also end before
its commit (`EndWithoutCommit`), at the refresh of a row that is gone, or at any failure of Redis or of the
process after the commit (`InvalidationFails`), without a bound on their number. Two GETs of one user at once are not
distinguished from one: the second to store wins, with an older or a newer row, which a single one can do too.

### 2.6 AuditReport

A run reads its counts (`Load`), opens the file, which empties it (`OpenFile`), writes buffers at its own
position (`WriteBuffer`; another run may have truncated the file below it, which leaves a
hole), and closes it. The cron starts a run whenever it has none, the worker for an event it
then commits (`CommitEvent`), an admin by `POST /audit/report`. A report is known by the
counts it was made from; that it grows with them is what makes an overwritten longer one
visible. `spoilt` records whether the last run to open the file has finished and was alone.

## 3. Runs

Run with `tlc -workers 2 -config <cfg> <module>`. Sizes are distinct states.

| Run | Instance | Shows |
|---|---|---|
| `pipeline` (`MCEventPipeline.cfg`) | one worker per consumer, one publisher, one created task, 1 retry, 2 faults; 310,941 | `TypeOK`, `HandledOnce`, `OneDerivedEvent`, `PublishedNotLost`, `ImplementsChain` |
| `pipeline_scaled` (`...Scaled.cfg`) | 2 publishers, 2 enrichment workers, 2 events (created, deleted), 2 faults, error rows may be lost; 141,527 under symmetry | the same with workers and publishers side by side, and `ClaimExclusive` |
| `pipeline_live` (`...Live.cfg`) | enrichment and audit, 1 retry, 3 faults, fair; 150,866 | `DeadLetterAfterAllRetries`, `EventuallySettled` |
| `pipeline_first_start` (`...FirstStart.cfg`) | no queue declared at the start, no fault | violates `CommittedEventNotLost` |
| `taskapi` (`MCTaskApi.cfg`) | 3 requests, each any of 10 calls of 4 users, 1 key, 1 expiry, crashes, fair; 350,966 | `TypeOK`, `OneEffectPerKey`, `StatusIsLastHistory`, `EventsFollowLifecycle`, `DeadlocksNeedExpiredKey`, `EveryRequestAnswered` |
| `taskapi_transitions` (`...Transitions.cfg`) | 3 requests, each one of two conflicting changes | violates `StatusTransitionsAllowed` |
| `dispatch` (`MCNotificationDispatch.cfg`) | 2 dispatchers, 3 deliveries, batches of 2, 2 faults, fair; 19,784 | `TypeOK`, `OneSentEvent`, `MailsAccounted`, `EventuallySent` |
| `dispatch_errors` (`...Errors.cfg`) | the same | violates `FailedSendRecorded` |
| `auth_sessions` (`MCAuthSessions.cfg`) | 2 requests at once, 1 account, 4 sessions, no team, fair; 82,118 | `RotationBounded`, `RevokedStaysUnused`, `EveryRequestEnds` |
| `auth_roles` (`...Roles.cfg`) | 2 requests at once, 2 accounts, 1 team, 4 writes of roles (teamlead, admin or none), 3 with memberships once there is a team, 2 sessions; 1,338,566 under symmetry | `TypeOK`, `RolesOfLatestRequests`, `EndedMembershipsRecorded`, `AdminsComeFromAdmins` |
| `task_cache` (`MCTaskCache.cfg`) | 2 writes of one client with limit 1, 2 users who see the task when it is assigned to them, TTLs of one step, fair; 210,906 | `TypeOK`, `AtMostLimit`, `StaleEntriesExplained`, `AnswersVisible`, `WindowEnds`, `EventuallyCurrent` |
| `audit_report` (`MCAuditReport.cfg`) | worker, cron and one run by request, 2 events, 1 login, 1 fault, fair; 558,866 | `TypeOK`, `SoloReportCurrent`, `AgainAndAgainCurrent` |

What the properties say of the code:

- `HandledOnce`: `worker_event_logs` has exactly one row for each row of
  `processed_events`, whatever is redelivered. `ClaimExclusive`: an open
  transaction that holds a claim is alone with it.
- `OneDerivedEvent`: an event has one `task.enriched` event at most, a delivery
  one `notification.sent`, and the rows agree with the tables of the same transactions.
- `PublishedNotLost`: an event marked published is, for each consumer that is
  subscribed and has its queue, in the queue, with a worker, processed or dead-lettered.
- `DeadLetterAfterAllRetries`: an event a consumer gives up on failed with that
  consumer at every retry count, although copies are shared. This is not obvious: a copy
  with count `k+1` exists only because somebody failed at `k`, perhaps another
  consumer. It holds because the queue of the consumer also got the copies with
  lower counts, and a success at any of them would have made it processed. It needs the
  error row to be stored, so `ErrorStoreFails` is FALSE there, and one worker per consumer
  (section 6).
- `ImplementsChain`: mapped to the tables, every step is a step of `EventChain` or
  changes nothing it sees.
- `EndedMembershipsRecorded`: at most one row for a user in a team, and never more
  recorded additions than rows and recorded removals together.
- `StaleEntriesExplained`: of all versions committed since an entry was stored, none has
  been invalidated. So an entry that was current when it was stored does not survive a later
  write that succeeds, whatever else runs; only a fill that overlaps a commit brings in an old row.
- `AnswersVisible`: what is stored under a user's key, or about to be, is a version rbac
  showed to him. `EventuallyCurrent`: a stale entry goes, even if readers keep filling.
- `AtMostLimit`: a counter with its TTL lets at most `Limit` requests through in its life.
  `WindowEnds`: every counter ends, unless its EXPIRE was lost.
- `SoloReportCurrent`: after a run that had the file to itself the file is one whole report
  that shows all events the worker has committed (`README.md:169`), whatever earlier runs
  left in it. `AgainAndAgainCurrent`: such a file, current to the last commit, recurs.
- `EventuallySettled`, `EventuallySent`, `EveryRequestAnswered`, `EveryRequestEnds`: progress.
- `OneEffectPerKey`: two effects under one key only if a record expired; a replay
  answers for a request with the same payload that took effect.
- `DeadlocksNeedExpiredKey`: requests wait for each other in a circle only if all are changes
  of status with an `Idempotency-Key` and one is reusing an expired key. Requests without a key,
  creations, updates and deletions are never part of one. `EveryRequestAnswered` then says that a wait ends
  otherwise or by PostgreSQL's check; its mutant takes the check away.
- `StatusIsLastHistory`: the status is the target of the last history row, also under
  concurrent updates of other columns. `EventsFollowLifecycle`: created, then
  status changes, then deletions, and the row exists exactly in between. Two
  concurrent deletions both write `task.deleted`; the property admits that.
- `OneSentEvent`, `MailsAccounted`: one report for one delivery, and at most one mail
  more for each fault.
- `RotationBounded`, `RevokedStaysUnused`: two refreshes at once do both succeed, but a
  token yields no more sessions than requests run at once, and once it is revoked and no
  refresh of it is under way, none (`README.md:65`, logout by revocation).
- `RolesOfLatestRequests`: overlapping replacements may leave the union of their roles, but
  never one of an older request; an account may have no role, if it was asked for. `AdminsComeFromAdmins`: the role admin is
  obtained by registering in an empty service (two at once both do), or from somebody who
  held it less than a token's lifetime before; a refresh does not prolong it.

### 3.1 What the code does differently from what is written

- *An event can be lost to a consumer that never ran* (`pipeline_first_start`).
  `README.md:149` promises that the outbox protects events after the commit. A
  queue exists only after its worker's first start (`worker_runtime.py:93-102`);
  an earlier publish is dropped for it, and the row is marked published
  (`outbox_publisher.py:57-58`).
- *A status can move along an edge the table does not have* (`taskapi_transitions`).
  Two requests read `todo`; one cancels the task, the other then sets it to `in_progress`
  (`routers.py:411-429`, against `README.md:113-120`).
- *A failed send is not recorded* (`dispatch_errors`). `dispatcher.py:86-101` calls
  `record_worker_error` with arguments it does not take; the run is rolled back and the
  cron ends (against `README.md:166`).

The runs below pass; what their properties leave out is worth knowing too:

- *A rate limit can become permanent.* If the first request of a window fails between INCR
  and EXPIRE, its counter never ends: from the request after the limit on, all are
  refused, also once Redis is well (`rate_limit.py:28-30`; `README.md:77-82` speaks of
  a window of 60 seconds). `WindowEnds` excludes it by `cut`.
- *A deleted or changed task can be served after a successful write*: a GET that read before
  the commit stores after the invalidation (`routers.py:340-347`), up to the TTL.
  `README.md:222` only says that the keys are removed, which is so.
- *A write can take effect, report an error and leave the cache*: `db.refresh` raises when
  another request has deleted the task (`routers.py:470`, also 384 and 222).
- *A scaled consumer can give up too early*: with two workers of one consumer beside another
  consumer, a retry copy that the other consumer caused can be dead-lettered by one worker while
  the second still has the original in hand. `docker-compose.yml` starts one worker for each.
- *Overlapping reports mix*: the file can have the tail of an older report, a hole, or be
  older than the events committed, until a run has it to itself.
- *A change of status can fail by a deadlock* when its `Idempotency-Key` is reused after its record has
  expired, while an earlier request with the key is still running (`idempotency.py:45`,
  `routers.py:429,469`): nothing catches the error or tries again.
- *An admin can take every role from an account*, or create one without, by `roles=[""]`
  (`auth_service/app/schemas.py:12,54`, `rbac.py:26`), though the schemas ask for a list that is not empty.
- *Two removals of one member are both recorded* (`auth_service/app/routers.py:348-363`).
- *The notification worker binds `task.enriched`*, not the task events that
  `README.md:160` names; the model follows the code (`EventRouting`).

## 4. Bounds

Every bound is a CONSTANT: `MaxSource` events written by the API, `MaxFaults` faults,
`MaxExpired` expiries, and the sets of processes, requests and deliveries. Inside them
nothing is cut off: TLC explores every interleaving.

- One source event already gives three events and messages for all consumers;
  interference between events is only through batches and shared queues, which
  `pipeline_scaled` has with two events.
- Two faults reach every pair of crash points, such as publisher and worker, or worker
  and its redelivery. Dead-lettering takes `MaxRetry + 1` failures: `pipeline_live`
  has 3 faults for 1 retry, so that the other consumer, which shares the retries, can fail as well.
- Three requests are the smallest number where a third sees the result of a race of two:
  a replay after an expiry race, a deletion between a read and a flush, and the deadlock, which
  takes the request whose record expires beside the two that wait for each other. The
  calls have two payloads under one key, both kinds of writer of one row, each role,
  and an update that changes who may see the task.
- Three deliveries are one more than a batch, so a second dispatcher has work.
- `AuthSessions` is bounded by `MaxSessions`, `MaxGrants` and `MaxTime`; a request starts only
  if what it may write still fits. Four sessions are one and the three children that would
  break `RotationBounded` for two requests; four writes of roles let three replacements or
  creations follow a registration, such as an account created without a role, logged in and made
  admin, which then acts by the token that has no role; `MaxTeamGrants` (3, once there is a team) lets two additions
  of one member race, or an addition follow a removal that is still in progress. The clock passes the end of every token issued at its start.

- `TaskCache` bounds nothing but the requests and the TTLs: failures and reads are unlimited.
  Two writes are the least that show the limit, a second write during an
  invalidation, and an update overtaken by a deletion. A clock that runs out every TTL in one step makes
  each end as early as it can; waiting is not taking the step.
- `AuditReport` needs two events, so that a longer report can be overwritten by a shorter
  one, and a fault that leaves half of one.

`CHECK_DEADLOCK FALSE` is set for `taskapi`, `dispatch` and the `auth` runs only: there all
requests are answered, all deliveries sent, or the bounds used up, in the end; `EveryRequestAnswered`,
`EveryRequestEnds` and `EventuallySent` are what excludes a wait for ever. The pipeline never stops, as a poll
of an empty outbox is a step; in `task_cache` time, in `audit_report` the cron goes on.

## 5. Fairness

- `EventPipeline`: weak fairness for the loop of each publisher, of each worker and for
  the cron: they are infinite loops without a condition that ends them. The loop includes
  the start of a process that ended. **`docker-compose.yml` states no restart policy**, so
  this is an assumption about the operator; without it an ended worker stays down and
  `EventuallySettled` fails at once. No fairness for the API, for faults nor for the
  broker, whose delivery is part of the worker's step.
- Faults are bounded, so a publish or a handler that fails for ever is not covered by
  the liveness properties, only by the safety ones.
- `TaskApi`: weak fairness for each request: its thread keeps running. A request may
  still be crashed at any point. Weak fairness is enough although locks are contended:
  a lock is waited for by finitely many requests, and its holder ends unless it is part of a circle. Weak
  fairness of `BreakDeadlock`, for some request of a circle, is PostgreSQL's deadlock check,
  which runs after `deadlock_timeout` and cannot be switched off.
- `NotificationDispatch`: as for the pipeline.
- `AuthSessions`: weak fairness for each thread, and strong fairness for the two steps that
  wait for the lock of a session, since PostgreSQL queues those who wait for a row. None for
  the arrival of requests, the clock and `Abort`.
- `TaskCache`: weak fairness for the clock and for the thread of each write. None for readers.
- `AuditReport`: weak fairness for the interval of the cron, for each run in progress and for the
  commit of the worker's event. None for the delivery of events, requests and faults; that a dead
  cron is started again is again the operator's part.

## 6. Proofs

The theorems hold for all values of the constants that meet the named assumptions of the
modules, with no bound on processes, requests, events or faults. Every safety invariant, every
action property and the refinement that a passing run checks is a theorem:

| Theorem | Property | Inductive invariant |
|---|---|---|
| `EventPipelineProofs!TypeCorrect` | `TypeOK` | `TypeOK` |
| `EventPipelineProofs!EventsHandledOnce`, `!ClaimsAreLocks` | `HandledOnce`, `ClaimExclusive` | `HandledInv` |
| `EventPipelineProofs!DerivedOnce` | `OneDerivedEvent` | `TypeOK /\ OneDerivedEvent` |
| `EventDeliveryProofs!NothingPublishedIsLost` | `PublishedNotLost` | `KeptInv` |
| `EventDeliveryProofs!PipelineIsChain` | `ImplementsChain` (`Chain!Spec`) | `RoutedInv`, `OneDerivedEvent` |
| `EventDeliveryProofs!DeadLettersTried` | `DeadLetterAfterAllRetries` | `RoutedInv /\ KeptInv /\ SharedInv /\ QueueInv /\ HandInv` |
| `TaskApiProofs!TypeCorrect` | `TypeOK` | `TypeInv` |
| `TaskApiProofs!KeysHaveOneEffect` | `OneEffectPerKey` | `TypeInv /\ KeyInv` |
| `TaskApiProofs!DeadlockOnlyOnExpiredKey` | `DeadlocksNeedExpiredKey` | `TypeInv /\ KeyInv /\ HolderInv` |
| `TaskApiProofs!HistoryAgrees` | `StatusIsLastHistory` | `TypeInv /\ StatusInv` |
| `TaskApiProofs!LifecycleKept` | `EventsFollowLifecycle` | `TypeInv /\ LifeInv` |
| `NotificationDispatchProofs!TypeCorrect` | `TypeOK` | `TypeOK /\ BatchInv` |
| `NotificationDispatchProofs!SentOnce` | `OneSentEvent` | `TypeInv /\ OneSentEvent` |
| `NotificationDispatchProofs!MailsRepeatedOnlyByFaults` | `MailsAccounted` | `TypeInv /\ MailInv` |
| `TaskCacheProofs!TypeCorrect` | `TypeOK` | `TypeOK` |
| `TaskCacheProofs!RateLimitKept` | `AtMostLimit` | `LimitInv` |
| `TaskCacheProofs!AnswersSeen` | `AnswersVisible` | `TypeOK /\ AnswersVisible` |
| `TaskCacheProofs!StaleOnlyBeforeInvalidation` | `StaleEntriesExplained` | `EntryInv` |
| `AuthSessionsProofs!TypeCorrect` | `TypeOK` | `TypeOK /\ RequestInv` |
| `AuthSessionsProofs!MembershipsRecorded` | `EndedMembershipsRecorded` | `TypeInv /\ MemberInv` |
| `AuthSessionsProofs!SpentStaysSpent` | `RevokedStaysUnused`, of steps | `TypeInv` |
| `AuthSessionsProofs!RotationKept` | `RotationBounded` | `TypeInv /\ RotationInv` |
| `AuthSessionsProofs!RolesFromLatestRequests` | `RolesOfLatestRequests` | `TypeInv /\ RoleInv` |
| `AuthSessionsProofs!AdminsMadeByAdmins` | `AdminsComeFromAdmins`, of steps | `TypeInv /\ AdminInv` |
| `AuditReportProofs!TypeCorrect` | `TypeOK` | `TypeOK /\ EventInv` |
| `AuditReportProofs!SoloReportIsCurrent` | `SoloReportCurrent` | `SoloInv` |

The assumptions are `PipelineAssumption`, `TaskApiAssumption`, `DispatchAssumption`,
`RateLimitAssumption`, `TaskCacheAssumption`, `AuthAssumption` and `AuditReportAssumption`.
All are typings (`RoleRequests` is any set of sets of roles, the empty one allowed) and disjointness of names, and that batches, limits and TTLs which may not be 0
are not, but for one: `AuthAssumption` has finitely many `Worker`s, the threads of the pool
that runs the requests, because two properties compare numbers of rows with the number of threads.
One theorem has hypotheses of its own, `DeadLettersTried`.

Why the invariants have to be stronger than what they prove:

- `HandledOnce` alone is not inductive: a worker in `claimed` could hold an event that is
  already processed. `ClaimExclusive` excludes that, and needs `ClaimHeldByOther` in the
  claim: the proof is the argument that the unique key of `processed_events` is a lock.
- `KeptInv` counts a row as published from the publication on, before the commit of its batch,
  and says that its event is queued, in work, processed or dead-lettered. A worker in `acking` or
  `retried` is not in that list: its message may be dropped since the work is
  done, or since a copy went to every bound queue. So the proof is one case per step that lets go of a message.
- The refinement needs `RoutedInv` (every message is of an event the consumer is bound to) because
  the enrichment of an event that is no task event would be a step the chain does
  not have, and `OneDerivedEvent` in the state after the step because the chain refuses a second
  answer to one event. `ChainStep` maps each action to `Write`, `Enrich`, `Queue`, `Send` or to a stutter.
- `DeadLetterAfterAllRetries` needs the order of copies. `SharedInv`: a copy with `r` retries exists
  anywhere only after each consumer got all copies with fewer. `QueueInv`: in a queue,
  copies with fewer retries come first, or are in hand, or were tried. `HandInv`: hence a worker
  has tried all of them before it begins with a copy. A crash puts the message in hand back at the head,
  which keeps the order. With a second worker of the same consumer `QueueInv` is false and so is the
  property: TLC finds the behaviour with two enrichment workers, one audit worker and two
  faults. If the error row cannot be stored, an attempt leaves no trace. Hence the two hypotheses,
  `OneWorkerEach` and `~ErrorStoreFails`.
- `TypeInv` of `TaskApi` adds the row locks to `TypeOK` (`LockInv`): a request between flush and
  commit holds the only lock of a row that exists, so a deletion cannot take it away.
- `HolderInv`: a record is deleted by one open transaction at a time, which has its key. As the table's keys
  are unique (`KeyInv`), a creation that is waited for does not wait itself, so a circle
  has only changes of status; one that is waited for by a commit has deleted a record, an expired one.
- `KeyInv` says where the record of an effect is: in the table or expired; the table
  has one row per key. An effect can be repeated only past an expiry.
- `StatusInv` adds that ids of creating requests are fresh (`IdsInv`): a new task has
  no history. `LifeInv` adds that every task an event names, or a request has read, was
  created by a committed request (`OriginInv`).
- `BatchInv`: the batches of two dispatchers are disjoint and hold unsent rows only, what
  `SKIP LOCKED` is for. `MailInv`: a mail that is neither committed nor in flight was lost to a fault.
- `LimitInv` keeps a place free for the request that is to set the TTL: INCR has told it that it is
  the first, so it is let through whatever the counter has become meanwhile.
- `EntryInv`: what a writer that is deleting has not listed was stored after its own commit, so
  it may go without removing it.
- `MemberInv`: only an account has memberships, and the removal of a row that is gone still
  lowers the count of what is recorded. `RotationInv`: a session that is not revoked has no children, and the children of one
  that is, with the refreshes of it still in progress, are no more than the threads. `RoleInv` names, for each
  request whose roles an account has, the thread that ran it (`WrittenBy`), one thread for one request: when a
  thread replaces roles again, it has read, and so deletes, what it wrote before. `AdminInv` carries
  the moment of the check along with the claims and the pending requests.
- `SoloInv`: a run that has been alone so far has written the beginning of its own report
  (`Undisturbed`), and counts every event that is committed or about to be (`Covers`).

Two techniques recur. Facts on finite sets of numbers (that a least one exists, that a batch can be put in
order) are in `FiniteNaturals`, proved with a least counterexample: an
induction theorem takes an operator as a parameter, which the provers cannot instantiate,
but well-foundedness of the order on `Nat` does not. And a step is first classified
by what it leaves alone (`StepCases`, `QuietWorkerStep`, `OtherWorkersStay`), so that a proof
about queues has five cases instead of twenty actions.

## 7. Only model-checked

The liveness properties `EventuallySettled`, `EveryRequestAnswered`, `EventuallySent`,
`EveryRequestEnds`, `WindowEnds`, `EventuallyCurrent`, `AgainAndAgainCurrent`: liveness under
fairness is beyond the installed provers. The three runs that end in a violation show a behaviour,
and there is nothing to prove about them.

## 8. Plan

The modules cover what the inventory lists, and the theorems cover the safety properties the runs
check. What would say more:

| Module | Next | Why |
|---|---|---|
| `EventPipeline` | the number of attempts that `DeadLetterAfterAllRetries` leaves to a consumer with several workers | what the deployment can rely on when it is scaled |
| `NotificationDispatch` | that a run of a dispatcher implements the step `DispatchOnce` of `EventPipeline` | so far informal, in section 2 |
| `TaskApi` | the status changes that are possible under races, as an action property | the positive side of `taskapi_transitions` |

## 9. Not modelled

- Gateway, frontend, error formatting, token encoding, settings, migrations: no state of
  the system's logic. Settings that matter are CONSTANTS; constraints of the schema that the
  code relies on are in the guards.
- Read endpoints other than `GET /tasks/{id}`: they change nothing and are not cached.
  `apply_visibility_scope`, the filter of listings, is rbac once more.
- The `team_ids` in an access token: the auth service decides nothing it writes by them, and in
  `TaskApi` and `TaskCache` the claims of a user are given.
- Deployments without Redis, or with a limit or TTL of 0: cache and limit are then switched off.
- The order of two events of one task: `created_at` of a `task.deleted` row is taken before its
  transaction waits for the task's row, so it can precede that of a status change that commits
  earlier. No consumer looks at the order.
- Locks of the auth service other than those of sessions: deletions and insertions of a replacement of roles
  are one step. Where PostgreSQL lets one wait for another, the wait is not shown, and
  where it fails one, that is `Abort`; so `EveryRequestEnds` is checked for sessions only.
- Contents of events, mails and reports, deadlines, priorities, titles; lengths of text
  columns; the durations of polls and backoffs.
- Loss of a broker or database node: both are durable (queues and messages are
  declared so, commits are synchronous).

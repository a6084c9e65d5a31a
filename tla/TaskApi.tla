------------------------------ MODULE TaskApi -------------------------------
(***************************************************************************)
(* The write endpoints of task_service, as concurrent requests over one    *)
(* database at the isolation level READ COMMITTED: create, change of       *)
(* status, update and deletion of a task, with the Idempotency-Key of the  *)
(* first two.  Each request is one transaction; its steps are the          *)
(* statements between which other requests can run.                        *)
(*                                                                         *)
(* A request names the rows it writes: the task it creates, its record in  *)
(* idempotency_keys and its row in audit_log have the id of the request.   *)
(* A client's retry is another request with the same call.                 *)
(***************************************************************************)
EXTENDS EventRouting, FiniteSets

CONSTANTS
  Requests,
  Calls,         \* the calls clients make in this instance
  Users, Teams, Keys, NoKey,
  Admins,        \* users with role "admin"
  LeadOf,        \* the teams of each user with role "teamlead", {} for the others
  InitialTasks,  \* ids of the tasks that exist at the start
  InitialRow,    \* their rows
  NoRow,         \* no row has this id
  MaxExpired     \* bound: idempotency records that expire

TaskIds == InitialTasks \cup Requests
Status == {"todo", "in_progress", "review", "done", "cancelled"}
Operation == {"create", "status", "update", "delete"}
\* The fields of a task an update may change and rbac looks at.
People == [assignee : Users, team : Teams]
Row == [owner : Users, people : People, status : Status]

\* "body" is the payload: People, or the target status; a create has no task id.
CallsOf(op) ==
  [op : {op}, user : Users, key : Keys \cup {NoKey},
   task : IF op = "create" THEN {NoRow} ELSE TaskIds,
   body : CASE op = "status" -> Status
            [] op = "delete" -> {"none"}
            [] OTHER         -> People]

ASSUME TaskApiAssumption ==
  /\ Calls \subseteq UNION {CallsOf(op) : op \in Operation}
  /\ Admins \subseteq Users
  /\ LeadOf \in [Users -> SUBSET Teams]
  /\ InitialRow \in [InitialTasks -> {row \in Row : row.status = "todo"}]
  /\ InitialTasks \cap Requests = {}
  /\ NoRow \notin Row
  /\ NoKey \notin Keys
  /\ MaxExpired \in Nat

VARIABLES
  call,     \* the call each request makes
  pc,       \* where each request is
  read,     \* the task row a request has loaded, as it was then
  dropped,  \* expired idempotency records a request deletes, at most one
  tasks,    \* table tasks
  history,  \* table task_status_history, in the order of changed_at
  outbox,   \* table outbox_events, in commit order
  audit,    \* table audit_log
  idem,     \* table idempotency_keys
  expired   \* idempotency records whose expires_at has passed

vars == <<call, pc, read, dropped, tasks, history, outbox, audit, idem, expired>>
tables == <<tasks, history, outbox, audit, idem>>

Final == {"committed", "replayed", "rejected", "failed"}
PC == {"arrived", "dropping", "reading", "writing", "written"} \cup Final
HistoryRow == [task : TaskIds, from : Status, to : Status, by : Users]
OutboxRow == [type : TaskEventType, task : TaskIds]

TypeOK ==
  /\ call \in [Requests -> Calls]
  /\ pc \in [Requests -> PC]
  /\ read \in [Requests -> Row \cup {NoRow}]
  /\ dropped \in [Requests -> SUBSET Requests]
  /\ tasks \in [TaskIds -> Row \cup {NoRow}]
  /\ history \in Seq(HistoryRow)
  /\ outbox \in Seq(OutboxRow)
  /\ audit \in SUBSET Requests
  /\ idem \in SUBSET Requests
  /\ expired \in SUBSET Requests

Init ==
  /\ call \in [Requests -> Calls]
  /\ pc = [r \in Requests |-> "arrived"]
  /\ read = [r \in Requests |-> NoRow]
  /\ dropped = [r \in Requests |-> {}]
  /\ tasks = [t \in TaskIds |-> IF t \in InitialTasks THEN InitialRow[t] ELSE NoRow]
  /\ history = <<>>
  /\ outbox = <<>>
  /\ audit = {}
  /\ idem = {}
  /\ expired = {}

(***************************************************************************)
(* Roles                                                                   *)
(***************************************************************************)
CanDelete(row, u) == u \in Admins \/ row.people.team \in LeadOf[u] \/ u = row.owner
CanView(row, u) == CanDelete(row, u) \/ u = row.people.assignee

AllowedStatusTransitions(status) ==
  CASE status = "todo"        -> {"in_progress", "cancelled"}
    [] status = "in_progress" -> {"review", "cancelled"}
    [] status = "review"      -> {"in_progress", "done", "cancelled"}
    [] OTHER                  -> {}

(***************************************************************************)
(* Idempotency keys                                                        *)
(***************************************************************************)
Keyed(r) == call[r].op \in {"create", "status"} /\ call[r].key # NoKey

\* uq_idempotency_keys_key_operation_actor
SameKey(q, r) ==
  /\ Keyed(q) /\ Keyed(r)
  /\ <<call[q].op, call[q].user, call[q].key>> = <<call[r].op, call[r].user, call[r].key>>

SameRequestHash(q, r) == call[q].task = call[r].task /\ call[q].body = call[r].body

Move(r, place) == pc' = [pc EXCEPT ![r] = place]

AfterLookup(r) == IF call[r].op = "create" THEN "writing" ELSE "reading"

\* The stored response, or 409 when the payload is another one.
MaybeReplay(r, q) == Move(r, IF SameRequestHash(q, r) THEN "replayed" ELSE "rejected")

\* 429 of enforce_task_write_rate_limit.
Throttle(r) ==
  /\ pc[r] = "arrived"
  /\ Move(r, "rejected")
  /\ UNCHANGED <<call, read, dropped, tables, expired>>

\* Wrong variant: the comparison of expires_at with the time is the wrong way round.
PastExpiry_Reversed(q) == q \notin expired

PastExpiry(q) == q \in expired

LookupIdempotencyRecord(r) ==
  LET found == {q \in idem : SameKey(q, r)} IN
  /\ pc[r] = "arrived"
  /\ \/ /\ found = {}
        /\ Move(r, AfterLookup(r))
        /\ UNCHANGED dropped
     \/ \E q \in found : ~PastExpiry(q) /\ MaybeReplay(r, q) /\ UNCHANGED dropped
     \/ \E q \in found :
          /\ PastExpiry(q)
          /\ Move(r, "dropping")
          /\ dropped' = [dropped EXCEPT ![r] = {q}]
  /\ UNCHANGED <<call, read, tables, expired>>

\* The open transaction of s has deleted record q.
HoldsRecord(s, q) == pc[s] \in {"reading", "writing", "written"} /\ q \in dropped[s]

\* The DELETE of an expired record waits for another one that holds it, and
\* deletes nothing when that one has committed.
DropExpiredRecord(r) ==
  /\ pc[r] = "dropping"
  /\ \A q \in dropped[r], s \in Requests : ~HoldsRecord(s, q)
  /\ Move(r, AfterLookup(r))
  /\ dropped' = [dropped EXCEPT ![r] = @ \cap idem]
  /\ UNCHANGED <<call, read, tables, expired>>

\* Wrong variant: the key has no unique constraint.
KeyConflict_Never(r) == FALSE

\* s has deleted the row that the insert of r's record meets in the unique index:
\* the insert can neither fail nor succeed before s has ended.
WaitsForKey(r, s) == s # r /\ \E q \in idem : SameKey(q, r) /\ HoldsRecord(s, q)

KeyHeld(r) == \E s \in Requests : WaitsForKey(r, s)

\* The insert of the record meets a row with its key: one that committed after the
\* lookup, or that another request had deleted and has put back by its rollback.
KeyConflict(r) == \E q \in idem \ dropped[r] : SameKey(q, r)

(***************************************************************************)
(* The transactions                                                        *)
(***************************************************************************)
ReadTask(r) ==
  LET row == tasks[call[r].task]
      user == call[r].user
      refused == \/ row = NoRow
                 \/ ~CanView(row, user)
                 \/ call[r].op = "delete" /\ ~CanDelete(row, user)
                 \/ /\ call[r].op = "status"
                    /\ call[r].body \notin AllowedStatusTransitions(row.status)
  IN
  /\ pc[r] = "reading"
  /\ IF refused
       THEN Move(r, "rejected") /\ UNCHANGED read
       ELSE Move(r, "writing") /\ read' = [read EXCEPT ![r] = row]
  /\ UNCHANGED <<call, dropped, tables, expired>>

\* s has updated the task of r and its transaction is open.
WaitsForTask(r, s) == s # r /\ pc[s] = "written" /\ call[s].task = call[r].task

Locked(r) == \E s \in Requests : WaitsForTask(r, s)

\* flush() of a status change: UPDATE by primary key.  It takes the row lock; a
\* row that is gone is a StaleDataError and rolls the request back.
FlushStatus(r) ==
  /\ pc[r] = "writing"
  /\ call[r].op = "status"
  /\ ~Locked(r)
  /\ Move(r, IF tasks[call[r].task] = NoRow THEN "failed" ELSE "written")
  /\ UNCHANGED <<call, read, dropped, tables, expired>>

\* The rows every committed transaction adds: its audit row, and its record when
\* it has a key; the record it dropped goes with it.
AddAuditAndRecord(r) ==
  /\ audit' = audit \cup {r}
  /\ idem' = IF Keyed(r) THEN (idem \ dropped[r]) \cup {r} ELSE idem
  /\ Move(r, "committed")

\* The unique constraint fails the request's commit, and with it the transaction.
FailOnKeyConflict(r) ==
  /\ KeyConflict(r)
  /\ Move(r, "failed")
  /\ UNCHANGED tables

\* Wrong variant: the column default of status is forgotten.
NewTask_NoDefault(r) == [owner |-> call[r].user, people |-> call[r].body, status |-> "null"]

NewTask(r) == [owner |-> call[r].user, people |-> call[r].body, status |-> "todo"]

CreateTask(r) ==
  /\ pc[r] = "writing"
  /\ call[r].op = "create"
  /\ ~KeyHeld(r)
  /\ \/ FailOnKeyConflict(r)
     \/ /\ ~KeyConflict(r)
        /\ tasks' = [tasks EXCEPT ![r] = NewTask(r)]
        /\ outbox' = Append(outbox, [type |-> Created, task |-> r])
        /\ AddAuditAndRecord(r)
        /\ UNCHANGED history
  /\ UNCHANGED <<call, read, dropped, expired>>

\* What is written is the target; "from" is the status that was read.
ChangeTaskStatus(r) ==
  LET t == call[r].task IN
  /\ pc[r] = "written"
  /\ ~KeyHeld(r)
  /\ \/ FailOnKeyConflict(r)
     \/ /\ ~KeyConflict(r)
        /\ tasks' = [tasks EXCEPT ![t].status = call[r].body]
        /\ history' = Append(history, [task |-> t, from |-> read[r].status,
                                       to |-> call[r].body, by |-> call[r].user])
        /\ outbox' = Append(outbox, [type |-> StatusChanged, task |-> t])
        /\ AddAuditAndRecord(r)
  /\ UNCHANGED <<call, read, dropped, expired>>

\* Wrong variant: all columns of the row are written back, not the changed ones.
UpdateTask_WholeRow(r) ==
  LET t == call[r].task IN
  /\ pc[r] = "writing"
  /\ call[r].op = "update"
  /\ ~Locked(r)
  /\ IF tasks[t] = NoRow
       THEN Move(r, "failed") /\ UNCHANGED tables
       ELSE /\ tasks' = [tasks EXCEPT ![t] = [read[r] EXCEPT !.people = call[r].body]]
            /\ AddAuditAndRecord(r)
            /\ UNCHANGED <<history, outbox>>
  /\ UNCHANGED <<call, read, dropped, expired>>

\* Wrong variant: the row is merged back in, whether or not it is still there.
UpdateTask_Merge(r) ==
  LET t == call[r].task
      row == IF tasks[t] = NoRow THEN read[r] ELSE tasks[t] IN
  /\ pc[r] = "writing"
  /\ call[r].op = "update"
  /\ ~Locked(r)
  /\ tasks' = [tasks EXCEPT ![t] = [row EXCEPT !.people = call[r].body]]
  /\ AddAuditAndRecord(r)
  /\ UNCHANGED <<call, read, dropped, expired, history, outbox>>

\* The UPDATE sets the columns whose value differs from the one read; with none
\* there is no UPDATE, and only the audit row is written.
UpdateTask(r) ==
  LET t == call[r].task
      changed == call[r].body # read[r].people IN
  /\ pc[r] = "writing"
  /\ call[r].op = "update"
  /\ changed => ~Locked(r)
  /\ IF changed /\ tasks[t] = NoRow
       THEN Move(r, "failed") /\ UNCHANGED tables
       ELSE /\ tasks' = IF changed THEN [tasks EXCEPT ![t].people = call[r].body] ELSE tasks
            /\ AddAuditAndRecord(r)
            /\ UNCHANGED <<history, outbox>>
  /\ UNCHANGED <<call, read, dropped, expired>>

\* A DELETE that finds the row gone only warns: the event is written all the same.
DeleteTask(r) ==
  LET t == call[r].task IN
  /\ pc[r] = "writing"
  /\ call[r].op = "delete"
  /\ ~Locked(r)
  /\ tasks' = [tasks EXCEPT ![t] = NoRow]
  /\ outbox' = Append(outbox, [type |-> Deleted, task |-> t])
  /\ AddAuditAndRecord(r)
  /\ UNCHANGED <<call, read, dropped, expired, history>>

\* The process or its database connection dies: the transaction is rolled back.
Crash(r) ==
  /\ pc[r] \notin Final
  /\ Move(r, "failed")
  /\ UNCHANGED <<call, read, dropped, tables, expired>>

\* The next statement of r waits for the transaction of s.
WaitsFor(r, s) ==
  \/ /\ pc[r] = "writing"
     /\ \/ call[r].op \in {"status", "delete"}
        \/ call[r].op = "update" /\ call[r].body # read[r].people
     /\ WaitsForTask(r, s)
  \/ /\ pc[r] = "written" \/ (pc[r] = "writing" /\ call[r].op = "create")
     /\ WaitsForKey(r, s)

\* Each of these requests waits for one of them and keeps one of them waiting.
Circle(S) == \A r \in S : (\E s \in S : WaitsFor(r, s)) /\ (\E s \in S : WaitsFor(s, r))

\* Wrong variant: nothing looks for circles of waits.
BreakDeadlock_Never(r) == FALSE /\ UNCHANGED vars

\* PostgreSQL finds a circle of waits and rolls one of its transactions back; the
\* error reaches the client as a 500.
BreakDeadlock(r) ==
  /\ \E S \in SUBSET Requests : r \in S /\ Circle(S)
  /\ Move(r, "failed")
  /\ UNCHANGED <<call, read, dropped, tables, expired>>

\* 24 hours have passed since the record was created.
Expire(q) ==
  /\ q \in idem \ expired
  /\ Cardinality(expired) < MaxExpired
  /\ expired' = expired \cup {q}
  /\ UNCHANGED <<call, pc, read, dropped, tables>>

-----------------------------------------------------------------------------
RequestStep(r) ==
  \/ Throttle(r)
  \/ LookupIdempotencyRecord(r)
  \/ DropExpiredRecord(r)
  \/ ReadTask(r)
  \/ FlushStatus(r)
  \/ CreateTask(r)
  \/ ChangeTaskStatus(r)
  \/ UpdateTask(r)
  \/ DeleteTask(r)

Next ==
  \/ \E r \in Requests : RequestStep(r) \/ BreakDeadlock(r) \/ Crash(r)
  \/ \E q \in Requests : Expire(q)

Spec == Init /\ [][Next]_vars

\* A request that has begun keeps being run by its thread, and the database keeps
\* looking for deadlocks.
FairSpec ==
  /\ Spec
  /\ \A r \in Requests : WF_vars(RequestStep(r))
  /\ WF_vars(\E r \in Requests : BreakDeadlock(r))
-----------------------------------------------------------------------------
\* Two requests with the same key, operation and user both take effect only when
\* the record of one has expired, and a request that is replayed had a request of
\* the same payload take effect before it: retries and concurrent duplicates
\* write one task or one status change (core/idempotency.py and its constraint).
OneEffectPerKey ==
  \A r \in Requests :
    /\ \A q \in audit \ {r} : r \in audit /\ SameKey(q, r) => q \in expired \/ r \in expired
    /\ pc[r] = "replayed" => \E q \in audit : SameKey(q, r) /\ SameRequestHash(q, r)

\* Row i of the history is the last one of task t.
IsLastRow(t, i) ==
  /\ history[i].task = t
  /\ \A j \in DOMAIN history : j > i => history[j].task # t

\* The status of a task is the one its last history row names: no concurrent
\* update of other columns and no later transaction brings back an older status.
StatusIsLastHistory ==
  \A t \in TaskIds : tasks[t] # NoRow =>
    /\ \A i \in DOMAIN history : IsLastRow(t, i) => tasks[t].status = history[i].to
    /\ (\A i \in DOMAIN history : history[i].task # t) => tasks[t].status = "todo"

HasEvent(t, type) == \E i \in DOMAIN outbox : outbox[i] = [type |-> type, task |-> t]

\* Whoever deletes a task, nothing happens to it afterwards: the events of a task
\* are its creation, then changes of status, then deletions, and the row exists
\* exactly between the first and the last of these.
EventsFollowLifecycle ==
  /\ \A i, j \in DOMAIN outbox : i < j /\ outbox[i].task = outbox[j].task =>
       /\ outbox[j].type # Created
       /\ outbox[i].type = Deleted => outbox[j].type = Deleted
  /\ \A t \in TaskIds : tasks[t] # NoRow <=>
       (t \in InitialTasks \/ HasEvent(t, Created)) /\ ~HasEvent(t, Deleted)

\* Status changes are the supported ones, as the README lists them (violated when
\* two changes are decided on the same status).
StatusTransitionsAllowed ==
  [][\A t \in TaskIds : tasks[t] # NoRow /\ tasks'[t] # NoRow =>
       tasks'[t].status \in {tasks[t].status} \cup AllowedStatusTransitions(tasks[t].status)]_vars

\* Requests that wait for each other in a circle are all changes of status with an
\* Idempotency-Key, and one of them is reusing a key whose record has expired: the
\* lock of a task and the constraint on keys are else taken in one order (the
\* flushes of core/idempotency.py and api/routers.py, then the commit).
DeadlocksNeedExpiredKey ==
  \A S \in (SUBSET Requests) \ {{}} : Circle(S) =>
    /\ \A r \in S : call[r].op = "status" /\ Keyed(r)
    /\ \E r \in S : dropped[r] \cap expired # {}

\* Every request is answered: a wait for a task or for a record ends with the
\* transaction waited for, or the database ends it where it is part of a circle.
EveryRequestAnswered == \A r \in Requests : <>(pc[r] \in Final)
=============================================================================

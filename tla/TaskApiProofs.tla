--------------------------- MODULE TaskApiProofs ----------------------------
(***************************************************************************)
(* Theorems about TaskApi, for every set of requests, users, teams, tasks  *)
(* and idempotency keys.                                                   *)
(***************************************************************************)
EXTENDS TaskApi, TLAPS, SequenceTheorems

USE DEF tables

(***************************************************************************)
(* Types.  TypeOK is not inductive alone: a change of status writes a      *)
(* field of a row, which must be there.  It is, because the row lock taken *)
(* by the flush keeps deletions away until the commit.                     *)
(***************************************************************************)
LockInv ==
  \A r \in Requests :
    /\ pc[r] = "reading" => call[r].op # "create"
    /\ pc[r] \in {"writing", "written"} /\ call[r].op # "create" => read[r] # NoRow
    /\ pc[r] = "written" => /\ call[r].op = "status"
                            /\ tasks[call[r].task] # NoRow
                            /\ ~Locked(r)

TypeInv == TypeOK /\ LockInv

\* A call has the fields its operation needs (the parameters of the endpoints).
LEMMA CallType ==
  ASSUME TypeOK, NEW r \in Requests
  PROVE  /\ call[r].op \in Operation
         /\ call[r].user \in Users
         /\ call[r].op # "create" => call[r].task \in TaskIds
         /\ call[r].op = "status" => call[r].body \in Status
         /\ call[r].op \in {"create", "update"} => call[r].body \in People
<1>1. PICK op \in Operation : call[r] \in CallsOf(op)
  BY TaskApiAssumption DEF TypeOK
<1>2. call[r].op = op /\ call[r].user \in Users
  BY <1>1 DEF CallsOf
<1>3. op # "create" => call[r].task \in TaskIds
  BY <1>1 DEF CallsOf
<1>4. op = "status" => call[r].body \in Status
  BY <1>1 DEF CallsOf
<1>5. op \in {"create", "update"} => call[r].body \in People
  BY <1>1 DEF CallsOf
<1> QED
  BY <1>2, <1>3, <1>4, <1>5

\* A request that moves to a known place keeps pc well typed.
LEMMA MoveType ==
  ASSUME TypeOK, NEW r \in Requests, NEW place \in PC, Move(r, place)
  PROVE  /\ pc' \in [Requests -> PC]
         /\ pc'[r] = place
         /\ \A q \in Requests \ {r} : pc'[q] = pc[q]
BY DEF TypeOK, Move

\* Steps that leave the tables alone and move one request to a place that holds
\* no lock keep the invariant.
LEMMA MoveInv ==
  ASSUME TypeInv, NEW r \in Requests, NEW place \in PC \ {"written"}, Move(r, place),
         UNCHANGED <<call, tables, expired>>,
         dropped' \in [Requests -> SUBSET Requests],
         read' \in [Requests -> Row \cup {NoRow}],
         \A q \in Requests \ {r} : read'[q] = read[q],
         place = "reading" => call[r].op # "create",
         place = "writing" /\ call[r].op # "create" => read'[r] # NoRow
  PROVE  TypeInv'
<1>1. TypeOK'
  BY MoveType DEF TypeInv, TypeOK
<1>2. LockInv'
  BY MoveType DEF TypeInv, LockInv, Locked, WaitsForTask
<1> QED
  BY <1>1, <1>2 DEF TypeInv

\* So do steps that end a request and write tasks, as long as no row goes away
\* that another request has locked.
LEMMA CommitInv ==
  ASSUME TypeInv, NEW r \in Requests, AddAuditAndRecord(r),
         UNCHANGED <<call, read, dropped, expired>>,
         tasks' \in [TaskIds -> Row \cup {NoRow}],
         history' \in Seq(HistoryRow),
         outbox' \in Seq(OutboxRow),
         \A q \in Requests \ {r} :
           pc[q] = "written" /\ tasks[call[q].task] # NoRow => tasks'[call[q].task] # NoRow
  PROVE  TypeInv'
<1>1. "committed" \in PC /\ Move(r, "committed")
  BY DEF PC, Final, AddAuditAndRecord
<1>2. audit' \in SUBSET Requests /\ idem' \in SUBSET Requests
  BY DEF AddAuditAndRecord, TypeInv, TypeOK
<1>3. TypeOK'
  BY <1>1, <1>2, MoveType DEF TypeInv, TypeOK
<1>4. LockInv'
  BY <1>1, MoveType DEF TypeInv, LockInv, Locked, WaitsForTask
<1> QED
  BY <1>3, <1>4 DEF TypeInv

\* To the tables, the victim of a deadlock is a request whose connection dies.
LEMMA VictimIsRolledBack ==
  ASSUME NEW r \in Requests, BreakDeadlock(r)
  PROVE  Crash(r)
<1>1. PICK S \in SUBSET Requests : r \in S /\ Circle(S)
  BY DEF BreakDeadlock
<1>2. pc[r] \in {"writing", "written"}
  BY <1>1 DEF Circle, WaitsFor
<1> QED
  BY <1>2 DEF BreakDeadlock, Crash, Final

LEMMA LockInit == Init => TypeInv
<1> SUFFICES ASSUME Init PROVE TypeInv
  OBVIOUS
<1>1. tasks \in [TaskIds -> Row \cup {NoRow}]
  BY TaskApiAssumption DEF Init
<1>2. TypeOK
  BY <1>1 DEF Init, TypeOK, PC
<1>3. LockInv
  BY DEF Init, LockInv
<1> QED
  BY <1>2, <1>3 DEF TypeInv

LEMMA LockStep == TypeInv /\ [Next]_vars => TypeInv'
<1> SUFFICES ASSUME TypeInv, [Next]_vars PROVE TypeInv'
  OBVIOUS
<1>0. TypeOK /\ LockInv
  BY DEF TypeInv
<1>1. ASSUME NEW r \in Requests, Throttle(r) PROVE TypeInv'
  BY <1>0, <1>1, MoveInv DEF Throttle, PC, Final, TypeOK
<1>2. ASSUME NEW r \in Requests, LookupIdempotencyRecord(r) PROVE TypeInv'
  <2>1. PICK place \in PC \ {"written"} :
          /\ Move(r, place)
          /\ place = "reading" => call[r].op # "create"
          /\ place = "writing" => call[r].op = "create"
    BY <1>2 DEF LookupIdempotencyRecord, AfterLookup, MaybeReplay, PC, Final
  <2>2. dropped' \in [Requests -> SUBSET Requests]
    BY <1>0, <1>2 DEF LookupIdempotencyRecord, TypeOK
  <2> QED
    BY <1>0, <1>2, <2>1, <2>2, MoveInv DEF LookupIdempotencyRecord, TypeOK
<1>3. ASSUME NEW r \in Requests, DropExpiredRecord(r) PROVE TypeInv'
  <2>1. PICK place \in PC \ {"written"} :
          /\ Move(r, place)
          /\ place = "reading" => call[r].op # "create"
          /\ place = "writing" => call[r].op = "create"
    BY <1>3 DEF DropExpiredRecord, AfterLookup, PC
  <2>2. dropped' \in [Requests -> SUBSET Requests]
    BY <1>0, <1>3 DEF DropExpiredRecord, TypeOK
  <2> QED
    BY <1>0, <1>3, <2>1, <2>2, MoveInv DEF DropExpiredRecord, TypeOK
<1>4. ASSUME NEW r \in Requests, ReadTask(r) PROVE TypeInv'
  <2> DEFINE row == tasks[call[r].task]
  <2>1. call[r].op # "create" /\ row \in Row \cup {NoRow}
    BY <1>0, <1>4, CallType DEF ReadTask, LockInv, TypeOK
  <2>2. CASE Move(r, "rejected") /\ UNCHANGED read
    BY <1>0, <1>4, <2>2, MoveInv DEF ReadTask, PC, Final, TypeOK
  <2>3. CASE Move(r, "writing") /\ read' = [read EXCEPT ![r] = row] /\ row # NoRow
    <3>1. read' \in [Requests -> Row \cup {NoRow}] /\ read'[r] # NoRow
          /\ \A q \in Requests \ {r} : read'[q] = read[q]
      BY <1>0, <2>1, <2>3 DEF TypeOK
    <3>2. UNCHANGED <<call, dropped, tables, expired>>
      BY <1>4 DEF ReadTask
    <3> QED
      BY <1>0, <2>3, <3>1, <3>2, MoveInv DEF PC, TypeOK
  <2> QED
    BY <1>4, <2>2, <2>3 DEF ReadTask
<1>5. ASSUME NEW r \in Requests, FlushStatus(r) PROVE TypeInv'
  <2>1. CASE tasks[call[r].task] = NoRow
    BY <1>0, <1>5, <2>1, MoveInv DEF FlushStatus, PC, Final, TypeOK
  <2>2. CASE tasks[call[r].task] # NoRow
    <3>1. Move(r, "written") /\ "written" \in PC
      BY <1>5, <2>2 DEF FlushStatus, PC
    <3>2. TypeOK'
      BY <1>0, <1>5, <3>1, MoveType DEF FlushStatus, TypeOK
    <3>3. LockInv'
      BY <1>0, <1>5, <2>2, <3>1, MoveType DEF FlushStatus, LockInv, Locked, WaitsForTask
    <3> QED
      BY <3>2, <3>3 DEF TypeInv
  <2> QED
    BY <2>1, <2>2
<1>6. ASSUME NEW r \in Requests, CreateTask(r) PROVE TypeInv'
  <2>1. CASE FailOnKeyConflict(r)
    BY <1>0, <1>6, <2>1, MoveInv DEF CreateTask, FailOnKeyConflict, PC, Final, TypeOK
  <2>2. CASE ~FailOnKeyConflict(r)
    <3>1. /\ tasks' = [tasks EXCEPT ![r] = NewTask(r)]
          /\ outbox' = Append(outbox, [type |-> Created, task |-> r])
          /\ AddAuditAndRecord(r)
          /\ UNCHANGED <<call, read, dropped, expired, history>>
      BY <1>6, <2>2 DEF CreateTask
    <3>2. r \in TaskIds /\ NewTask(r) \in Row /\ NewTask(r) # NoRow
      BY <1>0, <1>6, CallType, TaskApiAssumption
         DEF CreateTask, NewTask, Row, TaskIds, Status
    <3>3. tasks' \in [TaskIds -> Row \cup {NoRow}]
          /\ \A t \in TaskIds : tasks[t] # NoRow => tasks'[t] # NoRow
      BY <1>0, <3>1, <3>2 DEF TypeOK
    <3>4. [type |-> Created, task |-> r] \in OutboxRow
      BY <3>2 DEF OutboxRow, TaskEventType
    <3>5. \A q \in Requests : pc[q] = "written" => call[q].task \in TaskIds
      BY <1>0, CallType DEF LockInv
    <3>6. outbox' \in Seq(OutboxRow) /\ history' \in Seq(HistoryRow)
      BY <1>0, <3>1, <3>4 DEF TypeOK
    <3> QED
      BY <1>0, <3>1, <3>3, <3>5, <3>6, CommitInv
  <2> QED
    BY <2>1, <2>2
<1>7. ASSUME NEW r \in Requests, ChangeTaskStatus(r) PROVE TypeInv'
  <2> DEFINE t == call[r].task
             row == [task |-> t, from |-> read[r].status, to |-> call[r].body,
                     by |-> call[r].user]
  <2>1. CASE FailOnKeyConflict(r)
    BY <1>0, <1>7, <2>1, MoveInv DEF ChangeTaskStatus, FailOnKeyConflict, PC, Final, TypeOK
  <2>2. CASE ~FailOnKeyConflict(r)
    <3>1. /\ tasks' = [tasks EXCEPT ![t].status = call[r].body]
          /\ history' = Append(history, row)
          /\ outbox' = Append(outbox, [type |-> StatusChanged, task |-> t])
          /\ AddAuditAndRecord(r)
          /\ UNCHANGED <<call, read, dropped, expired>>
      BY <1>7, <2>2 DEF ChangeTaskStatus
    <3>2. t \in TaskIds /\ call[r].body \in Status /\ call[r].user \in Users
          /\ read[r] \in Row /\ tasks[t] \in Row
      BY <1>0, <1>7, CallType DEF ChangeTaskStatus, LockInv, TypeOK
    <3>3. [tasks[t] EXCEPT !.status = call[r].body] \in Row
      BY <3>2 DEF Row
    <3>4. tasks' \in [TaskIds -> Row \cup {NoRow}]
          /\ \A u \in TaskIds : tasks[u] # NoRow => tasks'[u] # NoRow
      BY <1>0, <3>1, <3>2, <3>3, TaskApiAssumption DEF TypeOK
    <3>5. row \in HistoryRow
      BY <3>2 DEF HistoryRow, Row
    <3>6. [type |-> StatusChanged, task |-> t] \in OutboxRow
      BY <3>2 DEF OutboxRow, TaskEventType
    <3>7. \A q \in Requests : pc[q] = "written" => call[q].task \in TaskIds
      BY <1>0, CallType DEF LockInv
    <3> HIDE DEF row
    <3>8. outbox' \in Seq(OutboxRow) /\ history' \in Seq(HistoryRow)
      BY <1>0, <3>1, <3>5, <3>6 DEF TypeOK
    <3> QED
      BY <1>0, <3>1, <3>4, <3>7, <3>8, CommitInv
  <2> QED
    BY <2>1, <2>2
<1>8. ASSUME NEW r \in Requests, UpdateTask(r) PROVE TypeInv'
  <2> DEFINE t == call[r].task
             changed == call[r].body # read[r].people
  <2>1. t \in TaskIds /\ call[r].body \in People
    BY <1>0, <1>8, CallType DEF UpdateTask
  <2>2. CASE changed /\ tasks[t] = NoRow
    BY <1>0, <1>8, <2>2, MoveInv DEF UpdateTask, PC, Final, TypeOK
  <2>3. CASE ~(changed /\ tasks[t] = NoRow)
    <3>1. /\ tasks' = IF changed THEN [tasks EXCEPT ![t].people = call[r].body] ELSE tasks
          /\ AddAuditAndRecord(r)
          /\ UNCHANGED <<call, read, dropped, expired, history, outbox>>
      BY <1>8, <2>3 DEF UpdateTask
    <3>2. changed => [tasks[t] EXCEPT !.people = call[r].body] \in Row
      BY <1>0, <2>1, <2>3 DEF TypeOK, Row
    <3>3. tasks' \in [TaskIds -> Row \cup {NoRow}]
          /\ \A u \in TaskIds : tasks[u] # NoRow => tasks'[u] # NoRow
      BY <1>0, <2>1, <3>1, <3>2, TaskApiAssumption DEF TypeOK
    <3>4. \A q \in Requests : pc[q] = "written" => call[q].task \in TaskIds
      BY <1>0, CallType DEF LockInv
    <3> QED
      BY <1>0, <3>1, <3>3, <3>4, CommitInv DEF TypeOK
  <2> QED
    BY <2>2, <2>3
<1>9. ASSUME NEW r \in Requests, DeleteTask(r) PROVE TypeInv'
  <2> DEFINE t == call[r].task
  <2>1. t \in TaskIds
    BY <1>0, <1>9, CallType DEF DeleteTask
  <2>2. tasks' \in [TaskIds -> Row \cup {NoRow}]
        /\ \A u \in TaskIds \ {t} : tasks'[u] = tasks[u]
    BY <1>0, <1>9, <2>1 DEF DeleteTask, TypeOK
  <2>3. [type |-> Deleted, task |-> t] \in OutboxRow
    BY <2>1 DEF OutboxRow, TaskEventType
  <2>4. \A q \in Requests \ {r} : pc[q] = "written" => call[q].task \in TaskIds \ {t}
    BY <1>0, <1>9, CallType DEF DeleteTask, Locked, WaitsForTask, LockInv
  <2>5. AddAuditAndRecord(r) /\ UNCHANGED <<call, read, dropped, expired, history>>
        /\ outbox' = Append(outbox, [type |-> Deleted, task |-> t])
    BY <1>9 DEF DeleteTask
  <2>6. outbox' \in Seq(OutboxRow) /\ history' \in Seq(HistoryRow)
    BY <1>0, <2>3, <2>5 DEF TypeOK
  <2> QED
    BY <1>0, <2>2, <2>4, <2>5, <2>6, CommitInv
<1>10. ASSUME NEW r \in Requests, Crash(r) PROVE TypeInv'
  BY <1>0, <1>10, MoveInv DEF Crash, PC, Final, TypeOK
<1>11. ASSUME NEW q \in Requests, Expire(q) PROVE TypeInv'
  BY <1>0, <1>11 DEF Expire, TypeInv, TypeOK, LockInv, Locked, WaitsForTask
<1>12. CASE UNCHANGED vars
  BY <1>0, <1>12 DEF vars, TypeInv, TypeOK, LockInv, Locked, WaitsForTask
<1> QED
  BY <1>1, <1>2, <1>3, <1>4, <1>5, <1>6, <1>7, <1>8, <1>9, <1>10, <1>11, <1>12,
     VictimIsRolledBack DEF Next, RequestStep

\* The types of the tables and of the requests, for every number of requests,
\* users and keys: in particular no status is written to a row that is gone.
THEOREM TypeCorrect == Spec => []TypeOK
<1>1. TypeInv => TypeOK
  BY DEF TypeInv
<1> QED
  BY <1>1, LockInit, LockStep, PTL DEF Spec

(***************************************************************************)
(* Idempotency keys.  The inductive invariant says where the record of a   *)
(* committed request is: in the table, or expired.  With the table unique  *)
(* in its keys, two unexpired effects of one key cannot coexist.           *)
(***************************************************************************)
KeyInv ==
  /\ idem \subseteq audit
  /\ \A r \in audit : Keyed(r) => r \in idem \cup expired
  /\ \A q, r \in idem : SameKey(q, r) => q = r
  /\ \A r \in Requests : dropped[r] \subseteq expired
  /\ \A r \in Requests : pc[r] = "replayed" =>
       \E q \in audit : SameKey(q, r) /\ SameRequestHash(q, r)

LEMMA KeyInvImplies == TypeOK /\ KeyInv => OneEffectPerKey
BY DEF TypeOK, KeyInv, OneEffectPerKey, SameKey

\* The calls never change, so neither do the keys they carry.
LEMMA SameCalls ==
  ASSUME UNCHANGED call
  PROVE  /\ \A r : Keyed(r)' <=> Keyed(r)
         /\ \A q, r : SameKey(q, r)' <=> SameKey(q, r)
         /\ \A q, r : SameRequestHash(q, r)' <=> SameRequestHash(q, r)
BY DEF Keyed, SameKey, SameRequestHash

\* Steps that write no audit row and no record.
LEMMA KeyFrame ==
  ASSUME TypeOK, KeyInv, UNCHANGED <<call, audit, idem>>, expired \subseteq expired',
         \A r \in Requests : dropped'[r] \subseteq expired',
         \A r \in Requests : pc'[r] = "replayed" /\ pc[r] # "replayed" =>
           \E q \in idem : SameKey(q, r) /\ SameRequestHash(q, r)
  PROVE  KeyInv'
<1>1. \A r \in Requests : pc'[r] = "replayed" =>
        \E q \in audit : SameKey(q, r) /\ SameRequestHash(q, r)
  BY DEF KeyInv
<1> QED
  BY <1>1, SameCalls DEF KeyInv

\* The commit of a request that met no row with its key.
LEMMA KeyCommit ==
  ASSUME TypeOK, KeyInv, NEW r \in Requests, AddAuditAndRecord(r),
         UNCHANGED <<call, dropped, expired>>,
         Keyed(r) => ~KeyConflict(r)
  PROVE  KeyInv'
<1>1. audit' = audit \cup {r}
  BY DEF AddAuditAndRecord
<1>2. CASE Keyed(r)
  <2>1. idem' = (idem \ dropped[r]) \cup {r}
    BY <1>2 DEF AddAuditAndRecord
  <2>2. \A q \in idem \ dropped[r] : ~SameKey(q, r) /\ ~SameKey(r, q)
    BY <1>2 DEF KeyConflict, SameKey
  <2>3. (idem \subseteq audit)' /\ (\A s \in audit : Keyed(s) => s \in idem \cup expired)'
    BY <1>1, <2>1, SameCalls DEF KeyInv
  <2>4. (\A q, s \in idem : SameKey(q, s) => q = s)'
    BY <2>1, <2>2, SameCalls DEF KeyInv
  <2>5. \A s \in Requests : pc'[s] = "replayed" => pc[s] = "replayed"
    BY DEF AddAuditAndRecord, Move, TypeOK
  <2> QED
    BY <1>1, <2>3, <2>4, <2>5, SameCalls DEF KeyInv
<1>3. CASE ~Keyed(r)
  <2>1. idem' = idem
    BY <1>3 DEF AddAuditAndRecord
  <2>2. \A s \in Requests : pc'[s] = "replayed" => pc[s] = "replayed"
    BY DEF AddAuditAndRecord, Move, TypeOK
  <2> QED
    BY <1>1, <1>3, <2>1, <2>2, SameCalls DEF KeyInv
<1> QED
  BY <1>2, <1>3

\* A request that moves to a place other than "replayed" is not replayed.
LEMMA NotReplayed ==
  ASSUME TypeOK, NEW r \in Requests, NEW place, place # "replayed", Move(r, place)
  PROVE  \A q \in Requests : pc'[q] = "replayed" => pc[q] = "replayed"
BY DEF TypeOK, Move

LEMMA KeyInit == Init => KeyInv
BY DEF Init, KeyInv

LEMMA KeyStep == TypeOK /\ KeyInv /\ [Next]_vars => KeyInv'
<1> SUFFICES ASSUME TypeOK, KeyInv, [Next]_vars PROVE KeyInv'
  OBVIOUS
<1>0. \A r \in Requests : dropped[r] \subseteq expired
  BY DEF KeyInv
<1>1. ASSUME NEW r \in Requests, Throttle(r) PROVE KeyInv'
  BY <1>0, <1>1, KeyFrame, NotReplayed DEF Throttle
<1>2. ASSUME NEW r \in Requests, LookupIdempotencyRecord(r) PROVE KeyInv'
  <2>1. UNCHANGED <<call, audit, idem, expired>>
    BY <1>2 DEF LookupIdempotencyRecord
  <2>2. \A q \in Requests : dropped'[q] \subseteq expired
    BY <1>0, <1>2 DEF LookupIdempotencyRecord, PastExpiry, TypeOK
  <2>3. \A s \in Requests : pc'[s] = "replayed" /\ pc[s] # "replayed" =>
          \E q \in idem : SameKey(q, s) /\ SameRequestHash(q, s)
    BY <1>2 DEF LookupIdempotencyRecord, MaybeReplay, AfterLookup, Move, TypeOK
  <2> QED
    BY <2>1, <2>2, <2>3, KeyFrame
<1>3. ASSUME NEW r \in Requests, DropExpiredRecord(r) PROVE KeyInv'
  <2>1. AfterLookup(r) # "replayed"
    BY DEF AfterLookup
  <2>2. \A q \in Requests : dropped'[q] \subseteq expired
    BY <1>0, <1>3 DEF DropExpiredRecord, TypeOK
  <2> QED
    BY <1>3, <2>1, <2>2, KeyFrame, NotReplayed DEF DropExpiredRecord
<1>4. ASSUME NEW r \in Requests, ReadTask(r) PROVE KeyInv'
  <2>1. Move(r, "rejected") \/ Move(r, "writing")
    BY <1>4 DEF ReadTask
  <2> QED
    BY <1>0, <1>4, <2>1, KeyFrame, NotReplayed DEF ReadTask
<1>5. ASSUME NEW r \in Requests, FlushStatus(r) PROVE KeyInv'
  BY <1>0, <1>5, KeyFrame, NotReplayed DEF FlushStatus
<1>6. ASSUME NEW r \in Requests, CreateTask(r) PROVE KeyInv'
  BY <1>0, <1>6, KeyFrame, KeyCommit, NotReplayed DEF CreateTask, FailOnKeyConflict
<1>7. ASSUME NEW r \in Requests, ChangeTaskStatus(r) PROVE KeyInv'
  BY <1>0, <1>7, KeyFrame, KeyCommit, NotReplayed DEF ChangeTaskStatus, FailOnKeyConflict
<1>8. ASSUME NEW r \in Requests, UpdateTask(r) PROVE KeyInv'
  <2>1. ~Keyed(r)
    BY <1>8 DEF UpdateTask, Keyed
  <2> QED
    BY <1>0, <1>8, <2>1, KeyFrame, KeyCommit, NotReplayed DEF UpdateTask
<1>9. ASSUME NEW r \in Requests, DeleteTask(r) PROVE KeyInv'
  <2>1. ~Keyed(r)
    BY <1>9 DEF DeleteTask, Keyed
  <2> QED
    BY <1>9, <2>1, KeyCommit DEF DeleteTask
<1>10. ASSUME NEW r \in Requests, Crash(r) PROVE KeyInv'
  BY <1>0, <1>10, KeyFrame, NotReplayed DEF Crash
<1>11. ASSUME NEW q \in Requests, Expire(q) PROVE KeyInv'
  BY <1>0, <1>11, KeyFrame DEF Expire
<1>12. CASE UNCHANGED vars
  BY <1>0, <1>12, KeyFrame DEF vars
<1> QED
  BY <1>1, <1>2, <1>3, <1>4, <1>5, <1>6, <1>7, <1>8, <1>9, <1>10, <1>11, <1>12,
     VictimIsRolledBack DEF Next, RequestStep

\* However many requests run at once, and whatever expires meanwhile, one
\* Idempotency-Key has one effect, and a replay has a committed original.
THEOREM KeysHaveOneEffect == Spec => []OneEffectPerKey
<1>1. TypeInv => TypeOK
  BY DEF TypeInv
<1>2. Init => KeyInv /\ TypeInv
  BY KeyInit, LockInit
<1>3. KeyInv /\ TypeInv /\ [Next]_vars => (KeyInv /\ TypeInv)'
  BY <1>1, KeyStep, LockStep
<1>4. KeyInv /\ TypeInv => OneEffectPerKey
  BY <1>1, KeyInvImplies
<1> QED
  BY <1>2, <1>3, <1>4, PTL DEF Spec

(***************************************************************************)
(* Deadlocks.  A record is deleted by one open transaction at a time, and  *)
(* by one with its key; with the keys of the table unique, two creations   *)
(* cannot wait for each other, so a circle needs a lock on a task.         *)
(***************************************************************************)
HolderInv ==
  /\ \A r \in Requests : pc[r] = "arrived" => dropped[r] = {}
  /\ \A r \in Requests : \A q \in dropped[r] : SameKey(q, r)
  /\ \A r, s, q \in Requests : HoldsRecord(r, q) /\ HoldsRecord(s, q) => r = s

\* Steps of a request that deletes no record and is not at its first statement.
LEMMA HolderFrame ==
  ASSUME TypeOK, HolderInv, NEW r \in Requests, NEW place, Move(r, place),
         UNCHANGED <<call, dropped>>, place # "arrived",
         place \in {"reading", "writing", "written"} =>
           pc[r] \in {"arrived", "reading", "writing", "written"}
  PROVE  HolderInv'
<1>1. \A s \in Requests \ {r} : pc'[s] = pc[s]
  BY DEF Move, TypeOK
<1>2. pc'[r] = place
  BY DEF Move, TypeOK
<1>3. \A s, q \in Requests : HoldsRecord(s, q)' => HoldsRecord(s, q)
  BY <1>1, <1>2 DEF HoldsRecord, HolderInv
<1> QED
  BY <1>1, <1>2, <1>3, SameCalls DEF HolderInv

LEMMA HolderInit == Init => HolderInv
BY DEF Init, HolderInv, HoldsRecord

\* The commits move one request to a final place.
LEMMA HolderEnd ==
  ASSUME TypeOK, HolderInv, NEW r \in Requests, Move(r, "committed") \/ Move(r, "failed"),
         UNCHANGED <<call, dropped>>
  PROVE  HolderInv'
BY HolderFrame

LEMMA HolderStep == TypeOK /\ HolderInv /\ [Next]_vars => HolderInv'
<1> SUFFICES ASSUME TypeOK, HolderInv, [Next]_vars PROVE HolderInv'
  OBVIOUS
<1>1. ASSUME NEW r \in Requests, Throttle(r) PROVE HolderInv'
  BY <1>1, HolderFrame DEF Throttle
<1>2. ASSUME NEW r \in Requests, LookupIdempotencyRecord(r) PROVE HolderInv'
  <2>1. CASE UNCHANGED dropped /\ Move(r, AfterLookup(r))
    BY <1>2, <2>1, HolderFrame DEF LookupIdempotencyRecord, AfterLookup
  <2>2. CASE \E q \in idem : UNCHANGED dropped /\ MaybeReplay(r, q)
    <3>1. Move(r, "replayed") \/ Move(r, "rejected")
      BY <2>2 DEF MaybeReplay
    <3> QED
      BY <1>2, <2>2, <3>1, HolderFrame DEF LookupIdempotencyRecord
  <2>3. CASE \E q \in idem : /\ SameKey(q, r)
                             /\ Move(r, "dropping")
                             /\ dropped' = [dropped EXCEPT ![r] = {q}]
    <3>1. PICK q \in idem : /\ SameKey(q, r)
                            /\ Move(r, "dropping")
                            /\ dropped' = [dropped EXCEPT ![r] = {q}]
      BY <2>3
    <3>2. UNCHANGED call
      BY <1>2 DEF LookupIdempotencyRecord
    <3>3. /\ pc'[r] = "dropping" /\ dropped'[r] = {q}
          /\ \A s \in Requests \ {r} : pc'[s] = pc[s] /\ dropped'[s] = dropped[s]
      BY <3>1 DEF Move, TypeOK
    <3>4. \A s, x \in Requests : HoldsRecord(s, x)' => HoldsRecord(s, x)
      BY <3>3 DEF HoldsRecord
    <3> QED
      BY <3>1, <3>2, <3>3, <3>4, SameCalls DEF HolderInv
  <2> QED
    BY <1>2, <2>1, <2>2, <2>3 DEF LookupIdempotencyRecord
<1>3. ASSUME NEW r \in Requests, DropExpiredRecord(r) PROVE HolderInv'
  <2>1. /\ UNCHANGED call
        /\ pc'[r] \in {"reading", "writing"}
        /\ dropped'[r] \subseteq dropped[r]
        /\ \A s \in Requests \ {r} : pc'[s] = pc[s] /\ dropped'[s] = dropped[s]
    BY <1>3 DEF DropExpiredRecord, AfterLookup, Move, TypeOK
  <2>2. \A q \in dropped[r] : \A s \in Requests : ~HoldsRecord(s, q)
    BY <1>3 DEF DropExpiredRecord
  <2>3. \A s, q \in Requests :
          HoldsRecord(s, q)' => HoldsRecord(s, q) \/ (s = r /\ q \in dropped[r])
    BY <2>1 DEF HoldsRecord
  <2> QED
    BY <2>1, <2>2, <2>3, SameCalls DEF HolderInv
<1>4. ASSUME NEW r \in Requests, ReadTask(r) PROVE HolderInv'
  <2>1. Move(r, "rejected") \/ Move(r, "writing")
    BY <1>4 DEF ReadTask
  <2> QED
    BY <1>4, <2>1, HolderFrame DEF ReadTask
<1>5. ASSUME NEW r \in Requests, FlushStatus(r) PROVE HolderInv'
  <2>1. Move(r, "failed") \/ Move(r, "written")
    BY <1>5 DEF FlushStatus
  <2> QED
    BY <1>5, <2>1, HolderFrame DEF FlushStatus
<1>6. ASSUME NEW r \in Requests, CreateTask(r) PROVE HolderInv'
  BY <1>6, HolderEnd DEF CreateTask, FailOnKeyConflict, AddAuditAndRecord
<1>7. ASSUME NEW r \in Requests, ChangeTaskStatus(r) PROVE HolderInv'
  BY <1>7, HolderEnd DEF ChangeTaskStatus, FailOnKeyConflict, AddAuditAndRecord
<1>8. ASSUME NEW r \in Requests, UpdateTask(r) PROVE HolderInv'
  BY <1>8, HolderEnd DEF UpdateTask, AddAuditAndRecord
<1>9. ASSUME NEW r \in Requests, DeleteTask(r) PROVE HolderInv'
  BY <1>9, HolderEnd DEF DeleteTask, AddAuditAndRecord
<1>10. ASSUME NEW r \in Requests, Crash(r) PROVE HolderInv'
  BY <1>10, HolderEnd DEF Crash
<1>11. ASSUME NEW q \in Requests, Expire(q) PROVE HolderInv'
  BY <1>11, SameCalls DEF Expire, HolderInv, HoldsRecord
<1>12. CASE UNCHANGED vars
  BY <1>12, SameCalls DEF vars, HolderInv, HoldsRecord
<1> QED
  BY <1>1, <1>2, <1>3, <1>4, <1>5, <1>6, <1>7, <1>8, <1>9, <1>10, <1>11, <1>12,
     VictimIsRolledBack DEF Next, RequestStep

\* A creation that is waited for holds the only record of its key, so it waits for
\* nothing itself.
LEMMA CreationsInNoCircle ==
  ASSUME LockInv, KeyInv, HolderInv, NEW S \in SUBSET Requests, Circle(S),
         NEW r \in S, NEW s \in S, WaitsForKey(s, r), idem \subseteq Requests
  PROVE  call[r].op = "status" /\ Keyed(r) /\ dropped[r] # {}
<1>1. PICK q \in idem : SameKey(q, s) /\ HoldsRecord(r, q)
  BY DEF WaitsForKey
<1>2. SameKey(q, r) /\ q \in dropped[r]
  BY <1>1 DEF HolderInv, HoldsRecord
<1>3. Keyed(r) /\ call[r].op \in {"create", "status"}
  BY <1>2 DEF SameKey, Keyed
<1>4. ASSUME call[r].op = "create" PROVE FALSE
  <2>1. pc[r] = "writing"
    BY <1>1, <1>4 DEF HoldsRecord, LockInv
  <2>2. PICK x \in S : WaitsFor(r, x)
    BY DEF Circle
  <2>3. WaitsForKey(r, x)
    BY <1>4, <2>1, <2>2 DEF WaitsFor
  <2>4. PICK y \in idem : SameKey(y, r) /\ HoldsRecord(x, y) /\ x # r
    BY <2>3 DEF WaitsForKey
  <2>5. y = q
    BY <1>2, <2>4 DEF KeyInv, SameKey
  <2> QED
    BY <1>1, <2>4, <2>5 DEF HolderInv
<1> QED
  BY <1>2, <1>3, <1>4

LEMMA HolderImplies ==
  ASSUME TypeInv, KeyInv, HolderInv
  PROVE  DeadlocksNeedExpiredKey
<1> SUFFICES ASSUME NEW S \in (SUBSET Requests) \ {{}}, Circle(S)
             PROVE  /\ \A r \in S : call[r].op = "status" /\ Keyed(r)
                    /\ \E r \in S : dropped[r] \cap expired # {}
  BY DEF DeadlocksNeedExpiredKey
<1>0. LockInv /\ idem \subseteq Requests /\ \A r \in S : dropped[r] \subseteq expired
  BY DEF TypeInv, TypeOK, KeyInv
<1>1. ASSUME NEW r \in S
      PROVE  /\ call[r].op = "status" /\ Keyed(r)
             /\ \E x \in S : dropped[x] # {}
  <2>1. PICK s \in S : WaitsFor(s, r)
    BY DEF Circle
  <2>2. PICK x \in S : WaitsFor(r, x)
    BY DEF Circle
  <2>3. CASE WaitsForKey(s, r)
    BY <1>0, <2>3, CreationsInNoCircle
  <2>4. CASE WaitsForTask(s, r)
    <3>1. pc[r] = "written" /\ call[r].op = "status"
      BY <1>0, <2>4 DEF WaitsForTask, LockInv
    <3>2. WaitsForKey(r, x)
      BY <2>2, <3>1 DEF WaitsFor
    <3>3. Keyed(r)
      BY <3>2 DEF WaitsForKey, SameKey
    <3>4. dropped[x] # {}
      BY <3>2 DEF WaitsForKey, HoldsRecord
    <3> QED
      BY <3>1, <3>3, <3>4
  <2> QED
    BY <2>1, <2>3, <2>4 DEF WaitsFor
<1> QED
  BY <1>0, <1>1

\* Whatever the number of requests, tasks and keys, requests can only wait for
\* each other in a circle when a change of status is reusing an expired key: no
\* other order of the flushes of api/routers.py ends in a deadlock.
THEOREM DeadlockOnlyOnExpiredKey == Spec => []DeadlocksNeedExpiredKey
<1>1. Init => TypeInv /\ KeyInv /\ HolderInv
  BY LockInit, KeyInit, HolderInit
<1>2. TypeInv /\ KeyInv /\ HolderInv /\ [Next]_vars => (TypeInv /\ KeyInv /\ HolderInv)'
  BY LockStep, KeyStep, HolderStep DEF TypeInv
<1>3. TypeInv /\ KeyInv /\ HolderInv => DeadlocksNeedExpiredKey
  BY HolderImplies
<1> QED
  BY <1>1, <1>2, <1>3, PTL DEF Spec

(***************************************************************************)
(* The status of a task and its history.  A created task starts with an    *)
(* empty history because its id is new: that is the second conjunct.       *)
(***************************************************************************)
IdsInv ==
  /\ \A t \in Requests : tasks[t] # NoRow => pc[t] = "committed"
  /\ \A i \in DOMAIN history : history[i].task \in Requests =>
       pc[history[i].task] = "committed"

StatusInv == StatusIsLastHistory /\ IdsInv

\* A step of a request that is not final leaves the committed requests committed.
LEMMA CommittedStays ==
  ASSUME TypeOK, NEW r \in Requests, NEW place, pc[r] # "committed", Move(r, place)
  PROVE  \A q \in Requests : pc[q] = "committed" => pc'[q] = "committed"
BY DEF TypeOK, Move

\* Steps that add no history and change no status.
LEMMA StatusFrame ==
  ASSUME StatusInv, UNCHANGED history,
         \A t \in TaskIds : tasks'[t] # NoRow =>
           tasks[t] # NoRow /\ tasks'[t].status = tasks[t].status,
         \A q \in Requests : pc[q] = "committed" => pc'[q] = "committed"
  PROVE  StatusInv'
<1>1. \A t : \A i : IsLastRow(t, i)' <=> IsLastRow(t, i)
  BY DEF IsLastRow
<1>2. StatusIsLastHistory'
  BY <1>1 DEF StatusInv, StatusIsLastHistory
<1>3. IdsInv'
  BY DEF StatusInv, IdsInv, TaskIds
<1> QED
  BY <1>2, <1>3 DEF StatusInv

LEMMA StatusInit == Init => StatusInv
<1> SUFFICES ASSUME Init PROVE StatusInv
  OBVIOUS
<1>1. DOMAIN history = {}
  BY DEF Init
<1>2. \A t \in TaskIds : tasks[t] # NoRow => t \in InitialTasks /\ tasks[t].status = "todo"
  BY TaskApiAssumption DEF Init
<1>3. StatusIsLastHistory
  BY <1>1, <1>2 DEF StatusIsLastHistory
<1>4. IdsInv
  BY <1>1, <1>2, TaskApiAssumption DEF IdsInv, TaskIds
<1> QED
  BY <1>3, <1>4 DEF StatusInv

\* The creation: the id of the task is in no history row.
LEMMA StatusCreate ==
  ASSUME TypeInv, StatusInv, NEW r \in Requests, pc[r] = "writing",
         tasks' = [tasks EXCEPT ![r] = NewTask(r)],
         AddAuditAndRecord(r), UNCHANGED history
  PROVE  StatusInv'
<1>0. TypeOK /\ r \in TaskIds
  BY DEF TypeInv, TaskIds
<1>1. \A q \in Requests : pc[q] = "committed" => pc'[q] = "committed"
  BY <1>0, CommittedStays DEF AddAuditAndRecord
<1>2. \A i \in DOMAIN history : history[i].task # r
  BY DEF StatusInv, IdsInv
<1>3. tasks'[r].status = "todo" /\ \A t \in TaskIds \ {r} : tasks'[t] = tasks[t]
  BY <1>0 DEF TypeOK, NewTask
<1>4. \A t : \A i : IsLastRow(t, i)' <=> IsLastRow(t, i)
  BY DEF IsLastRow
<1>5. StatusIsLastHistory'
  BY <1>2, <1>3, <1>4 DEF StatusInv, StatusIsLastHistory, IsLastRow
<1>6. pc'[r] = "committed"
  BY <1>0 DEF AddAuditAndRecord, Move, TypeOK
<1>7. IdsInv'
  BY <1>1, <1>3, <1>6 DEF StatusInv, IdsInv, TaskIds
<1> QED
  BY <1>5, <1>7 DEF StatusInv

\* The commit of a change of status: the new row is the last one of its task, and
\* of no other.
LEMMA StatusChange ==
  ASSUME TypeInv, StatusInv, NEW r \in Requests, ChangeTaskStatus(r), ~FailOnKeyConflict(r)
  PROVE  StatusInv'
<1> DEFINE t == call[r].task
           n == Len(history)
           row == [task |-> t, from |-> read[r].status, to |-> call[r].body,
                   by |-> call[r].user]
<1>0. TypeOK /\ pc[r] = "written"
  BY DEF TypeInv, ChangeTaskStatus
<1>1. t \in TaskIds /\ tasks[t] \in Row /\ tasks[t] # NoRow
  BY <1>0, CallType DEF TypeInv, LockInv, TypeOK
<1>2. /\ tasks' = [tasks EXCEPT ![t].status = call[r].body]
      /\ history' = Append(history, row)
      /\ AddAuditAndRecord(r)
  BY DEF ChangeTaskStatus
<1>3. \A q \in Requests : pc[q] = "committed" => pc'[q] = "committed"
  BY <1>0, <1>2, CommittedStays DEF AddAuditAndRecord
<1>4. tasks'[t].status = call[r].body /\ \A u \in TaskIds \ {t} : tasks'[u] = tasks[u]
  BY <1>0, <1>1, <1>2 DEF TypeOK, Row
<1>5. row.task = t /\ row.to = call[r].body
  OBVIOUS
<1> HIDE DEF row
<1>6. /\ n \in Nat
      /\ DOMAIN history = 1..n
      /\ DOMAIN history' = 1..(n + 1)
      /\ history'[n + 1] = row
      /\ \A i \in 1..n : history'[i] = history[i]
  BY <1>0, <1>2 DEF TypeOK
<1> HIDE DEF n
<1>7. StatusIsLastHistory'
  <2> SUFFICES ASSUME NEW u \in TaskIds, tasks'[u] # NoRow
               PROVE  /\ \A i \in DOMAIN history' :
                           IsLastRow(u, i)' => tasks'[u].status = history'[i].to
                      /\ (\A i \in DOMAIN history' : history'[i].task # u) =>
                           tasks'[u].status = "todo"
    BY DEF StatusIsLastHistory
  <2>1. CASE u = t
    <3>1. ASSUME NEW i \in DOMAIN history', IsLastRow(u, i)' PROVE i = n + 1
      BY <1>5, <1>6, <2>1, <3>1 DEF IsLastRow
    <3> QED
      BY <1>4, <1>5, <1>6, <2>1, <3>1
  <2>2. CASE u # t
    <3>1. ASSUME NEW i \in DOMAIN history', IsLastRow(u, i)'
          PROVE  i \in DOMAIN history /\ IsLastRow(u, i) /\ history'[i] = history[i]
      <4>1. i \in 1..n
        BY <1>5, <1>6, <2>2, <3>1 DEF IsLastRow
      <4> QED
        BY <1>6, <3>1, <4>1 DEF IsLastRow
    <3>2. (\A i \in DOMAIN history' : history'[i].task # u) =>
            \A i \in DOMAIN history : history[i].task # u
      BY <1>6
    <3>3. tasks'[u] = tasks[u]
      BY <1>4, <2>2
    <3> QED
      BY <3>1, <3>2, <3>3 DEF StatusInv, StatusIsLastHistory
  <2> QED
    BY <2>1, <2>2
<1>8. IdsInv'
  <2>1. \A u \in Requests : tasks'[u] # NoRow => pc'[u] = "committed"
    BY <1>1, <1>3, <1>4 DEF StatusInv, IdsInv, TaskIds
  <2>2. ASSUME NEW i \in DOMAIN history', history'[i].task \in Requests
        PROVE  pc'[history'[i].task] = "committed"
    BY <1>1, <1>3, <1>5, <1>6, <2>2 DEF StatusInv, IdsInv
  <2> QED
    BY <2>1, <2>2 DEF IdsInv
<1> QED
  BY <1>7, <1>8 DEF StatusInv

LEMMA StatusStep == TypeInv /\ StatusInv /\ [Next]_vars => StatusInv'
<1> SUFFICES ASSUME TypeInv, StatusInv, [Next]_vars PROVE StatusInv'
  OBVIOUS
<1>0. TypeOK /\ LockInv
  BY DEF TypeInv
<1>1. ASSUME NEW r \in Requests, Throttle(r) PROVE StatusInv'
  BY <1>0, <1>1, StatusFrame, CommittedStays DEF Throttle
<1>2. ASSUME NEW r \in Requests, LookupIdempotencyRecord(r) PROVE StatusInv'
  <2>1. PICK place : Move(r, place)
    BY <1>2 DEF LookupIdempotencyRecord, MaybeReplay
  <2> QED
    BY <1>0, <1>2, <2>1, StatusFrame, CommittedStays DEF LookupIdempotencyRecord
<1>3. ASSUME NEW r \in Requests, DropExpiredRecord(r) PROVE StatusInv'
  BY <1>0, <1>3, StatusFrame, CommittedStays DEF DropExpiredRecord
<1>4. ASSUME NEW r \in Requests, ReadTask(r) PROVE StatusInv'
  <2>1. PICK place : Move(r, place)
    BY <1>4 DEF ReadTask
  <2> QED
    BY <1>0, <1>4, <2>1, StatusFrame, CommittedStays DEF ReadTask
<1>5. ASSUME NEW r \in Requests, FlushStatus(r) PROVE StatusInv'
  BY <1>0, <1>5, StatusFrame, CommittedStays DEF FlushStatus
<1>6. ASSUME NEW r \in Requests, CreateTask(r) PROVE StatusInv'
  <2>1. CASE FailOnKeyConflict(r)
    BY <1>0, <1>6, <2>1, StatusFrame, CommittedStays DEF CreateTask, FailOnKeyConflict
  <2>2. CASE ~FailOnKeyConflict(r)
    BY <1>6, <2>2, StatusCreate DEF CreateTask
  <2> QED
    BY <2>1, <2>2
<1>7. ASSUME NEW r \in Requests, ChangeTaskStatus(r) PROVE StatusInv'
  <2>1. CASE FailOnKeyConflict(r)
    BY <1>0, <1>7, <2>1, StatusFrame, CommittedStays DEF ChangeTaskStatus, FailOnKeyConflict
  <2> QED
    BY <1>7, <2>1, StatusChange
<1>8. ASSUME NEW r \in Requests, UpdateTask(r) PROVE StatusInv'
  <2> DEFINE t == call[r].task
  <2>1. t \in TaskIds /\ UNCHANGED history /\ pc[r] = "writing"
    BY <1>0, <1>8, CallType DEF UpdateTask
  <2>2. \/ UNCHANGED tasks
        \/ tasks[t] # NoRow /\ tasks' = [tasks EXCEPT ![t].people = call[r].body]
    BY <1>8 DEF UpdateTask
  <2>3. \A u \in TaskIds : tasks'[u] # NoRow =>
          tasks[u] # NoRow /\ tasks'[u].status = tasks[u].status
    BY <1>0, <2>1, <2>2 DEF TypeOK, Row
  <2>4. PICK place : Move(r, place)
    BY <1>8 DEF UpdateTask, AddAuditAndRecord
  <2> QED
    BY <1>0, <2>1, <2>3, <2>4, StatusFrame, CommittedStays
<1>9. ASSUME NEW r \in Requests, DeleteTask(r) PROVE StatusInv'
  <2>1. \A u \in TaskIds : tasks'[u] # NoRow => tasks[u] # NoRow /\ tasks'[u] = tasks[u]
    BY <1>0, <1>9 DEF DeleteTask, TypeOK
  <2> QED
    BY <1>0, <1>9, <2>1, StatusFrame, CommittedStays DEF DeleteTask, AddAuditAndRecord
<1>10. ASSUME NEW r \in Requests, Crash(r) PROVE StatusInv'
  BY <1>0, <1>10, StatusFrame, CommittedStays DEF Crash, Final
<1>11. ASSUME NEW q \in Requests, Expire(q) PROVE StatusInv'
  BY <1>11, StatusFrame DEF Expire
<1>12. CASE UNCHANGED vars
  BY <1>12, StatusFrame DEF vars
<1> QED
  BY <1>1, <1>2, <1>3, <1>4, <1>5, <1>6, <1>7, <1>8, <1>9, <1>10, <1>11, <1>12,
     VictimIsRolledBack DEF Next, RequestStep

\* Whatever requests run at once, the status of a task and the last row of its
\* history agree.
THEOREM HistoryAgrees == Spec => []StatusIsLastHistory
<1>1. Init => StatusInv /\ TypeInv
  BY StatusInit, LockInit
<1>2. StatusInv /\ TypeInv /\ [Next]_vars => (StatusInv /\ TypeInv)'
  BY StatusStep, LockStep
<1>3. StatusInv => StatusIsLastHistory
  BY DEF StatusInv
<1> QED
  BY <1>1, <1>2, <1>3, PTL DEF Spec

(***************************************************************************)
(* The events of a task.  A task named by an event, or read by a request,  *)
(* was created by a committed request or was there at the start, so the    *)
(* event of a creation is the first one of its task.                       *)
(***************************************************************************)
Known(t) == t \in Requests => pc[t] = "committed"

OriginInv ==
  /\ \A t \in TaskIds : tasks[t] # NoRow => Known(t)
  /\ \A i \in DOMAIN outbox : Known(outbox[i].task)
  /\ \A r \in Requests :
       pc[r] \in {"writing", "written"} /\ call[r].op # "create" => Known(call[r].task)

LifeInv == EventsFollowLifecycle /\ OriginInv

LEMMA KnownStays ==
  ASSUME \A q \in Requests : pc[q] = "committed" => pc'[q] = "committed"
  PROVE  \A t : Known(t) => Known(t)'
BY DEF Known

\* Steps that write no event and neither add nor remove a task.
LEMMA LifeFrame ==
  ASSUME LifeInv, UNCHANGED <<call, outbox>>,
         \A t \in TaskIds : tasks'[t] # NoRow <=> tasks[t] # NoRow,
         \A q \in Requests : pc[q] = "committed" => pc'[q] = "committed",
         \A q \in Requests : pc'[q] \in {"writing", "written"} /\ call[q].op # "create" =>
           Known(call[q].task)
  PROVE  LifeInv'
<1>1. EventsFollowLifecycle'
  BY DEF LifeInv, EventsFollowLifecycle, HasEvent
<1>2. OriginInv'
  BY KnownStays DEF LifeInv, OriginInv
<1> QED
  BY <1>1, <1>2 DEF LifeInv

\* The same for a request that leaves for a place where it holds no row it read.
LEMMA LifeFrameEnd ==
  ASSUME TypeOK, LifeInv, NEW r \in Requests, pc[r] # "committed",
         NEW place, place \notin {"writing", "written"}, Move(r, place),
         UNCHANGED <<call, outbox>>,
         \A t \in TaskIds : tasks'[t] # NoRow <=> tasks[t] # NoRow
  PROVE  LifeInv'
<1>1. \A q \in Requests : pc'[q] \in {"writing", "written"} => pc'[q] = pc[q]
  BY DEF Move, TypeOK
<1> QED
  BY <1>1, LifeFrame, CommittedStays DEF LifeInv, OriginInv

LEMMA AppendEvent ==
  ASSUME TypeOK, NEW e \in OutboxRow, outbox' = Append(outbox, e)
  PROVE  /\ Len(outbox) \in Nat
         /\ DOMAIN outbox = 1..Len(outbox)
         /\ DOMAIN outbox' = 1..(Len(outbox) + 1)
         /\ outbox'[Len(outbox) + 1] = e
         /\ \A i \in DOMAIN outbox : outbox'[i] = outbox[i]
         /\ \A t, type : HasEvent(t, type)' <=>
              HasEvent(t, type) \/ e = [type |-> type, task |-> t]
<1> DEFINE n == Len(outbox)
<1>1. /\ n \in Nat
      /\ DOMAIN outbox = 1..n
      /\ DOMAIN outbox' = 1..(n + 1)
      /\ outbox'[n + 1] = e
      /\ \A i \in 1..n : outbox'[i] = outbox[i]
  BY DEF TypeOK
<1> HIDE DEF n
<1>2. \A t, type : HasEvent(t, type)' <=> HasEvent(t, type) \/ e = [type |-> type, task |-> t]
  <2>1. 1..(n + 1) = (1..n) \cup {n + 1}
    BY <1>1
  <2> QED
    BY <1>1, <2>1 DEF HasEvent
<1> QED
  BY <1>1, <1>2 DEF n

\* A commit that writes event e of a known task (or of the one it creates), after
\* which the row of the task exists unless e is its deletion.
LEMMA LifeEvent ==
  ASSUME TypeOK, LifeInv, NEW r \in Requests, pc[r] # "committed", AddAuditAndRecord(r),
         NEW e \in OutboxRow, outbox' = Append(outbox, e), UNCHANGED call,
         \A t \in TaskIds \ {e.task} : tasks'[t] = tasks[t],
         tasks'[e.task] # NoRow <=> e.type # Deleted,
         \/ e.type = Created /\ e.task = r
         \/ e.type = StatusChanged /\ Known(e.task) /\ tasks[e.task] # NoRow
         \/ e.type = Deleted /\ Known(e.task)
  PROVE  LifeInv'
<1> DEFINE n == Len(outbox)
<1>1. /\ n \in Nat
      /\ DOMAIN outbox = 1..n
      /\ DOMAIN outbox' = 1..(n + 1)
      /\ outbox'[n + 1] = e
      /\ \A i \in DOMAIN outbox : outbox'[i] = outbox[i]
      /\ \A t, type : HasEvent(t, type)' <=>
           HasEvent(t, type) \/ e = [type |-> type, task |-> t]
  BY AppendEvent
<1> HIDE DEF n
<1>2. e.task \in TaskIds /\ e = [type |-> e.type, task |-> e.task]
      /\ e.type \in {Created, StatusChanged, Deleted}
  BY DEF OutboxRow, TaskEventType
<1>3. Created # Deleted /\ Created # StatusChanged /\ StatusChanged # Deleted
  BY DEF Created, Deleted, StatusChanged
<1>4. \A q \in Requests : pc[q] = "committed" => pc'[q] = "committed"
  BY CommittedStays DEF AddAuditAndRecord
<1>5. pc'[r] = "committed" /\ \A q \in Requests \ {r} : pc'[q] = pc[q]
  BY DEF AddAuditAndRecord, Move, TypeOK
<1>6. Known(e.task)'
  BY <1>4, <1>5, KnownStays DEF Known
<1>7. OriginInv'
  <2>1. \A t \in TaskIds : tasks'[t] # NoRow => Known(t)'
    BY <1>4, <1>6, KnownStays DEF LifeInv, OriginInv
  <2>2. (\A i \in DOMAIN outbox : Known(outbox[i].task))'
    <3>1. \A i \in 1..(n + 1) : i = n + 1 \/ i \in 1..n
      BY <1>1
    <3>2. \A i \in 1..n : outbox'[i].task \in Requests => pc'[outbox'[i].task] = "committed"
      BY <1>1, <1>4 DEF LifeInv, OriginInv, Known
    <3>3. e.task \in Requests => pc'[e.task] = "committed"
      BY <1>6 DEF Known
    <3> QED
      BY <1>1, <3>1, <3>2, <3>3 DEF Known
  <2>3. (\A q \in Requests :
           pc[q] \in {"writing", "written"} /\ call[q].op # "create" => Known(call[q].task))'
    BY <1>4, <1>5 DEF LifeInv, OriginInv, Known
  <2> QED
    BY <2>1, <2>2, <2>3 DEF OriginInv
<1>8. e.type = Created => \A i \in DOMAIN outbox : outbox[i].task # e.task
  BY <1>3 DEF LifeInv, OriginInv, Known
<1>9. \A i \in DOMAIN outbox :
        outbox[i].task = e.task /\ outbox[i].type = Deleted => HasEvent(e.task, Deleted)
  <2>1. \A i \in DOMAIN outbox : outbox[i] \in OutboxRow
    BY DEF TypeOK
  <2>2. \A x \in OutboxRow : x = [type |-> x.type, task |-> x.task]
    BY DEF OutboxRow
  <2> QED
    BY <2>1, <2>2 DEF HasEvent
<1>10. e.type = StatusChanged => ~HasEvent(e.task, Deleted)
  BY <1>2, <1>3 DEF LifeInv, EventsFollowLifecycle
<1>11. ASSUME NEW i \in DOMAIN outbox', NEW j \in DOMAIN outbox', i < j,
              outbox'[i].task = outbox'[j].task
       PROVE  /\ outbox'[j].type # Created
              /\ outbox'[i].type = Deleted => outbox'[j].type = Deleted
  <2>1. i \in 1..n /\ outbox'[i] = outbox[i]
    BY <1>1, <1>11
  <2>2. CASE j = n + 1
    <3>1. e.type # Created
      BY <1>1, <1>8, <1>11, <2>1, <2>2
    <3>2. outbox[i].type = Deleted => e.type = Deleted
      BY <1>1, <1>2, <1>9, <1>10, <1>11, <2>1, <2>2, <3>1
    <3> QED
      BY <1>1, <2>1, <2>2, <3>1, <3>2
  <2>3. CASE j # n + 1
    <3>1. j \in 1..n /\ outbox'[j] = outbox[j]
      BY <1>1, <2>3
    <3> QED
      BY <1>1, <1>11, <2>1, <3>1 DEF LifeInv, EventsFollowLifecycle
  <2> QED
    BY <2>2, <2>3
<1>12. ASSUME NEW t \in TaskIds
       PROVE  tasks'[t] # NoRow <=>
                (t \in InitialTasks \/ HasEvent(t, Created)') /\ ~HasEvent(t, Deleted)'
  <2>1. CASE t # e.task
    <3>1. HasEvent(t, Created)' <=> HasEvent(t, Created)
      BY <1>1, <1>2, <2>1
    <3>2. HasEvent(t, Deleted)' <=> HasEvent(t, Deleted)
      BY <1>1, <1>2, <2>1
    <3> QED
      BY <2>1, <3>1, <3>2 DEF LifeInv, EventsFollowLifecycle
  <2>2. CASE t = e.task /\ e.type = Created
    <3>1. HasEvent(t, Created)'
      BY <1>1, <1>2, <2>2
    <3>2. ~HasEvent(t, Deleted)
      BY <1>8, <2>2 DEF HasEvent
    <3>3. ~HasEvent(t, Deleted)'
      BY <1>1, <1>3, <2>2, <3>2
    <3> QED
      BY <1>3, <2>2, <3>1, <3>3
  <2>3. CASE t = e.task /\ e.type = StatusChanged
    <3>1. (t \in InitialTasks \/ HasEvent(t, Created)) /\ ~HasEvent(t, Deleted)
      BY <1>3, <2>3 DEF LifeInv, EventsFollowLifecycle
    <3>2. (HasEvent(t, Created) => HasEvent(t, Created)') /\ ~HasEvent(t, Deleted)'
      BY <1>1, <1>3, <2>3, <3>1
    <3> QED
      BY <1>3, <2>3, <3>1, <3>2
  <2>4. CASE t = e.task /\ e.type = Deleted
    <3>1. HasEvent(t, Deleted)'
      BY <1>1, <1>2, <2>4
    <3> QED
      BY <2>4, <3>1
  <2> QED
    BY <1>2, <2>1, <2>2, <2>3, <2>4
<1>13. EventsFollowLifecycle'
  BY <1>11, <1>12 DEF EventsFollowLifecycle
<1> QED
  BY <1>7, <1>13 DEF LifeInv

LEMMA LifeInit == Init => LifeInv
<1> SUFFICES ASSUME Init PROVE LifeInv
  OBVIOUS
<1>1. DOMAIN outbox = {}
  BY DEF Init
<1>2. \A t \in TaskIds : tasks[t] # NoRow <=> t \in InitialTasks
  BY TaskApiAssumption DEF Init
<1>3. EventsFollowLifecycle
  BY <1>1, <1>2 DEF EventsFollowLifecycle, HasEvent
<1>4. OriginInv
  BY <1>1, <1>2, TaskApiAssumption DEF OriginInv, Known, Init
<1> QED
  BY <1>3, <1>4 DEF LifeInv

LEMMA LifeStep == TypeInv /\ LifeInv /\ [Next]_vars => LifeInv'
<1> SUFFICES ASSUME TypeInv, LifeInv, [Next]_vars PROVE LifeInv'
  OBVIOUS
<1>0. TypeOK /\ LockInv
  BY DEF TypeInv
<1>1. ASSUME NEW r \in Requests, Throttle(r) PROVE LifeInv'
  BY <1>0, <1>1, LifeFrameEnd DEF Throttle
<1>2. ASSUME NEW r \in Requests, LookupIdempotencyRecord(r) PROVE LifeInv'
  <2>1. PICK place : Move(r, place) /\ (place = "writing" => call[r].op = "create")
                     /\ place # "written"
    BY <1>2 DEF LookupIdempotencyRecord, MaybeReplay, AfterLookup
  <2>2. \A q \in Requests : pc'[q] \in {"writing", "written"} /\ call[q].op # "create" =>
          Known(call[q].task)
    BY <1>0, <2>1 DEF Move, TypeOK, LifeInv, OriginInv
  <2> QED
    BY <1>0, <1>2, <2>1, <2>2, LifeFrame, CommittedStays DEF LookupIdempotencyRecord
<1>3. ASSUME NEW r \in Requests, DropExpiredRecord(r) PROVE LifeInv'
  <2>1. PICK place : Move(r, place) /\ (place = "writing" => call[r].op = "create")
                     /\ place # "written"
    BY <1>3 DEF DropExpiredRecord, AfterLookup
  <2>2. \A q \in Requests : pc'[q] \in {"writing", "written"} /\ call[q].op # "create" =>
          Known(call[q].task)
    BY <1>0, <2>1 DEF Move, TypeOK, LifeInv, OriginInv
  <2> QED
    BY <1>0, <1>3, <2>1, <2>2, LifeFrame, CommittedStays DEF DropExpiredRecord
<1>4. ASSUME NEW r \in Requests, ReadTask(r) PROVE LifeInv'
  <2>1. Move(r, "rejected") \/ (Move(r, "writing") /\ tasks[call[r].task] # NoRow)
    BY <1>4 DEF ReadTask
  <2>2. call[r].task \in TaskIds
    BY <1>0, <1>4, CallType DEF ReadTask, LockInv
  <2>3. \A q \in Requests : pc'[q] \in {"writing", "written"} /\ call[q].op # "create" =>
          Known(call[q].task)
    BY <1>0, <2>1, <2>2 DEF Move, TypeOK, LifeInv, OriginInv
  <2> QED
    BY <1>0, <1>4, <2>1, <2>3, LifeFrame, CommittedStays DEF ReadTask
<1>5. ASSUME NEW r \in Requests, FlushStatus(r) PROVE LifeInv'
  <2>1. PICK place : Move(r, place)
    BY <1>5 DEF FlushStatus
  <2>2. \A q \in Requests : pc'[q] \in {"writing", "written"} /\ call[q].op # "create" =>
          Known(call[q].task)
    BY <1>0, <1>5, <2>1 DEF FlushStatus, Move, TypeOK, LifeInv, OriginInv
  <2> QED
    BY <1>0, <1>5, <2>1, <2>2, LifeFrame, CommittedStays DEF FlushStatus
<1>6. ASSUME NEW r \in Requests, CreateTask(r) PROVE LifeInv'
  <2>1. CASE FailOnKeyConflict(r)
    BY <1>0, <1>6, <2>1, LifeFrameEnd DEF CreateTask, FailOnKeyConflict
  <2>2. CASE ~FailOnKeyConflict(r)
    <3> DEFINE e == [type |-> Created, task |-> r]
    <3>1. /\ tasks' = [tasks EXCEPT ![r] = NewTask(r)]
          /\ outbox' = Append(outbox, e)
          /\ AddAuditAndRecord(r) /\ UNCHANGED call /\ pc[r] = "writing"
      BY <1>6, <2>2 DEF CreateTask
    <3>2. e \in OutboxRow /\ r \in TaskIds /\ e.type = Created /\ e.task = r
      BY DEF OutboxRow, TaskEventType, TaskIds
    <3>3. NewTask(r) # NoRow
      BY <1>0, <1>6, CallType, TaskApiAssumption DEF CreateTask, NewTask, Row, Status
    <3>4. tasks'[r] # NoRow /\ \A t \in TaskIds \ {r} : tasks'[t] = tasks[t]
      BY <1>0, <3>1, <3>2, <3>3 DEF TypeOK
    <3>5. Created # Deleted
      BY DEF Created, Deleted
    <3> HIDE DEF e
    <3> QED
      BY <1>0, <3>1, <3>2, <3>4, <3>5, LifeEvent
  <2> QED
    BY <2>1, <2>2
<1>7. ASSUME NEW r \in Requests, ChangeTaskStatus(r) PROVE LifeInv'
  <2>1. CASE FailOnKeyConflict(r)
    BY <1>0, <1>7, <2>1, LifeFrameEnd DEF ChangeTaskStatus, FailOnKeyConflict
  <2>2. CASE ~FailOnKeyConflict(r)
    <3> DEFINE t == call[r].task
               e == [type |-> StatusChanged, task |-> t]
    <3>1. /\ tasks' = [tasks EXCEPT ![t].status = call[r].body]
          /\ outbox' = Append(outbox, e)
          /\ AddAuditAndRecord(r) /\ UNCHANGED call /\ pc[r] = "written"
      BY <1>7, <2>2 DEF ChangeTaskStatus
    <3>2. t \in TaskIds /\ tasks[t] # NoRow /\ Known(t) /\ call[r].body \in Status
      BY <1>0, <3>1, CallType DEF LockInv, LifeInv, OriginInv
    <3>3. e \in OutboxRow /\ e.type = StatusChanged /\ e.task = t
      BY <3>2 DEF OutboxRow, TaskEventType
    <3>4. [tasks[t] EXCEPT !.status = call[r].body] # NoRow
      BY <1>0, <3>2, TaskApiAssumption DEF TypeOK, Row
    <3>5. tasks'[t] # NoRow /\ \A u \in TaskIds \ {t} : tasks'[u] = tasks[u]
      BY <1>0, <3>1, <3>2, <3>4 DEF TypeOK
    <3>6. StatusChanged # Deleted
      BY DEF StatusChanged, Deleted
    <3> HIDE DEF e
    <3> QED
      BY <1>0, <3>1, <3>2, <3>3, <3>5, <3>6, LifeEvent
  <2> QED
    BY <2>1, <2>2
<1>8. ASSUME NEW r \in Requests, UpdateTask(r) PROVE LifeInv'
  <2> DEFINE t == call[r].task
  <2>1. t \in TaskIds /\ call[r].body \in People /\ pc[r] = "writing"
    BY <1>0, <1>8, CallType DEF UpdateTask
  <2>2. \/ UNCHANGED tasks
        \/ tasks[t] # NoRow /\ tasks' = [tasks EXCEPT ![t].people = call[r].body]
    BY <1>8 DEF UpdateTask
  <2>3. tasks[t] # NoRow => [tasks[t] EXCEPT !.people = call[r].body] # NoRow
    BY <1>0, <2>1, TaskApiAssumption DEF TypeOK, Row
  <2>4. \A u \in TaskIds : tasks'[u] # NoRow <=> tasks[u] # NoRow
    BY <1>0, <2>1, <2>2, <2>3 DEF TypeOK
  <2>5. UNCHANGED <<call, outbox>> /\ (Move(r, "failed") \/ Move(r, "committed"))
    BY <1>8 DEF UpdateTask, AddAuditAndRecord
  <2> QED
    BY <1>0, <2>1, <2>4, <2>5, LifeFrameEnd
<1>9. ASSUME NEW r \in Requests, DeleteTask(r) PROVE LifeInv'
  <2> DEFINE t == call[r].task
             e == [type |-> Deleted, task |-> t]
  <2>1. t \in TaskIds /\ pc[r] = "writing" /\ Known(t)
    BY <1>0, <1>9, CallType DEF DeleteTask, LifeInv, OriginInv
  <2>2. e \in OutboxRow /\ e.type = Deleted /\ e.task = t
    BY <2>1 DEF OutboxRow, TaskEventType
  <2>3. tasks'[t] = NoRow /\ \A u \in TaskIds \ {t} : tasks'[u] = tasks[u]
    BY <1>0, <1>9, <2>1 DEF DeleteTask, TypeOK
  <2>4. outbox' = Append(outbox, e) /\ AddAuditAndRecord(r) /\ UNCHANGED call
    BY <1>9 DEF DeleteTask
  <2> HIDE DEF e
  <2> QED
    BY <1>0, <2>1, <2>2, <2>3, <2>4, LifeEvent
<1>10. ASSUME NEW r \in Requests, Crash(r) PROVE LifeInv'
  BY <1>0, <1>10, LifeFrameEnd DEF Crash, Final
<1>11. ASSUME NEW q \in Requests, Expire(q) PROVE LifeInv'
  BY <1>11, LifeFrame DEF Expire, LifeInv, OriginInv
<1>12. CASE UNCHANGED vars
  BY <1>12, LifeFrame DEF vars, LifeInv, OriginInv
<1> QED
  BY <1>1, <1>2, <1>3, <1>4, <1>5, <1>6, <1>7, <1>8, <1>9, <1>10, <1>11, <1>12,
     VictimIsRolledBack DEF Next, RequestStep

\* Nothing happens to a task before its creation or after its deletion, however
\* many requests read the task before it was deleted.
THEOREM LifecycleKept == Spec => []EventsFollowLifecycle
<1>1. Init => LifeInv /\ TypeInv
  BY LifeInit, LockInit
<1>2. LifeInv /\ TypeInv /\ [Next]_vars => (LifeInv /\ TypeInv)'
  BY LifeStep, LockStep
<1>3. LifeInv => EventsFollowLifecycle
  BY DEF LifeInv
<1> QED
  BY <1>1, <1>2, <1>3, PTL DEF Spec
=============================================================================

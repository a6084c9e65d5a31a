------------------------ MODULE NotificationDispatch ------------------------
(***************************************************************************)
(* Sending the queued notifications: dispatch_once of notification-cron    *)
(* with its inner steps, for several dispatchers at once (the service and  *)
(* runs started by hand with --once).  EventPipeline has the same run as a *)
(* single step of a single cron.                                           *)
(*                                                                         *)
(* A delivery is its row's id; ids are random, so they do not tell in      *)
(* which order the rows were queued.                                       *)
(***************************************************************************)
EXTENDS Naturals, Sequences, FiniteSets, Functions

CONSTANTS
  Dispatchers,  \* processes running dispatch_once
  Deliveries,   \* ids of the notification_deliveries rows
  BatchSize,    \* notification_dispatch_batch_size
  MaxFaults     \* bound: crashes and failed sends

ASSUME DispatchAssumption ==
  /\ Deliveries \subseteq Nat
  /\ BatchSize \in Nat \ {0}
  /\ MaxFaults \in Nat

VARIABLES
  rows,       \* table notification_deliveries
  success,    \* its rows with status "success" and sent_event_published_at set
  events,     \* outbox_events: the deliveries its notification.sent rows are about
  errors,     \* worker_errors of notification-cron: the deliveries they are about
  mails,      \* how often the mail server has accepted each delivery
  refused,    \* deliveries of which the mail server has refused a send
  dispatcher, \* per dispatcher: pc, the selected rows, those still to send
  faults      \* faults so far

vars == <<rows, success, events, errors, mails, refused, dispatcher, faults>>

DispatcherState ==
  [pc : {"down", "idle", "sending"}, batch : SUBSET Deliveries, todo : SUBSET Deliveries]

TypeOK ==
  /\ rows \in SUBSET Deliveries
  /\ success \in SUBSET Deliveries
  /\ events \in Seq(Deliveries)
  /\ errors \in SUBSET Deliveries
  /\ mails \in [Deliveries -> Nat]
  /\ refused \in SUBSET Deliveries
  /\ dispatcher \in [Dispatchers -> DispatcherState]
  /\ faults \in Nat

\* Wrong variant: a reset that leaves out the rows still to send.
Ended_NoTodo(pc) == [pc |-> pc, batch |-> {}]

Ended(pc) == [pc |-> pc, batch |-> {}, todo |-> {}]

Init ==
  /\ rows = {}
  /\ success = {}
  /\ events = <<>>
  /\ errors = {}
  /\ mails = [i \in Deliveries |-> 0]
  /\ refused = {}
  /\ dispatcher = [d \in Dispatchers |-> Ended("idle")]
  /\ faults = 0

Fault ==
  /\ faults < MaxFaults
  /\ faults' = faults + 1

\* The notification worker commits a delivery, status "pending".
AddNotificationDelivery(i) ==
  /\ i \notin rows
  /\ rows' = rows \cup {i}
  /\ UNCHANGED <<success, events, errors, mails, refused, dispatcher, faults>>

\* Wrong variant: the rows are selected without FOR UPDATE.
LockedRows_None == {}

\* Rows selected FOR UPDATE by an open transaction.
LockedRows == UNION {dispatcher[d].batch : d \in Dispatchers}

\* Wrong variant: DISPATCHABLE_STATUSES without "failed".
Dispatchable_PendingOnly == rows \ (success \cup refused)

Dispatchable == rows \ success

Lowest(S, n) == {i \in S : Cardinality({j \in S : j < i}) < n}

\* SKIP LOCKED, ORDER BY id, LIMIT.
SelectBatch(d) ==
  /\ dispatcher[d].pc = "idle"
  /\ LET batch == Lowest(Dispatchable \ LockedRows, BatchSize) IN
       /\ batch # {}
       /\ dispatcher' = [dispatcher EXCEPT ![d] =
            [pc |-> "sending", batch |-> batch, todo |-> batch]]
  /\ UNCHANGED <<rows, success, events, errors, mails, refused, faults>>

IsNext(d, i) ==
  /\ dispatcher[d].pc = "sending"
  /\ i \in dispatcher[d].todo
  /\ \A j \in dispatcher[d].todo : i <= j

\* The mail is out at once; status and event wait for the commit.
SendDelivery(d, i) ==
  /\ IsNext(d, i)
  /\ mails' = [mails EXCEPT ![i] = @ + 1]
  /\ dispatcher' = [dispatcher EXCEPT ![d].todo = @ \ {i}]
  /\ UNCHANGED <<rows, success, events, errors, refused, faults>>

\* The sender reports a failure.  The call of record_worker_error has arguments
\* that function does not take: it raises, the whole run is rolled back, and the
\* exception ends the loop of the cron.
SendFails(d, i) ==
  /\ Fault
  /\ IsNext(d, i)
  /\ refused' = refused \cup {i}
  /\ dispatcher' = [dispatcher EXCEPT ![d] = Ended("down")]
  /\ UNCHANGED <<rows, success, events, errors, mails>>

InOrder(S) == CHOOSE s \in [1..Cardinality(S) -> S] :
  \A k, l \in DOMAIN s : k < l => s[k] < s[l]

\* Wrong variant: the run commits after every delivery, with the whole batch marked.
Commit_Early(d) ==
  LET batch == dispatcher[d].batch IN
  /\ dispatcher[d].pc = "sending"
  /\ success' = success \cup batch
  /\ events' = events \o InOrder(batch)
  /\ dispatcher' = [dispatcher EXCEPT ![d] = Ended("idle")]
  /\ UNCHANGED <<rows, errors, mails, refused, faults>>

\* One commit for the statuses and events of the whole batch.
Commit(d) ==
  LET batch == dispatcher[d].batch IN
  /\ dispatcher[d].pc = "sending"
  /\ dispatcher[d].todo = {}
  /\ success' = success \cup batch
  /\ events' = events \o InOrder(batch)
  /\ dispatcher' = [dispatcher EXCEPT ![d] = Ended("idle")]
  /\ UNCHANGED <<rows, errors, mails, refused, faults>>

Crash(d) ==
  /\ Fault
  /\ dispatcher[d].pc # "down"
  /\ dispatcher' = [dispatcher EXCEPT ![d] = Ended("down")]
  /\ UNCHANGED <<rows, success, events, errors, mails, refused>>

Start(d) ==
  /\ dispatcher[d].pc = "down"
  /\ dispatcher' = [dispatcher EXCEPT ![d] = Ended("idle")]
  /\ UNCHANGED <<rows, success, events, errors, mails, refused, faults>>

-----------------------------------------------------------------------------
DispatcherStep(d) ==
  \/ SelectBatch(d)
  \/ \E i \in Deliveries : SendDelivery(d, i)
  \/ Commit(d)
  \/ Start(d)

Next ==
  \/ \E i \in Deliveries : AddNotificationDelivery(i)
  \/ \E d \in Dispatchers :
       \/ DispatcherStep(d)
       \/ \E i \in Deliveries : SendFails(d, i)
       \/ Crash(d)

Spec == Init /\ [][Next]_vars

\* The cron keeps running, and is started again when it has ended.
FairSpec == Spec /\ \A d \in Dispatchers : WF_vars(DispatcherStep(d))
-----------------------------------------------------------------------------
\* Two dispatchers never report one delivery twice, and what is reported is what
\* is marked as sent (the row locks of the batch, the commit of the batch).
OneSentEvent ==
  /\ IsInjective(events)
  /\ Range(events) = success

\* A delivery marked as sent was sent.  A mail goes out again only after a fault
\* has lost the commit of the one before: at most one mail more for each fault.
MailsAccounted ==
  \A i \in Deliveries : /\ i \in success => mails[i] >= 1
                        /\ mails[i] <= 1 + faults

\* A refused send is recorded in worker_errors once its run is over, as the
\* README promises (violated: the record is never written).
FailedSendRecorded ==
  \A i \in refused : (\A d \in Dispatchers : i \notin dispatcher[d].batch) => i \in errors

\* Every delivery queued is sent in the end, whatever run was lost before.
EventuallySent == \A i \in Deliveries : i \in rows ~> i \in success
=============================================================================

--------------------------- MODULE EventPipeline ----------------------------
(***************************************************************************)
(* The event-driven part of the system: transactional outbox, outbox       *)
(* publisher, RabbitMQ queues, the worker runtime with its retries and its *)
(* dead-letter queues, the handlers of the three consumers, and the        *)
(* notification cron, with crashes and restarts of every process.          *)
(*                                                                         *)
(* An event is its position in the outbox (rows are numbered in the order  *)
(* of created_at).  The payload of an event is reduced to its "cause": the *)
(* event it was derived from, 0 for an event written by the HTTP API.      *)
(***************************************************************************)
EXTENDS EventRouting, FiniteSets, Functions

CONSTANTS
  Publishers,      \* processes running outbox_publisher
  Workers,         \* processes running run_task_event_consumer
  ConsumerOf,      \* the consumer_name of each worker
  InitiallyBound,  \* consumers whose queue exists (and whose workers run) at the start
  BatchSize,       \* outbox_publish_batch_size
  MaxRetry,        \* worker_max_retry_attempts
  DispatchLimit,   \* notification_dispatch_batch_size
  ErrorStoreFails, \* whether saving a worker_errors row may fail
  SourceTypes,     \* the types the API writes in this instance
  MaxSource,       \* bound: events written by the API
  MaxFaults        \* bound: crashes, failed calls and exceptions

ASSUME PipelineAssumption ==
  /\ ConsumerOf \in [Workers -> Consumer]
  /\ InitiallyBound \subseteq Consumer
  /\ SourceTypes \subseteq TaskEventType
  /\ BatchSize \in Nat \ {0}
  /\ DispatchLimit \in Nat \ {0}
  /\ MaxRetry \in Nat
  /\ MaxSource \in Nat
  /\ MaxFaults \in Nat
  /\ ErrorStoreFails \in BOOLEAN

VARIABLES
  outbox,       \* table outbox_events: a sequence of rows
  publisher,    \* per publisher: pc, locked batch, rows still to try, rows published
  bound,        \* consumers whose durable queue is declared and bound
  queue,        \* per consumer: messages ready in its queue
  worker,       \* per worker: pc and the unacknowledged message
  dlq,          \* per consumer: messages in its dead-letter queue
  processed,    \* table processed_events: per consumer, the claimed events
  eventLog,     \* table worker_event_logs: per consumer, in commit order
  errors,       \* table worker_errors: per consumer, [id, retry] of failed attempts
  enrichments,  \* table task_enrichments: source_event_id of its rows
  deliveries,   \* table notification_deliveries: event_id of its rows
  delivered,    \* those deliveries whose status is "success"
  cronUp,       \* whether the notification cron runs
  faults        \* faults so far

vars == <<outbox, publisher, bound, queue, worker, dlq, processed, eventLog,
          errors, enrichments, deliveries, delivered, cronUp, faults>>
brokerVars == <<bound, queue, dlq>>
tableVars == <<processed, eventLog, errors, enrichments, deliveries, delivered>>

Row == [type : EventType, cause : Nat, status : {"pending", "published"}]
Message == [id : Nat, retry : Nat]
NoMessage == [id |-> 0, retry |-> 0]
Events == 1..Len(outbox)

PublisherPC == {"down", "polling", "publishing"}
WorkerPC == {"down", "idle", "received", "claimed", "failed", "saved", "acking", "retried"}

PublisherState == [pc : PublisherPC, batch : SUBSET Nat, todo : SUBSET Nat, sent : SUBSET Nat]
WorkerState == [pc : WorkerPC, msg : Message]

TypeOK ==
  /\ outbox \in Seq(Row)
  /\ publisher \in [Publishers -> PublisherState]
  /\ bound \in SUBSET Consumer
  /\ queue \in [Consumer -> Seq(Message)]
  /\ worker \in [Workers -> WorkerState]
  /\ dlq \in [Consumer -> SUBSET Message]
  /\ processed \in [Consumer -> SUBSET Nat]
  /\ eventLog \in [Consumer -> Seq(Nat)]
  /\ errors \in [Consumer -> SUBSET Message]
  /\ enrichments \in SUBSET Nat
  /\ deliveries \in SUBSET Nat
  /\ delivered \in SUBSET Nat
  /\ cronUp \in BOOLEAN
  /\ faults \in Nat

\* Wrong variant: the column default of status is forgotten.
NewRow_NoDefault(type, cause) == [type |-> type, cause |-> cause, status |-> "null"]

NewRow(type, cause) == [type |-> type, cause |-> cause, status |-> "pending"]
IdlePublisher(pc) == [pc |-> pc, batch |-> {}, todo |-> {}, sent |-> {}]
IdleWorker(pc) == [pc |-> pc, msg |-> NoMessage]

Init ==
  /\ outbox = <<>>
  /\ publisher = [p \in Publishers |-> IdlePublisher("polling")]
  /\ bound = InitiallyBound
  /\ queue = [c \in Consumer |-> <<>>]
  /\ worker = [w \in Workers |-> IdleWorker(
                 IF ConsumerOf[w] \in InitiallyBound THEN "idle" ELSE "down")]
  /\ dlq = [c \in Consumer |-> {}]
  /\ processed = [c \in Consumer |-> {}]
  /\ eventLog = [c \in Consumer |-> <<>>]
  /\ errors = [c \in Consumer |-> {}]
  /\ enrichments = {}
  /\ deliveries = {}
  /\ delivered = {}
  /\ cronUp = TRUE
  /\ faults = 0

Fault ==
  /\ faults < MaxFaults
  /\ faults' = faults + 1

(***************************************************************************)
(* The HTTP API: a write of a task and its event commit in one transaction *)
(***************************************************************************)
SourceEvents == {i \in Events : outbox[i].cause = 0}

AddTaskOutboxEvent(type) ==
  /\ Cardinality(SourceEvents) < MaxSource
  /\ outbox' = Append(outbox, NewRow(type, 0))
  /\ UNCHANGED <<publisher, bound, queue, worker, dlq, tableVars, cronUp, faults>>

(***************************************************************************)
(* The broker: the topic exchange copies a message to every bound queue    *)
(* that matches.  With no such queue it is dropped, and the publisher is   *)
(* not told (an unroutable message is no error for aio_pika's publish).    *)
(***************************************************************************)
ExchangePublish(m) ==
  queue' = [c \in Consumer |->
              IF c \in bound /\ Receives(c, outbox[m.id].type)
                THEN Append(queue[c], m) ELSE queue[c]]

(***************************************************************************)
(* outbox_publisher                                                        *)
(***************************************************************************)
Pending == {i \in Events : outbox[i].status = "pending"}
LockedRows == UNION {publisher[p].batch : p \in Publishers}
Oldest(S, n) == {i \in S : Cardinality({j \in S : j < i}) < n}

\* FOR UPDATE SKIP LOCKED: rows of another publisher's open transaction are passed over.
LoadPendingOutboxEvents(p) ==
  /\ publisher[p].pc = "polling"
  /\ LET batch == Oldest(Pending \ LockedRows, BatchSize) IN
       IF batch = {}
         THEN UNCHANGED publisher
         ELSE publisher' = [publisher EXCEPT ![p] =
                [pc |-> "publishing", batch |-> batch, todo |-> batch, sent |-> {}]]
  /\ UNCHANGED <<outbox, brokerVars, worker, tableVars, cronUp, faults>>

\* The rows of the batch are tried in the order of the query, created_at.
IsNext(p, i) ==
  /\ publisher[p].pc = "publishing"
  /\ i \in publisher[p].todo
  /\ \A j \in publisher[p].todo : i <= j

\* Published, and marked so in the still open transaction.
PublishEvent(p, i) ==
  /\ IsNext(p, i)
  /\ ExchangePublish([id |-> i, retry |-> 0])
  /\ publisher' = [publisher EXCEPT ![p].todo = @ \ {i}, ![p].sent = @ \cup {i}]
  /\ UNCHANGED <<outbox, bound, worker, dlq, tableVars, cronUp, faults>>

\* The publish raises: the row counts an attempt and stays pending.
MarkOutboxEventRetry(p, i) ==
  /\ Fault
  /\ IsNext(p, i)
  /\ publisher' = [publisher EXCEPT ![p].todo = @ \ {i}]
  /\ UNCHANGED <<outbox, brokerVars, worker, tableVars, cronUp>>

\* Wrong variant: the whole batch is marked, the rows whose publish raised included.
CommitBatch_All(p) ==
  /\ publisher[p].pc = "publishing"
  /\ publisher[p].todo = {}
  /\ outbox' = [i \in Events |-> IF i \in publisher[p].batch
                  THEN [outbox[i] EXCEPT !.status = "published"] ELSE outbox[i]]
  /\ publisher' = [publisher EXCEPT ![p] = IdlePublisher("polling")]
  /\ UNCHANGED <<brokerVars, worker, tableVars, cronUp, faults>>

\* One commit for the whole batch.
CommitBatch(p) ==
  /\ publisher[p].pc = "publishing"
  /\ publisher[p].todo = {}
  /\ outbox' = [i \in Events |-> IF i \in publisher[p].sent
                  THEN [outbox[i] EXCEPT !.status = "published"] ELSE outbox[i]]
  /\ publisher' = [publisher EXCEPT ![p] = IdlePublisher("polling")]
  /\ UNCHANGED <<brokerVars, worker, tableVars, cronUp, faults>>

\* The transaction is lost with the process; what was published stays published.
CrashPublisher(p) ==
  /\ Fault
  /\ publisher[p].pc # "down"
  /\ publisher' = [publisher EXCEPT ![p] = IdlePublisher("down")]
  /\ UNCHANGED <<outbox, brokerVars, worker, tableVars, cronUp>>

StartPublisher(p) ==
  /\ publisher[p].pc = "down"
  /\ publisher' = [publisher EXCEPT ![p] = IdlePublisher("polling")]
  /\ UNCHANGED <<outbox, brokerVars, worker, tableVars, cronUp, faults>>

(***************************************************************************)
(* The event handlers: what they add to the transaction of the worker      *)
(***************************************************************************)
\* Wrong variant: the event is derived, the task_enrichments row is not added.
HandleEnrichmentEvent_NoRow(id) ==
  /\ outbox' = IF outbox[id].type \in Enrichable
                 THEN Append(outbox, NewRow(Enriched, id)) ELSE outbox
  /\ UNCHANGED <<enrichments, deliveries>>

HandleEnrichmentEvent(id) ==
  /\ IF outbox[id].type \in Enrichable /\ id \notin enrichments
       THEN /\ enrichments' = enrichments \cup {id}
            /\ outbox' = Append(outbox, NewRow(Enriched, id))
       ELSE UNCHANGED <<enrichments, outbox>>
  /\ UNCHANGED deliveries

\* An email is built for task.enriched events derived from the two source types.
HasEmail(id) ==
  /\ outbox[id].type = Enriched
  /\ outbox[outbox[id].cause].type \in {Created, StatusChanged}

HandleNotificationEvent(id) ==
  /\ deliveries' = IF HasEmail(id) THEN deliveries \cup {id} ELSE deliveries
  /\ UNCHANGED <<enrichments, outbox>>

\* Rewrites the report file and adds no row.
HandleAuditEvent(id) == UNCHANGED <<enrichments, outbox, deliveries>>

EventHandler(c, id) ==
  CASE c = Enrichment   -> HandleEnrichmentEvent(id)
    [] c = Notification -> HandleNotificationEvent(id)
    [] c = Audit        -> HandleAuditEvent(id)

\* uq_notification_deliveries_event: the insert of a second row raises.
UniqueViolation(c, id) == c = Notification /\ HasEmail(id) /\ id \in deliveries

(***************************************************************************)
(* The worker runtime                                                      *)
(***************************************************************************)
\* Declares and binds the durable queue, then iterates over it.
StartWorker(w) ==
  /\ worker[w].pc = "down"
  /\ bound' = bound \cup {ConsumerOf[w]}
  /\ worker' = [worker EXCEPT ![w] = IdleWorker("idle")]
  /\ UNCHANGED <<outbox, publisher, queue, dlq, tableVars, cronUp, faults>>

\* Messages a worker may hold unacknowledged (prefetch_count).  Those it has not
\* yet begun are left in the queue here, where a crash puts them back anyway; a
\* worker that shares the queue takes the next message that is not prefetched.
PrefetchCount == 10
Reachable(w) ==
  1 + PrefetchCount * Cardinality({v \in Workers \ {w} : ConsumerOf[v] = ConsumerOf[w]})

Receive(w, k) ==
  LET c == ConsumerOf[w] IN
  /\ worker[w].pc = "idle"
  /\ k \in DOMAIN queue[c]
  /\ k <= Reachable(w)
  /\ worker' = [worker EXCEPT ![w] = [pc |-> "received", msg |-> queue[c][k]]]
  /\ queue' = [queue EXCEPT ![c] = SubSeq(@, 1, k - 1) \o SubSeq(@, k + 1, Len(@))]
  /\ UNCHANGED <<outbox, publisher, bound, dlq, tableVars, cronUp, faults>>

\* Wrong variant: the insert of the claim does not wait for an uncommitted one.
ClaimHeldByOther_Never(w) == FALSE

\* Whether an open transaction of another worker holds the claim of w's event.
ClaimHeldByOther(w) ==
  \E v \in Workers \ {w} : /\ ConsumerOf[v] = ConsumerOf[w]
                           /\ worker[v].pc = "claimed"
                           /\ worker[v].msg.id = worker[w].msg.id

\* Wrong variant: the claim does not look at what is already processed.
ClaimEventForProcessing_Always(w) ==
  /\ worker[w].pc = "received"
  /\ worker' = [worker EXCEPT ![w].pc = "claimed"]
  /\ UNCHANGED <<outbox, publisher, brokerVars, tableVars, cronUp, faults>>

\* INSERT .. ON CONFLICT DO NOTHING: waits for an uncommitted claim of the same
\* event, and inserts nothing when the event is already processed.
ClaimEventForProcessing(w) ==
  /\ worker[w].pc = "received"
  /\ ~ClaimHeldByOther(w)
  /\ worker' = [worker EXCEPT ![w].pc =
       IF worker[w].msg.id \in processed[ConsumerOf[w]] THEN "acking" ELSE "claimed"]
  /\ UNCHANGED <<outbox, publisher, brokerVars, tableVars, cronUp, faults>>

\* Claim, effects of the handler and log row commit together.
ProcessEvent(w) ==
  LET c == ConsumerOf[w]
      id == worker[w].msg.id IN
  /\ worker[w].pc = "claimed"
  /\ ~UniqueViolation(c, id)
  /\ EventHandler(c, id)
  /\ processed' = [processed EXCEPT ![c] = @ \cup {id}]
  /\ eventLog' = [eventLog EXCEPT ![c] = Append(@, id)]
  /\ worker' = [worker EXCEPT ![w].pc = "acking"]
  /\ UNCHANGED <<publisher, brokerVars, errors, delivered, cronUp, faults>>

\* An exception: the open transaction, claim included, is rolled back.  The
\* acknowledgement of a processed or duplicate message is in the same try block.
ProcessingRaises(w) ==
  /\ worker[w].pc \in {"received", "claimed", "acking"}
  /\ \/ Fault
     \/ /\ worker[w].pc = "claimed"
        /\ UniqueViolation(ConsumerOf[w], worker[w].msg.id)
        /\ UNCHANGED faults
  /\ worker' = [worker EXCEPT ![w].pc = "failed"]
  /\ UNCHANGED <<outbox, publisher, brokerVars, tableVars, cronUp>>

\* In a transaction of its own, whose failure is only logged.
SaveWorkerError(w) ==
  LET c == ConsumerOf[w] IN
  /\ worker[w].pc = "failed"
  /\ \/ /\ errors' = [errors EXCEPT ![c] = @ \cup {worker[w].msg}]
        /\ UNCHANGED faults
     \/ ErrorStoreFails /\ Fault /\ UNCHANGED errors
  /\ worker' = [worker EXCEPT ![w].pc = "saved"]
  /\ UNCHANGED <<outbox, publisher, brokerVars, processed, eventLog,
                 enrichments, deliveries, delivered, cronUp>>

\* Wrong variant: the failed message is acknowledged without its retry copy.
RepublishForRetry_Lost(w) ==
  /\ worker[w].pc = "saved"
  /\ worker[w].msg.retry < MaxRetry
  /\ worker' = [worker EXCEPT ![w].pc = "retried"]
  /\ UNCHANGED <<outbox, publisher, brokerVars, tableVars, cronUp, faults>>

\* After the backoff the copy goes to the shared exchange, so every consumer
\* bound to the event's type gets it, not only the one that failed.
RepublishForRetry(w) ==
  /\ worker[w].pc = "saved"
  /\ worker[w].msg.retry < MaxRetry
  /\ ExchangePublish([worker[w].msg EXCEPT !.retry = @ + 1])
  /\ worker' = [worker EXCEPT ![w].pc = "retried"]
  /\ UNCHANGED <<outbox, publisher, bound, dlq, tableVars, cronUp, faults>>

\* Wrong variant: the limit is reached one retry too early.
MoveToDlq_Early(w) ==
  LET c == ConsumerOf[w] IN
  /\ worker[w].pc = "saved"
  /\ worker[w].msg.retry + 1 >= MaxRetry
  /\ dlq' = [dlq EXCEPT ![c] = @ \cup {worker[w].msg}]
  /\ worker' = [worker EXCEPT ![w] = IdleWorker("idle")]
  /\ UNCHANGED <<outbox, publisher, bound, queue, tableVars, cronUp, faults>>

\* nack(requeue=False): the broker moves the message to the dead-letter queue.
MoveToDlq(w) ==
  LET c == ConsumerOf[w] IN
  /\ worker[w].pc = "saved"
  /\ worker[w].msg.retry >= MaxRetry
  /\ dlq' = [dlq EXCEPT ![c] = @ \cup {worker[w].msg}]
  /\ worker' = [worker EXCEPT ![w] = IdleWorker("idle")]
  /\ UNCHANGED <<outbox, publisher, bound, queue, tableVars, cronUp, faults>>

Ack(w) ==
  /\ worker[w].pc \in {"acking", "retried"}
  /\ worker' = [worker EXCEPT ![w] = IdleWorker("idle")]
  /\ UNCHANGED <<outbox, publisher, brokerVars, tableVars, cronUp, faults>>

\* The open transaction is rolled back and the broker requeues the
\* unacknowledged message at the head of the queue.
CrashWorker(w) ==
  LET c == ConsumerOf[w] IN
  /\ Fault
  /\ worker[w].pc # "down"
  /\ queue' = IF worker[w].pc = "idle" THEN queue
              ELSE [queue EXCEPT ![c] = <<worker[w].msg>> \o @]
  /\ worker' = [worker EXCEPT ![w] = IdleWorker("down")]
  /\ UNCHANGED <<outbox, publisher, bound, dlq, tableVars, cronUp>>

(***************************************************************************)
(* The notification cron, one run being one step (NotificationDispatch     *)
(* has its inner steps).  MockEmailSender never fails.                     *)
(***************************************************************************)
\* Wrong variant: deliveries already sent are selected again.
Dispatchable_Sent == deliveries

Dispatchable == deliveries \ delivered

\* ORDER BY a random uuid: any dispatchable rows, in any order, up to the limit.
DispatchBatch ==
  {b \in UNION {[1..n -> Dispatchable] : n \in 0..DispatchLimit} :
     /\ IsInjective(b)
     /\ Len(b) < DispatchLimit => Range(b) = Dispatchable}

DispatchOnce ==
  /\ cronUp
  /\ \E b \in DispatchBatch :
       /\ delivered' = delivered \cup Range(b)
       /\ outbox' = outbox \o [k \in DOMAIN b |-> NewRow(Sent, b[k])]
  /\ UNCHANGED <<publisher, brokerVars, worker, processed, eventLog, errors,
                 enrichments, deliveries, cronUp, faults>>

\* A run that raises, or a crash: nothing is committed and the process ends.
CronCrash ==
  /\ Fault
  /\ cronUp
  /\ cronUp' = FALSE
  /\ UNCHANGED <<outbox, publisher, brokerVars, worker, tableVars>>

CronStart ==
  /\ ~cronUp
  /\ cronUp' = TRUE
  /\ UNCHANGED <<outbox, publisher, brokerVars, worker, tableVars, faults>>

-----------------------------------------------------------------------------
PublisherStep(p) ==
  \/ LoadPendingOutboxEvents(p)
  \/ \E i \in Events : PublishEvent(p, i)
  \/ CommitBatch(p)
  \/ StartPublisher(p)

WorkerStep(w) ==
  \/ StartWorker(w)
  \/ \E k \in DOMAIN queue[ConsumerOf[w]] : Receive(w, k)
  \/ ClaimEventForProcessing(w)
  \/ ProcessEvent(w)
  \/ SaveWorkerError(w)
  \/ RepublishForRetry(w)
  \/ MoveToDlq(w)
  \/ Ack(w)

CronStep == DispatchOnce \/ CronStart

FaultStep ==
  \/ \E p \in Publishers, i \in Events : MarkOutboxEventRetry(p, i)
  \/ \E p \in Publishers : CrashPublisher(p)
  \/ \E w \in Workers : ProcessingRaises(w)
  \/ \E w \in Workers : CrashWorker(w)
  \/ CronCrash

Next ==
  \/ \E type \in SourceTypes : AddTaskOutboxEvent(type)
  \/ \E p \in Publishers : PublisherStep(p)
  \/ \E w \in Workers : WorkerStep(w)
  \/ CronStep
  \/ FaultStep

Spec == Init /\ [][Next]_vars

(***************************************************************************)
(* Every process keeps running its loop, and one that ended is started     *)
(* again.  No fairness for the API nor for the faults.                     *)
(***************************************************************************)
Fairness ==
  /\ \A p \in Publishers : WF_vars(PublisherStep(p))
  /\ \A w \in Workers : WF_vars(WorkerStep(w))
  /\ WF_vars(CronStep)

FairSpec == Spec /\ Fairness
-----------------------------------------------------------------------------
\* A consumer commits the work of an event at most once, and exactly when it
\* claims it, however often the event is delivered: worker_event_logs has one
\* row per row of processed_events (worker_runtime.py, the claim and the commit).
HandledOnce ==
  \A c \in Consumer : /\ IsInjective(eventLog[c])
                      /\ Range(eventLog[c]) = processed[c]

\* A transaction that holds the claim of an event is the only one of its consumer
\* to do so, and no earlier one has committed that event: what makes the unique
\* key of processed_events a lock between concurrent and redelivered messages.
ClaimExclusive ==
  \A w \in Workers : worker[w].pc = "claimed" =>
    /\ worker[w].msg.id \notin processed[ConsumerOf[w]]
    /\ \A v \in Workers \ {w} :
         (worker[v].pc = "claimed" /\ ConsumerOf[v] = ConsumerOf[w]) =>
           worker[v].msg.id # worker[w].msg.id

\* Rows the consumers and the cron add to the outbox.
Derived(type) == {i \in Events : outbox[i].type = type}

UniqueCause(type) == \A i, j \in Derived(type) : outbox[i].cause = outbox[j].cause => i = j
Causes(type) == {outbox[i].cause : i \in Derived(type)}

\* Redelivery never derives two events from one: an event has at most one
\* task.enriched event, a delivery at most one notification.sent event, and the
\* derived rows agree with the tables written in the same transactions.
OneDerivedEvent ==
  /\ UniqueCause(Enriched)
  /\ UniqueCause(Sent)
  /\ Causes(Enriched) = enrichments
  /\ Causes(Sent) = delivered
  /\ delivered \subseteq deliveries

Holds(w, i) == worker[w].pc \notin {"down", "idle"} /\ worker[w].msg.id = i

\* Where an event that reached the queue of consumer c can be.
Accounted(c, i) ==
  \/ \E k \in DOMAIN queue[c] : queue[c][k].id = i
  \/ \E w \in Workers : ConsumerOf[w] = c /\ Holds(w, i)
  \/ i \in processed[c]
  \/ \E m \in dlq[c] : m.id = i

\* An event marked published is, for every consumer subscribed to it whose
\* queue exists, still queued, in the hands of a worker, processed, or in the
\* dead-letter queue: no crash between publish, commit and ack loses it.
PublishedNotLost ==
  \A i \in Events, c \in InitiallyBound :
    (outbox[i].status = "published" /\ Receives(c, outbox[i].type)) => Accounted(c, i)

\* The same for every consumer of the system, as the README promises of the
\* transactional outbox (violated while a worker was never started).
CommittedEventNotLost ==
  \A i \in Events, c \in Consumer :
    (outbox[i].status = "published" /\ Receives(c, outbox[i].type)) => Accounted(c, i)

\* An event a consumer dead-letters without having processed it was tried by
\* that same consumer with every retry count up to the limit, although the
\* copies it counts may come from the retries of other consumers.  So it is while
\* error rows are saved and each consumer has one worker, as in docker-compose.yml.
DeadLetterAfterAllRetries ==
  \A c \in InitiallyBound : \A m \in dlq[c] :
    m.id \notin processed[c] =>
      \A r \in 0..MaxRetry : [id |-> m.id, retry |-> r] \in errors[c]

\* The rows of the tables, read as the chain of events they record.
Chain == INSTANCE EventChain WITH
  written  <- {i \in Events : outbox[i].type \in Enrichable},
  enriched <- {<<outbox[i].cause, i>> : i \in Derived(Enriched)},
  queued   <- deliveries,
  sent     <- {<<outbox[i].cause, i>> : i \in Derived(Sent)}

\* The pipeline implements the chain: whatever is redelivered, retried or lost
\* in a crash, a task event is enriched, queued and reported at most once.
ImplementsChain == Chain!Spec

\* Every event the API writes ends up published and, at each of its consumers,
\* processed or dead-lettered, provided ended processes are started again.
Settled(i) ==
  /\ outbox[i].status = "published"
  /\ \A c \in InitiallyBound : Receives(c, outbox[i].type) =>
       i \in processed[c] \/ \E m \in dlq[c] : m.id = i

EventuallySettled ==
  \A i \in 1..(3 * MaxSource) : (i \in Events) ~> (i \in Events /\ Settled(i))
=============================================================================

------------------------ MODULE EventPipelineProofs -------------------------
(***************************************************************************)
(* Theorems about EventPipeline, for every number of publishers, workers,  *)
(* events, retries and faults.                                             *)
(***************************************************************************)
EXTENDS EventPipeline, SequenceTheorems, TLAPS

USE DEF brokerVars, tableVars

-----------------------------------------------------------------------------
(* Type correctness *)

LEMMA NewRowType ==
  ASSUME NEW type \in EventType, NEW cause \in Nat
  PROVE  NewRow(type, cause) \in Row
  BY DEF NewRow, Row

LEMMA TypesAreEventTypes ==
  /\ Enriched \in EventType
  /\ Sent \in EventType
  /\ SourceTypes \subseteq EventType
  BY PipelineAssumption DEF EventType

\* The copies an exchange makes leave every queue a sequence of messages.
LEMMA ExchangeType ==
  ASSUME TypeOK, NEW m \in Message, ExchangePublish(m)
  PROVE  queue' \in [Consumer -> Seq(Message)]
  BY DEF TypeOK, ExchangePublish

LEMMA FaultType == ASSUME TypeOK, Fault PROVE faults' \in Nat
  BY DEF TypeOK, Fault

\* A process moves to a state of its type.
LEMMA WorkerType ==
  ASSUME TypeOK, NEW w \in Workers, NEW s \in WorkerState,
         worker' = [worker EXCEPT ![w] = s]
  PROVE  worker' \in [Workers -> WorkerState]
  BY DEF TypeOK

LEMMA WorkerPcType ==
  ASSUME TypeOK, NEW w \in Workers, NEW pc \in WorkerPC,
         worker' = [worker EXCEPT ![w].pc = pc]
  PROVE  worker' \in [Workers -> WorkerState]
  BY DEF TypeOK, WorkerState

LEMMA IdleTypes ==
  /\ IdlePublisher("polling") \in PublisherState /\ IdlePublisher("down") \in PublisherState
  /\ IdleWorker("idle") \in WorkerState /\ IdleWorker("down") \in WorkerState
  BY DEF IdlePublisher, IdleWorker, PublisherState, WorkerState, PublisherPC, WorkerPC,
         Message, NoMessage

\* The message of a worker and the consumer it works for.
LEMMA HeldType ==
  ASSUME TypeOK, NEW w \in Workers
  PROVE  /\ ConsumerOf[w] \in Consumer
         /\ worker[w].msg \in Message
         /\ worker[w].msg.id \in Nat
         /\ worker[w].msg.retry \in Nat
  BY PipelineAssumption DEF TypeOK, WorkerState, Message

\* What the transaction of a worker commits, consumer by consumer.
LEMMA ProcessEffects ==
  ASSUME TypeOK, NEW w \in Workers, ProcessEvent(w)
  PROVE  LET id == worker[w].msg.id IN
    /\ ConsumerOf[w] = Enrichment =>
         /\ \/ /\ outbox[id].type \in Enrichable
               /\ id \notin enrichments
               /\ enrichments' = enrichments \cup {id}
               /\ outbox' = Append(outbox, NewRow(Enriched, id))
            \/ /\ ~(outbox[id].type \in Enrichable /\ id \notin enrichments)
               /\ UNCHANGED <<enrichments, outbox>>
         /\ UNCHANGED deliveries
    /\ ConsumerOf[w] = Notification =>
         /\ \/ HasEmail(id) /\ id \notin deliveries /\ deliveries' = deliveries \cup {id}
            \/ ~HasEmail(id) /\ UNCHANGED deliveries
         /\ UNCHANGED <<enrichments, outbox>>
    /\ ConsumerOf[w] = Audit => UNCHANGED <<enrichments, outbox, deliveries>>
  BY DEF ProcessEvent, EventHandler, HandleEnrichmentEvent, HandleNotificationEvent,
     HandleAuditEvent, UniqueViolation, Consumer, Enrichment, Notification, Audit

LEMMA TypeInit == Init => TypeOK
<1> SUFFICES ASSUME Init PROVE TypeOK
  OBVIOUS
<1>1. publisher \in [Publishers -> PublisherState]
  BY DEF Init, IdlePublisher, PublisherState, PublisherPC
<1>2. worker \in [Workers -> WorkerState]
  BY DEF Init, WorkerState, IdleWorker, NoMessage, WorkerPC, Message
<1>3. bound \in SUBSET Consumer
  BY PipelineAssumption DEF Init
<1> QED
  BY <1>1, <1>2, <1>3 DEF Init, TypeOK

LEMMA TypeStep == TypeOK /\ [Next]_vars => TypeOK'
<1> SUFFICES ASSUME TypeOK, [Next]_vars PROVE TypeOK'
  OBVIOUS
<1> USE PipelineAssumption
<1>1. ASSUME NEW type \in SourceTypes, AddTaskOutboxEvent(type) PROVE TypeOK'
  <2>1. NewRow(type, 0) \in Row
    BY NewRowType, TypesAreEventTypes
  <2> QED
    BY <1>1, <2>1 DEF AddTaskOutboxEvent, TypeOK
<1>2. ASSUME NEW p \in Publishers, LoadPendingOutboxEvents(p) PROVE TypeOK'
  <2> DEFINE batch == Oldest(Pending \ LockedRows, BatchSize)
             s == [pc |-> "publishing", batch |-> batch, todo |-> batch, sent |-> {}]
  <2>1. batch \in SUBSET Nat
    BY DEF Oldest, Pending, Events
  <2>2. s \in PublisherState
    BY <2>1 DEF PublisherState, PublisherPC
  <2> HIDE DEF s
  <2>3. publisher' \in [Publishers -> PublisherState]
    BY <1>2, <2>2 DEF LoadPendingOutboxEvents, TypeOK, s
  <2> QED
    BY <1>2, <2>3 DEF LoadPendingOutboxEvents, TypeOK
<1>3. ASSUME NEW p \in Publishers, NEW i \in Events, PublishEvent(p, i) PROVE TypeOK'
  <2>1. i \in Nat /\ [id |-> i, retry |-> 0] \in Message
    BY DEF Events, Message
  <2>2. queue' \in [Consumer -> Seq(Message)]
    BY <1>3, <2>1, ExchangeType DEF PublishEvent
  <2>3. publisher' \in [Publishers -> PublisherState]
    BY <1>3, <2>1 DEF PublishEvent, TypeOK, PublisherState
  <2> QED
    BY <1>3, <2>2, <2>3 DEF PublishEvent, TypeOK
<1>4. ASSUME NEW p \in Publishers, CommitBatch(p) PROVE TypeOK'
  <2>1. \A i \in Events : outbox[i] \in Row
    BY DEF Events, TypeOK
  <2>2. \A r \in Row : [r EXCEPT !.status = "published"] \in Row
    BY DEF Row
  <2>3. \A i \in Events : outbox'[i] \in Row
    BY <1>4, <2>1, <2>2 DEF CommitBatch
  <2>4. Len(outbox) \in Nat /\ outbox' = [i \in 1..Len(outbox) |-> outbox'[i]]
    BY <1>4 DEF CommitBatch, TypeOK, Events
  <2>5. outbox' \in Seq(Row)
    BY <2>3, <2>4 DEF Events
  <2>6. publisher' \in [Publishers -> PublisherState]
    BY <1>4, IdleTypes DEF CommitBatch, TypeOK
  <2> QED
    BY <1>4, <2>5, <2>6 DEF CommitBatch, TypeOK
<1>5. ASSUME NEW p \in Publishers, StartPublisher(p) PROVE TypeOK'
  BY <1>5, IdleTypes DEF StartPublisher, TypeOK
<1>6. ASSUME NEW w \in Workers, StartWorker(w) PROVE TypeOK'
  <2>1. worker' \in [Workers -> WorkerState]
    BY <1>6, WorkerType, IdleTypes DEF StartWorker
  <2>2. bound' \in SUBSET Consumer
    BY <1>6, HeldType DEF StartWorker, TypeOK
  <2> QED
    BY <1>6, <2>1, <2>2 DEF StartWorker, TypeOK
<1>7. ASSUME NEW w \in Workers, NEW k \in DOMAIN queue[ConsumerOf[w]], Receive(w, k)
      PROVE TypeOK'
  <2> DEFINE c == ConsumerOf[w]
             rest == SubSeq(queue[c], 1, k - 1) \o SubSeq(queue[c], k + 1, Len(queue[c]))
  <2>1. c \in Consumer /\ queue[c] \in Seq(Message)
    BY <1>7, HeldType DEF TypeOK
  <2>2. k \in 1..Len(queue[c]) /\ queue[c][k] \in Message
    BY <1>7, <2>1
  <2>3. rest \in Seq(Message)
    <3>1. SubSeq(queue[c], 1, k - 1) \in Seq(Message)
      BY <2>1, <2>2
    <3>2. SubSeq(queue[c], k + 1, Len(queue[c])) \in Seq(Message)
      BY <2>1, <2>2
    <3> QED
      BY <3>1, <3>2, ConcatProperties
  <2>4. [pc |-> "received", msg |-> queue[c][k]] \in WorkerState
    BY <2>2 DEF WorkerState, WorkerPC
  <2>5. worker' \in [Workers -> WorkerState]
    BY <1>7, <2>4, WorkerType DEF Receive
  <2>6. queue' = [queue EXCEPT ![c] = rest]
    BY <1>7 DEF Receive
  <2> HIDE DEF rest
  <2>7. queue' \in [Consumer -> Seq(Message)]
    BY <2>1, <2>3, <2>6 DEF TypeOK
  <2> QED
    BY <1>7, <2>5, <2>7 DEF Receive, TypeOK
<1>8. ASSUME NEW w \in Workers, ClaimEventForProcessing(w) PROVE TypeOK'
  <2>1. worker' \in [Workers -> WorkerState]
    BY <1>8, WorkerPcType DEF ClaimEventForProcessing, WorkerPC
  <2> QED
    BY <1>8, <2>1 DEF ClaimEventForProcessing, TypeOK
<1>9. ASSUME NEW w \in Workers, ProcessEvent(w) PROVE TypeOK'
  <2> DEFINE c == ConsumerOf[w]
             id == worker[w].msg.id
  <2>1. c \in Consumer /\ id \in Nat
    BY HeldType
  <2>2. NewRow(Enriched, id) \in Row
    BY <2>1, NewRowType, TypesAreEventTypes
  <2>3. \/ outbox' = Append(outbox, NewRow(Enriched, id))
        \/ outbox' = outbox
    BY <1>9, <2>1, ProcessEffects DEF Consumer
  <2>4. /\ outbox' \in Seq(Row)
        /\ enrichments' \in SUBSET Nat
        /\ deliveries' \in SUBSET Nat
    <3>1. outbox \in Seq(Row) /\ enrichments \in SUBSET Nat /\ deliveries \in SUBSET Nat
      BY DEF TypeOK
    <3>2. outbox' \in Seq(Row)
      BY <2>2, <2>3, <3>1
    <3> QED
      BY <1>9, <2>1, <3>1, <3>2, ProcessEffects DEF Consumer
  <2>5. worker' \in [Workers -> WorkerState]
    BY <1>9, WorkerPcType DEF ProcessEvent, WorkerPC
  <2>6. /\ processed' \in [Consumer -> SUBSET Nat]
        /\ eventLog' \in [Consumer -> Seq(Nat)]
    BY <1>9, <2>1 DEF ProcessEvent, TypeOK
  <2>7. UNCHANGED <<publisher, bound, queue, dlq, errors, delivered, cronUp, faults>>
    BY <1>9 DEF ProcessEvent
  <2> QED
    BY <2>4, <2>5, <2>6, <2>7 DEF TypeOK
<1>10. ASSUME NEW w \in Workers, SaveWorkerError(w) PROVE TypeOK'
  <2>1. worker' \in [Workers -> WorkerState]
    BY <1>10, WorkerPcType DEF SaveWorkerError, WorkerPC
  <2>2. errors' \in [Consumer -> SUBSET Message]
    <3>1. \/ errors' = errors
          \/ errors' = [errors EXCEPT ![ConsumerOf[w]] = @ \cup {worker[w].msg}]
      BY <1>10 DEF SaveWorkerError
    <3>2. errors \in [Consumer -> SUBSET Message]
      BY DEF TypeOK
    <3> QED
      BY <3>1, <3>2, HeldType
  <2>3. faults' \in Nat
    BY <1>10, FaultType DEF SaveWorkerError, TypeOK
  <2> QED
    BY <1>10, <2>1, <2>2, <2>3 DEF SaveWorkerError, TypeOK
<1>11. ASSUME NEW w \in Workers, RepublishForRetry(w) PROVE TypeOK'
  <2>1. [worker[w].msg EXCEPT !.retry = @ + 1] \in Message
    BY HeldType DEF Message
  <2>2. queue' \in [Consumer -> Seq(Message)]
    BY <1>11, <2>1, ExchangeType DEF RepublishForRetry
  <2>3. worker' \in [Workers -> WorkerState]
    BY <1>11, WorkerPcType DEF RepublishForRetry, WorkerPC
  <2> QED
    BY <1>11, <2>2, <2>3 DEF RepublishForRetry, TypeOK
<1>12. ASSUME NEW w \in Workers, MoveToDlq(w) PROVE TypeOK'
  <2>1. worker' \in [Workers -> WorkerState]
    BY <1>12, WorkerType, IdleTypes DEF MoveToDlq
  <2>2. dlq' \in [Consumer -> SUBSET Message]
    BY <1>12, HeldType DEF MoveToDlq, TypeOK
  <2> QED
    BY <1>12, <2>1, <2>2 DEF MoveToDlq, TypeOK
<1>13. ASSUME NEW w \in Workers, Ack(w) PROVE TypeOK'
  <2>1. worker' \in [Workers -> WorkerState]
    BY <1>13, WorkerType, IdleTypes DEF Ack
  <2> QED
    BY <1>13, <2>1 DEF Ack, TypeOK
<1>14. CASE DispatchOnce
  <2> PICK b \in DispatchBatch :
             /\ delivered' = delivered \cup Range(b)
             /\ outbox' = outbox \o [k \in DOMAIN b |-> NewRow(Sent, b[k])]
    BY <1>14 DEF DispatchOnce
  <2>1. PICK n \in Nat : b \in [1..n -> Nat]
    <3>1. PICK n \in 0..DispatchLimit : b \in [1..n -> Dispatchable]
      BY DEF DispatchBatch
    <3>2. n \in Nat /\ Dispatchable \subseteq Nat
      BY DEF Dispatchable, TypeOK
    <3> QED
      BY <3>1, <3>2
  <2> DEFINE rows == [k \in 1..n |-> NewRow(Sent, b[k])]
  <2>2. \A k \in 1..n : NewRow(Sent, b[k]) \in Row
    BY <2>1, NewRowType, TypesAreEventTypes
  <2>3. rows \in Seq(Row)
    BY <2>1, <2>2
  <2>4. outbox' = outbox \o rows
    BY <2>1
  <2> HIDE DEF rows
  <2>5. outbox' \in Seq(Row)
    <3>1. outbox \in Seq(Row)
      BY DEF TypeOK
    <3>2. outbox \o rows \in Seq(Row)
      BY ONLY <2>3, <3>1, ConcatProperties
    <3> QED
      BY ONLY <2>4, <3>2
  <2>6. delivered' \in SUBSET Nat
    BY <2>1 DEF TypeOK, Range
  <2> QED
    BY <1>14, <2>5, <2>6 DEF DispatchOnce, TypeOK
<1>15. CASE CronStart
  BY <1>15 DEF CronStart, TypeOK
<1>16. ASSUME NEW p \in Publishers, NEW i \in Events, MarkOutboxEventRetry(p, i)
       PROVE  TypeOK'
  <2>1. publisher' \in [Publishers -> PublisherState]
    BY <1>16 DEF MarkOutboxEventRetry, TypeOK, PublisherState
  <2>2. faults' \in Nat
    BY <1>16, FaultType DEF MarkOutboxEventRetry
  <2> QED
    BY <1>16, <2>1, <2>2 DEF MarkOutboxEventRetry, TypeOK
<1>17. ASSUME NEW p \in Publishers, CrashPublisher(p) PROVE TypeOK'
  <2>1. publisher' \in [Publishers -> PublisherState]
    BY <1>17, IdleTypes DEF CrashPublisher, TypeOK
  <2>2. faults' \in Nat
    BY <1>17, FaultType DEF CrashPublisher
  <2> QED
    BY <1>17, <2>1, <2>2 DEF CrashPublisher, TypeOK
<1>18. ASSUME NEW w \in Workers, ProcessingRaises(w) PROVE TypeOK'
  <2>1. worker' \in [Workers -> WorkerState]
    BY <1>18, WorkerPcType DEF ProcessingRaises, WorkerPC
  <2>2. faults' \in Nat
    BY <1>18, FaultType DEF ProcessingRaises, TypeOK
  <2> QED
    BY <1>18, <2>1, <2>2 DEF ProcessingRaises, TypeOK
<1>19. ASSUME NEW w \in Workers, CrashWorker(w) PROVE TypeOK'
  <2> DEFINE c == ConsumerOf[w]
  <2>1. c \in Consumer /\ <<worker[w].msg>> \o queue[c] \in Seq(Message)
    <3>1. c \in Consumer /\ <<worker[w].msg>> \in Seq(Message) /\ queue[c] \in Seq(Message)
      BY HeldType DEF TypeOK
    <3> QED
      BY <3>1
  <2>2. queue' \in [Consumer -> Seq(Message)]
    BY <1>19, <2>1 DEF CrashWorker, TypeOK
  <2>3. worker' \in [Workers -> WorkerState]
    BY <1>19, WorkerType, IdleTypes DEF CrashWorker
  <2>4. faults' \in Nat
    BY <1>19, FaultType DEF CrashWorker
  <2> QED
    BY <1>19, <2>2, <2>3, <2>4 DEF CrashWorker, TypeOK
<1>20. CASE CronCrash
  <2>1. faults' \in Nat
    BY <1>20, FaultType DEF CronCrash
  <2> QED
    BY <1>20, <2>1 DEF CronCrash, TypeOK
<1>21. CASE UNCHANGED vars
  BY <1>21 DEF vars, TypeOK
<1> QED
  BY <1>1, <1>2, <1>3, <1>4, <1>5, <1>6, <1>7, <1>8, <1>9, <1>10, <1>11, <1>12, <1>13,
     <1>14, <1>15, <1>16, <1>17, <1>18, <1>19, <1>20, <1>21
     DEF Next, PublisherStep, WorkerStep, CronStep, FaultStep

\* Every table, queue and process state of the pipeline keeps its type.
THEOREM TypeCorrect == Spec => []TypeOK
<1>1. Init => TypeOK
  BY TypeInit
<1>2. TypeOK /\ [Next]_vars => TypeOK'
  BY TypeStep
<1> QED
  BY <1>1, <1>2, PTL DEF Spec
-----------------------------------------------------------------------------
(* Exactly one commit per event and consumer *)

LEMMA AppendNewValue ==
  ASSUME NEW S, NEW s \in Seq(S), NEW x \in S, IsInjective(s), x \notin Range(s)
  PROVE  /\ IsInjective(Append(s, x))
         /\ Range(Append(s, x)) = Range(s) \cup {x}
<1>1. /\ DOMAIN s = 1..Len(s) /\ Len(s) \in Nat
      /\ DOMAIN Append(s, x) = 1..(Len(s) + 1)
      /\ \A k \in 1..Len(s) : Append(s, x)[k] = s[k]
      /\ Append(s, x)[Len(s) + 1] = x
  OBVIOUS
<1>2. IsInjective(Append(s, x))
  BY <1>1 DEF IsInjective, Range
<1>3. Range(Append(s, x)) = Range(s) \cup {x}
  BY <1>1 DEF Range
<1> QED
  BY <1>2, <1>3

HandledInv == TypeOK /\ HandledOnce /\ ClaimExclusive

\* Steps that touch neither table and open no claim preserve the invariant.
LEMMA HandledFrame ==
  ASSUME HandledInv, TypeOK', UNCHANGED <<processed, eventLog>>,
         \A v \in Workers : worker'[v].pc = "claimed" => worker'[v] = worker[v]
  PROVE  HandledInv'
  BY DEF HandledInv, HandledOnce, ClaimExclusive

\* A worker that moves to another state than "claimed" opens no claim.
LEMMA NoNewClaim ==
  ASSUME TypeOK, NEW w \in Workers, NEW s \in WorkerState, s.pc # "claimed",
         worker' = [worker EXCEPT ![w] = s]
  PROVE  \A v \in Workers : worker'[v].pc = "claimed" => worker'[v] = worker[v]
  BY DEF TypeOK

LEMMA NoNewClaimPc ==
  ASSUME TypeOK, NEW w \in Workers, NEW pc \in WorkerPC, pc # "claimed",
         worker' = [worker EXCEPT ![w].pc = pc]
  PROVE  \A v \in Workers : worker'[v].pc = "claimed" => worker'[v] = worker[v]
  BY DEF TypeOK, WorkerState

LEMMA HandledInit == Init => HandledInv
<1> SUFFICES ASSUME Init PROVE HandledInv
  OBVIOUS
<1>1. HandledOnce
  BY DEF Init, HandledOnce, IsInjective, Range
<1>2. ClaimExclusive
  BY DEF Init, ClaimExclusive, IdleWorker
<1> QED
  BY <1>1, <1>2, TypeInit DEF HandledInv

LEMMA HandledStep == HandledInv /\ [Next]_vars => HandledInv'
<1> SUFFICES ASSUME HandledInv, [Next]_vars PROVE HandledInv'
  OBVIOUS
<1>0. TypeOK /\ TypeOK'
  BY TypeStep DEF HandledInv
<1>1. ASSUME NEW w \in Workers, StartWorker(w) PROVE HandledInv'
  BY <1>0, <1>1, HandledFrame, NoNewClaim, IdleTypes DEF StartWorker, IdleWorker
<1>2. ASSUME NEW w \in Workers, NEW k \in DOMAIN queue[ConsumerOf[w]], Receive(w, k)
      PROVE HandledInv'
  <2>1. \A v \in Workers : worker'[v].pc = "claimed" => worker'[v] = worker[v]
    BY <1>0, <1>2 DEF Receive, TypeOK
  <2> QED
    BY <1>0, <1>2, <2>1, HandledFrame DEF Receive
<1>3. ASSUME NEW w \in Workers, ClaimEventForProcessing(w) PROVE HandledInv'
  <2>1. HandledOnce'
    BY <1>3 DEF ClaimEventForProcessing, HandledInv, HandledOnce
  <2>2. CASE worker[w].msg.id \in processed[ConsumerOf[w]]
    BY <1>0, <1>3, <2>2, HandledFrame, NoNewClaimPc DEF ClaimEventForProcessing, WorkerPC
  <2>3. CASE worker[w].msg.id \notin processed[ConsumerOf[w]]
    <3>1. /\ worker'[w].pc = "claimed" /\ worker'[w].msg = worker[w].msg
          /\ \A v \in Workers \ {w} : worker'[v] = worker[v]
      BY <1>0, <1>3, <2>3 DEF ClaimEventForProcessing, TypeOK, WorkerState
    <3>2. \A v \in Workers \ {w} :
            (worker[v].pc = "claimed" /\ ConsumerOf[v] = ConsumerOf[w]) =>
              worker[v].msg.id # worker[w].msg.id
      BY <1>3 DEF ClaimEventForProcessing, ClaimHeldByOther
    <3>3. processed' = processed
      BY <1>3 DEF ClaimEventForProcessing
    <3>4. ClaimExclusive'
      BY <2>3, <3>1, <3>2, <3>3 DEF ClaimExclusive, HandledInv
    <3> QED
      BY <1>0, <2>1, <3>4 DEF HandledInv
  <2> QED
    BY <2>2, <2>3
<1>4. ASSUME NEW w \in Workers, ProcessEvent(w) PROVE HandledInv'
  <2> DEFINE c == ConsumerOf[w]
             id == worker[w].msg.id
  <2>1. c \in Consumer /\ id \in Nat
    BY <1>0, HeldType
  <2>2. /\ worker[w].pc = "claimed"
        /\ processed' = [processed EXCEPT ![c] = @ \cup {id}]
        /\ eventLog' = [eventLog EXCEPT ![c] = Append(@, id)]
        /\ worker' = [worker EXCEPT ![w].pc = "acking"]
    BY <1>4 DEF ProcessEvent
  <2>3. id \notin processed[c]
    BY <2>2 DEF HandledInv, ClaimExclusive
  <2>4. HandledOnce'
    <3>1. eventLog[c] \in Seq(Nat) /\ IsInjective(eventLog[c]) /\ Range(eventLog[c]) = processed[c]
      BY <1>0, <2>1 DEF HandledInv, HandledOnce, TypeOK
    <3>2. /\ IsInjective(Append(eventLog[c], id))
          /\ Range(Append(eventLog[c], id)) = processed[c] \cup {id}
      <4>1. id \notin Range(eventLog[c])
        BY <2>3, <3>1
      <4> HIDE DEF c, id
      <4> QED
        BY <2>1, <3>1, <4>1, AppendNewValue
    <3>3. /\ eventLog'[c] = Append(eventLog[c], id)
          /\ processed'[c] = processed[c] \cup {id}
          /\ \A d \in Consumer \ {c} : eventLog'[d] = eventLog[d] /\ processed'[d] = processed[d]
      BY <1>0, <2>1, <2>2 DEF TypeOK
    <3> QED
      BY <3>2, <3>3 DEF HandledOnce, HandledInv
  <2>5. ClaimExclusive'
    <3>1. worker'[w].pc = "acking" /\ \A v \in Workers \ {w} : worker'[v] = worker[v]
      BY <1>0, <2>2 DEF TypeOK, WorkerState
    <3>2. \A d \in Consumer : processed'[d] = IF d = c THEN processed[d] \cup {id} ELSE processed[d]
      BY <1>0, <2>1, <2>2 DEF TypeOK
    <3>3. \A v \in Workers : ConsumerOf[v] \in Consumer
      BY <1>0, HeldType
    <3> QED
      BY <2>2, <3>1, <3>2, <3>3 DEF ClaimExclusive, HandledInv
  <2> QED
    BY <1>0, <2>4, <2>5 DEF HandledInv
<1>5. ASSUME NEW w \in Workers, SaveWorkerError(w) PROVE HandledInv'
  BY <1>0, <1>5, HandledFrame, NoNewClaimPc DEF SaveWorkerError, WorkerPC
<1>6. ASSUME NEW w \in Workers, RepublishForRetry(w) PROVE HandledInv'
  BY <1>0, <1>6, HandledFrame, NoNewClaimPc DEF RepublishForRetry, WorkerPC
<1>7. ASSUME NEW w \in Workers, MoveToDlq(w) PROVE HandledInv'
  BY <1>0, <1>7, HandledFrame, NoNewClaim, IdleTypes DEF MoveToDlq, IdleWorker
<1>8. ASSUME NEW w \in Workers, Ack(w) PROVE HandledInv'
  BY <1>0, <1>8, HandledFrame, NoNewClaim, IdleTypes DEF Ack, IdleWorker
<1>9. ASSUME NEW w \in Workers, ProcessingRaises(w) PROVE HandledInv'
  BY <1>0, <1>9, HandledFrame, NoNewClaimPc DEF ProcessingRaises, WorkerPC
<1>10. ASSUME NEW w \in Workers, CrashWorker(w) PROVE HandledInv'
  BY <1>0, <1>10, HandledFrame, NoNewClaim, IdleTypes DEF CrashWorker, IdleWorker
<1>11. ASSUME UNCHANGED <<worker, processed, eventLog>> PROVE HandledInv'
  BY <1>0, <1>11, HandledFrame
<1> QED
  <2>1. CASE UNCHANGED vars
    BY <1>11, <2>1 DEF vars
  <2>2. CASE Next
    BY <1>1, <1>2, <1>3, <1>4, <1>5, <1>6, <1>7, <1>8, <1>9, <1>10, <1>11, <2>2
       DEF Next, PublisherStep, WorkerStep, CronStep, FaultStep, AddTaskOutboxEvent,
           LoadPendingOutboxEvents, PublishEvent, CommitBatch, StartPublisher, DispatchOnce,
           CronStart, MarkOutboxEventRetry, CrashPublisher, CronCrash
  <2> QED
    BY <2>1, <2>2

\* However often an event is delivered, a consumer commits its work exactly once.
THEOREM EventsHandledOnce == Spec => []HandledOnce
<1>1. Init => HandledInv
  BY HandledInit
<1>2. HandledInv /\ [Next]_vars => HandledInv'
  BY HandledStep
<1>3. HandledInv => HandledOnce
  BY DEF HandledInv
<1> QED
  BY <1>1, <1>2, <1>3, PTL DEF Spec

\* The unique key of processed_events is a lock: of the open transactions of a consumer,
\* one at most holds the claim of an event, and only of one that is not yet processed.
THEOREM ClaimsAreLocks == Spec => []ClaimExclusive
<1>1. Init => HandledInv
  BY HandledInit
<1>2. HandledInv /\ [Next]_vars => HandledInv'
  BY HandledStep
<1>3. HandledInv => ClaimExclusive
  BY DEF HandledInv
<1> QED
  BY <1>1, <1>2, <1>3, PTL DEF Spec

-----------------------------------------------------------------------------
(* At most one derived event *)

LEMMA TypesDistinct ==
  /\ Enriched # Sent
  /\ Enriched \notin TaskEventType
  /\ Sent \notin TaskEventType
  BY DEF Enriched, Sent, TaskEventType, Created, StatusChanged, Deleted

\* Appending rows leaves the earlier ones in place.
LEMMA AppendRows ==
  ASSUME TypeOK, NEW rows \in Seq(Row), outbox' = outbox \o rows
  PROVE  /\ Len(outbox) \in Nat /\ Len(rows) \in Nat
         /\ Events' \subseteq Nat
         /\ Events \subseteq Events'
         /\ \A i \in Events : outbox'[i] = outbox[i]
         /\ \A i \in Events' \ Events :
              /\ i - Len(outbox) \in 1..Len(rows)
              /\ outbox'[i] = rows[i - Len(outbox)]
         /\ \A k \in 1..Len(rows) : /\ Len(outbox) + k \in Events' \ Events
                                    /\ outbox'[Len(outbox) + k] = rows[k]
<1>1. outbox \in Seq(Row)
  BY DEF TypeOK
<1>2. /\ Len(outbox') = Len(outbox) + Len(rows)
      /\ \A i \in 1..(Len(outbox) + Len(rows)) : outbox'[i] =
           IF i <= Len(outbox) THEN outbox[i] ELSE rows[i - Len(outbox)]
  BY <1>1, ConcatProperties
<1>3. Len(outbox) \in Nat /\ Len(rows) \in Nat
  BY <1>1
<1> QED
  BY <1>2, <1>3 DEF Events

LEMMA AppendRow ==
  ASSUME TypeOK, NEW row \in Row, outbox' = Append(outbox, row)
  PROVE  /\ Events' = Events \cup {Len(outbox) + 1}
         /\ Len(outbox) + 1 \notin Events
         /\ \A i \in Events : outbox'[i] = outbox[i]
         /\ outbox'[Len(outbox) + 1] = row
  BY DEF TypeOK, Events

\* Steps that keep the rows of a type, and their causes, keep what is said of them.
LEMMA SameRows ==
  ASSUME NEW type, Derived(type)' = Derived(type),
         \A i \in Derived(type) : outbox'[i].cause = outbox[i].cause
  PROVE  /\ UniqueCause(type) => UniqueCause(type)'
         /\ Causes(type)' = Causes(type)
  BY DEF UniqueCause, Causes

\* Steps that keep type and cause of every row and the derived tables.
LEMMA DerivedFrame ==
  ASSUME OneDerivedEvent, Events' = Events,
         \A i \in Events : outbox'[i].type = outbox[i].type /\ outbox'[i].cause = outbox[i].cause,
         UNCHANGED <<enrichments, delivered>>, deliveries \subseteq deliveries'
  PROVE  OneDerivedEvent'
<1>1. \A type \in {Enriched, Sent} :
        /\ Derived(type)' = Derived(type)
        /\ \A i \in Derived(type) : outbox'[i].cause = outbox[i].cause
  BY DEF Derived
<1> QED
  BY <1>1, SameRows DEF OneDerivedEvent

LEMMA DerivedInit == Init => OneDerivedEvent
  BY DEF Init, OneDerivedEvent, UniqueCause, Causes, Derived, Events

LEMMA DerivedSource ==
  ASSUME TypeOK, OneDerivedEvent, NEW type \in SourceTypes, AddTaskOutboxEvent(type)
  PROVE  OneDerivedEvent'
<1> DEFINE row == NewRow(type, 0)
<1>1. row \in Row /\ row.type = type
  BY NewRowType, TypesAreEventTypes DEF NewRow
<1>2. row.type # Enriched /\ row.type # Sent
  BY <1>1, TypesDistinct, PipelineAssumption
<1>3. /\ outbox' = Append(outbox, row)
      /\ UNCHANGED <<enrichments, deliveries, delivered>>
  BY DEF AddTaskOutboxEvent
<1> HIDE DEF row
<1>4. \A t \in {Enriched, Sent} :
        /\ Derived(t)' = Derived(t)
        /\ \A i \in Derived(t) : outbox'[i].cause = outbox[i].cause
  BY <1>1, <1>2, <1>3, AppendRow DEF Derived
<1> QED
  BY <1>3, <1>4, SameRows DEF OneDerivedEvent

LEMMA DerivedEnrichment ==
  ASSUME TypeOK, OneDerivedEvent, NEW id \in Nat, id \notin enrichments,
         enrichments' = enrichments \cup {id},
         outbox' = Append(outbox, NewRow(Enriched, id)),
         UNCHANGED <<deliveries, delivered>>
  PROVE  OneDerivedEvent'
<1> DEFINE row == NewRow(Enriched, id)
           n == Len(outbox) + 1
<1>1. row \in Row /\ row.type = Enriched /\ row.cause = id
  BY NewRowType, TypesAreEventTypes DEF NewRow
<1>2. /\ Events' = Events \cup {n} /\ n \notin Events
      /\ \A i \in Events : outbox'[i] = outbox[i]
      /\ outbox'[n] = row
  BY <1>1, AppendRow
<1> HIDE DEF row, n
<1>3. /\ Derived(Enriched)' = Derived(Enriched) \cup {n}
      /\ n \notin Derived(Enriched)
      /\ Derived(Sent)' = Derived(Sent)
  BY <1>1, <1>2, TypesDistinct DEF Derived
<1>4. \A t \in {Enriched, Sent} : \A i \in Derived(t) : outbox'[i] = outbox[i]
  BY <1>2 DEF Derived
<1>5. \A i \in Derived(Enriched) : outbox[i].cause # id
  BY DEF OneDerivedEvent, Causes
<1>6. UniqueCause(Enriched)'
  <2> SUFFICES ASSUME NEW i \in Derived(Enriched)', NEW j \in Derived(Enriched)',
                      outbox'[i].cause = outbox'[j].cause
               PROVE  i = j
    BY DEF UniqueCause
  <2>1. CASE i \in Derived(Enriched) /\ j \in Derived(Enriched)
    BY <1>4, <2>1 DEF OneDerivedEvent, UniqueCause
  <2>2. ASSUME NEW x \in Derived(Enriched) PROVE outbox'[x].cause # outbox'[n].cause
    BY <1>1, <1>2, <1>4, <1>5
  <2> QED
    BY <1>3, <2>1, <2>2
<1>7. Causes(Enriched)' = enrichments'
  <2>1. Causes(Enriched)' = Causes(Enriched) \cup {id}
    <3>1. outbox'[n].cause = id
      BY <1>1, <1>2
    <3>2. Causes(Enriched)' = {outbox'[i].cause : i \in Derived(Enriched)'}
      BY DEF Causes
    <3>3. {outbox'[i].cause : i \in Derived(Enriched)} = Causes(Enriched)
      BY <1>4 DEF Causes
    <3> QED
      BY <1>3, <3>1, <3>2, <3>3
  <2> QED
    BY <2>1 DEF OneDerivedEvent
<1>8. UniqueCause(Sent)' /\ Causes(Sent)' = delivered'
  BY <1>3, <1>4, SameRows DEF OneDerivedEvent
<1> QED
  BY <1>6, <1>7, <1>8 DEF OneDerivedEvent

LEMMA DerivedDispatch ==
  ASSUME TypeOK, OneDerivedEvent, DispatchOnce
  PROVE  OneDerivedEvent'
<1> PICK b \in DispatchBatch :
           /\ delivered' = delivered \cup Range(b)
           /\ outbox' = outbox \o [k \in DOMAIN b |-> NewRow(Sent, b[k])]
  BY DEF DispatchOnce
<1>1. PICK n \in Nat : b \in [1..n -> Dispatchable]
  BY DEF DispatchBatch
<1>2. \A k, l \in 1..n : b[k] = b[l] => k = l
  BY <1>1 DEF DispatchBatch, IsInjective
<1>3. \A k \in 1..n : b[k] \in Nat /\ b[k] \in deliveries /\ b[k] \notin delivered
  BY <1>1 DEF Dispatchable, TypeOK
<1> DEFINE rows == [k \in 1..n |-> NewRow(Sent, b[k])]
           m == Len(outbox)
<1>4. \A k \in 1..n : rows[k] \in Row /\ rows[k].type = Sent /\ rows[k].cause = b[k]
  BY <1>3, NewRowType, TypesAreEventTypes DEF NewRow
<1>5. rows \in Seq(Row) /\ Len(rows) = n
  BY <1>4
<1>6. outbox' = outbox \o rows
  BY <1>1
<1> HIDE DEF rows, m
<1>7. /\ m \in Nat
      /\ Events \subseteq Events'
      /\ \A i \in Events : outbox'[i] = outbox[i]
      /\ \A i \in Events' \ Events : i - m \in 1..n /\ outbox'[i] = rows[i - m]
      /\ \A k \in 1..n : m + k \in Events' \ Events /\ outbox'[m + k] = rows[k]
  BY <1>5, <1>6, AppendRows DEF m
<1>8. Events' \subseteq Nat
  BY <1>5, <1>6, AppendRows
<1>9. ASSUME NEW i \in Events' \ Events
      PROVE  outbox'[i].type = Sent /\ outbox'[i].cause = b[i - m]
  <2>1. PICK k \in 1..n : k = i - m /\ outbox'[i] = rows[k]
    BY <1>7
  <2> QED
    BY <1>4, <2>1
<1>10. /\ Derived(Enriched)' = Derived(Enriched)
       /\ Derived(Sent)' = Derived(Sent) \cup (Events' \ Events)
  BY <1>7, <1>9, TypesDistinct DEF Derived
<1>11. \A t \in {Enriched, Sent} : \A i \in Derived(t) : outbox'[i] = outbox[i]
  BY <1>7 DEF Derived
<1>12. \A i \in Derived(Sent) : outbox[i].cause \in delivered
  BY DEF OneDerivedEvent, Causes
<1>13. UniqueCause(Sent)'
  <2> SUFFICES ASSUME NEW i \in Derived(Sent)', NEW j \in Derived(Sent)',
                      outbox'[i].cause = outbox'[j].cause
               PROVE  i = j
    BY DEF UniqueCause
  <2>1. CASE i \in Derived(Sent) /\ j \in Derived(Sent)
    BY <1>11, <2>1 DEF OneDerivedEvent, UniqueCause
  <2>2. CASE i \in Events' \ Events /\ j \in Events' \ Events
    <3>1. b[i - m] = b[j - m] /\ i - m \in 1..n /\ j - m \in 1..n
      BY <1>7, <1>9, <2>2
    <3>2. i - m = j - m
      BY <1>2, <3>1
    <3>3. m \in Nat /\ i \in Nat /\ j \in Nat
      BY <1>7, <1>8, <2>2
    <3> QED
      BY <3>2, <3>3
  <2>3. ASSUME NEW x \in Derived(Sent), NEW y \in Events' \ Events
        PROVE  outbox'[x].cause # outbox'[y].cause
    <3>1. outbox'[x].cause \in delivered
      BY <1>11, <1>12
    <3>2. y - m \in 1..n /\ outbox'[y].cause = b[y - m]
      BY <1>7, <1>9
    <3> QED
      BY <1>3, <3>1, <3>2
  <2> QED
    BY <1>10, <2>1, <2>2, <2>3
<1>14. Causes(Sent)' = delivered'
  <2>1. Range(b) = {b[k] : k \in 1..n}
    BY <1>1 DEF Range
  <2>2. {outbox'[i].cause : i \in Derived(Sent)} = delivered
    BY <1>11 DEF OneDerivedEvent, Causes
  <2>3. {outbox'[i].cause : i \in Events' \ Events} = Range(b)
    <3>1. ASSUME NEW i \in Events' \ Events PROVE outbox'[i].cause \in Range(b)
      <4>1. i - m \in 1..n /\ outbox'[i].cause = b[i - m]
        BY <1>7, <1>9
      <4> QED
        BY <2>1, <4>1
    <3>2. ASSUME NEW k \in 1..n
          PROVE  \E i \in Events' \ Events : outbox'[i].cause = b[k]
      <4>1. m + k \in Events' \ Events /\ outbox'[m + k].cause = b[k]
        BY <1>4, <1>7
      <4> QED
        BY <4>1
    <3> DEFINE A == {outbox'[i].cause : i \in Events' \ Events}
    <3>3. A \subseteq Range(b)
      BY <3>1
    <3>4. Range(b) \subseteq A
      BY <2>1, <3>2
    <3> QED
      BY <3>3, <3>4
  <2> QED
    BY <1>10, <2>2, <2>3 DEF Causes
<1>15. delivered' \subseteq deliveries'
  <2>1. Range(b) \subseteq deliveries
    BY <1>1, <1>3 DEF Range
  <2> QED
    BY <2>1 DEF OneDerivedEvent, DispatchOnce
<1>16. UniqueCause(Enriched)' /\ Causes(Enriched)' = enrichments'
  <2>1. UNCHANGED enrichments
    BY DEF DispatchOnce
  <2> QED
    BY <1>10, <1>11, <2>1, SameRows DEF OneDerivedEvent
<1> QED
  BY <1>13, <1>14, <1>15, <1>16 DEF OneDerivedEvent

LEMMA DerivedStep == TypeOK /\ OneDerivedEvent /\ [Next]_vars => OneDerivedEvent'
<1> SUFFICES ASSUME TypeOK, OneDerivedEvent, [Next]_vars PROVE OneDerivedEvent'
  OBVIOUS
<1>1. ASSUME NEW p \in Publishers, CommitBatch(p) PROVE OneDerivedEvent'
  <2>1. Events' = Events
    BY <1>1 DEF CommitBatch, Events, TypeOK
  <2>2. \A i \in Events : outbox'[i].type = outbox[i].type /\ outbox'[i].cause = outbox[i].cause
    <3>1. \A i \in Events : outbox[i] \in Row
      BY DEF Events, TypeOK
    <3> QED
      BY <1>1, <3>1 DEF CommitBatch, Row
  <2> QED
    BY <1>1, <2>1, <2>2, DerivedFrame DEF CommitBatch
<1>2. ASSUME NEW w \in Workers, ProcessEvent(w) PROVE OneDerivedEvent'
  <2>1. ConsumerOf[w] \in Consumer /\ worker[w].msg.id \in Nat
    BY HeldType
  <2>2. UNCHANGED delivered
    BY <1>2 DEF ProcessEvent
  <2>3. CASE UNCHANGED <<enrichments, outbox>> /\ deliveries \subseteq deliveries'
    BY <2>2, <2>3, DerivedFrame DEF Events
  <2>4. CASE /\ worker[w].msg.id \notin enrichments
             /\ enrichments' = enrichments \cup {worker[w].msg.id}
             /\ outbox' = Append(outbox, NewRow(Enriched, worker[w].msg.id))
             /\ UNCHANGED deliveries
    BY <2>1, <2>2, <2>4, DerivedEnrichment
  <2> QED
    BY <1>2, <2>1, <2>3, <2>4, ProcessEffects DEF Consumer
<1>3. ASSUME UNCHANGED <<outbox, enrichments, deliveries, delivered>> PROVE OneDerivedEvent'
  BY <1>3, DerivedFrame DEF Events
<1> QED
  <2>1. CASE UNCHANGED vars
    BY <1>3, <2>1 DEF vars
  <2>2. CASE Next
    BY <1>1, <1>2, <1>3, <2>2, DerivedSource, DerivedDispatch
       DEF Next, PublisherStep, WorkerStep, CronStep, FaultStep, StartWorker, Receive,
           LoadPendingOutboxEvents, PublishEvent, StartPublisher, ClaimEventForProcessing,
           SaveWorkerError, RepublishForRetry, MoveToDlq, Ack, ProcessingRaises, CrashWorker,
           CronStart, MarkOutboxEventRetry, CrashPublisher, CronCrash
  <2> QED
    BY <2>1, <2>2

\* No redelivery, retry or crash makes an event or a delivery derive a second event.
THEOREM DerivedOnce == Spec => []OneDerivedEvent
<1>1. Init => OneDerivedEvent
  BY DerivedInit
<1>2. TypeOK /\ OneDerivedEvent /\ [Next]_vars => OneDerivedEvent'
  BY DerivedStep
<1> QED
  BY <1>1, <1>2, TypeCorrect, PTL DEF Spec
=============================================================================

------------------------ MODULE EventDeliveryProofs -------------------------
(***************************************************************************)
(* Theorems about what EventPipeline does with the messages: none is lost, *)
(* each is tried before it is dead-lettered, and the tables they leave     *)
(* behind are an EventChain.                                               *)
(***************************************************************************)
EXTENDS EventPipelineProofs, FiniteSetTheorems

USE DEF brokerVars, tableVars

-----------------------------------------------------------------------------
(* What the steps do to rows, queues and workers *)

InQueue(c, m) == \E k \in DOMAIN queue[c] : queue[c][k] = m

Busy(w) == worker[w].pc \notin {"down", "idle"}

\* A row keeps its type and cause; it becomes published when the batch in which it
\* was sent is committed, and is pending when it is new.
RowsKept ==
  /\ \A i \in Events :
       /\ i \in Events'
       /\ outbox'[i].type = outbox[i].type /\ outbox'[i].cause = outbox[i].cause
       /\ outbox'[i].status = "published" =>
            \/ outbox[i].status = "published"
            \/ \E p \in Publishers : i \in publisher[p].sent
  /\ \A i \in Events' \ Events : outbox'[i].status = "pending"

LEMMA RowsStay == ASSUME TypeOK, [Next]_vars PROVE RowsKept
<1>1. ASSUME NEW p \in Publishers, CommitBatch(p) PROVE RowsKept
  <2>1. Events' = Events
    BY <1>1 DEF CommitBatch, Events, TypeOK
  <2>2. \A i \in Events : outbox[i] \in Row
    BY DEF Events, TypeOK
  <2>3. \A i \in Events : /\ outbox'[i].type = outbox[i].type
                          /\ outbox'[i].cause = outbox[i].cause
                          /\ i \notin publisher[p].sent => outbox'[i] = outbox[i]
    BY <1>1, <2>2 DEF CommitBatch, Row
  <2> QED
    BY <2>1, <2>3 DEF RowsKept
<1>2. ASSUME NEW row \in Row, row.status = "pending", outbox' = Append(outbox, row) PROVE RowsKept
  <2>1. /\ Events' = Events \cup {Len(outbox) + 1}
        /\ \A i \in Events : outbox'[i] = outbox[i]
        /\ outbox'[Len(outbox) + 1] = row
    BY <1>2, AppendRow
  <2> QED
    BY <1>2, <2>1 DEF RowsKept
<1>3. ASSUME NEW type \in SourceTypes, AddTaskOutboxEvent(type) PROVE RowsKept
  <2>1. NewRow(type, 0) \in Row /\ NewRow(type, 0).status = "pending"
    BY NewRowType, TypesAreEventTypes DEF NewRow
  <2> QED
    BY <1>2, <1>3, <2>1 DEF AddTaskOutboxEvent
<1>4. CASE outbox' = outbox
  BY <1>4 DEF Events, RowsKept
<1>5. ASSUME NEW w \in Workers, ProcessEvent(w) PROVE RowsKept
  <2>1. NewRow(Enriched, worker[w].msg.id) \in Row
        /\ NewRow(Enriched, worker[w].msg.id).status = "pending"
    BY HeldType, NewRowType, TypesAreEventTypes DEF NewRow
  <2>2. outbox' = Append(outbox, NewRow(Enriched, worker[w].msg.id)) \/ outbox' = outbox
    BY <1>5, HeldType, ProcessEffects DEF Consumer
  <2> QED
    BY <1>2, <1>4, <2>1, <2>2
<1>6. CASE DispatchOnce
  <2>1. PICK b \in DispatchBatch : outbox' = outbox \o [k \in DOMAIN b |-> NewRow(Sent, b[k])]
    BY <1>6 DEF DispatchOnce
  <2>2. PICK n \in Nat : b \in [1..n -> Nat]
    <3>1. PICK n \in 0..DispatchLimit : b \in [1..n -> Dispatchable]
      BY DEF DispatchBatch
    <3>2. n \in Nat /\ Dispatchable \subseteq Nat
      BY PipelineAssumption DEF Dispatchable, TypeOK
    <3> QED
      BY <3>1, <3>2
  <2>3. PICK rows : rows = [k \in 1..n |-> NewRow(Sent, b[k])]
    OBVIOUS
  <2>4. \A k \in 1..n : rows[k] \in Row /\ rows[k].status = "pending"
    BY <2>2, <2>3, NewRowType, TypesAreEventTypes DEF NewRow
  <2>5. rows \in Seq(Row) /\ Len(rows) = n
    BY <2>3, <2>4
  <2>6. outbox' = outbox \o rows
    BY <2>1, <2>2, <2>3
  <2>7. /\ Events \subseteq Events'
        /\ \A i \in Events : outbox'[i] = outbox[i]
        /\ \A i \in Events' \ Events : i - Len(outbox) \in 1..n /\ outbox'[i] = rows[i - Len(outbox)]
    BY <2>5, <2>6, AppendRows
  <2> QED
    BY <2>4, <2>7 DEF RowsKept
<1>7. ASSUME NEW p \in Publishers, PublisherStep(p) PROVE RowsKept
  <2>1. CASE CommitBatch(p)
    BY <1>1, <2>1
  <2>2. CASE ~CommitBatch(p)
    BY <1>4, <1>7, <2>2
       DEF PublisherStep, LoadPendingOutboxEvents, PublishEvent, StartPublisher
  <2> QED
    BY <2>1, <2>2
<1>8. ASSUME NEW w \in Workers, WorkerStep(w) PROVE RowsKept
  <2>1. CASE ProcessEvent(w)
    BY <1>5, <2>1
  <2>2. StartWorker(w) \/ MoveToDlq(w) \/ Ack(w) => outbox' = outbox
    BY DEF StartWorker, MoveToDlq, Ack
  <2>3. \A k : Receive(w, k) => outbox' = outbox
    BY DEF Receive
  <2>4. ClaimEventForProcessing(w) => outbox' = outbox
    BY DEF ClaimEventForProcessing
  <2>5. SaveWorkerError(w) => outbox' = outbox
    BY DEF SaveWorkerError
  <2>6. RepublishForRetry(w) => outbox' = outbox
    BY DEF RepublishForRetry
  <2> QED
    BY <1>4, <1>8, <2>1, <2>2, <2>3, <2>4, <2>5, <2>6 DEF WorkerStep
<1>9. CASE CronStart \/ FaultStep \/ UNCHANGED vars
  BY <1>4, <1>9 DEF vars, CronStart, FaultStep, MarkOutboxEventRetry, CrashPublisher,
     ProcessingRaises, CrashWorker, CronCrash
<1> QED
  <2>1. CASE Next
    BY <1>3, <1>6, <1>7, <1>8, <1>9, <2>1 DEF Next, CronStep
  <2>2. CASE UNCHANGED vars
    BY <1>9, <2>2
  <2> QED
    BY <2>1, <2>2

\* A worker moves on with its message.
LEMMA PcMoves ==
  ASSUME TypeOK, NEW w \in Workers, NEW pc \in WorkerPC, worker' = [worker EXCEPT ![w].pc = pc]
  PROVE  /\ worker'[w].pc = pc /\ worker'[w].msg = worker[w].msg
         /\ \A v \in Workers : v # w => worker'[v] = worker[v]
  BY DEF TypeOK, WorkerState

\* A worker lets go of its message.
LEMMA IdleMoves ==
  ASSUME TypeOK, NEW w \in Workers, NEW pc, worker' = [worker EXCEPT ![w] = IdleWorker(pc)]
  PROVE  /\ worker'[w].pc = pc
         /\ \A v \in Workers : v # w => worker'[v] = worker[v]
  BY DEF TypeOK, IdleWorker

\* The copies of a message are at the end of the queues that are bound to its type.
LEMMA ExchangeEffect ==
  ASSUME TypeOK, NEW m \in Message, ExchangePublish(m), NEW c \in Consumer
  PROVE  /\ queue[c] \in Seq(Message) /\ Len(queue[c]) \in Nat /\ DOMAIN queue[c] = 1..Len(queue[c])
         /\ c \in bound /\ Receives(c, outbox[m.id].type) =>
              /\ DOMAIN queue'[c] = 1..Len(queue[c]) + 1
              /\ \A k \in 1..Len(queue[c]) : queue'[c][k] = queue[c][k]
              /\ queue'[c][Len(queue[c]) + 1] = m
         /\ ~(c \in bound /\ Receives(c, outbox[m.id].type)) => queue'[c] = queue[c]
<1>1. queue[c] \in Seq(Message)
  BY DEF TypeOK
<1>2. queue'[c] = IF c \in bound /\ Receives(c, outbox[m.id].type)
                  THEN Append(queue[c], m) ELSE queue[c]
  BY DEF ExchangePublish
<1> QED
  BY <1>1, <1>2

LEMMA ExchangeQueues ==
  ASSUME TypeOK, NEW m \in Message, ExchangePublish(m), NEW c \in Consumer, NEW x
  PROVE  InQueue(c, x)' <=>
           \/ InQueue(c, x)
           \/ x = m /\ c \in bound /\ Receives(c, outbox[m.id].type)
<1>1. CASE c \in bound /\ Receives(c, outbox[m.id].type)
  <2>1. PICK n \in Nat : n = Len(queue[c]) /\ DOMAIN queue[c] = 1..n
    BY ExchangeEffect
  <2>2. /\ DOMAIN queue'[c] = 1..n + 1 /\ queue'[c][n + 1] = m
        /\ \A k \in 1..n : queue'[c][k] = queue[c][k]
    BY <1>1, <2>1, ExchangeEffect
  <2>3. \A k \in 1..n + 1 : k \in 1..n \/ k = n + 1
    BY <2>1
  <2> QED
    BY <1>1, <2>1, <2>2, <2>3 DEF InQueue
<1>2. CASE ~(c \in bound /\ Receives(c, outbox[m.id].type))
  BY <1>2, ExchangeEffect DEF InQueue
<1> QED
  BY <1>1, <1>2

\* A sequence without its element at place k.
LEMMA RemovedAt ==
  ASSUME NEW S, NEW s \in Seq(S), NEW k \in 1..Len(s), NEW r,
         r = SubSeq(s, 1, k - 1) \o SubSeq(s, k + 1, Len(s))
  PROVE  /\ DOMAIN r = 1..Len(s) - 1
         /\ \A j \in 1..k - 1 : r[j] = s[j]
         /\ \A j \in k..Len(s) - 1 : r[j] = s[j + 1]
<1>1. Len(s) \in Nat /\ \A i \in 1..Len(s) : s[i] \in S
  OBVIOUS
<1>2. PICK n \in Nat : n = Len(s)
  BY <1>1
<1>3. PICK a : a = SubSeq(s, 1, k - 1)
  OBVIOUS
<1>4. PICK b : b = SubSeq(s, k + 1, n)
  OBVIOUS
<1>5. /\ a \in Seq(S) /\ Len(a) = k - 1
      /\ \A j \in 1..k - 1 : a[j] = s[j]
  <2>1. k - 1 \in Int /\ 1 \in Int /\ \A i \in 1..k - 1 : s[i] \in S
    BY <1>1
  <2>2. /\ SubSeq(s, 1, k - 1) \in Seq(S)
        /\ Len(SubSeq(s, 1, k - 1)) = IF 1 <= k - 1 THEN k - 1 - 1 + 1 ELSE 0
        /\ \A i \in 1..k - 1 - 1 + 1 : SubSeq(s, 1, k - 1)[i] = s[1 + i - 1]
    BY <2>1, SubSeqProperties
  <2> QED
    BY <1>1, <1>3, <2>2
<1>6. /\ b \in Seq(S) /\ Len(b) = n - k
      /\ \A j \in 1..n - k : b[j] = s[k + j]
  <2>1. k + 1 \in Int /\ n \in Int /\ \A i \in k + 1..n : s[i] \in S
    BY <1>1, <1>2
  <2>2. /\ SubSeq(s, k + 1, n) \in Seq(S)
        /\ Len(SubSeq(s, k + 1, n)) = IF k + 1 <= n THEN n - (k + 1) + 1 ELSE 0
        /\ \A i \in 1..n - (k + 1) + 1 : SubSeq(s, k + 1, n)[i] = s[(k + 1) + i - 1]
    BY <2>1, SubSeqProperties
  <2>3. n - (k + 1) + 1 = n - k /\ \A i \in 1..n - k : (k + 1) + i - 1 = k + i
    BY <1>2
  <2> QED
    BY <1>2, <1>4, <2>2, <2>3
<1>7. /\ r \in Seq(S) /\ Len(r) = (k - 1) + (n - k)
      /\ \A j \in 1..(k - 1) + (n - k) : r[j] = IF j <= k - 1 THEN a[j] ELSE b[j - (k - 1)]
  <2>1. r = a \o b
    BY <1>2, <1>3, <1>4
  <2>2. a \in Seq(S) /\ b \in Seq(S)
    BY <1>5, <1>6
  <2>3. /\ a \o b \in Seq(S)
        /\ Len(a \o b) = Len(a) + Len(b)
        /\ \A i \in 1..Len(a) + Len(b) :
             (a \o b)[i] = IF i <= Len(a) THEN a[i] ELSE b[i - Len(a)]
    BY ONLY <2>2, ConcatProperties
  <2> QED
    BY ONLY <1>5, <1>6, <2>1, <2>3
<1>8. (k - 1) + (n - k) = n - 1
  BY <1>2
<1>9. ASSUME NEW j \in k..n - 1 PROVE r[j] = s[j + 1]
  <2>1. j \in 1..n - 1 /\ ~(j <= k - 1) /\ j - (k - 1) \in 1..n - k /\ k + (j - (k - 1)) = j + 1
    BY <1>2
  <2> QED
    BY <1>6, <1>7, <1>8, <2>1
<1>10. ASSUME NEW j \in 1..k - 1 PROVE r[j] = s[j]
  <2>1. j \in 1..n - 1 /\ j <= k - 1
    BY <1>2
  <2> QED
    BY <1>5, <1>7, <1>8, <2>1
<1>11. DOMAIN r = 1..n - 1
  BY ONLY <1>7, <1>8
<1> QED
  BY <1>2, <1>9, <1>10, <1>11

\* The message taken from place k of a queue; those behind it move up.
LEMMA ReceiveEffect ==
  ASSUME TypeOK, NEW w \in Workers, NEW k \in DOMAIN queue[ConsumerOf[w]], Receive(w, k),
         NEW c, c = ConsumerOf[w]
  PROVE  /\ queue[c] \in Seq(Message) /\ Len(queue[c]) \in Nat /\ k \in 1..Len(queue[c])
         /\ DOMAIN queue[c] = 1..Len(queue[c]) /\ DOMAIN queue'[c] = 1..Len(queue[c]) - 1
         /\ \A j \in 1..k - 1 : queue'[c][j] = queue[c][j]
         /\ \A j \in k..Len(queue[c]) - 1 : queue'[c][j] = queue[c][j + 1]
         /\ \A d \in Consumer : d # c => queue'[d] = queue[d]
         /\ worker'[w].pc = "received" /\ worker'[w].msg = queue[c][k]
         /\ \A v \in Workers : v # w => worker'[v] = worker[v]
<1>1. c \in Consumer /\ queue \in [Consumer -> Seq(Message)] /\ queue[c] \in Seq(Message)
  BY HeldType DEF TypeOK
<1>2. PICK s \in Seq(Message) : s = queue[c]
  BY <1>1
<1>3. k \in 1..Len(s) /\ Len(s) \in Nat
  BY <1>2
<1>4. PICK r : r = SubSeq(s, 1, k - 1) \o SubSeq(s, k + 1, Len(s))
  OBVIOUS
<1>5. /\ DOMAIN r = 1..Len(s) - 1
      /\ \A j \in 1..k - 1 : r[j] = s[j]
      /\ \A j \in k..Len(s) - 1 : r[j] = s[j + 1]
  BY <1>3, <1>4, RemovedAt
<1>6. queue' = [queue EXCEPT ![c] = r]
  BY <1>2, <1>4 DEF Receive
<1>7. worker' = [worker EXCEPT ![w] = [pc |-> "received", msg |-> queue[c][k]]]
  BY DEF Receive
<1>8. worker \in [Workers -> WorkerState]
  BY DEF TypeOK
<1>9. queue'[c] = r /\ \A d \in Consumer : d # c => queue'[d] = queue[d]
  BY <1>1, <1>6
<1>10. /\ worker'[w] = [pc |-> "received", msg |-> queue[c][k]]
       /\ \A v \in Workers : v # w => worker'[v] = worker[v]
  BY <1>7, <1>8
<1> QED
  BY <1>1, <1>2, <1>3, <1>5, <1>9, <1>10

LEMMA ReceiveQueues ==
  ASSUME TypeOK, NEW w \in Workers, NEW k \in DOMAIN queue[ConsumerOf[w]], Receive(w, k),
         NEW d \in Consumer, NEW x
  PROVE  /\ InQueue(d, x)' => InQueue(d, x)
         /\ InQueue(d, x) => InQueue(d, x)' \/ (d = ConsumerOf[w] /\ x = worker'[w].msg)
<1>1. CASE d # ConsumerOf[w]
  BY <1>1, ReceiveEffect DEF InQueue
<1>2. CASE d = ConsumerOf[w]
  <2>1. PICK n \in Nat : n = Len(queue[d])
    BY <1>2, ReceiveEffect
  <2>2. /\ k \in 1..n /\ DOMAIN queue[d] = 1..n /\ DOMAIN queue'[d] = 1..n - 1
        /\ \A j \in 1..k - 1 : queue'[d][j] = queue[d][j]
        /\ \A j \in k..n - 1 : queue'[d][j] = queue[d][j + 1]
        /\ worker'[w].msg = queue[d][k]
    BY <1>2, <2>1, ReceiveEffect
  <2>3. ASSUME NEW j \in 1..n - 1 PROVE \E i \in 1..n : queue'[d][j] = queue[d][i]
    <3>1. CASE j \in 1..k - 1
      BY <2>2, <3>1
    <3>2. CASE j \in k..n - 1
      <4>1. j + 1 \in 1..n
        BY <2>1, <2>2, <3>2
      <4> QED
        BY <2>2, <3>2, <4>1
    <3> QED
      BY <2>2, <3>1, <3>2
  <2>4. ASSUME NEW i \in 1..n, i # k PROVE \E j \in 1..n - 1 : queue'[d][j] = queue[d][i]
    <3>1. CASE i < k
      BY <2>2, <3>1
    <3>2. CASE i > k
      <4>1. i - 1 \in k..n - 1 /\ i - 1 \in 1..n - 1 /\ (i - 1) + 1 = i
        BY <2>1, <2>2, <3>2
      <4> QED
        BY <2>2, <4>1
    <3> QED
      BY <2>2, <2>4, <3>1, <3>2
  <2>5. ASSUME InQueue(d, x)' PROVE InQueue(d, x)
    <3>1. PICK j \in 1..n - 1 : queue'[d][j] = x
      BY <2>2, <2>5 DEF InQueue
    <3>2. PICK i \in 1..n : queue[d][i] = x
      BY <2>3, <3>1
    <3> QED
      BY <2>2, <3>2 DEF InQueue
  <2>6. ASSUME InQueue(d, x), x # queue[d][k] PROVE InQueue(d, x)'
    <3>1. PICK i \in 1..n : queue[d][i] = x /\ i # k
      BY <2>2, <2>6 DEF InQueue
    <3>2. PICK j \in 1..n - 1 : queue'[d][j] = x
      BY <2>4, <3>1
    <3> QED
      BY <2>2, <3>2 DEF InQueue
  <2> QED
    BY <1>2, <2>2, <2>5, <2>6
<1> QED
  BY <1>1, <1>2

\* The message of a worker that dies is at the head of its queue again.
LEMMA CrashEffect ==
  ASSUME TypeOK, NEW w \in Workers, CrashWorker(w), NEW c, c = ConsumerOf[w]
  PROVE  /\ queue[c] \in Seq(Message) /\ Len(queue[c]) \in Nat /\ DOMAIN queue[c] = 1..Len(queue[c])
         /\ Busy(w) => /\ DOMAIN queue'[c] = 1..Len(queue[c]) + 1
                       /\ queue'[c][1] = worker[w].msg
                       /\ \A j \in 2..Len(queue[c]) + 1 : queue'[c][j] = queue[c][j - 1]
         /\ ~Busy(w) => queue'[c] = queue[c]
         /\ \A d \in Consumer : d # c => queue'[d] = queue[d]
         /\ ~Busy(w)' /\ \A v \in Workers : v # w => worker'[v] = worker[v]
<1>1. c \in Consumer /\ queue \in [Consumer -> Seq(Message)] /\ queue[c] \in Seq(Message)
      /\ worker[w].msg \in Message
  BY HeldType DEF TypeOK
<1>2. PICK s \in Seq(Message) : s = queue[c]
  BY <1>1
<1>3. PICK r : r = <<worker[w].msg>> \o s
  OBVIOUS
<1>4. /\ DOMAIN r = 1..Len(s) + 1 /\ r[1] = worker[w].msg
      /\ \A j \in 2..Len(s) + 1 : r[j] = s[j - 1]
  <2>1. PICK m \in Message : m = worker[w].msg
    BY <1>1
  <2>2. <<m>> \in Seq(Message) /\ Len(<<m>>) = 1 /\ <<m>>[1] = m
    OBVIOUS
  <2>3. /\ Len(r) = 1 + Len(s) /\ r \in Seq(Message)
        /\ \A j \in 1..1 + Len(s) : r[j] = IF j <= 1 THEN <<m>>[j] ELSE s[j - 1]
    BY <1>3, <2>1, <2>2, ConcatProperties
  <2> QED
    BY <2>1, <2>2, <2>3
<1>5. /\ Busy(w) => queue' = [queue EXCEPT ![c] = r]
      /\ ~Busy(w) => queue' = queue
  BY <1>2, <1>3 DEF CrashWorker, Busy
<1>6. worker'[w].pc = "down" /\ \A v \in Workers : v # w => worker'[v] = worker[v]
  BY IdleMoves DEF CrashWorker
<1>7. /\ Busy(w) => queue'[c] = r
      /\ \A d \in Consumer : d # c => queue'[d] = queue[d]
  BY <1>1, <1>5
<1> QED
  BY <1>1, <1>2, <1>4, <1>5, <1>6, <1>7 DEF Busy

LEMMA CrashQueues ==
  ASSUME TypeOK, NEW w \in Workers, CrashWorker(w), NEW d \in Consumer, NEW x
  PROVE  InQueue(d, x)' <=> InQueue(d, x) \/ (d = ConsumerOf[w] /\ Busy(w) /\ x = worker[w].msg)
<1>1. CASE d # ConsumerOf[w] \/ ~Busy(w)
  BY <1>1, CrashEffect DEF InQueue
<1>2. CASE d = ConsumerOf[w] /\ Busy(w)
  <2>1. PICK n \in Nat : n = Len(queue[d])
    BY <1>2, CrashEffect
  <2>2. /\ DOMAIN queue[d] = 1..n /\ DOMAIN queue'[d] = 1..n + 1
        /\ queue'[d][1] = worker[w].msg
        /\ \A j \in 2..n + 1 : queue'[d][j] = queue[d][j - 1]
    BY <1>2, <2>1, CrashEffect
  <2>3. \A j \in 1..n : j + 1 \in 2..n + 1 /\ j + 1 \in 1..n + 1 /\ (j + 1) - 1 = j
    BY <2>1
  <2>4. \A j \in 1..n + 1 : j = 1 \/ (j \in 2..n + 1 /\ j - 1 \in 1..n)
    BY <2>1
  <2>5. 1 \in 1..n + 1
    BY <2>1
  <2>6. ASSUME InQueue(d, x)' PROVE InQueue(d, x) \/ x = worker[w].msg
    <3>1. PICK j \in 1..n + 1 : queue'[d][j] = x
      BY <2>2, <2>6 DEF InQueue
    <3>2. CASE j = 1
      BY <2>2, <3>1, <3>2
    <3>3. CASE j \in 2..n + 1 /\ j - 1 \in 1..n
      <4>1. j - 1 \in DOMAIN queue[d] /\ queue[d][j - 1] = x
        BY <2>2, <3>1, <3>3
      <4> QED
        BY <4>1 DEF InQueue
    <3> QED
      BY <2>4, <3>2, <3>3
  <2>7. ASSUME InQueue(d, x) PROVE InQueue(d, x)'
    <3>1. PICK j \in 1..n : queue[d][j] = x
      BY <2>2, <2>7 DEF InQueue
    <3>2. j + 1 \in DOMAIN queue'[d] /\ queue'[d][j + 1] = x
      BY <2>2, <2>3, <3>1
    <3> QED
      BY <3>2 DEF InQueue
  <2>8. x = worker[w].msg => InQueue(d, x)'
    BY <2>2, <2>5 DEF InQueue
  <2> QED
    BY <1>2, <2>6, <2>7, <2>8
<1> QED
  BY <1>1, <1>2

\* A step that moves no message and processes none: of the API, the cron, or of a
\* publisher that does not publish.
Quiet ==
  /\ UNCHANGED <<queue, worker, bound, dlq, processed, errors>>
  /\ \A p \in Publishers : publisher'[p].sent \subseteq publisher[p].sent

LEMMA StepCases ==
  ASSUME TypeOK, [Next]_vars
  PROVE  \/ Quiet
         \/ \E p \in Publishers, i \in Events : PublishEvent(p, i)
         \/ \E w \in Workers : WorkerStep(w) \/ ProcessingRaises(w) \/ CrashWorker(w)
<1>0. publisher \in [Publishers -> PublisherState]
  BY DEF TypeOK
<1>1. ASSUME UNCHANGED <<queue, worker, bound, dlq, processed, errors, publisher>> PROVE Quiet
  BY <1>1 DEF Quiet
<1>2. ASSUME NEW p \in Publishers, PublisherStep(p)
      PROVE  Quiet \/ \E i \in Events : PublishEvent(p, i)
  <2>1. LoadPendingOutboxEvents(p) => Quiet
    <3> SUFFICES ASSUME LoadPendingOutboxEvents(p) PROVE Quiet
      OBVIOUS
    <3>1. UNCHANGED <<queue, worker, bound, dlq, processed, errors>>
      BY DEF LoadPendingOutboxEvents
    <3>2. PICK batch : \/ publisher' = publisher
                       \/ publisher' = [publisher EXCEPT ![p] =
                            [pc |-> "publishing", batch |-> batch, todo |-> batch, sent |-> {}]]
      BY DEF LoadPendingOutboxEvents
    <3> QED
      BY <1>0, <3>1, <3>2 DEF Quiet
  <2>2. CommitBatch(p) => Quiet
    BY <1>0 DEF CommitBatch, Quiet, IdlePublisher
  <2>3. StartPublisher(p) => Quiet
    BY <1>0 DEF StartPublisher, Quiet, IdlePublisher
  <2> QED
    BY <1>2, <2>1, <2>2, <2>3 DEF PublisherStep
<1>3. ASSUME NEW p \in Publishers, NEW i \in Events, MarkOutboxEventRetry(p, i) PROVE Quiet
  <2>1. UNCHANGED <<queue, worker, bound, dlq, processed, errors>>
    BY <1>3 DEF MarkOutboxEventRetry
  <2>2. \A q \in Publishers : publisher'[q].sent = publisher[q].sent
    BY <1>0, <1>3 DEF MarkOutboxEventRetry, PublisherState
  <2> QED
    BY <2>1, <2>2 DEF Quiet
<1>4. ASSUME NEW p \in Publishers, CrashPublisher(p) PROVE Quiet
  BY <1>0, <1>4 DEF CrashPublisher, Quiet, IdlePublisher
<1>5. CASE CronStep \/ CronCrash \/ \E type \in SourceTypes : AddTaskOutboxEvent(type)
  BY <1>1, <1>5 DEF CronStep, DispatchOnce, CronStart, CronCrash, AddTaskOutboxEvent
<1>6. CASE UNCHANGED vars
  BY <1>1, <1>6 DEF vars
<1> QED
  <2>1. CASE Next
    BY <1>2, <1>3, <1>4, <1>5, <2>1 DEF Next, FaultStep
  <2> QED
    BY <1>6, <2>1

-----------------------------------------------------------------------------
(* Every message is of an event the consumer is bound to *)

Routed(c, m) == m.id \in Events /\ Receives(c, outbox[m.id].type)

RoutedInv ==
  /\ \A c \in Consumer, m \in Message : InQueue(c, m) => Routed(c, m)
  /\ \A w \in Workers : Busy(w) => Routed(ConsumerOf[w], worker[w].msg)

LEMMA RoutedStays ==
  ASSUME RowsKept, NEW c, NEW m, Routed(c, m)
  PROVE  Routed(c, m)'
  BY DEF RowsKept, Routed

\* Nothing new is in a queue or with a worker.
LEMMA RoutedFrame ==
  ASSUME TypeOK, RoutedInv, RowsKept,
         \A c \in Consumer, m \in Message : InQueue(c, m)' => InQueue(c, m) \/ Routed(c, m),
         \A w \in Workers : Busy(w)' => Busy(w) /\ worker'[w].msg = worker[w].msg
  PROVE  RoutedInv'
<1>1. ASSUME NEW c \in Consumer, NEW m \in Message, InQueue(c, m)' PROVE Routed(c, m)'
  BY <1>1, RoutedStays DEF RoutedInv
<1>2. ASSUME NEW w \in Workers, Busy(w)' PROVE Routed(ConsumerOf[w], worker[w].msg)'
  <2>1. PICK m : m = worker[w].msg
    OBVIOUS
  <2>2. Routed(ConsumerOf[w], m)'
    BY <1>2, <2>1, RoutedStays DEF RoutedInv
  <2>3. worker'[w].msg = m
    BY <1>2, <2>1
  <2> QED
    BY <2>2, <2>3 DEF Routed
<1> QED
  BY <1>1, <1>2 DEF RoutedInv

\* The retry copy of a message.
LEMMA RetryCopy ==
  ASSUME TypeOK, NEW w \in Workers, NEW m, m = [worker[w].msg EXCEPT !.retry = @ + 1]
  PROVE  m \in Message /\ m.id = worker[w].msg.id /\ m.retry = worker[w].msg.retry + 1
<1>1. worker[w].msg \in Message
  BY HeldType
<1> QED
  BY <1>1 DEF Message

LEMMA RoutedInit == Init => RoutedInv
<1> SUFFICES ASSUME Init PROVE RoutedInv
  OBVIOUS
<1>1. \A c \in Consumer, m \in Message : ~InQueue(c, m)
  BY DEF Init, InQueue
<1>2. \A w \in Workers : ~Busy(w)
  BY DEF Init, Busy, IdleWorker
<1> QED
  BY <1>1, <1>2 DEF RoutedInv

\* A worker step other than the receipt of a message, the publication of a retry
\* copy and the crash leaves the queues alone.
LEMMA QuietWorkerStep ==
  ASSUME TypeOK, NEW w \in Workers, WorkerStep(w) \/ ProcessingRaises(w)
  PROVE  \/ \E k \in DOMAIN queue[ConsumerOf[w]] : Receive(w, k)
         \/ RepublishForRetry(w)
         \/ /\ queue' = queue
            /\ \A v \in Workers : Busy(v)' => Busy(v) /\ worker'[v].msg = worker[v].msg
<1>1. ASSUME NEW pc \in WorkerPC, worker' = [worker EXCEPT ![w].pc = pc], Busy(w)
      PROVE  \A v \in Workers : Busy(v)' => Busy(v) /\ worker'[v].msg = worker[v].msg
  <2>1. worker'[w].msg = worker[w].msg /\ \A v \in Workers : v # w => worker'[v] = worker[v]
    BY <1>1, PcMoves
  <2> QED
    BY <1>1, <2>1 DEF Busy
<1>2. ASSUME worker' = [worker EXCEPT ![w] = IdleWorker("idle")]
      PROVE  \A v \in Workers : Busy(v)' => Busy(v) /\ worker'[v].msg = worker[v].msg
  <2>1. worker'[w].pc = "idle" /\ \A v \in Workers : v # w => worker'[v] = worker[v]
    BY <1>2, IdleMoves
  <2> QED
    BY <2>1 DEF Busy
<1>3. CASE StartWorker(w) \/ MoveToDlq(w) \/ Ack(w)
  BY <1>2, <1>3 DEF StartWorker, MoveToDlq, Ack
<1>4. CASE ClaimEventForProcessing(w)
  <2>1. PICK pc \in {"acking", "claimed"} : worker' = [worker EXCEPT ![w].pc = pc]
    BY <1>4 DEF ClaimEventForProcessing
  <2> QED
    BY <1>1, <1>4, <2>1 DEF ClaimEventForProcessing, Busy, WorkerPC
<1>5. CASE ProcessEvent(w)
  <2>1. /\ queue' = queue /\ worker[w].pc = "claimed"
        /\ worker' = [worker EXCEPT ![w].pc = "acking"]
    BY <1>5 DEF ProcessEvent
  <2> QED
    BY <1>1, <2>1 DEF Busy, WorkerPC
<1>6. CASE ProcessingRaises(w)
  <2>1. /\ queue' = queue /\ worker[w].pc \in {"received", "claimed", "acking"}
        /\ worker' = [worker EXCEPT ![w].pc = "failed"]
    BY <1>6 DEF ProcessingRaises
  <2> QED
    BY <1>1, <2>1 DEF Busy, WorkerPC
<1>7. CASE SaveWorkerError(w)
  <2>1. /\ queue' = queue /\ worker[w].pc = "failed"
        /\ worker' = [worker EXCEPT ![w].pc = "saved"]
    BY <1>7 DEF SaveWorkerError
  <2> QED
    BY <1>1, <2>1 DEF Busy, WorkerPC
<1> QED
  BY <1>3, <1>4, <1>5, <1>6, <1>7 DEF WorkerStep

LEMMA RoutedStep == TypeOK /\ RoutedInv /\ [Next]_vars => RoutedInv'
<1> SUFFICES ASSUME TypeOK, RoutedInv, [Next]_vars PROVE RoutedInv'
  OBVIOUS
<1>0. RowsKept
  BY RowsStay
<1>1. CASE Quiet
  <2>1. queue' = queue /\ worker' = worker
    BY <1>1 DEF Quiet
  <2> QED
    BY <1>0, <2>1, RoutedFrame DEF InQueue, Busy
<1>2. ASSUME NEW p \in Publishers, NEW i \in Events, PublishEvent(p, i) PROVE RoutedInv'
  <2>1. PICK m : m = [id |-> i, retry |-> 0]
    OBVIOUS
  <2>2. m \in Message /\ m.id = i
    BY <2>1 DEF Message, Events
  <2>3. ExchangePublish(m) /\ worker' = worker
    BY <1>2, <2>1 DEF PublishEvent
  <2>4. \A c \in Consumer, x \in Message : InQueue(c, x)' => InQueue(c, x) \/ Routed(c, x)
    BY <2>2, <2>3, ExchangeQueues DEF Routed
  <2> QED
    BY <1>0, <2>3, <2>4, RoutedFrame DEF Busy
<1>3. ASSUME NEW w \in Workers, RepublishForRetry(w) PROVE RoutedInv'
  <2>1. PICK m : m = [worker[w].msg EXCEPT !.retry = @ + 1]
    OBVIOUS
  <2>2. m \in Message /\ m.id = worker[w].msg.id
    BY <2>1, RetryCopy
  <2>3. /\ ExchangePublish(m) /\ worker[w].pc = "saved"
        /\ worker' = [worker EXCEPT ![w].pc = "retried"]
    BY <1>3, <2>1 DEF RepublishForRetry
  <2>4. m.id \in Events
    BY <2>2, <2>3 DEF RoutedInv, Routed, Busy
  <2>5. \A c \in Consumer, x \in Message : InQueue(c, x)' => InQueue(c, x) \/ Routed(c, x)
    BY <2>2, <2>3, <2>4, ExchangeQueues DEF Routed
  <2>6. worker'[w].msg = worker[w].msg /\ \A v \in Workers : v # w => worker'[v] = worker[v]
    BY <2>3, PcMoves DEF WorkerPC
  <2>7. \A v \in Workers : Busy(v)' => Busy(v) /\ worker'[v].msg = worker[v].msg
    BY <2>3, <2>6 DEF Busy
  <2> QED
    BY <1>0, <2>5, <2>7, RoutedFrame
<1>4. ASSUME NEW w \in Workers, NEW k \in DOMAIN queue[ConsumerOf[w]], Receive(w, k)
      PROVE  RoutedInv'
  <2>1. PICK c \in Consumer : c = ConsumerOf[w]
    BY HeldType
  <2>2. PICK m \in Message : m = queue[c][k] /\ InQueue(c, m)
    <3>1. queue[c] \in Seq(Message) /\ k \in 1..Len(queue[c])
      BY <1>4, <2>1, ReceiveEffect
    <3>2. queue[c][k] \in Message
      BY <3>1
    <3> QED
      BY <2>1, <3>2 DEF InQueue
  <2>3. worker'[w].msg = m /\ \A v \in Workers : v # w => worker'[v] = worker[v]
    BY <1>4, <2>1, <2>2, ReceiveEffect
  <2>4. \A d \in Consumer, x \in Message : InQueue(d, x)' => Routed(d, x)'
    BY <1>0, <1>4, ReceiveQueues, RoutedStays DEF RoutedInv
  <2>5. ASSUME NEW v \in Workers, Busy(v)' PROVE Routed(ConsumerOf[v], worker[v].msg)'
    <3>1. PICK x : x = worker'[v].msg
      OBVIOUS
    <3>2. Routed(ConsumerOf[v], x)
      <4>1. CASE v = w
        BY <2>1, <2>2, <2>3, <3>1, <4>1 DEF RoutedInv
      <4>2. CASE v # w
        BY <2>3, <2>5, <3>1, <4>2 DEF RoutedInv, Busy
      <4> QED
        BY <4>1, <4>2
    <3>3. Routed(ConsumerOf[v], x)'
      BY <1>0, <3>2, RoutedStays
    <3> QED
      BY <3>1, <3>3 DEF Routed
  <2> QED
    BY <2>4, <2>5 DEF RoutedInv
<1>5. ASSUME NEW w \in Workers, CrashWorker(w) PROVE RoutedInv'
  <2>1. ~Busy(w)' /\ \A v \in Workers : v # w => worker'[v] = worker[v]
    BY <1>5, CrashEffect
  <2>2. \A v \in Workers : Busy(v)' => Busy(v) /\ worker'[v].msg = worker[v].msg
    BY <2>1 DEF Busy
  <2>3. \A c \in Consumer, x \in Message : InQueue(c, x)' => InQueue(c, x) \/ Routed(c, x)
    BY <1>5, CrashQueues DEF RoutedInv
  <2> QED
    BY <1>0, <2>2, <2>3, RoutedFrame
<1>6. ASSUME NEW w \in Workers, WorkerStep(w) \/ ProcessingRaises(w) PROVE RoutedInv'
  <2>1. CASE /\ queue' = queue
             /\ \A v \in Workers : Busy(v)' => Busy(v) /\ worker'[v].msg = worker[v].msg
    BY <1>0, <2>1, RoutedFrame DEF InQueue
  <2> QED
    BY <1>3, <1>4, <1>6, <2>1, QuietWorkerStep
<1> QED
  BY <1>1, <1>2, <1>5, <1>6, StepCases

-----------------------------------------------------------------------------
(* Where messages go *)

\* What is processed, recorded as failed, dead-lettered or bound remains so.
LEMMA TablesGrow ==
  ASSUME TypeOK, [Next]_vars, NEW c \in Consumer
  PROVE  /\ processed[c] \subseteq processed'[c] /\ errors[c] \subseteq errors'[c]
         /\ dlq[c] \subseteq dlq'[c] /\ bound \subseteq bound'
<1>0. /\ processed \in [Consumer -> SUBSET Nat] /\ errors \in [Consumer -> SUBSET Message]
      /\ dlq \in [Consumer -> SUBSET Message] /\ bound \in SUBSET Consumer
  BY DEF TypeOK
<1>1. CASE Quiet
  BY <1>1 DEF Quiet
<1>2. ASSUME NEW p \in Publishers, NEW i \in Events, PublishEvent(p, i)
      PROVE  UNCHANGED <<processed, errors, dlq, bound>>
  BY <1>2 DEF PublishEvent
<1>3. ASSUME NEW w \in Workers, WorkerStep(w) \/ ProcessingRaises(w) \/ CrashWorker(w)
      PROVE  /\ processed' = processed
                  \/ processed' = [processed EXCEPT ![ConsumerOf[w]] = @ \cup {worker[w].msg.id}]
             /\ errors' = errors
                  \/ errors' = [errors EXCEPT ![ConsumerOf[w]] = @ \cup {worker[w].msg}]
             /\ dlq' = dlq
                  \/ dlq' = [dlq EXCEPT ![ConsumerOf[w]] = @ \cup {worker[w].msg}]
             /\ bound \subseteq bound'
  <2>1. StartWorker(w) => bound \subseteq bound' /\ UNCHANGED <<processed, errors, dlq>>
    BY DEF StartWorker
  <2>2. \A k : Receive(w, k) => UNCHANGED <<processed, errors, dlq, bound>>
    BY DEF Receive
  <2>3. ClaimEventForProcessing(w) => UNCHANGED <<processed, errors, dlq, bound>>
    BY DEF ClaimEventForProcessing
  <2>4. ProcessEvent(w) =>
          /\ processed' = [processed EXCEPT ![ConsumerOf[w]] = @ \cup {worker[w].msg.id}]
          /\ UNCHANGED <<errors, dlq, bound>>
    BY DEF ProcessEvent
  <2>5. SaveWorkerError(w) =>
          /\ errors' = errors
               \/ errors' = [errors EXCEPT ![ConsumerOf[w]] = @ \cup {worker[w].msg}]
          /\ UNCHANGED <<processed, dlq, bound>>
    BY DEF SaveWorkerError
  <2>6. RepublishForRetry(w) => UNCHANGED <<processed, errors, dlq, bound>>
    BY DEF RepublishForRetry
  <2>7. MoveToDlq(w) =>
          /\ dlq' = [dlq EXCEPT ![ConsumerOf[w]] = @ \cup {worker[w].msg}]
          /\ UNCHANGED <<processed, errors, bound>>
    BY DEF MoveToDlq
  <2>8. Ack(w) => UNCHANGED <<processed, errors, dlq, bound>>
    BY DEF Ack
  <2>9. ProcessingRaises(w) => UNCHANGED <<processed, errors, dlq, bound>>
    BY DEF ProcessingRaises
  <2>10. CrashWorker(w) => UNCHANGED <<processed, errors, dlq, bound>>
    BY DEF CrashWorker
  <2> QED
    BY <1>3, <2>1, <2>2, <2>3, <2>4, <2>5, <2>6, <2>7, <2>8, <2>9, <2>10 DEF WorkerStep
<1> QED
  BY <1>0, <1>1, <1>2, <1>3, StepCases

\* A message leaves its queue only with a worker that has received it.
LEMMA QueuedStays ==
  ASSUME TypeOK, [Next]_vars, NEW c \in Consumer, NEW x \in Message, InQueue(c, x)
  PROVE  \/ InQueue(c, x)'
         \/ \E w \in Workers : /\ ConsumerOf[w] = c
                               /\ worker'[w].pc = "received" /\ worker'[w].msg = x
<1>1. CASE Quiet
  BY <1>1 DEF Quiet, InQueue
<1>2. ASSUME NEW p \in Publishers, NEW i \in Events, PublishEvent(p, i) PROVE InQueue(c, x)'
  <2>1. [id |-> i, retry |-> 0] \in Message /\ ExchangePublish([id |-> i, retry |-> 0])
    BY <1>2 DEF PublishEvent, Message, Events
  <2> QED
    BY <2>1, ExchangeQueues
<1>3. ASSUME NEW w \in Workers, RepublishForRetry(w) PROVE InQueue(c, x)'
  <2>1. PICK m : m = [worker[w].msg EXCEPT !.retry = @ + 1]
    OBVIOUS
  <2>2. m \in Message /\ ExchangePublish(m)
    BY <1>3, <2>1, RetryCopy DEF RepublishForRetry
  <2> QED
    BY <2>2, ExchangeQueues
<1>4. ASSUME NEW w \in Workers, NEW k \in DOMAIN queue[ConsumerOf[w]], Receive(w, k)
      PROVE  \/ InQueue(c, x)'
             \/ ConsumerOf[w] = c /\ worker'[w].pc = "received" /\ worker'[w].msg = x
  BY <1>4, ReceiveQueues, ReceiveEffect
<1>5. ASSUME NEW w \in Workers, CrashWorker(w) PROVE InQueue(c, x)'
  BY <1>5, CrashQueues
<1>6. ASSUME queue' = queue PROVE InQueue(c, x)'
  BY <1>6 DEF InQueue
<1> QED
  BY <1>1, <1>2, <1>3, <1>4, <1>5, <1>6, StepCases, QuietWorkerStep

\* A step of one worker is no step of another.
LEMMA OtherWorkersStay ==
  ASSUME TypeOK, NEW w \in Workers, NEW v \in Workers, v # w,
         WorkerStep(v) \/ ProcessingRaises(v) \/ CrashWorker(v)
  PROVE  worker'[w] = worker[w]
<1>1. worker \in [Workers -> WorkerState]
  BY DEF TypeOK
<1>2. ASSUME NEW pc, worker' = [worker EXCEPT ![v].pc = pc] PROVE worker'[w] = worker[w]
  BY <1>1, <1>2
<1>3. ASSUME NEW s, worker' = [worker EXCEPT ![v] = s] PROVE worker'[w] = worker[w]
  BY <1>1, <1>3
<1>4. StartWorker(v) \/ MoveToDlq(v) \/ Ack(v) \/ CrashWorker(v) => worker'[w] = worker[w]
  BY <1>3 DEF StartWorker, MoveToDlq, Ack, CrashWorker
<1>5. \A k : Receive(v, k) => worker'[w] = worker[w]
  BY <1>3 DEF Receive
<1>6. ClaimEventForProcessing(v) \/ ProcessEvent(v) \/ SaveWorkerError(v) => worker'[w] = worker[w]
  <2>1. ClaimEventForProcessing(v) => \E pc : worker' = [worker EXCEPT ![v].pc = pc]
    BY DEF ClaimEventForProcessing
  <2>2. ProcessEvent(v) => worker' = [worker EXCEPT ![v].pc = "acking"]
    BY DEF ProcessEvent
  <2>3. SaveWorkerError(v) => worker' = [worker EXCEPT ![v].pc = "saved"]
    BY DEF SaveWorkerError
  <2> QED
    BY <1>2, <2>1, <2>2, <2>3
<1>7. RepublishForRetry(v) \/ ProcessingRaises(v) => worker'[w] = worker[w]
  <2>1. RepublishForRetry(v) => worker' = [worker EXCEPT ![v].pc = "retried"]
    BY DEF RepublishForRetry
  <2>2. ProcessingRaises(v) => worker' = [worker EXCEPT ![v].pc = "failed"]
    BY DEF ProcessingRaises
  <2> QED
    BY <1>2, <2>1, <2>2
<1> QED
  BY <1>1, <1>4, <1>5, <1>6, <1>7 DEF WorkerStep

\* A worker keeps the message it works on until it has processed it, failed for it,
\* or dies, which returns it to the queue.
LEMMA InWorkStays ==
  ASSUME TypeOK, [Next]_vars, NEW w \in Workers, NEW c, c = ConsumerOf[w],
         NEW m, m = worker[w].msg, worker[w].pc \in {"received", "claimed", "failed", "saved"}
  PROVE  \/ worker'[w] = worker[w]
         \/ /\ worker[w].pc # "saved" /\ worker'[w].msg = m
            /\ worker'[w].pc \in {"claimed", "failed"}
         \/ m.id \in processed'[c]
         \/ SaveWorkerError(w) \/ RepublishForRetry(w) \/ MoveToDlq(w)
         \/ CrashWorker(w) /\ InQueue(c, m)'
<1>0. c \in Consumer /\ m \in Message
  BY HeldType
<1>2. CASE ClaimEventForProcessing(w)
  <2>1. CASE worker[w].msg.id \in processed[ConsumerOf[w]]
    BY <1>0, <2>1, TablesGrow
  <2>2. CASE worker[w].msg.id \notin processed[ConsumerOf[w]]
    <3>1. worker' = [worker EXCEPT ![w].pc = "claimed"] /\ worker[w].pc = "received"
      BY <1>2, <2>2 DEF ClaimEventForProcessing
    <3> QED
      BY <3>1, PcMoves DEF WorkerPC
  <2> QED
    BY <2>1, <2>2
<1>3. CASE ProcessEvent(w)
  <2>1. processed' = [processed EXCEPT ![ConsumerOf[w]] = @ \cup {worker[w].msg.id}]
    BY <1>3 DEF ProcessEvent
  <2> QED
    BY <1>0, <2>1 DEF TypeOK
<1>4. CASE ProcessingRaises(w)
  <2>1. /\ worker' = [worker EXCEPT ![w].pc = "failed"]
        /\ worker[w].pc \in {"received", "claimed", "acking"}
    BY <1>4 DEF ProcessingRaises
  <2> QED
    BY <2>1, PcMoves DEF WorkerPC
<1>5. CASE CrashWorker(w)
  BY <1>0, <1>5, CrashQueues DEF Busy
<1>6. ~StartWorker(w) /\ ~Ack(w) /\ \A k : ~Receive(w, k)
  BY DEF StartWorker, Ack, Receive
<1>7. CASE Quiet \/ \E p \in Publishers, i \in Events : PublishEvent(p, i)
  BY <1>7 DEF Quiet, PublishEvent
<1> QED
  BY <1>2, <1>3, <1>4, <1>5, <1>6, <1>7, StepCases, OtherWorkersStay DEF WorkerStep

-----------------------------------------------------------------------------
(* No message is lost *)

InWork(w) == worker[w].pc \in {"received", "claimed", "failed", "saved"}

\* Where an event that was routed to consumer c still has a future or an end.  A
\* message in another state than these is a duplicate, or has a copy.
Kept(c, i) ==
  \/ \E m \in Message : InQueue(c, m) /\ m.id = i
  \/ \E w \in Workers : ConsumerOf[w] = c /\ InWork(w) /\ worker[w].msg.id = i
  \/ i \in processed[c]
  \/ \E m \in dlq[c] : m.id = i

Published(i) ==
  \/ outbox[i].status = "published"
  \/ \E p \in Publishers : i \in publisher[p].sent

\* A row counts as published from the publication on, before the commit.
KeptInv ==
  /\ InitiallyBound \subseteq bound
  /\ \A p \in Publishers : publisher[p].sent \subseteq Events
  /\ \A i \in Events, c \in InitiallyBound :
       Published(i) /\ Receives(c, outbox[i].type) => Kept(c, i)

LEMMA KeptInit == Init => KeptInv
  BY DEF Init, KeptInv, Events, IdlePublisher

\* Only a retry copy may take the place of a message, and it goes to every queue
\* that is bound to the type of the event.
LEMMA KeptStays ==
  ASSUME TypeOK, [Next]_vars, InitiallyBound \subseteq bound, NEW c \in InitiallyBound,
         NEW i \in Events, Receives(c, outbox[i].type), Kept(c, i)
  PROVE  Kept(c, i)'
<1>0. c \in Consumer /\ c \in bound
  BY PipelineAssumption
<1>1. ASSUME NEW m \in Message, InQueue(c, m), m.id = i PROVE Kept(c, i)'
  <2>1. CASE InQueue(c, m)'
    BY <1>1, <2>1 DEF Kept
  <2>2. ASSUME NEW w \in Workers, ConsumerOf[w] = c, worker'[w].pc = "received", worker'[w].msg = m
        PROVE  Kept(c, i)'
    BY <1>1, <2>2 DEF Kept, InWork
  <2> QED
    BY <1>0, <1>1, <2>1, <2>2, QueuedStays
<1>2. ASSUME NEW w \in Workers, ConsumerOf[w] = c, InWork(w), worker[w].msg.id = i
      PROVE  Kept(c, i)'
  <2>0. PICK m \in Message : m = worker[w].msg
    BY HeldType
  <2>1. CASE worker'[w] = worker[w]
    BY <1>2, <2>1 DEF Kept, InWork
  <2>2. CASE worker'[w].msg = m /\ worker'[w].pc \in {"claimed", "failed"}
    BY <1>2, <2>0, <2>2 DEF Kept, InWork
  <2>3. CASE m.id \in processed'[c]
    BY <1>2, <2>0, <2>3 DEF Kept
  <2>4. CASE SaveWorkerError(w)
    <3>1. worker' = [worker EXCEPT ![w].pc = "saved"]
      BY <2>4 DEF SaveWorkerError
    <3>2. worker'[w].msg = worker[w].msg /\ worker'[w].pc = "saved"
      BY <3>1, PcMoves DEF WorkerPC
    <3> QED
      BY <1>2, <3>2 DEF Kept, InWork
  <2>5. CASE RepublishForRetry(w)
    <3>1. PICK x \in Message : x = [worker[w].msg EXCEPT !.retry = @ + 1] /\ x.id = i
      BY <1>2, RetryCopy
    <3>2. ExchangePublish(x)
      BY <2>5, <3>1 DEF RepublishForRetry
    <3>3. InQueue(c, x)'
      BY <1>0, <3>1, <3>2, ExchangeQueues
    <3> QED
      BY <3>1, <3>3 DEF Kept
  <2>6. CASE MoveToDlq(w)
    <3>1. dlq' = [dlq EXCEPT ![c] = @ \cup {m}]
      BY <1>2, <2>0, <2>6 DEF MoveToDlq
    <3>2. m \in dlq'[c]
      BY <1>0, <3>1 DEF TypeOK
    <3> QED
      BY <1>2, <2>0, <3>2 DEF Kept
  <2>7. CASE InQueue(c, m)'
    BY <1>2, <2>0, <2>7 DEF Kept
  <2> QED
    BY <1>2, <2>0, <2>1, <2>2, <2>3, <2>4, <2>5, <2>6, <2>7, InWorkStays DEF InWork
<1>3. CASE i \in processed[c] \/ \E m \in dlq[c] : m.id = i
  BY <1>0, <1>3, TablesGrow DEF Kept
<1> QED
  BY <1>1, <1>2, <1>3 DEF Kept

LEMMA KeptStep == TypeOK /\ KeptInv /\ [Next]_vars => KeptInv'
<1> SUFFICES ASSUME TypeOK, KeptInv, [Next]_vars PROVE KeptInv'
  OBVIOUS
<1>0. RowsKept /\ InitiallyBound \subseteq bound /\ InitiallyBound \subseteq Consumer
  BY RowsStay, PipelineAssumption DEF KeptInv
<1>1. InitiallyBound \subseteq bound'
  <2>1. CASE InitiallyBound = {}
    BY <2>1
  <2>2. ASSUME NEW c \in InitiallyBound PROVE bound \subseteq bound'
    BY <1>0, TablesGrow
  <2> QED
    BY <1>0, <2>1, <2>2
\* Who has sent what: the row published in this step, or a row sent before.
<1>2. ASSUME NEW q \in Publishers, NEW i \in publisher'[q].sent
      PROVE  \/ i \in publisher[q].sent
             \/ i \in Events /\ \E p \in Publishers : PublishEvent(p, i)
  <2>1. CASE Quiet
    BY <1>2, <2>1 DEF Quiet
  <2>2. ASSUME NEW p \in Publishers, NEW j \in Events, PublishEvent(p, j)
        PROVE  i \in publisher[q].sent \/ i = j
    <3>1. publisher' = [publisher EXCEPT ![p].todo = @ \ {j}, ![p].sent = @ \cup {j}]
      BY <2>2 DEF PublishEvent
    <3>2. publisher'[q].sent \subseteq publisher[q].sent \cup {j}
      BY <3>1 DEF TypeOK, PublisherState
    <3> QED
      BY <1>2, <3>2
  <2>3. ASSUME NEW w \in Workers, WorkerStep(w) \/ ProcessingRaises(w) \/ CrashWorker(w)
        PROVE  publisher' = publisher
    BY <2>3 DEF WorkerStep, StartWorker, Receive, ClaimEventForProcessing, ProcessEvent,
       SaveWorkerError, RepublishForRetry, MoveToDlq, Ack, ProcessingRaises, CrashWorker
  <2> QED
    BY <1>2, <2>1, <2>2, <2>3, StepCases
<1>3. \A q \in Publishers : publisher'[q].sent \subseteq Events'
  BY <1>0, <1>2 DEF KeptInv, RowsKept
\* A row that is published now was so before, or has just been sent to the queues.
<1>4. ASSUME NEW i \in Events', NEW c \in InitiallyBound, Published(i)',
             Receives(c, outbox'[i].type)
      PROVE  Kept(c, i)'
  <2>1. i \in Events
    <3>1. CASE outbox'[i].status = "published"
      BY <1>0, <3>1 DEF RowsKept
    <3>2. ASSUME NEW q \in Publishers, i \in publisher'[q].sent PROVE i \in Events
      BY <1>2, <3>2 DEF KeptInv
    <3> QED
      BY <1>4, <3>1, <3>2 DEF Published
  <2>2. Receives(c, outbox[i].type)
    BY <1>0, <1>4, <2>1 DEF RowsKept
  <2>3. CASE Published(i)
    BY <1>0, <2>1, <2>2, <2>3, KeptStays DEF KeptInv
  <2>4. ASSUME NEW p \in Publishers, PublishEvent(p, i) PROVE Kept(c, i)'
    <3>0. [id |-> i, retry |-> 0] \in Message
      BY <2>1 DEF Message, Events
    <3>1. PICK m \in Message : m = [id |-> i, retry |-> 0] /\ m.id = i
      BY <3>0
    <3>2. ExchangePublish(m)
      BY <2>4, <3>1 DEF PublishEvent
    <3>3. InQueue(c, m)'
      BY <1>0, <2>2, <3>1, <3>2, ExchangeQueues
    <3> QED
      BY <3>1, <3>3 DEF Kept
  <2>5. Published(i) \/ \E p \in Publishers : PublishEvent(p, i)
    <3>1. CASE outbox'[i].status = "published"
      BY <1>0, <2>1, <3>1 DEF RowsKept, Published
    <3>2. ASSUME NEW q \in Publishers, i \in publisher'[q].sent
          PROVE  Published(i) \/ \E p \in Publishers : PublishEvent(p, i)
      BY <1>2, <3>2 DEF Published
    <3> QED
      BY <1>4, <3>1, <3>2 DEF Published
  <2> QED
    BY <2>3, <2>4, <2>5
<1> QED
  BY <1>1, <1>3, <1>4 DEF KeptInv

\* The transactional outbox keeps its promise at every consumer whose queue exists:
\* no crash of a publisher between publication and commit, and none of a worker
\* anywhere between receipt and acknowledgement, loses a published event.
THEOREM NothingPublishedIsLost == Spec => []PublishedNotLost
<1>1. KeptInv => PublishedNotLost
  <2> SUFFICES ASSUME KeptInv, NEW i \in Events, NEW c \in InitiallyBound,
                      outbox[i].status = "published", Receives(c, outbox[i].type)
               PROVE  Accounted(c, i)
    BY DEF PublishedNotLost
  <2>1. Kept(c, i)
    BY DEF KeptInv, Published
  <2>2. ASSUME NEW m, InQueue(c, m), m.id = i PROVE Accounted(c, i)
    BY <2>2 DEF InQueue, Accounted
  <2>3. ASSUME NEW w \in Workers, ConsumerOf[w] = c, InWork(w), worker[w].msg.id = i
        PROVE  Accounted(c, i)
    BY <2>3 DEF InWork, Holds, Accounted
  <2> QED
    BY <2>1, <2>2, <2>3 DEF Kept, Accounted
<1> QED
  BY <1>1, KeptInit, KeptStep, TypeCorrect, PTL DEF Spec

-----------------------------------------------------------------------------
(* The tables are a chain of events *)

ToEnrich == {i \in Events : outbox[i].type \in Enrichable}

Pairs(type) == {<<outbox[i].cause, i>> : i \in Derived(type)}

ChainStutters == UNCHANGED Chain!vars

LEMMA ChainVars ==
  UNCHANGED <<ToEnrich, Pairs(Enriched), deliveries, Pairs(Sent)>> => ChainStutters
  BY DEF ChainStutters, Chain!vars, ToEnrich, Pairs

\* Rows of other types are no matter to the pairs of a type.
LEMMA SamePairs ==
  ASSUME RowsKept, NEW type, \A i \in Events' \ Events : outbox'[i].type # type
  PROVE  Pairs(type)' = Pairs(type)
<1>1. Derived(type)' = Derived(type)
  BY DEF RowsKept, Derived
<1>2. \A i \in Derived(type) : outbox'[i].cause = outbox[i].cause
  BY DEF RowsKept, Derived
<1> QED
  BY <1>1, <1>2 DEF Pairs

\* New rows of a type are first answers to what they are derived from.
LEMMA MorePairs ==
  ASSUME RowsKept, NEW type, UniqueCause(type)', NEW S,
         \A i \in Events' \ Events : outbox'[i].type = type => outbox'[i].cause \in S
  PROVE  Chain!Answers(Pairs(type), Pairs(type)', S)
<1>1. /\ Derived(type) \subseteq Derived(type)'
      /\ \A i \in Derived(type) : outbox'[i].cause = outbox[i].cause
      /\ \A i \in Derived(type)' : i \notin Derived(type) => outbox'[i].cause \in S
  BY DEF RowsKept, Derived
<1>2. PICK old, new : old = Pairs(type) /\ new = Pairs(type)'
  OBVIOUS
<1>3. \A x : x \in old <=> \E i \in Derived(type) : x = <<outbox[i].cause, i>>
  BY <1>2 DEF Pairs
<1>4. \A x : x \in new <=> \E i \in Derived(type)' : x = <<outbox'[i].cause, i>>
  BY <1>2 DEF Pairs
<1>5. old \subseteq new
  BY <1>1, <1>3, <1>4
<1>6. ASSUME NEW x \in new \ old
      PROVE  x[1] \in S /\ \A y \in new : y[1] = x[1] => y = x
  <2>1. PICK i \in Derived(type)' : x = <<outbox'[i].cause, i>>
    BY <1>4
  <2>2. i \notin Derived(type)
    BY <1>1, <1>3, <1>6, <2>1
  <2>3. ASSUME NEW y \in new, y[1] = x[1] PROVE y = x
    <3>1. PICK j \in Derived(type)' : y = <<outbox'[j].cause, j>>
      BY <1>4
    <3>2. outbox'[j].cause = outbox'[i].cause
      BY <2>1, <2>3, <3>1
    <3>3. i = j
      BY <3>2 DEF UniqueCause
    <3> QED
      BY <2>1, <3>1, <3>3
  <2> QED
    BY <1>1, <2>1, <2>2, <2>3
<1>7. Chain!Answers(old, new, S)
  BY <1>5, <1>6 DEF Chain!Answers
<1> QED
  BY <1>2, <1>7

LEMMA SameToEnrich ==
  ASSUME RowsKept
  PROVE  /\ ToEnrich \subseteq ToEnrich'
         /\ (\A i \in Events' \ Events : outbox'[i].type \notin Enrichable) => ToEnrich' = ToEnrich
  BY DEF RowsKept, ToEnrich

LEMMA ChainInit == Init => Chain!Init
  BY DEF Init, Chain!Init, Events, Derived

\* An event that is enriched was to be, and its pair is new.
LEMMA ChainProcess ==
  ASSUME TypeOK, RoutedInv, RowsKept, OneDerivedEvent', NEW w \in Workers, ProcessEvent(w)
  PROVE  Chain!Next \/ ChainStutters
<1>1. PICK id \in Nat : id = worker[w].msg.id /\ ConsumerOf[w] \in Consumer
  BY HeldType
<1>2. id \in Events
  BY <1>1 DEF ProcessEvent, RoutedInv, Routed, Busy
<1>3. CASE /\ outbox[id].type \in Enrichable
           /\ outbox' = Append(outbox, NewRow(Enriched, id)) /\ UNCHANGED deliveries
  <2>1. NewRow(Enriched, id) \in Row
    BY NewRowType, TypesAreEventTypes
  <2>2. \A i \in Events' \ Events : outbox'[i] = NewRow(Enriched, id)
    BY <1>3, <2>1, AppendRow
  <2>3. \A i \in Events' \ Events : outbox'[i].type = Enriched /\ outbox'[i].cause = id
    BY <2>2 DEF NewRow
  <2>4. Enriched \notin Enrichable /\ Enriched # Sent
    BY TypesDistinct DEF Enrichable, TaskEventType
  <2>5. ToEnrich' = ToEnrich /\ Pairs(Sent)' = Pairs(Sent)
    BY <2>3, <2>4, SamePairs, SameToEnrich
  <2>6. PICK S : S = ToEnrich
    OBVIOUS
  <2>7. id \in S /\ UniqueCause(Enriched)'
    BY <1>2, <1>3, <2>6 DEF ToEnrich, OneDerivedEvent
  <2>8. Chain!Answers(Pairs(Enriched), Pairs(Enriched)', S)
    BY <2>3, <2>7, MorePairs
  <2>9. Chain!Enrich
    BY <1>3, <2>5, <2>6, <2>8 DEF Chain!Enrich, ToEnrich, Pairs
  <2> QED
    BY <2>9 DEF Chain!Next
<1>4. CASE outbox' = outbox /\ deliveries' = deliveries
  <2>1. UNCHANGED <<ToEnrich, Pairs(Enriched), deliveries, Pairs(Sent)>>
    BY <1>4 DEF ToEnrich, Pairs, Derived, Events
  <2> QED
    BY <2>1, ChainVars
<1>5. CASE outbox' = outbox /\ HasEmail(id) /\ deliveries' = deliveries \cup {id}
  <2>1. UNCHANGED <<ToEnrich, Pairs(Enriched), Pairs(Sent)>>
    BY <1>5 DEF ToEnrich, Pairs, Derived, Events
  <2>2. <<outbox[id].cause, id>> \in Pairs(Enriched)
    BY <1>2, <1>5 DEF Pairs, Derived, HasEmail
  <2>3. \E x \in Pairs(Enriched) : x[2] = id
    BY <2>2
  <2>4. Chain!QueueDelivery
    BY <1>5, <2>1, <2>3 DEF Chain!QueueDelivery, ToEnrich, Pairs
  <2> QED
    BY <2>4 DEF Chain!Next
<1> QED
  BY <1>1, <1>3, <1>4, <1>5, ProcessEffects DEF Consumer

\* A delivery that is reported was queued, and is reported for the first time.
LEMMA ChainDispatch ==
  ASSUME TypeOK, RowsKept, OneDerivedEvent', DispatchOnce
  PROVE  Chain!Next
<1>1. PICK b \in DispatchBatch : outbox' = outbox \o [k \in DOMAIN b |-> NewRow(Sent, b[k])]
  BY DEF DispatchOnce
<1>2. PICK n \in Nat : b \in [1..n -> deliveries]
  <2>1. PICK n \in 0..DispatchLimit : b \in [1..n -> Dispatchable]
    BY DEF DispatchBatch
  <2>2. n \in Nat /\ Dispatchable \subseteq deliveries
    BY PipelineAssumption DEF Dispatchable
  <2> QED
    BY <2>1, <2>2
<1>3. PICK rows : rows = [k \in 1..n |-> NewRow(Sent, b[k])]
  OBVIOUS
<1>4. \A k \in 1..n : b[k] \in deliveries /\ b[k] \in Nat
  BY <1>2 DEF TypeOK
<1>5. \A k \in 1..n : rows[k] \in Row /\ rows[k].type = Sent /\ rows[k].cause \in deliveries
  BY <1>3, <1>4, NewRowType, TypesAreEventTypes DEF NewRow
<1>6. rows \in Seq(Row) /\ Len(rows) = n /\ outbox' = outbox \o rows
  BY <1>1, <1>2, <1>3, <1>5
<1>7. \A i \in Events' \ Events : i - Len(outbox) \in 1..n /\ outbox'[i] = rows[i - Len(outbox)]
  BY <1>6, AppendRows
<1>8. \A i \in Events' \ Events : outbox'[i].type = Sent /\ outbox'[i].cause \in deliveries
  BY <1>5, <1>7
<1>9. Sent \notin Enrichable /\ Enriched # Sent
  BY TypesDistinct DEF Enrichable, TaskEventType
<1>10. ToEnrich' = ToEnrich /\ Pairs(Enriched)' = Pairs(Enriched) /\ deliveries' = deliveries
  BY <1>8, <1>9, SamePairs, SameToEnrich DEF DispatchOnce
<1>11. PICK S : S = deliveries
  OBVIOUS
<1>12. Chain!Answers(Pairs(Sent), Pairs(Sent)', S)
  BY <1>8, <1>11, MorePairs DEF OneDerivedEvent
<1>13. Chain!Send
  BY <1>10, <1>11, <1>12 DEF Chain!Send, ToEnrich, Pairs
<1> QED
  BY <1>13 DEF Chain!Next

LEMMA ChainStep ==
  TypeOK /\ RoutedInv /\ OneDerivedEvent' /\ [Next]_vars => [Chain!Next]_(Chain!vars)
<1> SUFFICES ASSUME TypeOK, RoutedInv, OneDerivedEvent', [Next]_vars
             PROVE  Chain!Next \/ ChainStutters
  BY DEF ChainStutters
<1>0. RowsKept
  BY RowsStay
<1>1. ASSUME NEW type \in SourceTypes, AddTaskOutboxEvent(type) PROVE Chain!Next
  <2>1. NewRow(type, 0) \in Row /\ NewRow(type, 0).type = type
    BY NewRowType, TypesAreEventTypes DEF NewRow
  <2>2. \A i \in Events' \ Events : outbox'[i].type = type
    BY <1>1, <2>1, AppendRow DEF AddTaskOutboxEvent
  <2>3. type # Enriched /\ type # Sent
    BY TypesDistinct, PipelineAssumption
  <2>4. /\ Pairs(Enriched)' = Pairs(Enriched) /\ Pairs(Sent)' = Pairs(Sent)
        /\ ToEnrich \subseteq ToEnrich' /\ deliveries' = deliveries
    BY <1>0, <1>1, <2>2, <2>3, SamePairs, SameToEnrich DEF AddTaskOutboxEvent
  <2>5. Chain!Write
    BY <2>4 DEF Chain!Write, ToEnrich, Pairs
  <2> QED
    BY <2>5 DEF Chain!Next
<1>2. ASSUME Events' = Events, deliveries' = deliveries PROVE ChainStutters
  <2>1. \A i \in Events' \ Events : FALSE
    BY <1>2
  <2>2. /\ Pairs(Enriched)' = Pairs(Enriched) /\ Pairs(Sent)' = Pairs(Sent)
        /\ ToEnrich' = ToEnrich
    BY <1>0, <2>1, SamePairs, SameToEnrich
  <2> QED
    BY <1>2, <2>2, ChainVars
<1>3. ASSUME UNCHANGED <<outbox, deliveries>> PROVE ChainStutters
  BY <1>2, <1>3 DEF Events
<1>4. ASSUME NEW p \in Publishers, PublisherStep(p) PROVE ChainStutters
  <2>1. CASE CommitBatch(p)
    <3>1. Events' = Events /\ deliveries' = deliveries
      BY <2>1 DEF CommitBatch, Events, TypeOK
    <3> QED
      BY <1>2, <3>1
  <2>2. LoadPendingOutboxEvents(p) => UNCHANGED <<outbox, deliveries>>
    BY DEF LoadPendingOutboxEvents
  <2>3. \A i : PublishEvent(p, i) => UNCHANGED <<outbox, deliveries>>
    BY DEF PublishEvent
  <2>4. StartPublisher(p) => UNCHANGED <<outbox, deliveries>>
    BY DEF StartPublisher
  <2> QED
    BY <1>3, <1>4, <2>1, <2>2, <2>3, <2>4 DEF PublisherStep
<1>5. ASSUME NEW w \in Workers, WorkerStep(w) PROVE Chain!Next \/ ChainStutters
  <2>1. CASE ProcessEvent(w)
    BY <1>0, <2>1, ChainProcess
  <2>2. StartWorker(w) \/ MoveToDlq(w) \/ Ack(w) => UNCHANGED <<outbox, deliveries>>
    BY DEF StartWorker, MoveToDlq, Ack
  <2>3. \A k : Receive(w, k) => UNCHANGED <<outbox, deliveries>>
    BY DEF Receive
  <2>4. ClaimEventForProcessing(w) => UNCHANGED <<outbox, deliveries>>
    BY DEF ClaimEventForProcessing
  <2>5. SaveWorkerError(w) => UNCHANGED <<outbox, deliveries>>
    BY DEF SaveWorkerError
  <2>6. RepublishForRetry(w) => UNCHANGED <<outbox, deliveries>>
    BY DEF RepublishForRetry
  <2> QED
    BY <1>3, <1>5, <2>1, <2>2, <2>3, <2>4, <2>5, <2>6 DEF WorkerStep
<1>6. CASE CronStart \/ FaultStep \/ UNCHANGED vars
  BY <1>3, <1>6 DEF vars, CronStart, FaultStep, MarkOutboxEventRetry, CrashPublisher,
     ProcessingRaises, CrashWorker, CronCrash
<1>7. CASE DispatchOnce
  BY <1>0, <1>7, ChainDispatch
<1> QED
  <2>1. CASE Next
    BY <1>1, <1>4, <1>5, <1>6, <1>7, <2>1 DEF Next, CronStep
  <2>2. CASE UNCHANGED vars
    BY <1>6, <2>2
  <2> QED
    BY <2>1, <2>2

\* The pipeline, with all its redeliveries, retries, rollbacks and crashes, implements
\* the chain: a task event is enriched at most once, its enriched event is queued at
\* most once, its delivery is reported at most once, and each only after the other.
THEOREM PipelineIsChain == Spec => ImplementsChain
<1>1. Init => RoutedInv
  BY RoutedInit
<1>2. TypeOK /\ RoutedInv /\ [Next]_vars => RoutedInv'
  BY RoutedStep
<1>3. Init => Chain!Init
  BY ChainInit
<1>4. TypeOK /\ RoutedInv /\ OneDerivedEvent' /\ [Next]_vars => [Chain!Next]_(Chain!vars)
  BY ChainStep
<1> QED
  BY <1>1, <1>2, <1>3, <1>4, TypeCorrect, DerivedOnce, PTL DEF Spec, ImplementsChain, Chain!Spec

-----------------------------------------------------------------------------
(* Dead letters have been tried *)

\* Each consumer has one worker, as in docker-compose.yml.
OneWorkerEach == \A v, w \in Workers : ConsumerOf[v] = ConsumerOf[w] => v = w

\* The message with another number of retries.
Copy(m, r) == [id |-> m.id, retry |-> r]

Tried(c, m) == m.id \in processed[c] \/ m \in errors[c]

InHand(c, m) ==
  \E w \in Workers : /\ ConsumerOf[w] = c /\ worker[w].msg = m
                     /\ worker[w].pc \in {"received", "claimed", "failed"}

\* Consumer c got the message and has tried it, or will.
Seen(c, m) == Tried(c, m) \/ InHand(c, m) \/ InQueue(c, m)

Circulates(m) ==
  \/ \E c \in Consumer : InQueue(c, m)
  \/ \E w \in Workers : Busy(w) /\ worker[w].msg = m

\* A copy with some number of retries exists, at whatever consumer, only after all
\* copies with fewer retries went to every consumer.
SharedInv ==
  \A m \in Message, c \in InitiallyBound :
    Circulates(m) /\ Receives(c, outbox[m.id].type) =>
      \A r \in 0..m.retry : Seen(c, Copy(m, r))

Before(c, k, m) == Tried(c, m) \/ InHand(c, m) \/ \E j \in 1..k - 1 : queue[c][j] = m

\* In the queue of a consumer, copies with fewer retries come first.
Ordered(c) ==
  \A k \in DOMAIN queue[c] : \A r \in 0..queue[c][k].retry - 1 :
    Before(c, k, Copy(queue[c][k], r))

QueueInv == \A c \in InitiallyBound : Ordered(c)

\* The worker of a consumer that has got every copy tries them in that order.
TriedUpTo(c, m, n) == \A r \in 0..n - 1 : Tried(c, Copy(m, r))

HandInv ==
  \A w \in Workers : Busy(w) /\ ConsumerOf[w] \in InitiallyBound =>
    /\ TriedUpTo(ConsumerOf[w], worker[w].msg, worker[w].msg.retry)
    /\ worker[w].pc \in {"saved", "retried", "acking"} => Tried(ConsumerOf[w], worker[w].msg)

LEMMA CopyType ==
  ASSUME NEW m \in Message
  PROVE  /\ m.id \in Nat /\ m.retry \in Nat
         /\ \A r \in Nat : Copy(m, r) \in Message /\ Copy(m, r).id = m.id /\ Copy(m, r).retry = r
         /\ Copy(m, m.retry) = m
  BY DEF Message, Copy

LEMMA TriedStays ==
  ASSUME TypeOK, [Next]_vars, NEW c \in Consumer, NEW m, Tried(c, m)
  PROVE  Tried(c, m)'
  BY TablesGrow DEF Tried

\* The worker of a consumer keeps a message in hand until it has tried it or dies.
LEMMA InHandStays ==
  ASSUME TypeOK, [Next]_vars, ~ErrorStoreFails, NEW c \in Consumer, NEW m, InHand(c, m)
  PROVE  \/ InHand(c, m)' \/ Tried(c, m)'
         \/ \E w \in Workers : /\ ConsumerOf[w] = c /\ worker[w].msg = m
                               /\ CrashWorker(w) /\ InQueue(c, m)'
<1>1. PICK w \in Workers : /\ ConsumerOf[w] = c /\ worker[w].msg = m
                           /\ worker[w].pc \in {"received", "claimed", "failed"}
  BY DEF InHand
<1>2. CASE worker'[w] = worker[w]
  BY <1>1, <1>2 DEF InHand
<1>3. CASE worker'[w].msg = m /\ worker'[w].pc \in {"claimed", "failed"}
  BY <1>1, <1>3 DEF InHand
<1>4. CASE m.id \in processed'[c]
  BY <1>4 DEF Tried
<1>5. CASE SaveWorkerError(w)
  <2>1. errors' = [errors EXCEPT ![c] = @ \cup {m}]
    BY <1>1, <1>5 DEF SaveWorkerError
  <2> QED
    BY <2>1 DEF TypeOK, Tried
<1>6. ~RepublishForRetry(w) /\ ~MoveToDlq(w)
  BY <1>1 DEF RepublishForRetry, MoveToDlq
<1> QED
  BY <1>1, <1>2, <1>3, <1>4, <1>5, <1>6, InWorkStays

LEMMA SeenStays ==
  ASSUME TypeOK, [Next]_vars, ~ErrorStoreFails, NEW c \in Consumer, NEW m \in Message, Seen(c, m)
  PROVE  Seen(c, m)'
<1>1. CASE InQueue(c, m)
  <2>1. ASSUME NEW w \in Workers, ConsumerOf[w] = c, worker'[w].pc = "received", worker'[w].msg = m
        PROVE  InHand(c, m)'
    BY <2>1 DEF InHand
  <2> QED
    BY <1>1, <2>1, QueuedStays DEF Seen
<1> QED
  BY <1>1, TriedStays, InHandStays DEF Seen

\* A message that is new is published, or a retry copy.
LEMMA CirculatesFrom ==
  ASSUME TypeOK, [Next]_vars, NEW m \in Message, Circulates(m)'
  PROVE  \/ Circulates(m)
         \/ \E p \in Publishers, i \in Events : PublishEvent(p, i) /\ m = [id |-> i, retry |-> 0]
         \/ \E w \in Workers : /\ RepublishForRetry(w)
                               /\ m = [worker[w].msg EXCEPT !.retry = @ + 1]
<1> SUFFICES ASSUME ~Circulates(m)
             PROVE  \/ \E p \in Publishers, i \in Events :
                         PublishEvent(p, i) /\ m = [id |-> i, retry |-> 0]
                    \/ \E w \in Workers : /\ RepublishForRetry(w)
                                          /\ m = [worker[w].msg EXCEPT !.retry = @ + 1]
  OBVIOUS
<1>0. \A c \in Consumer : ~InQueue(c, m)
  BY DEF Circulates
<1>1. CASE Quiet
  <2>1. Circulates(m)
    BY <1>1 DEF Quiet, Circulates, InQueue, Busy
  <2> QED
    BY <2>1
<1>2. ASSUME NEW p \in Publishers, NEW i \in Events, PublishEvent(p, i)
      PROVE  m = [id |-> i, retry |-> 0]
  <2>1. PICK x : x = [id |-> i, retry |-> 0]
    OBVIOUS
  <2>2. x \in Message /\ ExchangePublish(x) /\ worker' = worker
    BY <1>2, <2>1 DEF PublishEvent, Message, Events
  <2>3. \E c \in Consumer : InQueue(c, m)'
    BY <2>2 DEF Circulates, Busy
  <2> QED
    BY <1>0, <2>1, <2>2, <2>3, ExchangeQueues
<1>3. ASSUME NEW w \in Workers, RepublishForRetry(w)
      PROVE  m = [worker[w].msg EXCEPT !.retry = @ + 1]
  <2>1. PICK x \in Message : x = [worker[w].msg EXCEPT !.retry = @ + 1]
    BY RetryCopy
  <2>2. /\ ExchangePublish(x) /\ worker[w].pc = "saved"
        /\ worker' = [worker EXCEPT ![w].pc = "retried"]
    BY <1>3, <2>1 DEF RepublishForRetry
  <2>3. worker'[w].msg = worker[w].msg /\ \A v \in Workers : v # w => worker'[v] = worker[v]
    BY <2>2, PcMoves DEF WorkerPC
  <2>4. \A v \in Workers : Busy(v)' => Busy(v) /\ worker'[v].msg = worker[v].msg
    BY <2>2, <2>3 DEF Busy
  <2>5. \E c \in Consumer : InQueue(c, m)'
    BY <2>4 DEF Circulates
  <2> QED
    BY <1>0, <2>1, <2>2, <2>5, ExchangeQueues
<1>4. ASSUME NEW w \in Workers, NEW k \in DOMAIN queue[ConsumerOf[w]], Receive(w, k) PROVE FALSE
  <2>1. PICK c \in Consumer : c = ConsumerOf[w]
    BY HeldType
  <2>2. k \in DOMAIN queue[c] /\ worker'[w].msg = queue[c][k]
        /\ \A v \in Workers : v # w => worker'[v] = worker[v]
    BY <1>4, <2>1, ReceiveEffect
  <2>3. worker'[w].msg # m
    BY <1>0, <2>2 DEF InQueue
  <2>4. \A d \in Consumer : ~InQueue(d, m)'
    BY <1>0, <1>4, ReceiveQueues
  <2>5. PICK v \in Workers : Busy(v)' /\ worker'[v].msg = m
    BY <2>4 DEF Circulates
  <2>6. Busy(v) /\ worker[v].msg = m
    BY <2>2, <2>3, <2>5 DEF Busy
  <2> QED
    BY <2>6 DEF Circulates
<1>5. ASSUME NEW w \in Workers, CrashWorker(w) PROVE FALSE
  <2>1. ~Busy(w)' /\ \A v \in Workers : v # w => worker'[v] = worker[v]
    BY <1>5, CrashEffect
  <2>2. \A c \in Consumer : ~InQueue(c, m)'
    BY <1>0, <1>5, CrashQueues DEF Circulates
  <2> QED
    BY <2>1, <2>2 DEF Circulates, Busy
<1>6. ASSUME queue' = queue,
             \A v \in Workers : Busy(v)' => Busy(v) /\ worker'[v].msg = worker[v].msg
      PROVE  FALSE
  BY <1>0, <1>6 DEF Circulates, InQueue
<1> QED
  BY <1>1, <1>2, <1>3, <1>4, <1>5, <1>6, StepCases, QuietWorkerStep

LEMMA SharedStep ==
  ASSUME TypeOK, RoutedInv, KeptInv, SharedInv, ~ErrorStoreFails, [Next]_vars
  PROVE  SharedInv'
<1> SUFFICES ASSUME NEW m \in Message, NEW c \in InitiallyBound, Circulates(m)',
                    Receives(c, outbox'[m.id].type), NEW r \in 0..m.retry
             PROVE  Seen(c, Copy(m, r))'
  <2>1. \A m, r : Copy(m, r)' = Copy(m, r)
    BY DEF Copy
  <2> QED
    BY DEF SharedInv
<1>0. RowsKept /\ c \in Consumer /\ c \in bound
  BY RowsStay, PipelineAssumption DEF KeptInv
<1>1. m.retry \in Nat /\ r \in Nat /\ Copy(m, r) \in Message
  BY CopyType
<1>2. CASE Circulates(m)
  <2>1. m.id \in Events
    BY <1>2 DEF Circulates, RoutedInv, Routed
  <2>2. Receives(c, outbox[m.id].type)
    BY <1>0, <2>1 DEF RowsKept
  <2>3. Seen(c, Copy(m, r))
    BY <1>2, <2>2 DEF SharedInv
  <2> QED
    BY <1>0, <1>1, <2>3, SeenStays
<1>3. ASSUME NEW p \in Publishers, NEW i \in Events, PublishEvent(p, i), m = [id |-> i, retry |-> 0]
      PROVE  Seen(c, Copy(m, r))'
  <2>1. m.id = i /\ m.retry = 0 /\ Copy(m, r) = m /\ ExchangePublish(m)
    BY <1>1, <1>3, CopyType DEF PublishEvent
  <2>2. Receives(c, outbox[m.id].type)
    BY <1>0, <2>1 DEF RowsKept
  <2>3. InQueue(c, m)'
    BY <1>0, <2>1, <2>2, ExchangeQueues
  <2> QED
    BY <2>1, <2>3 DEF Seen
<1>4. ASSUME NEW w \in Workers, RepublishForRetry(w), m = [worker[w].msg EXCEPT !.retry = @ + 1]
      PROVE  Seen(c, Copy(m, r))'
  <2>1. PICK x \in Message : x = worker[w].msg
    BY HeldType
  <2>2. m.id = x.id /\ m.retry = x.retry + 1 /\ x.retry \in Nat /\ ExchangePublish(m)
    BY <1>4, <2>1, RetryCopy, CopyType DEF RepublishForRetry
  <2>3. Busy(w) /\ Circulates(x)
    BY <1>4, <2>1 DEF RepublishForRetry, Busy, Circulates
  <2>4. x.id \in Events
    BY <2>1, <2>3 DEF RoutedInv, Routed
  <2>5. Receives(c, outbox[x.id].type)
    BY <1>0, <2>2, <2>4 DEF RowsKept
  <2>6. CASE r \in 0..x.retry
    <3>1. Seen(c, Copy(x, r)) /\ Copy(m, r) = Copy(x, r)
      BY <2>2, <2>3, <2>5, <2>6 DEF SharedInv, Copy
    <3> QED
      BY <1>0, <1>1, <3>1, SeenStays
  <2>7. CASE r = m.retry
    <3>1. Copy(m, r) = m
      BY <2>7, CopyType
    <3>2. InQueue(c, m)'
      BY <1>0, <2>2, <2>5, ExchangeQueues
    <3> QED
      BY <3>1, <3>2 DEF Seen
  <2> QED
    BY <1>1, <2>2, <2>6, <2>7
<1> QED
  BY <1>2, <1>3, <1>4, CirculatesFrom

\* The only worker of a consumer takes the first message of the queue.
LEMMA OnlyHeadReceived ==
  ASSUME OneWorkerEach, NEW w \in Workers, NEW k \in Nat \ {0}, Receive(w, k)
  PROVE  k = 1
<1>1. {v \in Workers \ {w} : ConsumerOf[v] = ConsumerOf[w]} = {}
  BY DEF OneWorkerEach
<1>2. Cardinality({v \in Workers \ {w} : ConsumerOf[v] = ConsumerOf[w]}) = 0
  BY <1>1, FS_EmptySet
<1>3. Reachable(w) = 1
  BY <1>2 DEF Reachable, PrefetchCount
<1> QED
  BY <1>3 DEF Receive

\* What is before a place in the queue, or has been tried, when no message is taken
\* from the queue and none is put before it.
LEMMA BeforeStays ==
  ASSUME TypeOK, [Next]_vars, ~ErrorStoreFails, NEW c \in Consumer, NEW k \in Nat, NEW m,
         Before(c, k, m), \A j \in 1..k - 1 : queue'[c][j] = queue[c][j],
         \A w \in Workers : ConsumerOf[w] = c => ~CrashWorker(w)
  PROVE  Before(c, k, m)'
  BY TriedStays, InHandStays DEF Before

LEMMA TriedUpToStays ==
  ASSUME TypeOK, [Next]_vars, NEW c \in Consumer, NEW m, NEW n, TriedUpTo(c, m, n)
  PROVE  TriedUpTo(c, m, n)'
<1>1. \A r : Copy(m, r)' = Copy(m, r)
  BY DEF Copy
<1> QED
  BY <1>1, TriedStays DEF TriedUpTo

\* A message at the head of the queue, taken by the only worker, has nothing before
\* it that has not been tried.
LEMMA HeadTried ==
  ASSUME TypeOK, QueueInv, OneWorkerEach, NEW w \in Workers,
         NEW c \in InitiallyBound, c = ConsumerOf[w], worker[w].pc = "idle",
         1 \in DOMAIN queue[c], NEW m, m = queue[c][1]
  PROVE  TriedUpTo(c, m, m.retry)
<1> SUFFICES ASSUME NEW r \in 0..m.retry - 1 PROVE Tried(c, Copy(m, r))
  BY DEF TriedUpTo
<1>1. Before(c, 1, Copy(m, r))
  BY DEF QueueInv, Ordered
<1>2. ~InHand(c, Copy(m, r))
  BY DEF InHand, OneWorkerEach
<1> QED
  BY <1>1, <1>2 DEF Before

LEMMA HandStep ==
  ASSUME TypeOK, QueueInv, HandInv, ~ErrorStoreFails, OneWorkerEach, [Next]_vars
  PROVE  HandInv'
<1> SUFFICES ASSUME NEW w \in Workers, Busy(w)', ConsumerOf[w] \in InitiallyBound
             PROVE  /\ TriedUpTo(ConsumerOf[w], worker[w].msg, worker[w].msg.retry)'
                    /\ worker'[w].pc \in {"saved", "retried", "acking"} =>
                         Tried(ConsumerOf[w], worker[w].msg)'
  BY DEF HandInv
<1>0. PICK c \in InitiallyBound : c = ConsumerOf[w] /\ c \in Consumer
  BY HeldType
<1>1. PICK m : m = worker'[w].msg
  OBVIOUS
<1> SUFFICES /\ TriedUpTo(c, m, m.retry)'
             /\ worker'[w].pc \in {"saved", "retried", "acking"} => Tried(c, m)'
  BY <1>0, <1>1 DEF TriedUpTo, Tried, Copy
<1>2. ASSUME NEW k \in DOMAIN queue[ConsumerOf[w]], Receive(w, k)
      PROVE  TriedUpTo(c, m, m.retry)' /\ worker'[w].pc = "received"
  <2>1. k \in Nat \ {0} /\ k \in DOMAIN queue[c]
        /\ m = queue[c][k] /\ worker'[w].pc = "received"
    BY <1>0, <1>1, <1>2, ReceiveEffect
  <2>2. k = 1
    BY <1>2, <2>1, OnlyHeadReceived
  <2>3. worker[w].pc = "idle"
    BY <1>2 DEF Receive
  <2>4. TriedUpTo(c, m, m.retry)
    BY <1>0, <2>1, <2>2, <2>3, HeadTried
  <2> QED
    BY <1>0, <2>1, <2>4, TriedUpToStays
<1>3. ASSUME Busy(w), m = worker[w].msg
      PROVE  /\ TriedUpTo(c, m, m.retry)'
             /\ worker[w].pc \in {"saved", "retried", "acking"} => Tried(c, m)'
  BY <1>0, <1>3, TriedUpToStays, TriedStays DEF HandInv
<1>4. ASSUME worker'[w] = worker[w]
      PROVE  /\ TriedUpTo(c, m, m.retry)'
             /\ worker'[w].pc \in {"saved", "retried", "acking"} => Tried(c, m)'
  BY <1>1, <1>3, <1>4 DEF Busy
\* A step of the worker itself.
<1>5. ASSUME NEW pc \in WorkerPC, worker' = [worker EXCEPT ![w].pc = pc], Busy(w)
      PROVE  m = worker[w].msg /\ worker'[w].pc = pc
  BY <1>1, <1>5, PcMoves
<1>6. CASE ClaimEventForProcessing(w)
  <2>1. PICK pc \in {"acking", "claimed"} :
          /\ worker' = [worker EXCEPT ![w].pc = pc] /\ worker[w].pc = "received"
          /\ pc = "acking" => worker[w].msg.id \in processed[c]
    BY <1>0, <1>6 DEF ClaimEventForProcessing
  <2>2. pc \in WorkerPC /\ Busy(w)
    BY <2>1 DEF WorkerPC, Busy
  <2>3. m = worker[w].msg /\ worker'[w].pc = pc
    BY <1>5, <2>1, <2>2
  <2>4. pc = "acking" => Tried(c, m)
    BY <2>1, <2>3 DEF Tried
  <2> QED
    BY <1>0, <1>3, <2>1, <2>2, <2>3, <2>4, TriedStays
<1>7. CASE ProcessEvent(w)
  <2>1. /\ worker' = [worker EXCEPT ![w].pc = "acking"] /\ worker[w].pc = "claimed"
        /\ processed' = [processed EXCEPT ![c] = @ \cup {worker[w].msg.id}]
    BY <1>0, <1>7 DEF ProcessEvent
  <2>2. "acking" \in WorkerPC /\ Busy(w)
    BY <2>1 DEF WorkerPC, Busy
  <2>3. m = worker[w].msg
    BY <1>5, <2>1, <2>2
  <2>4. m.id \in processed'[c]
    BY <1>0, <2>1, <2>3 DEF TypeOK
  <2> QED
    BY <1>3, <2>2, <2>3, <2>4 DEF Tried
<1>8. CASE ProcessingRaises(w)
  <2>1. /\ worker' = [worker EXCEPT ![w].pc = "failed"]
        /\ worker[w].pc \in {"received", "claimed", "acking"}
    BY <1>8 DEF ProcessingRaises
  <2>2. "failed" \in WorkerPC /\ Busy(w)
    BY <2>1 DEF WorkerPC, Busy
  <2> QED
    BY <1>3, <1>5, <2>1, <2>2
<1>9. CASE SaveWorkerError(w)
  <2>1. /\ worker' = [worker EXCEPT ![w].pc = "saved"] /\ worker[w].pc = "failed"
        /\ errors' = [errors EXCEPT ![c] = @ \cup {worker[w].msg}]
    BY <1>0, <1>9 DEF SaveWorkerError
  <2>2. "saved" \in WorkerPC /\ Busy(w)
    BY <2>1 DEF WorkerPC, Busy
  <2>3. m = worker[w].msg
    BY <1>5, <2>1, <2>2
  <2>4. m \in errors'[c]
    BY <1>0, <2>1, <2>3 DEF TypeOK
  <2> QED
    BY <1>3, <2>2, <2>3, <2>4 DEF Tried
<1>10. CASE RepublishForRetry(w)
  <2>1. worker' = [worker EXCEPT ![w].pc = "retried"] /\ worker[w].pc = "saved"
    BY <1>10 DEF RepublishForRetry
  <2>2. "retried" \in WorkerPC /\ Busy(w)
    BY <2>1 DEF WorkerPC, Busy
  <2> QED
    BY <1>3, <1>5, <2>1, <2>2
<1>11. ~StartWorker(w) /\ ~MoveToDlq(w) /\ ~Ack(w) /\ ~CrashWorker(w)
  <2>1. StartWorker(w) \/ MoveToDlq(w) \/ Ack(w) => worker' = [worker EXCEPT ![w] = IdleWorker("idle")]
    BY DEF StartWorker, MoveToDlq, Ack
  <2>2. CrashWorker(w) => worker' = [worker EXCEPT ![w] = IdleWorker("down")]
    BY DEF CrashWorker
  <2> QED
    BY <2>1, <2>2, IdleMoves DEF Busy
<1>12. CASE WorkerStep(w) \/ ProcessingRaises(w) \/ CrashWorker(w)
  BY <1>2, <1>6, <1>7, <1>8, <1>9, <1>10, <1>11, <1>12 DEF WorkerStep
<1>13. CASE Quiet \/ \E p \in Publishers, i \in Events : PublishEvent(p, i)
  BY <1>4, <1>13 DEF Quiet, PublishEvent
<1> QED
  BY <1>4, <1>12, <1>13, StepCases, OtherWorkersStay

LEMMA OrderedNext ==
  ASSUME NEW c,
         \A k \in DOMAIN queue'[c] : \A m : m = queue'[c][k] =>
           \A r \in 0..m.retry - 1 : Before(c, k, Copy(m, r))'
  PROVE  Ordered(c)'
<1> SUFFICES ASSUME NEW k \in DOMAIN queue'[c], NEW r \in 0..queue'[c][k].retry - 1
             PROVE  Before(c, k, Copy(queue[c][k], r))'
  BY DEF Ordered
<1>1. PICK m : m = queue'[c][k]
  OBVIOUS
<1>2. Before(c, k, Copy(m, r))'
  BY <1>1
<1> QED
  BY <1>1, <1>2 DEF Before, Tried, InHand, Copy

\* A queue that stays as it is, or gets at its end a message whose earlier copies
\* the consumer has seen.
LEMMA OrderedGrows ==
  ASSUME TypeOK, [Next]_vars, ~ErrorStoreFails, NEW c \in InitiallyBound, Ordered(c),
         \A w \in Workers : ConsumerOf[w] = c => ~CrashWorker(w),
         NEW n \in Nat, DOMAIN queue[c] = 1..n, \A j \in 1..n : queue'[c][j] = queue[c][j],
         DOMAIN queue'[c] \subseteq 1..n + 1,
         n + 1 \in DOMAIN queue'[c] =>
           \A m : m = queue'[c][n + 1] => \A r \in 0..m.retry - 1 : Seen(c, Copy(m, r))
  PROVE  Ordered(c)'
<1>0. c \in Consumer
  BY PipelineAssumption
<1> SUFFICES ASSUME NEW k \in DOMAIN queue'[c], NEW m, m = queue'[c][k], NEW r \in 0..m.retry - 1
             PROVE  Before(c, k, Copy(m, r))'
  BY OrderedNext
<1>1. k \in 1..n \/ k = n + 1
  OBVIOUS
<1>2. k \in Nat /\ \A j \in 1..k - 1 : j \in 1..n
  BY <1>1
<1>3. CASE k \in 1..n
  <2>1. Before(c, k, Copy(m, r))
    BY <1>3 DEF Ordered
  <2> QED
    BY <1>0, <1>2, <2>1, BeforeStays
<1>4. CASE k = n + 1
  <2>1. Seen(c, Copy(m, r))
    BY <1>4
  <2>2. \A j \in DOMAIN queue[c] : j \in 1..k - 1
    BY <1>4
  <2>3. Before(c, k, Copy(m, r))
    BY <2>1, <2>2 DEF Seen, Before, InQueue
  <2> QED
    BY <1>0, <1>2, <2>3, BeforeStays
<1> QED
  BY <1>1, <1>3, <1>4

LEMMA OrderedSame ==
  ASSUME TypeOK, [Next]_vars, ~ErrorStoreFails, NEW c \in InitiallyBound, Ordered(c),
         \A w \in Workers : ConsumerOf[w] = c => ~CrashWorker(w), queue'[c] = queue[c]
  PROVE  Ordered(c)'
<1>1. PICK n \in Nat : DOMAIN queue[c] = 1..n
  BY PipelineAssumption DEF TypeOK
<1>2. n + 1 \notin DOMAIN queue'[c] /\ DOMAIN queue'[c] \subseteq 1..n + 1
  BY <1>1
<1> QED
  BY <1>1, <1>2, OrderedGrows

LEMMA OrderedExchange ==
  ASSUME TypeOK, [Next]_vars, ~ErrorStoreFails, NEW c \in InitiallyBound, Ordered(c),
         \A w \in Workers : ConsumerOf[w] = c => ~CrashWorker(w),
         NEW m \in Message, ExchangePublish(m),
         Receives(c, outbox[m.id].type) => \A r \in 0..m.retry - 1 : Seen(c, Copy(m, r))
  PROVE  Ordered(c)'
<1>0. c \in Consumer
  BY PipelineAssumption
<1>1. CASE c \in bound /\ Receives(c, outbox[m.id].type)
  <2>1. PICK n \in Nat : n = Len(queue[c]) /\ DOMAIN queue[c] = 1..n
    BY <1>0, ExchangeEffect
  <2>2. /\ DOMAIN queue'[c] = 1..n + 1 /\ queue'[c][n + 1] = m
        /\ \A k \in 1..n : queue'[c][k] = queue[c][k]
    BY <1>0, <1>1, <2>1, ExchangeEffect
  <2>3. \A y : y = queue'[c][n + 1] => \A r \in 0..y.retry - 1 : Seen(c, Copy(y, r))
    BY <1>1, <2>2
  <2> QED
    BY <2>1, <2>2, <2>3, OrderedGrows
<1>2. CASE ~(c \in bound /\ Receives(c, outbox[m.id].type))
  BY <1>0, <1>2, ExchangeEffect, OrderedSame
<1> QED
  BY <1>1, <1>2

\* The head of the queue goes to the worker.
LEMMA OrderedReceive ==
  ASSUME TypeOK, [Next]_vars, ~ErrorStoreFails, OneWorkerEach, NEW c \in InitiallyBound, Ordered(c),
         NEW w \in Workers, c = ConsumerOf[w], NEW k \in DOMAIN queue[ConsumerOf[w]], Receive(w, k)
  PROVE  Ordered(c)'
<1>0. c \in Consumer
  BY PipelineAssumption
<1>1. PICK n \in Nat : n = Len(queue[c]) /\ DOMAIN queue[c] = 1..n /\ k \in 1..n
  BY ReceiveEffect
<1>2. k = 1
  BY <1>1, OnlyHeadReceived
<1>3. /\ DOMAIN queue'[c] = 1..n - 1
      /\ \A j \in 1..n - 1 : queue'[c][j] = queue[c][j + 1]
      /\ worker'[w].pc = "received" /\ worker'[w].msg = queue[c][1]
  BY <1>1, <1>2, ReceiveEffect
<1> SUFFICES ASSUME NEW i \in 1..n - 1, NEW m, m = queue'[c][i], NEW r \in 0..m.retry - 1
             PROVE  Before(c, i, Copy(m, r))'
  BY <1>3, OrderedNext
<1>4. PICK x : x = Copy(m, r)
  OBVIOUS
<1>5. i + 1 \in DOMAIN queue[c] /\ m = queue[c][i + 1]
  BY <1>1, <1>3
<1>6. Before(c, i + 1, x)
  BY <1>4, <1>5 DEF Ordered
<1>7. ~InHand(c, x)
  BY DEF InHand, OneWorkerEach, Receive
<1>8. CASE Tried(c, x)
  BY <1>0, <1>4, <1>8, TriedStays DEF Before
<1>9. ASSUME NEW j \in 1..i, queue[c][j] = x PROVE Before(c, i, x)'
  <2>1. CASE j = 1
    BY <1>3, <1>9, <2>1 DEF Before, InHand
  <2>2. CASE j # 1
    <3>1. j - 1 \in 1..n - 1 /\ j - 1 \in 1..i - 1 /\ (j - 1) + 1 = j
      BY <1>1, <2>2
    <3>2. queue'[c][j - 1] = x
      BY <1>3, <1>9, <3>1
    <3> QED
      BY <3>1, <3>2 DEF Before
  <2> QED
    BY <2>1, <2>2
<1>10. (i + 1) - 1 = i
  OBVIOUS
<1> QED
  BY <1>4, <1>6, <1>7, <1>8, <1>9, <1>10 DEF Before

\* The message of the worker that dies returns to the head of the queue.
LEMMA OrderedCrash ==
  ASSUME TypeOK, [Next]_vars, ~ErrorStoreFails, OneWorkerEach, HandInv, NEW c \in InitiallyBound,
         Ordered(c), NEW w \in Workers, c = ConsumerOf[w], CrashWorker(w)
  PROVE  Ordered(c)'
<1>0. c \in Consumer
  BY PipelineAssumption
<1>1. PICK n \in Nat : n = Len(queue[c]) /\ DOMAIN queue[c] = 1..n
  BY CrashEffect
<1>2. CASE Busy(w)
  <2>1. /\ DOMAIN queue'[c] = 1..n + 1 /\ queue'[c][1] = worker[w].msg
        /\ \A j \in 2..n + 1 : queue'[c][j] = queue[c][j - 1]
    BY <1>1, <1>2, CrashEffect
  <2> SUFFICES ASSUME NEW i \in 1..n + 1, NEW m, m = queue'[c][i], NEW r \in 0..m.retry - 1
               PROVE  Before(c, i, Copy(m, r))'
    BY <2>1, OrderedNext
  <2>2. PICK x : x = Copy(m, r)
    OBVIOUS
  <2>3. Tried(c, x) => Before(c, i, x)'
    BY <1>0, TriedStays DEF Before
  <2>4. CASE i = 1
    <3>1. TriedUpTo(c, m, m.retry)
      BY <1>2, <2>1, <2>4 DEF HandInv
    <3> QED
      BY <2>2, <2>3, <3>1 DEF TriedUpTo
  <2>5. CASE i # 1
    <3>1. i - 1 \in 1..n /\ i \in 2..n + 1
      BY <2>5
    <3>2. m = queue[c][i - 1]
      BY <2>1, <3>1
    <3>3. Before(c, i - 1, x)
      BY <1>1, <2>2, <3>1, <3>2 DEF Ordered
    <3>4. CASE InHand(c, x)
      <4>1. queue'[c][1] = x
        BY <2>1, <3>4 DEF InHand, OneWorkerEach
      <4>2. 1 \in 1..i - 1
        BY <3>1
      <4> QED
        BY <2>2, <4>1, <4>2 DEF Before
    <3>5. ASSUME NEW j \in 1..(i - 1) - 1, queue[c][j] = x PROVE Before(c, i, x)'
      <4>1. j + 1 \in 2..n + 1 /\ j + 1 \in 1..i - 1 /\ (j + 1) - 1 = j
        BY <3>1
      <4>2. queue'[c][j + 1] = x
        BY <2>1, <3>5, <4>1
      <4> QED
        BY <4>1, <4>2 DEF Before
    <3> QED
      BY <2>2, <2>3, <3>3, <3>4, <3>5 DEF Before
  <2> QED
    BY <2>4, <2>5
<1>3. CASE ~Busy(w)
  <2>1. queue'[c] = queue[c]
    BY <1>3, CrashEffect
  <2> SUFFICES ASSUME NEW k \in 1..n, NEW m, m = queue[c][k], NEW r \in 0..m.retry - 1
               PROVE  Before(c, k, Copy(m, r))'
    BY <1>1, <2>1, OrderedNext
  <2>2. PICK x : x = Copy(m, r)
    OBVIOUS
  <2>3. Before(c, k, x)
    BY <1>1, <2>2 DEF Ordered
  <2>4. ~InHand(c, x)
    BY <1>3 DEF InHand, OneWorkerEach, Busy
  <2> QED
    BY <1>0, <2>1, <2>2, <2>3, <2>4, TriedStays DEF Before
<1> QED
  BY <1>2, <1>3

LEMMA QueueStep ==
  ASSUME TypeOK, RoutedInv, SharedInv, QueueInv, HandInv, ~ErrorStoreFails, OneWorkerEach, [Next]_vars
  PROVE  QueueInv'
<1> SUFFICES ASSUME NEW c \in InitiallyBound PROVE Ordered(c)'
  BY DEF QueueInv
<1>0. c \in Consumer /\ Ordered(c)
  BY PipelineAssumption DEF QueueInv
<1>1. ASSUME NEW w \in Workers, CrashWorker(w) PROVE Ordered(c)'
  <2>1. CASE c = ConsumerOf[w]
    BY <1>0, <1>1, <2>1, OrderedCrash
  <2>2. CASE c # ConsumerOf[w]
    <3>1. queue'[c] = queue[c]
      BY <1>0, <1>1, <2>2, CrashEffect
    <3>2. \A v \in Workers : ConsumerOf[v] = c => ~CrashWorker(v)
      <4> SUFFICES ASSUME NEW v \in Workers, ConsumerOf[v] = c, CrashWorker(v) PROVE FALSE
        OBVIOUS
      <4>1. worker'[v] = worker[v]
        BY <1>1, <2>2, CrashEffect
      <4>2. worker[v].pc # "down" /\ worker'[v].pc = "down"
        BY IdleMoves DEF CrashWorker
      <4> QED
        BY <4>1, <4>2
    <3> QED
      BY <1>0, <3>1, <3>2, OrderedSame
  <2> QED
    BY <2>1, <2>2
<1> SUFFICES ASSUME \A w \in Workers : ~CrashWorker(w) PROVE Ordered(c)'
  BY <1>1
<1>2. ASSUME NEW p \in Publishers, NEW i \in Events, PublishEvent(p, i) PROVE Ordered(c)'
  <2>1. PICK m : m = [id |-> i, retry |-> 0]
    OBVIOUS
  <2>2. m \in Message /\ m.retry = 0 /\ ExchangePublish(m)
    BY <1>2, <2>1 DEF PublishEvent, Message, Events
  <2>3. \A r \in 0..m.retry - 1 : FALSE
    BY <2>2
  <2> QED
    BY <1>0, <2>2, <2>3, OrderedExchange
<1>3. ASSUME NEW w \in Workers, RepublishForRetry(w) PROVE Ordered(c)'
  <2>1. PICK x \in Message : x = worker[w].msg
    BY HeldType
  <2>2. PICK m : m = [worker[w].msg EXCEPT !.retry = @ + 1]
    OBVIOUS
  <2>3. /\ m \in Message /\ m.id = x.id /\ m.retry = x.retry + 1 /\ x.retry \in Nat
        /\ ExchangePublish(m)
    BY <1>3, <2>1, <2>2, RetryCopy, CopyType DEF RepublishForRetry
  <2>4. Circulates(x)
    BY <1>3, <2>1 DEF RepublishForRetry, Circulates, Busy
  <2>5. ASSUME Receives(c, outbox[m.id].type), NEW r \in 0..m.retry - 1 PROVE Seen(c, Copy(m, r))
    <3>1. Seen(c, Copy(x, r))
      BY <2>3, <2>4, <2>5 DEF SharedInv
    <3> QED
      BY <2>3, <3>1 DEF Copy
  <2> QED
    BY <1>0, <2>3, <2>5, OrderedExchange
<1>4. ASSUME NEW w \in Workers, NEW k \in DOMAIN queue[ConsumerOf[w]], Receive(w, k)
      PROVE  Ordered(c)'
  <2>1. CASE c = ConsumerOf[w]
    BY <1>0, <1>4, <2>1, OrderedReceive
  <2>2. CASE c # ConsumerOf[w]
    BY <1>0, <1>4, <2>2, ReceiveEffect, OrderedSame
  <2> QED
    BY <2>1, <2>2
<1>5. CASE queue' = queue
  BY <1>0, <1>5, OrderedSame
<1> QED
  BY <1>2, <1>3, <1>4, <1>5, StepCases, QuietWorkerStep DEF Quiet

LEMMA DeadLetterStep ==
  ASSUME TypeOK, HandInv, DeadLetterAfterAllRetries, [Next]_vars
  PROVE  DeadLetterAfterAllRetries'
<1> SUFFICES ASSUME NEW c \in InitiallyBound, NEW m \in dlq'[c], m.id \notin processed'[c],
                    NEW r \in 0..MaxRetry
             PROVE  [id |-> m.id, retry |-> r] \in errors'[c]
  BY DEF DeadLetterAfterAllRetries
<1>0. c \in Consumer /\ m.id \notin processed[c] /\ errors[c] \subseteq errors'[c]
  BY PipelineAssumption, TablesGrow
<1>1. CASE m \in dlq[c]
  BY <1>0, <1>1 DEF DeadLetterAfterAllRetries
<1>2. ASSUME NEW w \in Workers, MoveToDlq(w), m \notin dlq[c]
      PROVE  [id |-> m.id, retry |-> r] \in errors'[c]
  <2>1. c = ConsumerOf[w] /\ m = worker[w].msg
    <3>1. dlq' = [dlq EXCEPT ![ConsumerOf[w]] = @ \cup {worker[w].msg}]
      BY <1>2 DEF MoveToDlq
    <3>2. ConsumerOf[w] \in Consumer /\ dlq \in [Consumer -> SUBSET Message]
      BY HeldType DEF TypeOK
    <3> QED
      BY <1>0, <1>2, <3>1, <3>2
  <2>2. worker[w].pc = "saved" /\ m.retry >= MaxRetry /\ m \in Message
    BY <1>2, <2>1, HeldType DEF MoveToDlq
  <2>3. TriedUpTo(c, m, m.retry) /\ Tried(c, m)
    BY <2>1, <2>2 DEF HandInv, Busy
  <2>4. r \in 0..m.retry - 1 \/ r = m.retry
    BY <2>2, PipelineAssumption DEF Message
  <2>5. Tried(c, Copy(m, r))
    BY <2>2, <2>3, <2>4, CopyType DEF TriedUpTo
  <2> QED
    BY <1>0, <2>5 DEF Tried, Copy
<1>3. (\A w \in Workers : ~MoveToDlq(w)) => dlq'[c] = dlq[c]
  <2> SUFFICES ASSUME \A w \in Workers : ~MoveToDlq(w) PROVE dlq' = dlq
    OBVIOUS
  <2>1. ASSUME NEW w \in Workers, WorkerStep(w) PROVE dlq' = dlq
    <3>1. StartWorker(w) \/ Ack(w) => dlq' = dlq
      BY DEF StartWorker, Ack
    <3>2. \A k : Receive(w, k) => dlq' = dlq
      BY DEF Receive
    <3>3. ClaimEventForProcessing(w) \/ ProcessEvent(w) => dlq' = dlq
      BY DEF ClaimEventForProcessing, ProcessEvent
    <3>4. SaveWorkerError(w) \/ RepublishForRetry(w) => dlq' = dlq
      BY DEF SaveWorkerError, RepublishForRetry
    <3> QED
      BY <2>1, <3>1, <3>2, <3>3, <3>4 DEF WorkerStep
  <2>2. \A w : ProcessingRaises(w) \/ CrashWorker(w) => dlq' = dlq
    BY DEF ProcessingRaises, CrashWorker
  <2>3. \A p, i : PublishEvent(p, i) => dlq' = dlq
    BY DEF PublishEvent
  <2> QED
    BY <2>1, <2>2, <2>3, StepCases DEF Quiet
<1> QED
  BY <1>1, <1>2, <1>3

LEMMA RetryInit == Init => SharedInv /\ QueueInv /\ HandInv /\ DeadLetterAfterAllRetries
<1> SUFFICES ASSUME Init PROVE SharedInv /\ QueueInv /\ HandInv /\ DeadLetterAfterAllRetries
  OBVIOUS
<1>1. \A c \in Consumer : DOMAIN queue[c] = {} /\ dlq[c] = {}
  BY DEF Init
<1>2. \A w \in Workers : ~Busy(w)
  BY DEF Init, Busy, IdleWorker
<1>3. \A m : ~Circulates(m)
  BY <1>1, <1>2 DEF Circulates, InQueue
<1>4. \A c \in InitiallyBound : c \in Consumer
  BY PipelineAssumption
<1> QED
  BY <1>1, <1>2, <1>3, <1>4 DEF SharedInv, QueueInv, Ordered, HandInv, DeadLetterAfterAllRetries

\* While error rows are saved and each consumer has one worker, as in docker-compose.yml,
\* an event that a consumer dead-letters without having processed it was tried by that
\* consumer with every number of retries up to the limit, whichever consumers the copies
\* come from.  With two workers of one consumer it is false: the retry copy of another
\* consumer may be dead-lettered by the one while the other has the original in hand.
THEOREM DeadLettersTried ==
  ASSUME ~ErrorStoreFails, OneWorkerEach
  PROVE  Spec => []DeadLetterAfterAllRetries
<1> DEFINE RetryInv == RoutedInv /\ KeptInv /\ SharedInv /\ QueueInv /\ HandInv
                       /\ DeadLetterAfterAllRetries
<1>1. Init => RetryInv
  BY RoutedInit, KeptInit, RetryInit
<1>2. TypeOK /\ RetryInv /\ [Next]_vars => RetryInv'
  BY RoutedStep, KeptStep, SharedStep, QueueStep, HandStep, DeadLetterStep
<1>3. RetryInv => DeadLetterAfterAllRetries
  OBVIOUS
<1> HIDE DEF RetryInv
<1> QED
  BY <1>1, <1>2, <1>3, TypeCorrect, PTL DEF Spec
=============================================================================

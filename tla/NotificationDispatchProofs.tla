--------------------- MODULE NotificationDispatchProofs ---------------------
(***************************************************************************)
(* Theorems about NotificationDispatch, for every number of dispatchers,   *)
(* deliveries and faults, and every size of a batch.                       *)
(***************************************************************************)
EXTENDS NotificationDispatch, FiniteNaturals, TLAPS

-----------------------------------------------------------------------------
(* Type correctness *)

LEMMA EndedType ==
  ASSUME NEW pc \in {"down", "idle", "sending"}
  PROVE  Ended(pc) \in DispatcherState
  BY DEF Ended, DispatcherState

LEMMA FaultType == ASSUME TypeOK, Fault PROVE faults' \in Nat
  BY DEF TypeOK, Fault

\* A dispatcher moves to a state of its type.
LEMMA DispatcherType ==
  ASSUME TypeOK, NEW d \in Dispatchers, NEW s \in DispatcherState,
         dispatcher' = [dispatcher EXCEPT ![d] = s]
  PROVE  dispatcher' \in [Dispatchers -> DispatcherState]
  BY DEF TypeOK

LEMMA LowestSubset == \A S, n : Lowest(S, n) \subseteq S
  BY DEF Lowest

\* A batch is listed in the order of its ids, each of them once.
LEMMA InOrderLists ==
  ASSUME NEW S \in SUBSET Nat, IsFiniteSet(S)
  PROVE  /\ InOrder(S) \in Seq(S)
         /\ IsInjective(InOrder(S))
         /\ Range(InOrder(S)) = S
<1> DEFINE n == Cardinality(S)
           s == InOrder(S)
<1>1. n \in Nat
  BY FS_CardinalityType
<1>2. /\ s \in [1..n -> S]
      /\ \A k, l \in DOMAIN s : k < l => s[k] < s[l]
  BY EnumerationExists DEF InOrder
<1> HIDE DEF s
<1>3. \A k, l \in 1..n : s[k] = s[l] => k = l
  <2> SUFFICES ASSUME NEW k \in 1..n, NEW l \in 1..n, k < l PROVE s[k] # s[l]
    BY <1>1
  <2>1. s[k] \in Nat /\ s[l] \in Nat /\ s[k] < s[l]
    BY <1>2
  <2> QED
    BY <2>1
<1>4. s \in Injection(1..n, S)
  BY <1>2, <1>3 DEF Injection, IsInjective
<1>5. Cardinality(1..n) = n
  BY <1>1, FS_Interval
<1>6. s \in Surjection(1..n, S)
  BY <1>4, <1>5, FS_Injection
<1>7. s \in Seq(S)
  BY <1>1, <1>2
<1>8. IsInjective(s)
  BY <1>4 DEF Injection
<1>9. Range(s) = S
  BY <1>6 DEF Range, Surjection
<1> QED
  BY <1>7, <1>8, <1>9 DEF s

LEMMA TypeInit == Init => TypeOK
  BY EndedType DEF Init, TypeOK

\* What a commit adds to the outbox are deliveries, when the batch is finite.
LEMMA TypeStep == TypeOK /\ IsFiniteSet(rows) /\
                  (\A d \in Dispatchers : dispatcher[d].batch \subseteq rows) /\
                  [Next]_vars => TypeOK'
<1> SUFFICES ASSUME TypeOK, IsFiniteSet(rows), [Next]_vars,
                    \A d \in Dispatchers : dispatcher[d].batch \subseteq rows
             PROVE  TypeOK'
  OBVIOUS
<1> USE DispatchAssumption
<1>1. ASSUME NEW i \in Deliveries, AddNotificationDelivery(i) PROVE TypeOK'
  BY <1>1 DEF AddNotificationDelivery, TypeOK
<1>2. ASSUME NEW d \in Dispatchers, SelectBatch(d) PROVE TypeOK'
  <2> DEFINE batch == Lowest(Dispatchable \ LockedRows, BatchSize)
             s == [pc |-> "sending", batch |-> batch, todo |-> batch]
  <2>1. batch \in SUBSET Deliveries
    BY LowestSubset DEF TypeOK, Dispatchable
  <2>2. s \in DispatcherState
    BY <2>1 DEF DispatcherState
  <2> HIDE DEF s
  <2>3. dispatcher' \in [Dispatchers -> DispatcherState]
    BY <1>2, <2>2, DispatcherType DEF SelectBatch, s
  <2> QED
    BY <1>2, <2>3 DEF SelectBatch, TypeOK
<1>3. ASSUME NEW d \in Dispatchers, NEW i \in Deliveries, SendDelivery(d, i) PROVE TypeOK'
  <2>1. dispatcher' \in [Dispatchers -> DispatcherState]
    BY <1>3 DEF SendDelivery, TypeOK, DispatcherState
  <2> QED
    BY <1>3, <2>1 DEF SendDelivery, TypeOK
<1>4. ASSUME NEW d \in Dispatchers, Commit(d) PROVE TypeOK'
  <2> DEFINE batch == dispatcher[d].batch
  <2>1. batch \in SUBSET Deliveries /\ batch \in SUBSET rows /\ batch \in SUBSET Nat
    BY DEF TypeOK, DispatcherState
  <2>2. IsFiniteSet(batch)
    BY <2>1, FS_Subset
  <2>3. InOrder(batch) \in Seq(Deliveries)
    BY <2>1, <2>2, InOrderLists
  <2>4. events' \in Seq(Deliveries)
    BY <1>4, <2>3 DEF Commit, TypeOK
  <2>5. dispatcher' \in [Dispatchers -> DispatcherState]
    BY <1>4, EndedType, DispatcherType DEF Commit
  <2> QED
    BY <1>4, <2>1, <2>4, <2>5 DEF Commit, TypeOK
<1>5. ASSUME NEW d \in Dispatchers, Start(d) PROVE TypeOK'
  BY <1>5, EndedType, DispatcherType DEF Start, TypeOK
<1>6. ASSUME NEW d \in Dispatchers, NEW i \in Deliveries, SendFails(d, i) PROVE TypeOK'
  BY <1>6, EndedType, DispatcherType, FaultType DEF SendFails, TypeOK
<1>7. ASSUME NEW d \in Dispatchers, Crash(d) PROVE TypeOK'
  BY <1>7, EndedType, DispatcherType, FaultType DEF Crash, TypeOK
<1>8. CASE UNCHANGED vars
  BY <1>8 DEF vars, TypeOK
<1> QED
  BY <1>1, <1>2, <1>3, <1>4, <1>5, <1>6, <1>7, <1>8 DEF Next, DispatcherStep
-----------------------------------------------------------------------------
(* The row locks of a batch *)

\* A dispatcher sends rows that exist and are not yet marked as sent; it is alone
\* with them.  Rows come one by one, so there are finitely many at any time.
BatchInv ==
  /\ IsFiniteSet(rows)
  /\ \A d \in Dispatchers :
       /\ dispatcher[d].todo \subseteq dispatcher[d].batch
       /\ dispatcher[d].batch \subseteq rows \ success
       /\ dispatcher[d].pc # "sending" => dispatcher[d].batch = {}
  /\ \A d, e \in Dispatchers : d # e => dispatcher[d].batch \cap dispatcher[e].batch = {}

\* The part of the invariant about the dispatchers, when one of them has moved to
\* another state and the tables have not changed.
LEMMA MoveKeepsBatches ==
  ASSUME TypeOK, BatchInv, NEW d \in Dispatchers, NEW s \in DispatcherState,
         dispatcher' = [dispatcher EXCEPT ![d] = s],
         UNCHANGED <<rows, success>>,
         s.todo \subseteq s.batch,
         s.batch \subseteq dispatcher[d].batch,
         s.pc # "sending" => s.batch = {}
  PROVE  BatchInv'
<1>1. dispatcher'[d] = s /\ \A e \in Dispatchers : e # d => dispatcher'[e] = dispatcher[e]
  BY DEF TypeOK
<1> QED
  BY <1>1 DEF BatchInv

LEMMA BatchInit == Init => BatchInv
  BY FS_EmptySet DEF Init, BatchInv, Ended

LEMMA BatchStep == TypeOK /\ BatchInv /\ [Next]_vars => BatchInv'
<1> SUFFICES ASSUME TypeOK, BatchInv, [Next]_vars PROVE BatchInv'
  OBVIOUS
<1> USE DispatchAssumption
<1>0. ASSUME NEW d \in Dispatchers, NEW pc \in {"down", "idle"},
             dispatcher' = [dispatcher EXCEPT ![d] = Ended(pc)], UNCHANGED <<rows, success>>
      PROVE  BatchInv'
  <2>1. Ended(pc) \in DispatcherState
    BY EndedType
  <2>2. Ended(pc).todo = {} /\ Ended(pc).batch = {}
    BY DEF Ended
  <2> QED
    BY <1>0, <2>1, <2>2, MoveKeepsBatches
<1>1. ASSUME NEW i \in Deliveries, AddNotificationDelivery(i) PROVE BatchInv'
  BY <1>1, FS_AddElement DEF AddNotificationDelivery, BatchInv
<1>2. ASSUME NEW d \in Dispatchers, SelectBatch(d) PROVE BatchInv'
  <2> DEFINE batch == Lowest(Dispatchable \ LockedRows, BatchSize)
             s == [pc |-> "sending", batch |-> batch, todo |-> batch]
  <2>1. /\ batch \subseteq rows \ success
        /\ \A e \in Dispatchers : batch \cap dispatcher[e].batch = {}
    BY LowestSubset DEF Dispatchable, LockedRows
  <2>2. s.pc = "sending" /\ s.batch = batch /\ s.todo = batch
    OBVIOUS
  <2> HIDE DEF s, batch
  <2>3. /\ dispatcher'[d] = s
        /\ \A e \in Dispatchers : e # d => dispatcher'[e] = dispatcher[e]
    BY <1>2 DEF SelectBatch, TypeOK, s, batch
  <2>4. UNCHANGED <<rows, success>>
    BY <1>2 DEF SelectBatch
  <2> QED
    BY <2>1, <2>2, <2>3, <2>4 DEF BatchInv
<1>3. ASSUME NEW d \in Dispatchers, NEW i \in Deliveries, SendDelivery(d, i) PROVE BatchInv'
  <2> DEFINE s == [dispatcher[d] EXCEPT !.todo = @ \ {i}]
  <2>1. /\ s \in DispatcherState
        /\ s.batch = dispatcher[d].batch /\ s.pc = dispatcher[d].pc
        /\ s.todo \subseteq dispatcher[d].todo
    BY DEF TypeOK, DispatcherState
  <2>2. dispatcher' = [dispatcher EXCEPT ![d] = s] /\ UNCHANGED <<rows, success>>
    BY <1>3 DEF SendDelivery
  <2> HIDE DEF s
  <2> QED
    BY <2>1, <2>2, MoveKeepsBatches DEF BatchInv
<1>4. ASSUME NEW d \in Dispatchers, Commit(d) PROVE BatchInv'
  <2>1. /\ dispatcher'[d] = Ended("idle")
        /\ \A e \in Dispatchers : e # d => dispatcher'[e] = dispatcher[e]
    BY <1>4 DEF Commit, TypeOK
  <2>2. success' = success \cup dispatcher[d].batch /\ rows' = rows
    BY <1>4 DEF Commit
  <2>3. Ended("idle").todo = {} /\ Ended("idle").batch = {} /\ Ended("idle").pc = "idle"
    BY DEF Ended
  <2> QED
    BY <2>1, <2>2, <2>3 DEF BatchInv
<1>5. ASSUME NEW d \in Dispatchers, Start(d) PROVE BatchInv'
  BY <1>0, <1>5 DEF Start
<1>6. ASSUME NEW d \in Dispatchers, NEW i \in Deliveries, SendFails(d, i) PROVE BatchInv'
  BY <1>0, <1>6 DEF SendFails
<1>7. ASSUME NEW d \in Dispatchers, Crash(d) PROVE BatchInv'
  BY <1>0, <1>7 DEF Crash
<1>8. CASE UNCHANGED vars
  BY <1>8 DEF vars, BatchInv
<1> QED
  BY <1>1, <1>2, <1>3, <1>4, <1>5, <1>6, <1>7, <1>8 DEF Next, DispatcherStep

TypeInv == TypeOK /\ BatchInv

LEMMA TypeInvInit == Init => TypeInv
  BY TypeInit, BatchInit DEF TypeInv

LEMMA TypeInvStep == TypeInv /\ [Next]_vars => TypeInv'
<1> SUFFICES ASSUME TypeInv, [Next]_vars PROVE TypeInv'
  OBVIOUS
<1>1. IsFiniteSet(rows) /\ \A d \in Dispatchers : dispatcher[d].batch \subseteq rows
  BY DEF TypeInv, BatchInv
<1> QED
  BY <1>1, TypeStep, BatchStep DEF TypeInv

\* The variables keep their types: the tables hold deliveries, the counters of
\* mails are numbers, the dispatchers are in one of their states.
THEOREM TypeCorrect == Spec => []TypeOK
<1>1. TypeInv => TypeOK
  BY DEF TypeInv
<1> QED
  BY <1>1, TypeInvInit, TypeInvStep, PTL DEF Spec

-----------------------------------------------------------------------------
(* One sent event for each delivery *)

\* The events of a commit are new and differ from each other.
LEMMA AppendDistinct ==
  ASSUME NEW T, NEW s \in Seq(T), NEW t \in Seq(T),
         IsInjective(s), IsInjective(t), Range(s) \cap Range(t) = {}
  PROVE  IsInjective(s \o t) /\ Range(s \o t) = Range(s) \cup Range(t)
<1> DEFINE m == Len(s)
           n == Len(t)
           c == s \o t
<1>1. /\ m \in Nat /\ n \in Nat
      /\ DOMAIN s = 1..m /\ DOMAIN t = 1..n /\ DOMAIN c = 1..m + n
  OBVIOUS
<1>2. /\ \A i \in 1..m : c[i] = s[i]
      /\ \A i \in m + 1..m + n : i - m \in 1..n /\ c[i] = t[i - m]
  OBVIOUS
<1>3. \A i \in 1..n : i + m \in m + 1..m + n /\ c[i + m] = t[i]
  OBVIOUS
<1> HIDE DEF c, m, n
<1>4. \A i \in 1..m + n : i \in 1..m \/ i \in m + 1..m + n
  BY <1>1
<1>5. \A i, j \in 1..m + n : c[i] = c[j] => i = j
  <2> SUFFICES ASSUME NEW i \in 1..m + n, NEW j \in 1..m + n, c[i] = c[j] PROVE i = j
    OBVIOUS
  <2>1. CASE i \in 1..m /\ j \in 1..m
    BY <1>1, <1>2, <2>1 DEF IsInjective
  <2>2. CASE i \in m + 1..m + n /\ j \in m + 1..m + n
    <3>1. t[i - m] = t[j - m] /\ i - m \in 1..n /\ j - m \in 1..n
      BY <1>2, <2>2
    <3>2. i - m = j - m
      BY <1>1, <3>1 DEF IsInjective
    <3> QED
      BY <1>1, <3>2
  <2>3. ASSUME NEW k \in 1..m, NEW l \in m + 1..m + n PROVE c[k] # c[l]
    <3>1. c[k] \in Range(s) /\ c[l] \in Range(t)
      BY <1>1, <1>2, <2>3 DEF Range
    <3> QED
      BY <3>1
  <2> QED
    BY <1>4, <2>1, <2>2, <2>3
<1>6. Range(c) = Range(s) \cup Range(t)
  <2>1. ASSUME NEW i \in DOMAIN c PROVE c[i] \in Range(s) \cup Range(t)
    BY <1>1, <1>2, <1>4, <2>1 DEF Range
  <2>2. ASSUME NEW i \in DOMAIN s PROVE s[i] \in Range(c)
    BY <1>1, <1>2, <2>2 DEF Range
  <2>3. ASSUME NEW i \in DOMAIN t PROVE t[i] \in Range(c)
    <3>1. i + m \in DOMAIN c
      BY <1>1, <1>3
    <3>2. c[i + m] = t[i]
      BY <1>1, <1>3
    <3> QED
      BY <3>1, <3>2 DEF Range
  <2> QED
    BY <2>1, <2>2, <2>3 DEF Range
<1> QED
  BY <1>1, <1>5, <1>6 DEF IsInjective, c

LEMMA SentInit == Init => OneSentEvent
  BY DEF Init, OneSentEvent, IsInjective, Range

LEMMA SentStep == TypeInv /\ OneSentEvent /\ [Next]_vars => OneSentEvent'
<1> SUFFICES ASSUME TypeInv, OneSentEvent, [Next]_vars PROVE OneSentEvent'
  OBVIOUS
<1> USE DispatchAssumption DEF TypeInv
<1>1. ASSUME NEW d \in Dispatchers, Commit(d) PROVE OneSentEvent'
  <2> DEFINE batch == dispatcher[d].batch
  <2>1. batch \subseteq rows \ success /\ batch \in SUBSET Deliveries /\ batch \in SUBSET Nat
    BY DEF BatchInv, TypeOK, DispatcherState
  <2>2. IsFiniteSet(batch)
    BY <2>1, FS_Subset DEF BatchInv
  <2>3. /\ InOrder(batch) \in Seq(batch)
        /\ IsInjective(InOrder(batch))
        /\ Range(InOrder(batch)) = batch
    BY <2>1, <2>2, InOrderLists
  <2>4. InOrder(batch) \in Seq(Deliveries) /\ events \in Seq(Deliveries)
    BY <2>1, <2>3 DEF TypeOK
  <2>5. IsInjective(events \o InOrder(batch)) /\ Range(events \o InOrder(batch)) = success \cup batch
    BY <2>1, <2>3, <2>4, AppendDistinct DEF OneSentEvent
  <2> QED
    BY <1>1, <2>5 DEF Commit, OneSentEvent
<1>2. ASSUME UNCHANGED <<success, events>> PROVE OneSentEvent'
  BY <1>2 DEF OneSentEvent
<1>3. ASSUME NEW d \in Dispatchers, DispatcherStep(d), ~Commit(d) PROVE UNCHANGED <<success, events>>
  BY <1>3 DEF DispatcherStep, SelectBatch, SendDelivery, Start
<1>4. ASSUME NEW d \in Dispatchers, NEW i \in Deliveries, SendFails(d, i)
      PROVE  UNCHANGED <<success, events>>
  BY <1>4 DEF SendFails
<1>5. ASSUME NEW d \in Dispatchers, Crash(d) PROVE UNCHANGED <<success, events>>
  BY <1>5 DEF Crash
<1>6. ASSUME NEW i \in Deliveries, AddNotificationDelivery(i) PROVE UNCHANGED <<success, events>>
  BY <1>6 DEF AddNotificationDelivery
<1>7. CASE UNCHANGED vars
  BY <1>2, <1>7 DEF vars
<1> QED
  BY <1>1, <1>2, <1>3, <1>4, <1>5, <1>6, <1>7 DEF Next

\* However many dispatchers run side by side, fail and start again, a delivery has
\* one notification.sent event at most, and it has one exactly when it is marked as
\* sent.
THEOREM SentOnce == Spec => []OneSentEvent
  BY TypeInvInit, TypeInvStep, SentInit, SentStep, PTL DEF Spec

-----------------------------------------------------------------------------
(* Mails *)

\* Rows of which the dispatcher has sent the mail and not committed it.
InFlight(d) == dispatcher[d].batch \ dispatcher[d].todo

\* A mail that was neither committed nor is in flight was lost to a fault.
MailInv ==
  \A i \in Deliveries :
    /\ mails[i] <= 1 + faults
    /\ i \in success => mails[i] >= 1
    /\ \A d \in Dispatchers : i \in InFlight(d) => mails[i] >= 1
    /\ i \notin success /\ (\A d \in Dispatchers : i \notin InFlight(d)) => mails[i] <= faults

LEMMA MailInit == Init => MailInv
  BY DEF Init, MailInv, InFlight, Ended

LEMMA MailStep == TypeInv /\ MailInv /\ [Next]_vars => MailInv'
<1> SUFFICES ASSUME TypeInv, MailInv, [Next]_vars PROVE MailInv'
  OBVIOUS
<1> USE DispatchAssumption
<1>a. /\ dispatcher \in [Dispatchers -> DispatcherState]
      /\ mails \in [Deliveries -> Nat] /\ faults \in Nat
      /\ \A d \in Dispatchers : dispatcher[d].todo \subseteq dispatcher[d].batch
  BY DEF TypeInv, TypeOK, BatchInv
<1>b. ASSUME NEW d \in Dispatchers, Fault, UNCHANGED <<mails, success>>,
             dispatcher' = [dispatcher EXCEPT ![d] = Ended("down")]
      PROVE  MailInv'
  <2>1. \A e \in Dispatchers : InFlight(e)' \subseteq InFlight(e)
    BY <1>a, <1>b DEF InFlight, Ended
  <2>2. faults' = faults + 1
    BY <1>b DEF Fault
  <2> QED
    BY <1>a, <1>b, <2>1, <2>2 DEF MailInv
<1>c. ASSUME UNCHANGED <<mails, success, faults>>,
             \A d \in Dispatchers : InFlight(d)' = InFlight(d)
      PROVE  MailInv'
  BY <1>c DEF MailInv
<1>1. ASSUME NEW i \in Deliveries, AddNotificationDelivery(i) PROVE MailInv'
  BY <1>1, <1>c DEF AddNotificationDelivery, InFlight
<1>2. ASSUME NEW d \in Dispatchers, SelectBatch(d) PROVE MailInv'
  <2>1. dispatcher[d].batch = {}
    BY <1>2 DEF TypeInv, BatchInv, SelectBatch
  <2>2. InFlight(d) = {} /\ InFlight(d)' = {}
    BY <1>2, <1>a, <2>1 DEF InFlight, SelectBatch
  <2>3. \A e \in Dispatchers : e # d => InFlight(e)' = InFlight(e)
    BY <1>2, <1>a DEF InFlight, SelectBatch
  <2> QED
    BY <1>2, <1>c, <2>2, <2>3 DEF SelectBatch
<1>3. ASSUME NEW d \in Dispatchers, NEW i \in Deliveries, SendDelivery(d, i) PROVE MailInv'
  <2>1. i \in dispatcher[d].todo /\ i \in dispatcher[d].batch
    BY <1>3, <1>a DEF SendDelivery, IsNext
  <2>2. i \notin success /\ \A e \in Dispatchers : i \notin InFlight(e)
    BY <2>1 DEF TypeInv, BatchInv, InFlight
  <2>3. mails[i] \in Nat /\ mails[i] <= faults
    BY <2>2, <1>a DEF MailInv
  <2>4. /\ mails'[i] = mails[i] + 1
        /\ \A j \in Deliveries : j # i => mails'[j] = mails[j]
    BY <1>3, <1>a DEF SendDelivery
  <2>5. /\ \A e \in Dispatchers : \A j \in Deliveries : j # i => (j \in InFlight(e)' <=> j \in InFlight(e))
        /\ i \in InFlight(d)'
        /\ UNCHANGED <<success, faults>>
    BY <1>3, <1>a, <2>1 DEF SendDelivery, InFlight, DispatcherState
  <2>6. ASSUME NEW j \in Deliveries
        PROVE  /\ mails'[j] <= 1 + faults'
               /\ j \in success' => mails'[j] >= 1
               /\ \A e \in Dispatchers : j \in InFlight(e)' => mails'[j] >= 1
               /\ j \notin success' /\ (\A e \in Dispatchers : j \notin InFlight(e)')
                    => mails'[j] <= faults'
    <3>1. CASE j = i
      BY <1>a, <2>3, <2>4, <2>5, <3>1
    <3>2. CASE j # i
      BY <1>a, <2>4, <2>5, <3>2 DEF MailInv
    <3> QED
      BY <3>1, <3>2
  <2> QED
    BY <2>6 DEF MailInv
<1>4. ASSUME NEW d \in Dispatchers, Commit(d) PROVE MailInv'
  <2>1. InFlight(d) = dispatcher[d].batch /\ success' = success \cup InFlight(d)
    BY <1>4 DEF Commit, InFlight
  <2>2. InFlight(d)' = {} /\ \A e \in Dispatchers : e # d => InFlight(e)' = InFlight(e)
    BY <1>4, <1>a DEF Commit, InFlight, Ended
  <2>3. UNCHANGED <<mails, faults>>
    BY <1>4 DEF Commit
  <2> QED
    BY <1>a, <2>1, <2>2, <2>3 DEF MailInv
<1>5. ASSUME NEW d \in Dispatchers, Start(d) PROVE MailInv'
  <2>1. dispatcher[d].batch = {}
    BY <1>5 DEF TypeInv, BatchInv, Start
  <2>2. \A e \in Dispatchers : InFlight(e)' = InFlight(e)
    BY <1>5, <1>a, <2>1 DEF InFlight, Start, Ended
  <2> QED
    BY <1>5, <1>c, <2>2 DEF Start
<1>6. ASSUME NEW d \in Dispatchers, NEW i \in Deliveries, SendFails(d, i) PROVE MailInv'
  BY <1>6, <1>b DEF SendFails
<1>7. ASSUME NEW d \in Dispatchers, Crash(d) PROVE MailInv'
  BY <1>7, <1>b DEF Crash
<1>8. CASE UNCHANGED vars
  BY <1>8, <1>c DEF vars, InFlight
<1> QED
  BY <1>1, <1>2, <1>3, <1>4, <1>5, <1>6, <1>7, <1>8 DEF Next, DispatcherStep

\* A delivery marked as sent was sent, and a mail is repeated at most once for each
\* crash or refused send, whatever the dispatchers do.
THEOREM MailsRepeatedOnlyByFaults == Spec => []MailsAccounted
<1>1. TypeInv /\ MailInv => MailsAccounted
  BY DEF MailInv, MailsAccounted, TypeInv, TypeOK
<1> QED
  BY <1>1, TypeInvInit, TypeInvStep, MailInit, MailStep, PTL DEF Spec
=============================================================================

--------------------------- MODULE TaskCacheProofs ---------------------------
(***************************************************************************)
(* Theorems about TaskCache and the RateLimit it extends, for every set of *)
(* requests, keys, users and values, every limit, window and TTL.          *)
(***************************************************************************)
EXTENDS TaskCache, TLAPS

-----------------------------------------------------------------------------
(* Type correctness *)

LEMMA DecideType ==
  ASSUME LimitTypeOK, NEW r \in Request, NEW o \in Outcome, Decide(r, o)
  PROVE  check' \in [Request -> {"incr", "expire"} \cup Outcome] /\ granted' \in [Key -> Nat]
<1> USE RateLimitAssumption
<1>1. KeyOf[r] \in Key
  OBVIOUS
<1>2. check' \in [Request -> {"incr", "expire"} \cup Outcome]
  BY DEF LimitTypeOK, Decide
<1>3. granted' \in [Key -> Nat]
  BY <1>1 DEF LimitTypeOK, Decide
<1> QED
  BY <1>2, <1>3

LEMMA CheckStepType ==
  ASSUME LimitTypeOK, NEW r \in Request, CheckStep(r) PROVE LimitTypeOK'
<1> USE RateLimitAssumption
<1>0. KeyOf[r] \in Key /\ Window \in 0..Window
      /\ {"allowed", "refused", "degraded"} \subseteq Outcome
  BY DEF Outcome
<1>1. CASE Incr(r)
  <2>1. counter' \in [Key -> Counter]
    BY <1>0, <1>1 DEF Incr, LimitTypeOK, Counter
  <2>2. cut' \in SUBSET Key
    BY <1>1 DEF Incr, LimitTypeOK
  <2>3. CASE check' = [check EXCEPT ![r] = "expire"] /\ UNCHANGED granted
    BY <2>1, <2>2, <2>3 DEF LimitTypeOK
  <2>4. CASE \E o \in Outcome : Decide(r, o)
    BY <2>1, <2>2, <2>4, DecideType DEF LimitTypeOK
  <2> QED
    BY <1>0, <1>1, <2>3, <2>4 DEF Incr
<1>2. CASE Expire(r)
  <2>1. counter' \in [Key -> Counter]
    BY <1>0, <1>2 DEF Expire, LimitTypeOK, Counter
  <2>2. \E o \in Outcome : Decide(r, o)
    BY <1>0, <1>2 DEF Expire
  <2> QED
    BY <1>2, <2>1, <2>2, DecideType DEF Expire, LimitTypeOK
<1>3. CASE IncrFails(r)
  <2>1. counter' \in [Key -> Counter]
    BY <1>0, <1>3 DEF IncrFails, LimitTypeOK, Counter
  <2>2. \E o \in Outcome : Decide(r, o)
    BY <1>0, <1>3 DEF IncrFails
  <2>3. cut' \in SUBSET Key
    BY <1>0, <1>3 DEF IncrFails, LimitTypeOK
  <2> QED
    BY <2>1, <2>2, <2>3, DecideType DEF LimitTypeOK
<1>4. CASE ExpireFails(r)
  <2>1. \E o \in Outcome : Decide(r, o)
    BY <1>0, <1>4 DEF ExpireFails
  <2>2. counter' \in [Key -> Counter] /\ cut' \in SUBSET Key
    BY <1>0, <1>4 DEF ExpireFails, LimitTypeOK
  <2> QED
    BY <2>1, <2>2, DecideType DEF LimitTypeOK
<1> QED
  BY <1>1, <1>2, <1>3, <1>4 DEF CheckStep

\* The number a TTL is counted down to is one of the TTLs.
LEMMA CountDownType ==
  ASSUME NEW n \in Nat, NEW t \in 0..n PROVE CountDown(t) \in 0..n
  BY DEF CountDown

LEMMA TickCountersType == ASSUME LimitTypeOK, TickCounters PROVE LimitTypeOK'
<1> USE RateLimitAssumption
<1>1. ASSUME NEW k \in Key
      PROVE  /\ NoCounter \in Counter
             /\ [counter[k] EXCEPT !.ttl = CountDown(@)] \in Counter
  <2>1. counter[k] \in Counter /\ counter[k].ttl \in 0..Window
    BY DEF LimitTypeOK, Counter
  <2>2. CountDown(counter[k].ttl) \in 0..Window
    BY <2>1, CountDownType
  <2> QED
    BY <2>1, <2>2 DEF Counter, NoCounter
<1>2. counter' \in [Key -> Counter]
  BY <1>1 DEF TickCounters
<1>3. granted' \in [Key -> Nat]
  BY DEF TickCounters, LimitTypeOK
<1> QED
  BY <1>2, <1>3 DEF TickCounters, LimitTypeOK

LEMMA TypeInit == Init => TypeOK
<1> SUFFICES ASSUME Init PROVE TypeOK
  OBVIOUS
<1> USE RateLimitAssumption, TaskCacheAssumption
<1>1. LimitTypeOK
  BY DEF Init, LimitInit, LimitTypeOK, Counter, NoCounter
<1>2. row \in TaskRow
  BY DEF Init, TaskRow
<1>3. write \in [Request -> Write]
  BY DEF Init, Write
<1> QED
  BY <1>1, <1>2, <1>3 DEF Init, TypeOK

\* A request moves to another step with its version and its keys.
LEMMA GotoType ==
  ASSUME TypeOK, NEW r \in Request,
         NEW step \in {"commit", "refresh", "scan", "delete", "done"}, Goto(r, step)
  PROVE  write' \in [Request -> Write]
  BY DEF TypeOK, Goto, Write

LEMMA DoneType == ASSUME TypeOK, NEW r \in Request, Done(r) PROVE write' \in [Request -> Write]
  BY DEF TypeOK, Done, Write

LEMMA EndWithoutInvalidationType ==
  ASSUME TypeOK, NEW r \in Request, EndWithoutInvalidation(r)
  PROVE  write' \in [Request -> Write] /\ missed' \in SUBSET Nat
<1>1. write[r].version \in Nat
  BY DEF TypeOK, Write
<1>2. missed' \in SUBSET Nat
  BY <1>1 DEF EndWithoutInvalidation, TypeOK
<1> QED
  BY <1>2, DoneType DEF EndWithoutInvalidation

LEMMA WriteStepType == ASSUME TypeOK, NEW r \in Request, WriteStep(r) PROVE TypeOK'
<1> USE TaskCacheAssumption
<1>0. LimitTypeOK /\ (UNCHANGED limitVars => LimitTypeOK')
  BY DEF TypeOK, LimitTypeOK, limitVars
<1>1. CASE Limited(r)
  BY <1>0, <1>1, CheckStepType DEF Limited, TypeOK
<1>2. CASE CommitUpdate(r)
  <2>1. version + 1 \in Nat
    BY DEF TypeOK
  <2>2. row' \in TaskRow /\ version' \in Nat
    BY <1>2, <2>1 DEF CommitUpdate, Commit, TaskRow
  <2>3. write' \in [Request -> Write]
    BY <1>2, <2>1 DEF CommitUpdate, TypeOK, Write
  <2> QED
    BY <1>0, <1>2, <2>2, <2>3 DEF CommitUpdate, TypeOK
<1>3. CASE CommitDelete(r)
  <2>1. version + 1 \in Nat
    BY DEF TypeOK
  <2>2. row' = None /\ version' \in Nat
    BY <1>3, <2>1 DEF CommitDelete, Commit
  <2>3. write' \in [Request -> Write]
    BY <1>3, <2>1 DEF CommitDelete, TypeOK, Write
  <2> QED
    BY <1>0, <1>3, <2>2, <2>3 DEF CommitDelete, TypeOK
<1>4. CASE CommitOther(r)
  BY <1>0, <1>4, GotoType DEF CommitOther, TypeOK
<1>5. CASE EndWithoutCommit(r)
  BY <1>0, <1>5, DoneType DEF EndWithoutCommit, TypeOK
<1>6. CASE Refresh(r)
  BY <1>0, <1>6, GotoType, EndWithoutInvalidationType DEF Refresh, TypeOK
<1>7. CASE Scan(r)
  <2>1. Listed \in SUBSET Context
    BY DEF Listed
  <2>2. write' \in [Request -> Write]
    BY <1>7, <2>1, DoneType DEF Scan, TypeOK, Write
  <2> QED
    BY <1>0, <1>7, <2>2 DEF Scan, TypeOK
<1>8. CASE DeleteKeys(r)
  <2>1. entry' \in [Context -> Entry \cup {None}]
    BY <1>8 DEF DeleteKeys, TypeOK
  <2> QED
    BY <1>0, <1>8, <2>1, DoneType DEF DeleteKeys, TypeOK
<1>9. CASE InvalidationFails(r)
  BY <1>0, <1>9, EndWithoutInvalidationType DEF InvalidationFails, TypeOK
<1> QED
  BY <1>1, <1>2, <1>3, <1>4, <1>5, <1>6, <1>7, <1>8, <1>9 DEF WriteStep

LEMMA TypeStep == TypeOK /\ [Next]_vars => TypeOK'
<1> SUFFICES ASSUME TypeOK, [Next]_vars PROVE TypeOK'
  OBVIOUS
<1> USE TaskCacheAssumption
<1>0. LimitTypeOK /\ (UNCHANGED limitVars => LimitTypeOK')
  BY DEF TypeOK, LimitTypeOK, limitVars
<1>1. ASSUME NEW c \in Context, GetTaskIfVisible(c) PROVE TypeOK'
  BY <1>0, <1>1 DEF GetTaskIfVisible, TypeOK
<1>2. ASSUME NEW c \in Context, SetCachedJson(c) PROVE TypeOK'
  <2>1. NewEntry(c) \in Entry
    BY <1>2 DEF SetCachedJson, NewEntry, Entry, TypeOK
  <2>2. entry' \in [Context -> Entry \cup {None}]
    BY <1>2, <2>1 DEF SetCachedJson, CacheKey, TypeOK
  <2> QED
    BY <1>0, <1>2, <2>2 DEF SetCachedJson, TypeOK
<1>3. ASSUME NEW r \in Request, WriteStep(r) PROVE TypeOK'
  BY <1>3, WriteStepType
<1>4. CASE Tick
  <2>1. ASSUME NEW c \in Context, entry[c] # None
        PROVE  [entry[c] EXCEPT !.ttl = CountDown(@)] \in Entry
    <3>1. entry[c] \in Entry /\ entry[c].ttl \in 0..CacheTtl
      BY <2>1 DEF TypeOK, Entry
    <3>2. CountDown(entry[c].ttl) \in 0..CacheTtl
      BY <3>1, CountDownType
    <3> QED
      BY <3>1, <3>2 DEF Entry
  <2>2. entry' \in [Context -> Entry \cup {None}]
    BY <1>4, <2>1 DEF Tick
  <2>3. LimitTypeOK'
    BY <1>0, <1>4, TickCountersType DEF Tick
  <2> QED
    BY <1>4, <2>2, <2>3 DEF Tick, TypeOK
<1>5. CASE UNCHANGED vars
  BY <1>0, <1>5 DEF vars, TypeOK
<1> QED
  BY <1>1, <1>2, <1>3, <1>4, <1>5 DEF Next

\* Every state of the cache and of the rate limit has the types the variables
\* are declared with: no count is negative and no TTL above what was set.
THEOREM TypeCorrect == Spec => []TypeOK
  BY TypeInit, TypeStep, PTL DEF Spec

-----------------------------------------------------------------------------
(* The rate limit *)

\* What makes AtMostLimit inductive.  A counter's requests are no more than its
\* count, and one place stays free for the request that is to set its TTL: INCR
\* has told that request that it is the first, so it is let through whatever the
\* count is by then.  Until then the counter has no TTL and cannot end, so no
\* second request is told the same.
LimitInv ==
  /\ \A k \in Key :
       /\ granted[k] <= Limit
       /\ granted[k] <= counter[k].count
       /\ counter[k].count = 0 => counter[k].ttl = 0
  /\ \A r \in Request : check[r] = "expire" =>
       /\ granted[KeyOf[r]] < Limit
       /\ granted[KeyOf[r]] < counter[KeyOf[r]].count
       /\ counter[KeyOf[r]].ttl = 0
  /\ \A r, s \in Request : check[r] = "expire" /\ check[s] = "expire" /\ KeyOf[r] = KeyOf[s] => r = s

\* Only a request that counts under a key changes what is said of that key.
LEMMA LimitFrame ==
  ASSUME LimitTypeOK, LimitInv, NEW r \in Request,
         NEW c \in Counter, counter' = [counter EXCEPT ![KeyOf[r]] = c],
         NEW g \in Nat, granted' = [granted EXCEPT ![KeyOf[r]] = g],
         NEW o \in {"incr", "expire"} \cup Outcome, check' = [check EXCEPT ![r] = o],
         g <= Limit, g <= c.count, c.count = 0 => c.ttl = 0,
         \A s \in Request : check'[s] = "expire" /\ KeyOf[s] = KeyOf[r] =>
                              g < Limit /\ g < c.count /\ c.ttl = 0,
         o = "expire" => \A s \in Request : check[s] = "expire" => KeyOf[s] # KeyOf[r]
  PROVE  LimitInv'
<1> USE RateLimitAssumption
<1>1. \A s \in Request : KeyOf[s] \in Key
  OBVIOUS
<1>2. counter'[KeyOf[r]] = c /\ granted'[KeyOf[r]] = g /\ check'[r] = o
  BY <1>1 DEF LimitTypeOK
<1>3. \A k \in Key : k # KeyOf[r] => counter'[k] = counter[k] /\ granted'[k] = granted[k]
  BY DEF LimitTypeOK
<1>4. \A s \in Request : s # r => check'[s] = check[s]
  BY DEF LimitTypeOK
<1>5. \A k \in Key : /\ granted'[k] <= Limit
                     /\ granted'[k] <= counter'[k].count
                     /\ counter'[k].count = 0 => counter'[k].ttl = 0
  BY <1>2, <1>3 DEF LimitInv
<1>6. ASSUME NEW s \in Request, check'[s] = "expire"
      PROVE  /\ granted'[KeyOf[s]] < Limit
             /\ granted'[KeyOf[s]] < counter'[KeyOf[s]].count
             /\ counter'[KeyOf[s]].ttl = 0
  <2>1. CASE KeyOf[s] = KeyOf[r]
    BY <1>2, <1>6, <2>1
  <2>2. CASE KeyOf[s] # KeyOf[r]
    BY <1>1, <1>3, <1>4, <1>6, <2>2 DEF LimitInv
  <2> QED
    BY <2>1, <2>2
<1>7. \A p, q \in Request : check'[p] = "expire" /\ check'[q] = "expire" /\ KeyOf[p] = KeyOf[q]
                             => p = q
  BY <1>2, <1>4 DEF LimitInv
<1> QED
  BY <1>5, <1>6, <1>7 DEF LimitInv

LEMMA LimitInit_Holds == Init => LimitInv
  BY RateLimitAssumption DEF Init, LimitInit, LimitInv, NoCounter

\* A counter of which one field is replaced.
LEMMA CounterFields ==
  ASSUME NEW c \in Counter, NEW n \in Nat
  PROVE  /\ [c EXCEPT !.count = n] = [count |-> n, ttl |-> c.ttl]
         /\ [c EXCEPT !.ttl = n] = [count |-> c.count, ttl |-> n]
  BY DEF Counter

LEMMA LimitStep == LimitTypeOK /\ LimitInv /\ [Next]_vars => LimitInv'
<1> SUFFICES ASSUME LimitTypeOK, LimitInv, [Next]_vars PROVE LimitInv'
  OBVIOUS
<1> USE RateLimitAssumption
<1>0. ASSUME NEW r \in Request
      PROVE  /\ KeyOf[r] \in Key
             /\ counter[KeyOf[r]] \in Counter
             /\ counter[KeyOf[r]].count \in Nat
             /\ granted[KeyOf[r]] \in Nat
             /\ {"allowed", "refused", "degraded"} \subseteq Outcome
  BY DEF LimitTypeOK, Counter, Outcome
\* What becomes of the variables of the key of r, whatever the call.
<1> DEFINE To(r, n, t, g, o) ==
             /\ counter' = [counter EXCEPT ![KeyOf[r]] = [count |-> n, ttl |-> t]]
             /\ granted' = [granted EXCEPT ![KeyOf[r]] = g]
             /\ check' = [check EXCEPT ![r] = o]
<1>01. ASSUME NEW r \in Request, NEW n \in Nat, NEW t \in 0..Window, NEW g \in Nat,
              NEW o \in {"incr", "expire"} \cup Outcome, To(r, n, t, g, o),
              g <= Limit, g <= n, n = 0 => t = 0,
              \A s \in Request : check'[s] = "expire" /\ KeyOf[s] = KeyOf[r] =>
                                   g < Limit /\ g < n /\ t = 0,
              o = "expire" => \A s \in Request : check[s] = "expire" => KeyOf[s] # KeyOf[r]
       PROVE  LimitInv'
  <2> DEFINE c == [count |-> n, ttl |-> t]
  <2>1. c \in Counter /\ c.count = n /\ c.ttl = t
    BY DEF Counter
  <2> HIDE DEF c
  <2>2. counter' = [counter EXCEPT ![KeyOf[r]] = c]
    BY <1>01 DEF c
  <2>3. \A s \in Request : check'[s] = "expire" /\ KeyOf[s] = KeyOf[r] =>
                             g < Limit /\ g < c.count /\ c.ttl = 0
    BY <1>01, <2>1
  <2> QED
    BY <1>01, <2>1, <2>2, <2>3, LimitFrame
<1>02. ASSUME NEW r \in Request
       PROVE  /\ counter = [counter EXCEPT ![KeyOf[r]] =
                              [count |-> counter[KeyOf[r]].count, ttl |-> counter[KeyOf[r]].ttl]]
              /\ granted = [granted EXCEPT ![KeyOf[r]] = granted[KeyOf[r]]]
              /\ counter[KeyOf[r]].ttl \in 0..Window
  BY <1>0 DEF LimitTypeOK, Counter
<1>1. ASSUME NEW r \in Request, Incr(r) PROVE LimitInv'
  <2> DEFINE k == KeyOf[r]
             n == counter[k].count + 1
             t == counter[k].ttl
  <2>1. n \in Nat /\ t \in 0..Window /\ granted[k] < n /\ granted[k] + 1 \in Nat
        /\ granted[k] <= Limit /\ granted[k] \in Nat
    BY <1>0, <1>02 DEF LimitInv
  <2>2. counter' = [counter EXCEPT ![k] = [count |-> n, ttl |-> t]]
    <3>1. counter' = [counter EXCEPT ![k] = [counter[k] EXCEPT !.count = n]]
      BY <1>1 DEF Incr
    <3> QED
      BY <1>0, <2>1, <3>1, CounterFields
  <2>3. CASE IsFirst(n)
    <3>1. n = 1 /\ counter[k].count = 0 /\ t = 0 /\ granted[k] = 0
      BY <1>0, <2>3 DEF IsFirst, LimitInv
    <3>2. \A s \in Request : check[s] = "expire" => KeyOf[s] # k
      BY <1>0, <3>1 DEF LimitInv
    <3>3. To(r, n, t, granted[k], "expire")
      BY <1>1, <1>02, <2>2, <2>3 DEF Incr
    <3>4. /\ \A s \in Request : check'[s] = "expire" /\ KeyOf[s] = k =>
               granted[k] < Limit /\ granted[k] < n /\ t = 0
          /\ granted[k] <= n /\ n # 0
      BY <2>1, <3>1
    <3> HIDE DEF n, t
    <3> QED
      BY <1>01, <2>1, <3>2, <3>3, <3>4
  <2>4. CASE ~IsFirst(n)
    <3>1. ASSUME NEW s \in Request, check[s] = "expire", KeyOf[s] = k
          PROVE  granted[k] < Limit /\ granted[k] + 1 < n /\ t = 0
      BY <1>0, <3>1 DEF LimitInv
    <3>2. check[r] = "incr" /\ r \in Request
      BY <1>1 DEF Incr
    <3>3. CASE Decide(r, "allowed") /\ ~Exceeded(n)
      <4>1. n <= Limit
        BY <2>1, <3>3 DEF Exceeded
      <4>2. To(r, n, t, granted[k] + 1, "allowed")
        BY <2>2, <3>3 DEF Decide
      <4>3. \A s \in Request : check'[s] = "expire" /\ KeyOf[s] = k =>
              granted[k] + 1 < Limit /\ granted[k] + 1 < n /\ t = 0
        <5> SUFFICES ASSUME NEW s \in Request, check'[s] = "expire", KeyOf[s] = k
                     PROVE  granted[k] + 1 < Limit /\ granted[k] + 1 < n /\ t = 0
          OBVIOUS
        <5>1. check[s] = "expire"
          BY <4>2 DEF LimitTypeOK
        <5> QED
          BY <2>1, <3>1, <4>1, <5>1
      <4>4. granted[k] + 1 <= Limit /\ granted[k] + 1 <= n
        BY <2>1, <4>1
      <4>5. n # 0
        BY <2>1
      <4> HIDE DEF n, t
      <4> QED
        BY <1>0, <1>01, <2>1, <4>2, <4>3, <4>4, <4>5
    <3>4. ASSUME NEW o \in {"refused", "degraded"}, Decide(r, o) PROVE LimitInv'
      <4>1. To(r, n, t, granted[k], o)
        BY <1>02, <2>2, <3>4 DEF Decide
      <4>2. \A s \in Request : check'[s] = "expire" /\ KeyOf[s] = k =>
              granted[k] < Limit /\ granted[k] < n /\ t = 0
        <5> SUFFICES ASSUME NEW s \in Request, check'[s] = "expire", KeyOf[s] = k
                     PROVE  granted[k] < Limit /\ granted[k] < n /\ t = 0
          OBVIOUS
        <5>1. check[s] = "expire"
          BY <4>1 DEF LimitTypeOK
        <5> QED
          BY <2>1, <3>1, <5>1
      <4>3. granted[k] <= n /\ n # 0 /\ o \in {"incr", "expire"} \cup Outcome /\ o # "expire"
        BY <1>0, <2>1, <3>4
      <4> HIDE DEF n, t
      <4> QED
        BY <1>01, <2>1, <4>1, <4>2, <4>3
    <3> QED
      BY <1>1, <2>4, <3>3, <3>4 DEF Incr
  <2> QED
    BY <2>3, <2>4
<1>2. ASSUME NEW r \in Request, Expire(r) PROVE LimitInv'
  <2> DEFINE k == KeyOf[r]
             n == counter[k].count
  <2>1. n \in Nat /\ granted[k] \in Nat /\ granted[k] < n /\ granted[k] < Limit /\ Window \in 0..Window
    BY <1>0, <1>2 DEF LimitInv, Expire
  <2>2. counter' = [counter EXCEPT ![k] = [count |-> n, ttl |-> Window]]
    <3>1. counter' = [counter EXCEPT ![k] = [counter[k] EXCEPT !.ttl = Window]]
      BY <1>2 DEF Expire
    <3> QED
      BY <1>0, <3>1, CounterFields
  <2>3. ASSUME NEW o \in Outcome, check' = [check EXCEPT ![r] = o]
        PROVE  \A s \in Request : check'[s] = "expire" => KeyOf[s] # k
    BY <1>2, <2>3 DEF Expire, LimitTypeOK, LimitInv, Outcome
  <2>4. ASSUME NEW g \in {granted[k], granted[k] + 1}, NEW o \in Outcome, To(r, n, Window, g, o)
        PROVE  LimitInv'
    <3>1. \A s \in Request : check'[s] = "expire" => KeyOf[s] # k
      BY <2>3, <2>4
    <3>2. g \in Nat /\ g <= Limit /\ g <= n /\ n # 0
      BY <2>1
    <3>3. o # "expire"
      BY DEF Outcome
    <3> HIDE DEF n
    <3> QED
      BY <1>01, <2>1, <2>4, <3>1, <3>2, <3>3
  <2>5. \/ To(r, n, Window, granted[k] + 1, "allowed")
        \/ To(r, n, Window, granted[k], "degraded")
    BY <1>02, <1>2, <2>2 DEF Expire, Decide
  <2> QED
    BY <1>0, <2>4, <2>5
<1>3. ASSUME NEW r \in Request, NEW n \in {counter[KeyOf[r]].count, counter[KeyOf[r]].count + 1},
             To(r, n, counter[KeyOf[r]].ttl, granted[KeyOf[r]], "degraded")
      PROVE  LimitInv'
  <2> DEFINE k == KeyOf[r]
             t == counter[k].ttl
  <2>1. n \in Nat /\ t \in 0..Window /\ granted[k] <= n /\ granted[k] \in Nat /\ granted[k] <= Limit
    BY <1>0, <1>02 DEF LimitInv
  <2>2. n = 0 => t = 0
    BY <1>0 DEF LimitInv
  <2>3. \A s \in Request : check'[s] = "expire" /\ KeyOf[s] = k =>
          granted[k] < Limit /\ granted[k] < n /\ t = 0
    <3> SUFFICES ASSUME NEW s \in Request, check'[s] = "expire", KeyOf[s] = k
                 PROVE  granted[k] < Limit /\ granted[k] < n /\ t = 0
      OBVIOUS
    <3>1. check[s] = "expire"
      BY <1>3 DEF LimitTypeOK
    <3> QED
      BY <1>0, <2>1, <3>1 DEF LimitInv
  <2>4. To(r, n, t, granted[k], "degraded")
    BY <1>3
  <2> HIDE DEF t
  <2> QED
    BY <1>0, <1>01, <2>1, <2>2, <2>3, <2>4
<1>4. ASSUME NEW r \in Request, IncrFails(r) PROVE LimitInv'
  <2>1. \/ counter' = counter
        \/ counter' = [counter EXCEPT ![KeyOf[r]] =
                         [count |-> counter[KeyOf[r]].count + 1, ttl |-> counter[KeyOf[r]].ttl]]
    <3>1. \/ counter' = counter
          \/ counter' = [counter EXCEPT ![KeyOf[r]] =
                           [counter[KeyOf[r]] EXCEPT !.count = counter[KeyOf[r]].count + 1]]
      BY <1>4 DEF IncrFails
    <3>2. counter[KeyOf[r]].count + 1 \in Nat
      BY <1>0
    <3>3. [counter[KeyOf[r]] EXCEPT !.count = counter[KeyOf[r]].count + 1]
            = [count |-> counter[KeyOf[r]].count + 1, ttl |-> counter[KeyOf[r]].ttl]
      BY <1>0, <3>2, CounterFields
    <3> QED
      BY <3>1, <3>3
  <2> QED
    BY <1>02, <1>3, <1>4, <2>1 DEF IncrFails, Decide
<1>5. ASSUME NEW r \in Request, ExpireFails(r) PROVE LimitInv'
  BY <1>02, <1>3, <1>5 DEF ExpireFails, Decide
<1>6. CASE TickCounters
  <2>1. ASSUME NEW k \in Key, counter[k].ttl = 1
        PROVE  counter'[k].count = 0 /\ counter'[k].ttl = 0 /\ granted'[k] = 0
    BY <1>6, <2>1 DEF TickCounters, NoCounter
  <2>2. ASSUME NEW k \in Key, counter[k].ttl # 1
        PROVE  /\ counter'[k].count = counter[k].count
               /\ counter[k].ttl = 0 => counter'[k].ttl = 0
               /\ granted'[k] = granted[k]
    BY <1>6, <2>2 DEF TickCounters, CountDown, LimitTypeOK, Counter
  <2>3. \A k \in Key : /\ granted'[k] <= Limit
                       /\ granted'[k] <= counter'[k].count
                       /\ counter'[k].count = 0 => counter'[k].ttl = 0
    BY <2>1, <2>2 DEF LimitInv
  <2>4. \A r \in Request : check'[r] = check[r]
    BY <1>6 DEF TickCounters
  <2>5. ASSUME NEW r \in Request, check'[r] = "expire"
        PROVE  /\ granted'[KeyOf[r]] < Limit
               /\ granted'[KeyOf[r]] < counter'[KeyOf[r]].count
               /\ counter'[KeyOf[r]].ttl = 0
    BY <1>0, <2>2, <2>4, <2>5 DEF LimitInv
  <2> QED
    BY <2>3, <2>4, <2>5 DEF LimitInv
<1>7. CASE UNCHANGED limitVars
  BY <1>7 DEF LimitInv, limitVars
<1> QED
  <2>1. ASSUME NEW r \in Request, Limited(r) PROVE LimitInv'
    BY <1>1, <1>2, <1>4, <1>5, <2>1 DEF Limited, CheckStep
  <2>2. ASSUME NEW r \in Request, WriteStep(r), ~Limited(r) PROVE UNCHANGED limitVars
    BY <2>2 DEF WriteStep, CommitUpdate, CommitDelete, CommitOther, EndWithoutCommit,
                Refresh, Scan, DeleteKeys, InvalidationFails
  <2>3. ASSUME NEW c \in Context, GetTaskIfVisible(c) \/ SetCachedJson(c) PROVE UNCHANGED limitVars
    BY <2>3 DEF GetTaskIfVisible, SetCachedJson
  <2> QED
    BY <1>6, <1>7, <2>1, <2>2, <2>3 DEF Next, Tick, vars

\* A counter that works lets at most Limit requests through in its life, however
\* the calls of any number of requests interleave with each other, with failures
\* of Redis and with the end of a window.
THEOREM RateLimitKept == Spec => []AtMostLimit
<1>1. LimitTypeOK /\ LimitInv => AtMostLimit
  BY DEF LimitInv, AtMostLimit
<1>2. TypeOK => LimitTypeOK
  BY DEF TypeOK
<1> QED
  BY <1>1, <1>2, TypeCorrect, LimitInit_Holds, LimitStep, PTL DEF Spec

-----------------------------------------------------------------------------
(* What the cache answers *)

\* An entry, or the row of a GET in progress, passes through Tick, DeleteKeys and
\* SetCachedJson as it was read: its assignee is one that its reader sees.
LEMMA VisibleStep == TypeOK /\ AnswersVisible /\ [Next]_vars => AnswersVisible'
<1> SUFFICES ASSUME TypeOK, AnswersVisible, [Next]_vars,
                    NEW c \in Context
             PROVE  /\ (entry[c] # None => entry[c].row.assignee \in Sees[c])'
                    /\ (get[c] # None => get[c].assignee \in Sees[c])'
  BY DEF AnswersVisible, Cached, CacheKey
<1>0. /\ entry[c] # None => entry[c].row.assignee \in Sees[c]
      /\ get[c] # None => get[c].assignee \in Sees[c]
      /\ entry[c] \in Entry \cup {None} /\ DOMAIN get = Context /\ DOMAIN entry = Context
  BY DEF AnswersVisible, Cached, CacheKey, TypeOK
<1>1. ASSUME NEW d \in Context, GetTaskIfVisible(d)
      PROVE  /\ entry' = entry
             /\ get' = [get EXCEPT ![d] = row]
             /\ row.assignee \in Sees[d]
  BY <1>1 DEF GetTaskIfVisible
<1>2. ASSUME NEW d \in Context, SetCachedJson(d)
      PROVE  /\ get[d] # None
             /\ entry' = [entry EXCEPT ![d] = NewEntry(d)] \/ entry' = entry
             /\ get' = [get EXCEPT ![d] = None]
             /\ NewEntry(d).row = get[d]
  BY <1>2 DEF SetCachedJson, CacheKey, NewEntry
<1>3. ASSUME NEW r \in Request, WriteStep(r)
      PROVE  get' = get /\ (entry'[c] = entry[c] \/ entry'[c] = None)
  BY <1>3 DEF WriteStep, Limited, CommitUpdate, CommitDelete, CommitOther, EndWithoutCommit,
              Refresh, Scan, DeleteKeys, InvalidationFails
<1>4. CASE Tick
  <2>1. get' = get
    BY <1>4 DEF Tick
  <2>2. entry'[c] # None => entry[c] # None /\ entry'[c] = [entry[c] EXCEPT !.ttl = CountDown(@)]
    BY <1>4 DEF Tick
  <2>3. entry'[c] # None => entry[c] # None /\ entry'[c].row = entry[c].row
    BY <1>0, <2>2 DEF Entry
  <2> QED
    BY <1>0, <2>1, <2>3
<1>5. CASE UNCHANGED vars
  BY <1>0, <1>5 DEF vars
<1> QED
  BY <1>0, <1>1, <1>2, <1>3, <1>4, <1>5 DEF Next

\* Whoever gets an answer, from the cache or from PostgreSQL, gets a version of
\* the task that rbac has shown to this very user: a hit skips the check, and the
\* key of the entry stands in for it.
THEOREM AnswersSeen == Spec => []AnswersVisible
<1>1. Init => AnswersVisible
  BY DEF Init, AnswersVisible, Cached, CacheKey
<1> QED
  BY <1>1, TypeCorrect, VisibleStep, PTL DEF Spec

-----------------------------------------------------------------------------
(* Stale entries *)

Invalidating == {"refresh", "scan", "delete"}

\* What makes StaleEntriesExplained inductive: no version is ahead of the row's,
\* and what a writer has not listed was stored after its own commit, so the
\* writer may go without removing it.
EntryInv ==
  /\ row # None => row.version <= version
  /\ \A c \in Context : get[c] # None => get[c].version <= version
  /\ \A r \in Request : write[r].version <= version
  /\ \A r \in Request, c \in Context :
       write[r].at = "delete" /\ entry[c] # None /\ c \notin write[r].keys
         => write[r].version <= entry[c].at
  /\ StaleEntriesExplained

\* A version stays uninvalidated unless its writer ends without being missed.
LEMMA NotInvalidatedKept ==
  ASSUME NEW r \in Request, NEW w, write \in [Request -> Write],
         write' = [write EXCEPT ![r] = w], missed \subseteq missed',
         NEW v, NotInvalidated(v),
         write[r].version = v /\ write[r].at \in Invalidating =>
           (w.version = v /\ w.at \in Invalidating) \/ v \in missed'
  PROVE  NotInvalidated(v)'
<1>1. write'[r] = w /\ \A s \in Request : s # r => write'[s] = write[s]
  OBVIOUS
<1> QED
  BY <1>1 DEF NotInvalidated, Invalidating

\* The other parts of the invariant, when the cache and the readers are left as
\* they are and a request moves from one step to another.
LEMMA WriterMoves ==
  ASSUME TypeOK, EntryInv, NEW r \in Request, NEW w \in Write, write' = [write EXCEPT ![r] = w],
         UNCHANGED <<get, entry>>, missed \subseteq missed',
         version' \in Nat, version <= version', row' # None => row'.version <= version',
         w.version <= version',
         w.at = "delete" => w.keys = Listed,
         \A c \in Context : entry[c] # None =>
           \A v \in 1..version' : v > entry[c].at => NotInvalidated(v)'
  PROVE  EntryInv'
<1>0. version \in Nat /\ get \in [Context -> TaskRow \cup {None}]
  BY DEF TypeOK
<1>1. write'[r] = w /\ \A s \in Request : s # r => write'[s] = write[s]
  BY DEF TypeOK
<1>2. \A s \in Request : write[s].version \in Nat /\ w.version \in Nat
  BY DEF TypeOK, Write
<1>3. ASSUME NEW c \in Context, get'[c] # None PROVE get'[c].version <= version'
  <2>1. get[c].version \in Nat /\ get[c].version <= version
    BY <1>0, <1>3 DEF EntryInv, TaskRow
  <2> QED
    BY <1>0, <2>1
<1>4. ASSUME NEW s \in Request PROVE write'[s].version <= version'
  BY <1>0, <1>1, <1>2 DEF EntryInv
<1>5. ASSUME NEW s \in Request, NEW c \in Context,
             write'[s].at = "delete", entry'[c] # None, c \notin write'[s].keys
      PROVE  write'[s].version <= entry'[c].at
  BY <1>1, <1>5 DEF EntryInv, Listed
<1>6. StaleEntriesExplained'
  BY DEF StaleEntriesExplained, EntryInv
<1> QED
  BY <1>3, <1>4, <1>5, <1>6 DEF EntryInv

\* A commit leaves its own version to be invalidated by its writer, which no
\* entry is waiting for yet.
LEMMA CommitKeepsEntryInv ==
  ASSUME TypeOK, EntryInv, NEW r \in Request, write[r].at = "commit",
         NEW w \in Write, w.at \in {"refresh", "scan"}, w.version = version + 1,
         write' = [write EXCEPT ![r] = w], version' = version + 1,
         row' # None => row'.version = version + 1, UNCHANGED <<get, entry, missed>>
  PROVE  EntryInv'
<1>0. version \in Nat /\ version' \in Nat /\ version <= version'
      /\ write \in [Request -> Write]
  BY DEF TypeOK
<1>1. ASSUME NEW c \in Context, entry[c] # None, NEW v \in 1..version', v > entry[c].at
      PROVE  NotInvalidated(v)'
  <2>1. CASE v = version + 1
    <3>1. write'[r] = w
      BY <1>0
    <3> QED
      BY <2>1, <3>1 DEF NotInvalidated
  <2>2. CASE v # version + 1
    <3>1. v \in 1..version
      BY <1>0, <2>2
    <3>2. NotInvalidated(v)
      BY <1>1, <3>1 DEF EntryInv, StaleEntriesExplained
    <3> QED
      BY <1>0, <3>2, NotInvalidatedKept DEF Invalidating
  <2> QED
    BY <2>1, <2>2
<1>2. (row' # None => row'.version <= version') /\ w.version <= version' /\ w.at # "delete"
  BY <1>0
<1> QED
  BY <1>0, <1>1, <1>2, WriterMoves

\* A writer moves on, or ends without being owed an invalidation.
LEMMA StepKeepsEntryInv ==
  ASSUME TypeOK, EntryInv, NEW r \in Request, NEW w \in Write,
         write' = [write EXCEPT ![r] = w], w.version <= version,
         w.at = "delete" => w.keys = Listed,
         UNCHANGED <<version, row, get, entry>>, missed \subseteq missed',
         \A v \in 1..version : write[r].version = v /\ write[r].at \in Invalidating =>
           \/ w.version = v /\ w.at \in Invalidating
           \/ v \in missed'
           \/ Listed = {}
  PROVE  EntryInv'
<1>0. version \in Nat /\ write \in [Request -> Write]
  BY DEF TypeOK
<1>1. ASSUME NEW c \in Context, entry[c] # None, NEW v \in 1..version, v > entry[c].at
      PROVE  NotInvalidated(v)'
  <2>1. NotInvalidated(v)
    BY <1>1 DEF EntryInv, StaleEntriesExplained
  <2>2. Listed # {}
    BY <1>1 DEF Listed
  <2> QED
    BY <1>0, <2>1, <2>2, NotInvalidatedKept
<1>2. version' \in Nat /\ version <= version' /\ w.version <= version'
      /\ (row' # None => row'.version <= version')
  BY <1>0 DEF EntryInv
<1> QED
  BY <1>0, <1>1, <1>2, WriterMoves

LEMMA EndKeepsEntryInv ==
  ASSUME TypeOK, EntryInv, NEW r \in Request, EndWithoutInvalidation(r),
         UNCHANGED <<version, row, get, entry>>
  PROVE  EntryInv'
<1> DEFINE w == [at |-> "done", version |-> 0, keys |-> {}]
<1>1. w \in Write /\ w.version = 0 /\ w.at = "done"
  BY DEF Write
<1>2. write' = [write EXCEPT ![r] = w] /\ missed \subseteq missed'
  BY DEF EndWithoutInvalidation, Done
<1>3. \A v \in 1..version : write[r].version = v => v \in missed'
  BY DEF EndWithoutInvalidation, TypeOK
<1>4. 0 <= version
  BY DEF TypeOK
<1> HIDE DEF w
<1> QED
  BY <1>1, <1>2, <1>3, <1>4, StepKeepsEntryInv

LEMMA WriteStepKeepsEntryInv ==
  ASSUME TypeOK, EntryInv, NEW r \in Request, WriteStep(r), ~Limited(r) PROVE EntryInv'
<1> DEFINE ended == [at |-> "done", version |-> 0, keys |-> {}]
<1>0. /\ write \in [Request -> Write] /\ write[r] \in Write /\ version \in Nat
      /\ write[r].version \in Nat /\ write[r].version <= version /\ version + 1 \in Nat
  BY DEF TypeOK, Write, EntryInv
<1>01. ended \in Write /\ ended.version = 0 /\ ended.at = "done" /\ ended.version <= version
  BY <1>0 DEF Write
\* A record of which the step, and perhaps the version or the keys, is replaced.
<1>02. ASSUME NEW a \in {"commit", "refresh", "scan", "delete", "done"}
       PROVE  /\ [write[r] EXCEPT !.at = a] \in Write
              /\ [write[r] EXCEPT !.at = a].at = a
              /\ [write[r] EXCEPT !.at = a].version = write[r].version
              /\ [write[r] EXCEPT !.at = a, !.version = version + 1] \in Write
              /\ [write[r] EXCEPT !.at = a, !.version = version + 1].at = a
              /\ [write[r] EXCEPT !.at = a, !.version = version + 1].version = version + 1
              /\ [write[r] EXCEPT !.at = a, !.keys = Listed] \in Write
              /\ [write[r] EXCEPT !.at = a, !.keys = Listed].at = a
              /\ [write[r] EXCEPT !.at = a, !.keys = Listed].version = write[r].version
              /\ [write[r] EXCEPT !.at = a, !.keys = Listed].keys = Listed
  <2>1. Listed \in SUBSET Context
    BY DEF Listed
  <2> QED
    BY <1>0, <2>1 DEF Write
<1>1. CASE CommitUpdate(r)
  <2> DEFINE w == [write[r] EXCEPT !.at = "refresh", !.version = version + 1]
  <2>1. w \in Write /\ w.at \in {"refresh", "scan"} /\ w.version = version + 1
    BY <1>02
  <2>2. write' = [write EXCEPT ![r] = w] /\ write[r].at = "commit"
    BY <1>1 DEF CommitUpdate, MayCommit
  <2>3. version' = version + 1 /\ row'.version = version + 1 /\ UNCHANGED <<get, entry, missed>>
    BY <1>1 DEF CommitUpdate, Commit
  <2> HIDE DEF w
  <2> QED
    BY <2>1, <2>2, <2>3, CommitKeepsEntryInv
<1>2. CASE CommitDelete(r)
  <2> DEFINE w == [write[r] EXCEPT !.at = "scan", !.version = version + 1]
  <2>1. w \in Write /\ w.at \in {"refresh", "scan"} /\ w.version = version + 1
    BY <1>02
  <2>2. write' = [write EXCEPT ![r] = w] /\ write[r].at = "commit"
    BY <1>2 DEF CommitDelete, MayCommit
  <2>3. version' = version + 1 /\ row' = None /\ UNCHANGED <<get, entry, missed>>
    BY <1>2 DEF CommitDelete, Commit
  <2> HIDE DEF w
  <2> QED
    BY <2>1, <2>2, <2>3, CommitKeepsEntryInv
\* A step that keeps the version and what is left to be done with it.
<1>3. ASSUME Goto(r, "scan"), UNCHANGED <<version, row, get, entry, missed>> PROVE EntryInv'
  <2> DEFINE w == [write[r] EXCEPT !.at = "scan"]
  <2>1. w \in Write /\ w.at = "scan" /\ w.version = write[r].version
    BY <1>02
  <2>2. write' = [write EXCEPT ![r] = w]
    BY <1>3 DEF Goto
  <2> HIDE DEF w
  <2> QED
    BY <1>0, <1>3, <2>1, <2>2, StepKeepsEntryInv DEF Invalidating
\* An end that leaves nothing to be removed.
<1>4. ASSUME Done(r), UNCHANGED <<version, row, get, entry, missed>>,
             write[r].at \notin Invalidating \/ Listed = {}
      PROVE  EntryInv'
  <2>1. write' = [write EXCEPT ![r] = ended]
    BY <1>4 DEF Done
  <2> HIDE DEF ended
  <2> QED
    BY <1>01, <1>4, <2>1, StepKeepsEntryInv
<1>5. CASE CommitOther(r)
  BY <1>3, <1>5 DEF CommitOther
<1>6. CASE EndWithoutCommit(r)
  BY <1>4, <1>6 DEF EndWithoutCommit, MayCommit, Invalidating
<1>7. CASE Refresh(r)
  BY <1>3, <1>7, EndKeepsEntryInv DEF Refresh
<1>8. CASE Scan(r)
  <2>1. CASE Listed = {}
    BY <1>4, <1>8, <2>1 DEF Scan
  <2>2. CASE Listed # {}
    <3> DEFINE w == [write[r] EXCEPT !.at = "delete", !.keys = Listed]
    <3>1. w \in Write /\ w.at = "delete" /\ w.version = write[r].version /\ w.keys = Listed
      BY <1>02
    <3>2. write' = [write EXCEPT ![r] = w] /\ UNCHANGED <<version, row, get, entry, missed>>
      BY <1>8, <2>2 DEF Scan
    <3> HIDE DEF w
    <3> QED
      BY <1>0, <3>1, <3>2, StepKeepsEntryInv DEF Invalidating
  <2> QED
    BY <2>1, <2>2
<1>9. CASE DeleteKeys(r)
  <2>1. write' = [write EXCEPT ![r] = ended] /\ UNCHANGED <<version, row, get, missed>>
    BY <1>9 DEF DeleteKeys, Done
  <2>2. write'[r] = ended /\ \A s \in Request : s # r => write'[s] = write[s]
    BY <1>0, <2>1
  <2>3. ASSUME NEW c \in Context, entry'[c] # None
        PROVE  entry'[c] = entry[c] /\ entry[c] # None /\ c \notin write[r].keys
               /\ write[r].version <= entry[c].at /\ entry[c].at \in Nat
    <3>1. entry'[c] = entry[c] /\ entry[c] # None /\ c \notin write[r].keys
      BY <1>9, <2>3 DEF DeleteKeys
    <3>2. entry[c].at \in Nat
      BY <3>1 DEF TypeOK, Entry
    <3> QED
      BY <1>9, <3>1, <3>2 DEF DeleteKeys, EntryInv
  <2>4. ASSUME NEW c \in Context, entry'[c] # None, NEW v \in 1..version, v > entry'[c].at
        PROVE  NotInvalidated(v)'
    <3>1. NotInvalidated(v) /\ write[r].version # v
      BY <1>0, <2>3, <2>4 DEF EntryInv, StaleEntriesExplained
    <3> QED
      BY <1>0, <2>1, <3>1, NotInvalidatedKept
  <2>5. StaleEntriesExplained'
    BY <2>1, <2>3, <2>4 DEF EntryInv, StaleEntriesExplained
  <2>6. \A s \in Request : write'[s].version <= version'
    BY <1>0, <1>01, <2>1, <2>2 DEF EntryInv
  <2>7. \A s \in Request, c \in Context :
          write'[s].at = "delete" /\ entry'[c] # None /\ c \notin write'[s].keys
            => write'[s].version <= entry'[c].at
    BY <1>01, <2>2, <2>3 DEF EntryInv
  <2> QED
    BY <2>1, <2>5, <2>6, <2>7 DEF EntryInv
<1>10. CASE InvalidationFails(r)
  BY <1>10, EndKeepsEntryInv DEF InvalidationFails
<1> QED
  BY <1>1, <1>2, <1>5, <1>6, <1>7, <1>8, <1>9, <1>10 DEF WriteStep

LEMMA EntryInit == Init => EntryInv
  BY DEF Init, EntryInv, StaleEntriesExplained

LEMMA EntryStep == TypeOK /\ EntryInv /\ [Next]_vars => EntryInv'
<1> SUFFICES ASSUME TypeOK, EntryInv, [Next]_vars PROVE EntryInv'
  OBVIOUS
<1>0. /\ version \in Nat
      /\ get \in [Context -> TaskRow \cup {None}] /\ entry \in [Context -> Entry \cup {None}]
      /\ \A r \in Request : write[r].version \in Nat
  BY DEF TypeOK, Write
\* An entry that is gone, or has only come nearer its end, asks for nothing new.
<1>1. ASSUME UNCHANGED <<version, row, write, missed>>,
             \A c \in Context : get'[c] # None => get'[c].version <= version,
             \A c \in Context : entry'[c] # None =>
               \/ entry'[c].at = version /\ entry'[c].row.version <= version
               \/ entry[c] # None /\ entry'[c].at = entry[c].at /\ entry'[c].row = entry[c].row
      PROVE  EntryInv'
  <2>1. \A v : NotInvalidated(v)' <=> NotInvalidated(v)
    BY <1>1 DEF NotInvalidated
  <2>2. StaleEntriesExplained'
    BY <1>0, <1>1, <2>1 DEF StaleEntriesExplained, EntryInv
  <2>3. ASSUME NEW r \in Request, NEW c \in Context,
               write[r].at = "delete", entry'[c] # None, c \notin write[r].keys
        PROVE  write[r].version <= entry'[c].at
    BY <1>0, <1>1, <2>3 DEF EntryInv
  <2> QED
    BY <1>1, <2>2, <2>3 DEF EntryInv
<1>2. ASSUME NEW c \in Context, GetTaskIfVisible(c) PROVE EntryInv'
  <2>1. \A d \in Context : get'[d] = get[d] \/ get'[d] = row
    BY <1>0, <1>2 DEF GetTaskIfVisible
  <2> QED
    BY <1>1, <1>2, <2>1 DEF GetTaskIfVisible, EntryInv
<1>3. ASSUME NEW c \in Context, SetCachedJson(c) PROVE EntryInv'
  <2>1. NewEntry(c).at = version /\ NewEntry(c).row.version <= version
    BY <1>3 DEF SetCachedJson, NewEntry, EntryInv
  <2>2. \A d \in Context : entry'[d] = entry[d] \/ entry'[d] = NewEntry(c)
    BY <1>0, <1>3 DEF SetCachedJson, CacheKey
  <2>3. \A d \in Context : get'[d] = get[d] \/ get'[d] = None
    BY <1>0, <1>3 DEF SetCachedJson
  <2>4. \A d \in Context : get'[d] # None => get'[d].version <= version
    BY <2>3 DEF EntryInv
  <2>5. UNCHANGED <<version, row, write, missed>>
    BY <1>3 DEF SetCachedJson
  <2> QED
    BY <1>1, <2>1, <2>2, <2>4, <2>5
<1>4. ASSUME NEW r \in Request, WriteStep(r) PROVE EntryInv'
  <2>1. CASE Limited(r)
    BY <1>1, <2>1 DEF Limited, EntryInv
  <2> QED
    BY <1>4, <2>1, WriteStepKeepsEntryInv
<1>5. CASE Tick
  <2>1. ASSUME NEW c \in Context, entry'[c] # None
        PROVE  entry[c] # None /\ entry'[c].at = entry[c].at /\ entry'[c].row = entry[c].row
    <3>1. entry[c] # None /\ entry'[c] = [entry[c] EXCEPT !.ttl = CountDown(@)]
      BY <1>5, <2>1 DEF Tick
    <3>2. entry[c] \in Entry
      BY <1>0, <3>1
    <3> QED
      BY <3>1, <3>2 DEF Entry
  <2> QED
    BY <1>1, <1>5, <2>1 DEF Tick, EntryInv
<1>6. CASE UNCHANGED vars
  BY <1>1, <1>6 DEF vars, EntryInv
<1> QED
  BY <1>2, <1>3, <1>4, <1>5, <1>6 DEF Next

\* One completed invalidation is enough: an entry older than the task is in the
\* cache only as long as the writer of every version committed since it was
\* stored has not removed its keys yet, or has failed to.  An entry older than
\* the version current when it was stored comes from a read that overlapped it.
THEOREM StaleOnlyBeforeInvalidation == Spec => []StaleEntriesExplained
<1>1. EntryInv => StaleEntriesExplained
  BY DEF EntryInv
<1> QED
  BY <1>1, TypeCorrect, EntryInit, EntryStep, PTL DEF Spec
=============================================================================

----------------------------- MODULE RateLimit ------------------------------
(***************************************************************************)
(* The fixed-window rate limit of shared/rate_limit.py: a counter in Redis *)
(* for each key, whose TTL is the window.  INCR, EXPIRE and TTL are three  *)
(* calls, between which other requests and the clock go on, and each may   *)
(* fail.  When one fails the request is let through uncounted.             *)
(*                                                                         *)
(* Both services limit this way: the task service by user and address, the *)
(* login by address and email.  A key is a model value here.               *)
(***************************************************************************)
EXTENDS Integers

CONSTANTS
  Request,  \* requests that are limited, each made once
  Key,
  KeyOf,    \* the key each request counts under
  Limit,    \* requests allowed in a window
  Window    \* TTL of a counter, in steps of the clock

ASSUME RateLimitAssumption ==
  /\ KeyOf \in [Request -> Key]
  /\ Limit \in Nat \ {0}
  /\ Window \in Nat \ {0}

VARIABLES
  counter, \* per key: the number in Redis, 0 when there is none, and its TTL, 0 for none
  check,   \* per request: the call it makes next, or its outcome
  granted, \* history: per key, the requests the present counter has let through
  cut      \* history: keys whose counter has lost the request that was to give it a TTL

limitVars == <<counter, check, granted, cut>>

Counter == [count : Nat, ttl : 0..Window]

Outcome == {"allowed", "refused", "degraded"}

LimitTypeOK ==
  /\ counter \in [Key -> Counter]
  /\ check \in [Request -> {"incr", "expire"} \cup Outcome]
  /\ granted \in [Key -> Nat]
  /\ cut \in SUBSET Key

NoCounter == [count |-> 0, ttl |-> 0]

LimitInit ==
  /\ counter = [k \in Key |-> NoCounter]
  /\ check = [r \in Request |-> "incr"]
  /\ granted = [k \in Key |-> 0]
  /\ cut = {}

-----------------------------------------------------------------------------
\* Wrong variant: the number before the increment is expected.
IsFirst_Zero(current) == current = 0

\* current is what INCR has returned.
IsFirst(current) == current = 1

\* Wrong variant: the request after the last one is let through too.
Exceeded_OffByOne(current) == current > Limit + 1

Exceeded(current) == current > Limit

Decide(r, outcome) ==
  /\ check' = [check EXCEPT ![r] = outcome]
  /\ granted' = IF outcome = "allowed" THEN [granted EXCEPT ![KeyOf[r]] = @ + 1] ELSE granted

\* TTL follows at once, or after EXPIRE: what it returns only goes into the header
\* Retry-After, and its failure is one of the outcomes.
Incr(r) ==
  LET k == KeyOf[r]
      current == counter[k].count + 1 IN
  /\ check[r] = "incr"
  /\ counter' = [counter EXCEPT ![k].count = current]
  /\ UNCHANGED cut
  /\ IF IsFirst(current)
       THEN check' = [check EXCEPT ![r] = "expire"] /\ UNCHANGED granted
       ELSE \/ Decide(r, IF Exceeded(current) THEN "refused" ELSE "allowed")
            \/ Decide(r, "degraded")

\* The first request of a counter is within every limit.
Expire(r) ==
  /\ check[r] = "expire"
  /\ counter' = [counter EXCEPT ![KeyOf[r]].ttl = Window]
  /\ UNCHANGED cut
  /\ Decide(r, "allowed") \/ Decide(r, "degraded")

\* An INCR that fails may have counted all the same.
IncrFails(r) ==
  LET k == KeyOf[r] IN
  /\ check[r] = "incr"
  /\ \/ UNCHANGED <<counter, cut>>
     \/ /\ counter' = [counter EXCEPT ![k].count = @ + 1]
        /\ cut' = IF counter[k] = NoCounter THEN cut \cup {k} ELSE cut
  /\ Decide(r, "degraded")

ExpireFails(r) ==
  /\ check[r] = "expire"
  /\ cut' = cut \cup {KeyOf[r]}
  /\ UNCHANGED counter
  /\ Decide(r, "degraded")

\* A request is let through by a limit that works, and by one that does not.
LetThrough(r) == check[r] \in {"allowed", "degraded"}

\* Wrong variant: a key without a TTL is counted down as well.
CountDown_Any(ttl) == ttl - 1

\* What is left of a TTL after a step of the clock.
CountDown(ttl) == IF ttl > 0 THEN ttl - 1 ELSE 0

\* Redis removes a key whose TTL has run out.
TickCounters ==
  LET ended == {k \in Key : counter[k].ttl = 1} IN
  /\ counter' = [k \in Key |->
       IF k \in ended THEN NoCounter ELSE [counter[k] EXCEPT !.ttl = CountDown(@)]]
  /\ granted' = [k \in Key |-> IF k \in ended THEN 0 ELSE granted[k]]
  /\ UNCHANGED <<check, cut>>

CheckStep(r) == Incr(r) \/ Expire(r) \/ IncrFails(r) \/ ExpireFails(r)
-----------------------------------------------------------------------------
\* However the calls of requests interleave with each other and with the end of
\* a window, a counter that works lets at most Limit requests through in its
\* life (README: "5 requests in 60 seconds").
AtMostLimit == \A k \in Key : granted[k] <= Limit

\* Every counter ends, so nobody is refused for good, unless the one request
\* that was to set its TTL has failed between INCR and EXPIRE.
WindowEnds == \A k \in Key : counter[k].count > 0 ~> counter[k].count = 0 \/ k \in cut
=============================================================================

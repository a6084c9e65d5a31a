----------------------------- MODULE EventChain -----------------------------
(***************************************************************************)
(* What the event-driven part of the system promises for every task event: *)
(* a chain with at most one event of each kind.  A task event is enriched  *)
(* at most once; the enriched event is queued for delivery at most once;   *)
(* the delivery is reported as sent at most once, and never before.        *)
(***************************************************************************)
VARIABLES
  written,   \* task events that are to be enriched
  enriched,  \* pairs <<task event, its task.enriched event>>
  queued,    \* task.enriched events with a notification delivery
  sent       \* pairs <<task.enriched event, its notification.sent event>>

vars == <<written, enriched, queued, sent>>

Init ==
  /\ written = {}
  /\ enriched = {}
  /\ queued = {}
  /\ sent = {}

\* Relation r grows to s by pairs that answer members of S, each for the first time.
Answers(r, s, S) ==
  /\ r \subseteq s
  /\ \A x \in s \ r : x[1] \in S /\ \A y \in s : y[1] = x[1] => y = x

Write ==
  /\ written \subseteq written'
  /\ UNCHANGED <<enriched, queued, sent>>

Enrich ==
  /\ Answers(enriched, enriched', written)
  /\ UNCHANGED <<written, queued, sent>>

QueueDelivery ==
  /\ queued \subseteq queued'
  /\ \A i \in queued' \ queued : \E x \in enriched : x[2] = i
  /\ UNCHANGED <<written, enriched, sent>>

Send ==
  /\ Answers(sent, sent', queued)
  /\ UNCHANGED <<written, enriched, queued>>

Next == Write \/ Enrich \/ QueueDelivery \/ Send

Spec == Init /\ [][Next]_vars
=============================================================================

---------------------------- MODULE EventRouting ----------------------------
(***************************************************************************)
(* The types of event the services exchange and the topic bindings that    *)
(* route them: the queue of a consumer receives an event when one of the   *)
(* consumer's binding keys matches the event's type.  A dotted name of the *)
(* code, such as "task.created", is the pair of its two words.             *)
(***************************************************************************)
EXTENDS Naturals, Sequences

Created       == <<"task", "created">>
StatusChanged == <<"task", "status_changed">>
Deleted       == <<"task", "deleted">>
Enriched      == <<"task", "enriched">>
Sent          == <<"notification", "sent">>

\* Events written by the HTTP API of task_service.
TaskEventType == {Created, StatusChanged, Deleted}
EventType == TaskEventType \cup {Enriched, Sent}

Enrichment   == "enrichment-service"
Notification == "notification-worker"
Audit        == "audit-worker"
Consumer     == {Enrichment, Notification, Audit}

\* BINDING_KEYS of the three workers.
BindingKeys(c) ==
  CASE c = Enrichment   -> {Created, StatusChanged}
    [] c = Notification -> {Enriched}
    [] c = Audit        -> {<<"task", "*">>, <<"notification", "*">>}

\* A topic exchange of the broker: "*" stands for exactly one word.
Matches(key, type) == \A k \in 1..2 : key[k] \in {"*", type[k]}

Receives(c, type) == \E key \in BindingKeys(c) : Matches(key, type)

\* SUPPORTED_EVENTS of the enrichment handler: the events that are enriched.
Enrichable == {Created, StatusChanged}
=============================================================================

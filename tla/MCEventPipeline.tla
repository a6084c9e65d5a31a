-------------------------- MODULE MCEventPipeline ---------------------------
(* Instances of EventPipeline for TLC. *)
EXTENDS EventPipeline, TLC

CONSTANTS p1, p2, e1, e2, n1, a1

\* One worker per consumer, as in docker-compose.yml.
ComposeWorkers == {e1, n1, a1}
ComposeConsumerOf == (e1 :> Enrichment) @@ (n1 :> Notification) @@ (a1 :> Audit)

\* The enrichment service alone, scaled to two workers.
ScaledWorkers == {e1, e2}
ScaledConsumerOf == (e1 :> Enrichment) @@ (e2 :> Enrichment)
OnlyEnrichment == {Enrichment}

\* Two consumers of the same event: a retry of one is delivered to the other.
RetryWorkers == {e1, a1}
RetryConsumerOf == (e1 :> Enrichment) @@ (a1 :> Audit)
RetryConsumers == {Enrichment, Audit}

OnlyCreated == {Created}
CreatedOrDeleted == {Created, Deleted}
ScaledSymmetry == Permutations(ScaledWorkers) \cup Permutations(Publishers)
=============================================================================

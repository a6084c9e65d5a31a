---------------------------- MODULE MCTaskCache -----------------------------
(* Instances of TaskCache for TLC. *)
EXTENDS TaskCache, TLC

CONSTANTS r1, r2, k1, u1, u2, a1, a2

\* Both writes come from one client, so the second waits for the next window, is
\* refused, or slips through while Redis is down.
OneClient == (r1 :> k1) @@ (r2 :> k1)

\* Two users who see the task while it is assigned to them.
Assignees == (u1 :> {a1}) @@ (u2 :> {a2})
=============================================================================

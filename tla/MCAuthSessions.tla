--------------------------- MODULE MCAuthSessions ---------------------------
(* Instances of AuthSessions for TLC. *)
EXTENDS AuthSessions, TLC

CONSTANTS w1, w2, u1, u2, t1

TwoWorkers == {w1, w2}

OneUser == {u1}

TwoUsers == {u1, u2}

\* An admin makes someone a teamlead or an admin, neither of them with "user".
LeadOrAdmin == {{"teamlead"}, {"admin"}}

\* Or takes every role away: a list with a blank code passes the schema's check.
LeadAdminOrNone == LeadOrAdmin \cup {{}}

Symmetry == Permutations(TwoWorkers) \cup Permutations(TwoUsers)
=============================================================================

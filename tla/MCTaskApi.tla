----------------------------- MODULE MCTaskApi ------------------------------
(* Instances of TaskApi for TLC. *)
EXTENDS TaskApi, TLC

CONSTANTS r1, r2, r3, t0, owner, assignee, lead, admin, team, other, k1

OneLead == [u \in Users |-> IF u = lead THEN {team} ELSE {}]

Mine == [assignee |-> assignee, team |-> team]
Moved == [assignee |-> owner, team |-> other]

ExistingTask == t0 :> [owner |-> owner, people |-> Mine, status |-> "todo"]

Call(op, user, key, task, body) ==
  [op |-> op, user |-> user, key |-> key, task |-> task, body |-> body]

\* Two payloads under one key for each operation that has one, writers of the
\* same task with each role, and a change of the task's team and assignee.
AllCalls == {
  Call("create", owner, k1, NoRow, Mine),
  Call("create", owner, k1, NoRow, Moved),
  Call("status", owner, k1, t0, "in_progress"),
  Call("status", owner, k1, t0, "cancelled"),
  Call("status", assignee, NoKey, t0, "in_progress"),
  Call("update", admin, NoKey, t0, Moved),
  Call("update", assignee, NoKey, t0, Mine),
  Call("delete", lead, NoKey, t0, "none"),
  Call("delete", assignee, NoKey, t0, "none"),
  Call("delete", owner, NoKey, r1, "none")}

\* Two changes of status that exclude each other.
ConflictingCalls == {
  Call("status", owner, NoKey, t0, "in_progress"),
  Call("status", assignee, NoKey, t0, "cancelled")}
=============================================================================

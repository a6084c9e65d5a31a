--------------------------- MODULE MCAuditReport ----------------------------
(* Instances of AuditReport for TLC. *)
EXTENDS AuditReport

CONSTANT request1
=============================================================================

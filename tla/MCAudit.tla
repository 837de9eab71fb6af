------------------------------ MODULE MCAudit ------------------------------
(* A small instance of AuditChain. *)
EXTENDS AuditChain
=============================================================================

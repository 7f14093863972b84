---------------------------- MODULE MCAuditChain ----------------------------
(* Model-checking instance of AuditChain. *)
EXTENDS AuditChain
=============================================================================

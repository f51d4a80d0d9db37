------------------------------- MODULE MCView -------------------------------
(***************************************************************************)
(* A small instance of the audit tab; its configuration picks the log.     *)
(***************************************************************************)
EXTENDS AuditView

=============================================================================

------------------------------ MODULE MCAudit -------------------------------
(***************************************************************************)
(* Small instances of the audit log with a client that pages through it.   *)
(***************************************************************************)
EXTENDS AuditPages, TLC

\* Transactions are interchangeable.
Interchangeable == Permutations(Txn)

=============================================================================

----------------------------- MODULE MCRuntime ------------------------------
(***************************************************************************)
(* Small instances of one process.                                         *)
(***************************************************************************)
EXTENDS Runtime, TLC

CONSTANT a   \* a call

\* The first event is about the call a, the others about no call.
FirstEvent == [r \in Row |-> IF r = 1 THEN a ELSE NULL]

=============================================================================

------------------------------ MODULE Provider ------------------------------
(***************************************************************************)
(* The telephony provider as the dialer sees it: the TelephonyProvider     *)
(* protocol and the mock that implements it (app/provider).  For every     *)
(* idempotency key it keeps the statuses its call has gone through; the    *)
(* webhooks it sends and the answers of get_status are drawn from them.    *)
(* The order and the number of deliveries are left to the receiver's       *)
(* module.                                                                 *)
(***************************************************************************)
EXTENDS CallStore

CONSTANTS
    Outcomes,   \* the final statuses this provider's calls can end with
    Refusals    \* the exceptions place_call can raise

ASSUME ProviderAssumption ==
    /\ Outcomes \subseteq TERMINAL_CALL_STATUSES
    /\ Refusals \subseteq {"REJECTED", "UNAVAILABLE"}

VARIABLE trace   \* the statuses each handle's call has gone through

ProviderTypeOK == trace \in [Handle -> SUBSET EventStatus]

ProviderInit == trace = [h \in Handle |-> {}]

Placed(h) == trace[h] # {}
Ended(h) == trace[h] \cap TERMINAL_CALL_STATUSES # {}

\* The provider takes the call on.  Idempotent: a key it has seen gets the
\* same handle and no second call.
Accept(h) == trace' = [trace EXCEPT ![h] = @ \cup {"DIALING"}]

\* place_call with key h comes back with the given outcome.  A call the
\* provider refused was not placed; after "unavailable" (a 5xx, a timeout)
\* it may or may not have been.
place_call(h, outcome) ==
    \/ outcome = "OK" /\ Accept(h)
    \/ outcome \in Refusals /\ UNCHANGED trace
    \/ outcome \in Refusals \cap {"UNAVAILABLE"} /\ Accept(h)

\* The callee picks up: a call that goes on to complete or to fail.
Answer(h) ==
    /\ Outcomes \cap {"COMPLETED", "FAILED"} # {}
    /\ Placed(h)
    /\ ~Ended(h)
    /\ "IN_PROGRESS" \notin trace[h]
    /\ trace' = [trace EXCEPT ![h] = @ \cup {"IN_PROGRESS"}]

\* The call ends.  Only an answered call completes, and an answered call is
\* neither unanswered nor busy.
Finish(h, outcome) ==
    /\ Placed(h)
    /\ ~Ended(h)
    /\ outcome \in Outcomes
    /\ outcome = "COMPLETED" => "IN_PROGRESS" \in trace[h]
    /\ outcome \in {"NO_ANSWER", "BUSY"} => "IN_PROGRESS" \notin trace[h]
    /\ trace' = [trace EXCEPT ![h] = @ \cup {outcome}]

\* What the reclaim sweep can learn from get_status: the final status of an
\* ended call, or nothing (still running, unknown, an error or a timeout).
get_status(h) == (trace[h] \cap TERMINAL_CALL_STATUSES) \cup {NULL}

=============================================================================

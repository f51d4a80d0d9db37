------------------------------ MODULE CallTypes ------------------------------
(***************************************************************************)
(* The vocabulary of the dialer: the statuses of calls and campaigns       *)
(* (app/state/types.py), the status lists that the SQL of the repositories *)
(* spells inline, and what the retry classifier makes of an outcome.       *)
(***************************************************************************)

\* The four statuses from which a call never moves again.
TERMINAL_CALL_STATUSES == {"COMPLETED", "FAILED", "NO_ANSWER", "BUSY"}

\* What the campaign rollup counts as unfinished work.
ACTIVE_CALL_STATUSES == {"QUEUED", "DIALING", "IN_PROGRESS", "RETRY_PENDING"}

CallStatus == ACTIVE_CALL_STATUSES \cup TERMINAL_CALL_STATUSES

\* What the concurrency gate counts.
IN_FLIGHT == {"DIALING", "IN_PROGRESS"}

\* The rows covered by the partial unique index calls_phone_in_flight_uk.
PHONE_INDEXED == {"QUEUED", "DIALING", "IN_PROGRESS"}

CampaignStatus == {"PENDING", "ACTIVE", "COMPLETED", "FAILED"}

\* A row that has not been inserted yet.
ABSENT == "ABSENT"

\* The statuses a provider reports in an event.
EventStatus == {"DIALING", "IN_PROGRESS"} \cup TERMINAL_CALL_STATUSES

\* What place_call can come back with: a handle, or one of two exceptions.
DialOutcome == {"OK", "REJECTED", "UNAVAILABLE"}

\* Whether an outcome ends the call whatever its retry budget.  The other
\* outcomes the classifier accepts (NO_ANSWER, BUSY, ProviderUnavailable) are
\* retried while the budget lasts.
classify(outcome) ==
    IF outcome \in {"COMPLETED", "FAILED", "REJECTED"} THEN "TERMINAL"
    ELSE IF outcome = "UNAVAILABLE" THEN "TRANSIENT_RETRYABLE"
    ELSE outcome

=============================================================================

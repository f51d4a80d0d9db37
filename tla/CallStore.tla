------------------------------ MODULE CallStore ------------------------------
(***************************************************************************)
(* The database tables that every part of the dialer writes, and the       *)
(* operations that are one transaction on them:                            *)
(*   - calls, campaigns and scheduler_campaign_state (schema.sql);         *)
(*   - state.transition, the compare-and-swap that all callers go through, *)
(*     with the campaign rollup it runs in the same transaction;           *)
(*   - claim_next_queued, the one write that bypasses state.transition;    *)
(*   - creating a campaign with its calls, and the passage of time as the  *)
(*     rows see it (a backoff elapses, a DIALING row grows old).           *)
(*                                                                         *)
(* A timestamp is kept as what the queries compare it with: next_attempt_at*)
(* is null, in the future or past; updated_at is recent or older than the  *)
(* reclaim grace window ("aged"); last_dispatch_at is a rank, 0 for NULL.  *)
(***************************************************************************)
EXTENDS CallTypes, Integers, FiniteSets

CONSTANTS
    Campaign,        \* campaign ids: numbers, ordered as the UUIDs are
    Call,            \* call ids
    CampaignOf,      \* the campaign each call belongs to
    PhoneOf,         \* the normalised phone number of each call
    MaxConcurrent,   \* max_concurrent of each campaign
    MaxAttempts,     \* retry_config.max_attempts of each campaign
    MaxEpoch,        \* bound: attempt_epoch grows no further than this
    NULL             \* SQL NULL / Python None

\* A campaign has at least one phone, and its phones are pairwise different
\* (CampaignCreate: phones has min_length 1 and refuses in-batch duplicates).
ASSUME CampaignAssumption ==
    /\ Campaign \subseteq Nat
    /\ IsFiniteSet(Campaign)
    /\ \A k \in Campaign : \E c \in Call : CampaignOf[c] = k
ASSUME CallAssumption ==
    /\ IsFiniteSet(Call)
    /\ CampaignOf \in [Call -> Campaign]
    /\ \A c, d \in Call :
          c # d /\ CampaignOf[c] = CampaignOf[d] => PhoneOf[c] # PhoneOf[d]
ASSUME LimitAssumption ==
    /\ MaxConcurrent \in [Campaign -> Nat \ {0}]
    /\ MaxAttempts \in [Campaign -> Nat]
    /\ MaxEpoch \in Nat
ASSUME NullAssumption ==
    /\ NULL \notin Call
    /\ NULL \notin Call \X Nat
    /\ NULL \notin CallStatus

VARIABLES
    calls,            \* the calls table
    campaigns,        \* campaigns.status, ABSENT before the insert
    last_dispatch_at, \* the round-robin cursor of each campaign
    claims            \* how many CLAIMED audit rows each call has

storeVars == <<calls, campaigns, last_dispatch_at, claims>>

Epoch == 0 .. MaxEpoch

\* The idempotency key call_id:attempt_epoch.  The provider answers one key
\* with one provider_call_id, so a handle is named by the key it answers.
Handle == Call \X Epoch

CallRow == [status            : CallStatus \cup {ABSENT},
            attempt_epoch     : Epoch,
            retries_remaining : Nat,
            next_attempt_at   : {"null", "future", "past"},
            provider_call_id  : Handle \cup {NULL},
            aged              : BOOLEAN]

StoreTypeOK ==
    /\ calls \in [Call -> CallRow]
    /\ campaigns \in [Campaign -> CampaignStatus \cup {ABSENT}]
    /\ last_dispatch_at \in [Campaign -> Nat]
    /\ claims \in [Call -> Nat]

CallsOf(k) == {c \in Call : CampaignOf[c] = k}

\* How often the sweep took call c back: every claim and every reclaim bump
\* the epoch.
Reclaims(c) == calls[c].attempt_epoch - claims[c]

\* No row is inserted yet.
StoreInit ==
    /\ calls = [c \in Call |-> [status            |-> ABSENT,
                                attempt_epoch     |-> 0,
                                retries_remaining |-> MaxAttempts[CampaignOf[c]],
                                next_attempt_at   |-> "null",
                                provider_call_id  |-> NULL,
                                aged              |-> FALSE]]
    /\ campaigns = [k \in Campaign |-> ABSENT]
    /\ last_dispatch_at = [k \in Campaign |-> 0]
    /\ claims = [c \in Call |-> 0]

-----------------------------------------------------------------------------
(* The phone index                                                         *)

\* Mutation: the index is per campaign.
IndexAllows_PerCampaign(c, s) ==
    s \in PHONE_INDEXED =>
        \A d \in CallsOf(CampaignOf[c]) \ {c} :
            PhoneOf[d] = PhoneOf[c] => calls[d].status \notin PHONE_INDEXED

\* Call c may carry status s without breaking calls_phone_in_flight_uk.
IndexAllows(c, s) ==
    s \in PHONE_INDEXED =>
        \A d \in Call \ {c} :
            PhoneOf[d] = PhoneOf[c] => calls[d].status \notin PHONE_INDEXED

-----------------------------------------------------------------------------
(* The campaign's status follows its calls                                 *)

\* Mutation: the rollup forgets the calls that wait for a retry.
maybe_transition_campaign_terminal_SkipsRetries(k, table) ==
    LET statuses == {table[c].status : c \in CallsOf(k)}
    IN  IF campaigns[k] = "ACTIVE" /\ statuses \cap (IN_FLIGHT \cup {"QUEUED"}) = {}
        THEN [campaigns EXCEPT ![k] = IF "COMPLETED" \in statuses
                                      THEN "COMPLETED" ELSE "FAILED"]
        ELSE campaigns

\* The campaigns table once campaign k has been folded, given the calls table
\* as the transaction has just left it.
maybe_transition_campaign_terminal(k, table) ==
    LET statuses == {table[c].status : c \in CallsOf(k)}
    IN  IF campaigns[k] = "ACTIVE" /\ statuses \cap ACTIVE_CALL_STATUSES = {}
        THEN [campaigns EXCEPT ![k] = IF "COMPLETED" \in statuses
                                      THEN "COMPLETED" ELSE "FAILED"]
        ELSE campaigns

\* The campaigns table once campaign k has been promoted.
maybe_promote_to_active(k) ==
    IF campaigns[k] = "PENDING" THEN [campaigns EXCEPT ![k] = "ACTIVE"]
                                ELSE campaigns

-----------------------------------------------------------------------------
(* state.transition                                                        *)

\* Mutation: the compare-and-swap does not look at the epoch.
CasMatches_StatusOnly(c, expected_status, expected_epoch) ==
    calls[c].status = expected_status

\* The WHERE clause of the UPDATE.
CasMatches(c, expected_status, expected_epoch) ==
    /\ calls[c].status = expected_status
    /\ calls[c].attempt_epoch = expected_epoch

\* Mutation: no guard in front of the UPDATE.
TerminalRegression_Unguarded(expected_status, new_status) == FALSE

\* The guard in front of the UPDATE: terminal is absorbing.
TerminalRegression(expected_status, new_status) ==
    /\ expected_status \in TERMINAL_CALL_STATUSES
    /\ new_status # expected_status

\* The transition takes effect (TransitionResult.applied).
Applies(c, expected_status, expected_epoch, new_status) ==
    /\ ~TerminalRegression(expected_status, new_status)
    /\ CasMatches(c, expected_status, expected_epoch)

\* One call of state.transition and its commit.  row is the row with its new
\* status and the caller's column updates; the UPDATE also refreshes
\* updated_at.  Without effect when the guard or the compare-and-swap
\* refuses; not enabled when the UPDATE would raise a unique violation.
transition(c, expected_status, expected_epoch, row) ==
    IF Applies(c, expected_status, expected_epoch, row.status)
    THEN /\ IndexAllows(c, row.status)
         /\ calls' = [calls EXCEPT ![c] = [row EXCEPT !.aged = FALSE]]
         /\ campaigns' = IF row.status \in TERMINAL_CALL_STATUSES
                         THEN maybe_transition_campaign_terminal(CampaignOf[c], calls')
                         ELSE campaigns
    ELSE UNCHANGED <<calls, campaigns>>

\* Mutation: a retry costs nothing.
RetryRow_Free(c, retries_remaining) ==
    [calls[c] EXCEPT !.status          = "RETRY_PENDING",
                     !.next_attempt_at = "future"]

\* The row with the backoff scheduled and one retry spent, of the budget the
\* caller read.
RetryRow(c, retries_remaining) ==
    [calls[c] EXCEPT !.status            = "RETRY_PENDING",
                     !.next_attempt_at   = "future",
                     !.retries_remaining = retries_remaining - 1]

\* Mutation: off by one at the end of the budget.
apply_retryable_outcome_OneMore(c, expected_status, expected_epoch, retries_remaining, outcome) ==
    transition(c, expected_status, expected_epoch,
               IF classify(outcome) = "TERMINAL" THEN [calls[c] EXCEPT !.status = outcome]
               ELSE IF retries_remaining >= 0    THEN RetryRow(c, retries_remaining)
               ELSE                                   [calls[c] EXCEPT !.status = "FAILED"])

\* apply_retryable_outcome: the outcome itself when it is final, otherwise a
\* retry while the budget the caller read lasts, otherwise FAILED.
apply_retryable_outcome(c, expected_status, expected_epoch, retries_remaining, outcome) ==
    transition(c, expected_status, expected_epoch,
               IF classify(outcome) = "TERMINAL" THEN [calls[c] EXCEPT !.status = outcome]
               ELSE IF retries_remaining > 0     THEN RetryRow(c, retries_remaining)
               ELSE                                   [calls[c] EXCEPT !.status = "FAILED"])

-----------------------------------------------------------------------------
(* claim_next_queued                                                       *)

\* The rows of campaign k that the claim's candidate query selects from.  All
\* calls of a campaign are inserted by one statement and share created_at, so
\* ORDER BY created_at does not choose between them.
Claimable(k) ==
    {c \in CallsOf(k) : /\ calls[c].status = "QUEUED"
                        /\ calls[c].next_attempt_at # "future"}

\* Mutations: the claim keeps the handle of the last attempt; the claim does
\* not start a new attempt.
ClaimedRow_KeepsHandle(c) ==
    [calls[c] EXCEPT !.status        = "DIALING",
                     !.attempt_epoch = @ + 1,
                     !.aged          = FALSE]

ClaimedRow_SameEpoch(c) ==
    [calls[c] EXCEPT !.status           = "DIALING",
                     !.provider_call_id = NULL,
                     !.aged             = FALSE]

\* The claimed row: the next attempt, with no handle yet.
ClaimedRow(c) ==
    [calls[c] EXCEPT !.status           = "DIALING",
                     !.attempt_epoch    = @ + 1,
                     !.provider_call_id = NULL,
                     !.aged             = FALSE]

\* update_last_dispatch_at(k, now): k's cursor becomes the latest.  Ranks are
\* kept contiguous, which changes no comparison between two of them.
update_last_dispatch_at(k) ==
    last_dispatch_at' =
        [j \in Campaign |->
            IF j = k
            THEN Cardinality({i \in Campaign \ {k} : last_dispatch_at[i] # 0}) + 1
            ELSE IF last_dispatch_at[k] # 0 /\ last_dispatch_at[j] > last_dispatch_at[k]
                 THEN last_dispatch_at[j] - 1
                 ELSE last_dispatch_at[j]]

-----------------------------------------------------------------------------
(* Inserts and the passage of time                                         *)

\* The calls table with one QUEUED row for every phone of campaign k.
create_batch(k) ==
    [c \in Call |-> IF CampaignOf[c] = k THEN [calls[c] EXCEPT !.status = "QUEUED"]
                                         ELSE calls[c]]

\* POST /campaigns: the campaign and all its calls in one transaction.  A
\* phone that is in flight elsewhere raises a unique violation, which rolls
\* the whole insert back.
create_campaign(k) ==
    /\ campaigns[k] = ABSENT
    /\ \A c \in CallsOf(k) : IndexAllows(c, "QUEUED")
    /\ campaigns' = [campaigns EXCEPT ![k] = "PENDING"]
    /\ calls' = create_batch(k)
    /\ UNCHANGED <<last_dispatch_at, claims>>

\* The clock passes a row's next_attempt_at.
BackoffElapses(c) ==
    /\ calls[c].next_attempt_at = "future"
    /\ calls' = [calls EXCEPT ![c].next_attempt_at = "past"]
    /\ UNCHANGED <<campaigns, last_dispatch_at, claims>>

\* A DIALING row's updated_at falls behind the grace window: the clock, or
\* the debug route that backdates it.
age_dialing(c) ==
    /\ calls[c].status = "DIALING"
    /\ ~calls[c].aged
    /\ calls' = [calls EXCEPT ![c].aged = TRUE]
    /\ UNCHANGED <<campaigns, last_dispatch_at, claims>>

=============================================================================

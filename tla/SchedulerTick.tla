--------------------------- MODULE SchedulerTick ---------------------------
(***************************************************************************)
(* The scheduler: one tick picks a campaign and dials at most one of its   *)
(* calls (app/scheduler/tick.py).  A tick is a sequence of statements and  *)
(* transactions with other processes' commits in between:                  *)
(*   tick      read the campaigns, keep those within business hours        *)
(*   gate      read the in-flight counts, keep those below their cap       *)
(*   pick      read which of them have a retry due, pick one               *)
(*   requeue   move a due RETRY_PENDING row back to QUEUED                 *)
(*   claim     Phase 1: claim a QUEUED row, promote its campaign           *)
(*   dial      Phase 2: place_call, with no transaction open               *)
(*   apply     Phase 3: write the result and the round-robin cursor        *)
(* Every scheduler replica runs ticks one after the other.                 *)
(***************************************************************************)
EXTENDS Provider

CONSTANTS
    Scheduler,   \* the scheduler replicas
    Windows      \* the sets of campaigns that can be within hours at a time

ASSUME WindowsAssumption == Windows \subseteq SUBSET Campaign

VARIABLE sched       \* each replica's local variables

NoCursor == [k \in Campaign |-> 0]

\* What a tick remembers between its steps: the campaigns still in the
\* running, with which of them were PENDING and all cursors as they were when
\* read; the picked campaign, the row as claimed, the dial's outcome.  Local
\* variables that are dead hold NULL, 0 or the empty set.
SchedLocal == [pc       : {"wait", "gate", "pick", "requeue", "claim", "dial", "apply"},
               capped   : SUBSET Campaign,
               pending  : SUBSET Campaign,
               cursor   : [Campaign -> Nat],
               campaign : Campaign \cup {NULL},
               call     : Call \cup {NULL},
               epoch    : Epoch,
               retries  : Nat,
               outcome  : DialOutcome \cup {NULL}]

Waiting == [pc |-> "wait", capped |-> {}, pending |-> {}, cursor |-> NoCursor,
            campaign |-> NULL, call |-> NULL, epoch |-> 0, retries |-> 0, outcome |-> NULL]

SchedTypeOK ==
    /\ sched \in [Scheduler -> SchedLocal]
    /\ \A s \in Scheduler :
          /\ sched[s].pc = "pick" => sched[s].capped # {}
          /\ sched[s].pc \notin {"wait", "gate", "pick"} => sched[s].campaign \in Campaign
          /\ sched[s].pc \in {"dial", "apply"} => sched[s].call \in Call
          /\ sched[s].pc = "apply" => sched[s].outcome \in DialOutcome

SchedInit == sched = [s \in Scheduler |-> Waiting]

Goto(s, l) == sched' = [sched EXCEPT ![s] = l]

-----------------------------------------------------------------------------
(* Steps 1 to 4: gates and pick                                            *)

\* list_eligible_for_tick.
Eligible ==
    {k \in Campaign : /\ campaigns[k] \in {"PENDING", "ACTIVE"}
                      /\ \E c \in CallsOf(k) :
                            calls[c].status \in {"QUEUED", "RETRY_PENDING"}}

InFlight(k) == {c \in CallsOf(k) : calls[c].status \in IN_FLIGHT}

in_flight_count(k) == Cardinality(InFlight(k))

\* Mutation: off by one at the concurrency gate.
BelowCap_OffByOne(k) == in_flight_count(k) <= MaxConcurrent[k]

\* The concurrency gate.
BelowCap(k) == in_flight_count(k) < MaxConcurrent[k]

\* find_retry_due_campaign_ids.
RetryDue ==
    {k \in Campaign : \E c \in CallsOf(k) : /\ calls[c].status = "RETRY_PENDING"
                                            /\ calls[c].next_attempt_at # "future"}

\* The order of _rr_sort_key: least recently dispatched first, then by id.
RRBefore(cursor, j, k) ==
    \/ cursor[j] < cursor[k]
    \/ cursor[j] = cursor[k] /\ j < k

RRFirst(cursor, S) == CHOOSE k \in S : \A j \in S \ {k} : RRBefore(cursor, k, j)

\* Retries before fresh calls, system wide; round robin within each class.
Picked(cursor, capped) ==
    RRFirst(cursor, IF capped \cap RetryDue # {} THEN capped \cap RetryDue ELSE capped)

\* Step 1 and the business-hour gate; open is the set of campaigns whose
\* window holds the current time.  With none in hours the tick is over.
tick_idle(s, open) ==
    /\ sched[s].pc = "wait"
    /\ Eligible \cap open = {}
    /\ UNCHANGED <<storeVars, trace, sched>>

tick(s, open) ==
    /\ sched[s].pc = "wait"
    /\ Eligible \cap open # {}
    /\ Goto(s, [Waiting EXCEPT !.pc      = "gate",
                               !.capped  = Eligible \cap open,
                               !.pending = {k \in Eligible \cap open : campaigns[k] = "PENDING"},
                               !.cursor  = last_dispatch_at])
    /\ UNCHANGED <<storeVars, trace>>

\* The concurrency gate; with none below its cap the tick is over.
concurrency_gate(s) ==
    LET capped == {k \in sched[s].capped : BelowCap(k)}
    IN  /\ sched[s].pc = "gate"
        /\ Goto(s, IF capped = {} THEN Waiting
                   ELSE [sched[s] EXCEPT !.pc = "pick", !.capped = capped])
        /\ UNCHANGED <<storeVars, trace>>

\* Steps 3 and 4: the pick.
pick(s) ==
    LET k == Picked(sched[s].cursor, sched[s].capped)
    IN  /\ sched[s].pc = "pick"
        /\ Goto(s, [Waiting EXCEPT !.pc       = IF k \in RetryDue THEN "requeue" ELSE "claim",
                                   !.pending  = sched[s].pending \cap {k},
                                   !.campaign = k])
        /\ UNCHANGED <<storeVars, trace>>

-----------------------------------------------------------------------------
(* Step 5: requeue, then the three phases                                  *)

\* Mutation: the comparison with the clock the wrong way round.
Requeueable_NotDue(k) ==
    {c \in CallsOf(k) : /\ calls[c].status = "RETRY_PENDING"
                        /\ calls[c].next_attempt_at = "future"}

\* The rows _requeue_oldest_retry_due selects from.
Requeueable(k) ==
    {c \in CallsOf(k) : /\ calls[c].status = "RETRY_PENDING"
                        /\ calls[c].next_attempt_at = "past"}

requeue_oldest_retry_due(s) ==
    /\ sched[s].pc = "requeue"
    /\ \/ /\ Requeueable(sched[s].campaign) = {}
          /\ UNCHANGED <<calls, campaigns>>
       \/ \E c \in Requeueable(sched[s].campaign) :
             transition(c, "RETRY_PENDING", calls[c].attempt_epoch,
                        [calls[c] EXCEPT !.status = "QUEUED"])
    /\ Goto(s, [sched[s] EXCEPT !.pc = "claim"])
    /\ UNCHANGED <<last_dispatch_at, claims, trace>>

\* The row it selects shares its phone with a row that another campaign has
\* queued or in flight: the UPDATE raises, and the tick with it.
requeue_conflict(s) ==
    /\ sched[s].pc = "requeue"
    /\ \E c \in Requeueable(sched[s].campaign) : ~IndexAllows(c, "QUEUED")
    /\ Goto(s, Waiting)
    /\ UNCHANGED <<storeVars, trace>>

\* Mutation: the claim does not promote the campaign.
claim_next_queued_NoPromotion(s, c) ==
    /\ sched[s].pc = "claim"
    /\ c \in Claimable(sched[s].campaign)
    /\ calls[c].attempt_epoch < MaxEpoch
    /\ calls' = [calls EXCEPT ![c] = ClaimedRow(c)]
    /\ claims' = [claims EXCEPT ![c] = @ + 1]
    /\ Goto(s, [sched[s] EXCEPT !.pc      = "dial",
                                !.pending = {},
                                !.call    = c,
                                !.epoch   = ClaimedRow(c).attempt_epoch,
                                !.retries = ClaimedRow(c).retries_remaining])
    /\ UNCHANGED <<campaigns, last_dispatch_at, trace>>

\* Phase 1 claims a row; the tick goes on with the row as the claim returned
\* it.  The promotion is decided on the campaign status read at the start of
\* the tick.
claim_next_queued(s, c) ==
    /\ sched[s].pc = "claim"
    /\ c \in Claimable(sched[s].campaign)
    /\ calls[c].attempt_epoch < MaxEpoch
    /\ calls' = [calls EXCEPT ![c] = ClaimedRow(c)]
    /\ claims' = [claims EXCEPT ![c] = @ + 1]
    /\ campaigns' = IF sched[s].campaign \in sched[s].pending
                    THEN maybe_promote_to_active(sched[s].campaign)
                    ELSE campaigns
    /\ Goto(s, [sched[s] EXCEPT !.pc      = "dial",
                                !.pending = {},
                                !.call    = c,
                                !.epoch   = ClaimedRow(c).attempt_epoch,
                                !.retries = ClaimedRow(c).retries_remaining])
    /\ UNCHANGED <<last_dispatch_at, trace>>

\* Phase 1 finds nothing to claim: the tick ends, the cursor stays.
claim_nothing(s) ==
    /\ sched[s].pc = "claim"
    /\ Claimable(sched[s].campaign) = {}
    /\ Goto(s, Waiting)
    /\ UNCHANGED <<storeVars, trace>>

DialedKey(s) == <<sched[s].call, sched[s].epoch>>

\* Phase 2.
dial(s, outcome) ==
    /\ sched[s].pc = "dial"
    /\ place_call(DialedKey(s), outcome)
    /\ Goto(s, [sched[s] EXCEPT !.pc = "apply", !.outcome = outcome])
    /\ UNCHANGED storeVars

\* Phase 3, in the names the code gives its snapshot.
apply_result(s) ==
    LET c     == sched[s].call
        epoch == sched[s].epoch
    IN  /\ sched[s].pc = "apply"
        /\ \/ /\ sched[s].outcome = "OK"
              /\ transition(c, "DIALING", epoch,
                            [calls[c] EXCEPT !.status           = "DIALING",
                                             !.provider_call_id = DialedKey(s)])
           \/ /\ sched[s].outcome # "OK"
              /\ apply_retryable_outcome(c, "DIALING", epoch, sched[s].retries,
                                         IF sched[s].outcome = "REJECTED"
                                         THEN "FAILED" ELSE sched[s].outcome)
        /\ update_last_dispatch_at(sched[s].campaign)
        /\ Goto(s, Waiting)
        /\ UNCHANGED <<claims, trace>>

\* The tick ends early: an exception (a database error, an unexpected error
\* of place_call) rolls the open transaction back and is swallowed by the
\* loop, or the process dies.  A tick that fails in its reads has written
\* nothing and is no different from one that has not begun.
tick_fails(s) ==
    /\ sched[s].pc \in {"requeue", "claim", "dial", "apply"}
    /\ Goto(s, Waiting)
    /\ UNCHANGED <<storeVars, trace>>

=============================================================================

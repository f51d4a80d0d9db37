------------------------------- MODULE Dialer -------------------------------
(***************************************************************************)
(* The running system: scheduler replicas, webhook processors and the      *)
(* reclaim sweep sharing one database and one telephony provider.  None of *)
(* them coordinates with another except through the rows it commits.       *)
(***************************************************************************)
EXTENDS SchedulerTick, WebhookProcessor, ReclaimSweep

vars == <<storeVars, trace, sched, inboxVars, wp, rc>>

TypeOK ==
    /\ StoreTypeOK
    /\ ProviderTypeOK
    /\ SchedTypeOK
    /\ WebhookTypeOK
    /\ ReclaimTypeOK

Init ==
    /\ StoreInit
    /\ ProviderInit
    /\ SchedInit
    /\ WebhookInit
    /\ ReclaimInit

\* The operator, the clock.
EnvNext ==
    /\ \/ \E k \in Campaign : create_campaign(k)
       \/ \E c \in Call : BackoffElapses(c)
       \/ \E c \in Call : age_dialing(c)
    /\ UNCHANGED <<trace, sched, inboxVars, wp, rc>>

\* Time passes for call c.
ClockStep(c) ==
    /\ BackoffElapses(c) \/ age_dialing(c)
    /\ UNCHANGED <<trace, sched, inboxVars, wp, rc>>

\* The calls under way at the provider.
ProviderNext ==
    /\ \/ \E h \in Handle : Answer(h)
       \/ \E h \in Handle, outcome \in Outcomes : Finish(h, outcome)
    /\ UNCHANGED <<storeVars, sched, inboxVars, wp, rc>>

\* What the tick's own code does, its exceptional ends aside.
TickStep(s) ==
    /\ \/ \E open \in Windows : tick_idle(s, open)
       \/ \E open \in Windows : tick(s, open)
       \/ concurrency_gate(s)
       \/ pick(s)
       \/ requeue_oldest_retry_due(s)
       \/ requeue_conflict(s)
       \/ \E c \in Call : claim_next_queued(s, c)
       \/ claim_nothing(s)
       \/ \E outcome \in DialOutcome : dial(s, outcome)
       \/ apply_result(s)
    /\ UNCHANGED <<inboxVars, wp, rc>>

SchedNext(s) ==
    \/ TickStep(s)
    \/ tick_fails(s) /\ UNCHANGED <<inboxVars, wp, rc>>

IngestNext ==
    /\ \E e \in Event : handle_webhook_ingest(e)
    /\ UNCHANGED <<sched, rc>>

ProcessorNext(p) ==
    /\ \/ \E e \in Event : process_ignored(p, e)
       \/ \E e \in Event : process_read(p, e)
       \/ process_apply(p)
       \/ process_fails(p)
    /\ UNCHANGED <<sched, rc>>

SweepBegins == stuck_reclaim_sweep /\ UNCHANGED <<sched, inboxVars, wp>>

\* One row's task moves on.
SweepStep(c) ==
    /\ \/ best_effort_get_status(c)
       \/ apply_terminal(c)
       \/ apply_reclaim(c)
    /\ UNCHANGED <<sched, inboxVars, wp>>

ReclaimNext ==
    \/ SweepBegins
    \/ \E c \in Call : SweepStep(c)
    \/ \E c \in Call : reclaim_fails(c) /\ UNCHANGED <<sched, inboxVars, wp>>

Next ==
    \/ EnvNext
    \/ ProviderNext
    \/ \E s \in Scheduler : SchedNext(s)
    \/ IngestNext
    \/ \E p \in Processor : ProcessorNext(p)
    \/ ReclaimNext

Spec == Init /\ [][Next]_vars

\* The clock runs; the scheduler and the sweep are loops on timers that
\* outlive every exception.  A step of theirs may fail any number of times,
\* but one that is tried again and again succeeds in the end.  Nothing is
\* assumed of the provider, of deliveries or of the webhook processors.
Fairness ==
    /\ \A c \in Call : WF_vars(ClockStep(c))
    /\ \A s \in Scheduler : WF_vars(TickStep(s))
    /\ \A s \in Scheduler, pc \in {"requeue", "claim", "dial", "apply"} :
          SF_vars(sched[s].pc = pc /\ TickStep(s))
    /\ WF_vars(SweepBegins)
    /\ \A c \in Call, pc \in {"confirm", "apply"} :
          SF_vars(rc[c].pc = pc /\ SweepStep(c))

FairSpec == Spec /\ Fairness

-----------------------------------------------------------------------------
(* What makes the dialer correct                                           *)

\* provider_call_id is "a live pointer to the current attempt": whenever a
\* row carries a handle, it is the handle of the attempt in attempt_epoch.
\* Claim and reclaim both have to clear it with the epoch they bump.
HandleCurrent ==
    \A c \in Call : calls[c].provider_call_id \in {NULL, <<c, calls[c].attempt_epoch>>}

\* An event changes a call only while the attempt it reports on is still the
\* call's current one: no retry, reclaim or redial that commits between the
\* processor's read and its update can make it land on another attempt.
StaleAttemptNeverApplied ==
    [][\A p \in Processor : process_apply(p) =>
          \A c \in Call : calls'[c] # calls[c] =>
              wp[p].event.handle = <<c, calls[c].attempt_epoch>>]_vars

\* Terminal is absorbing: no event, verdict, claim or retry changes the
\* status, the epoch or the budget of a finished call.
TerminalAbsorbing ==
    [][\A c \in Call : calls[c].status \in TERMINAL_CALL_STATUSES =>
          /\ calls'[c].status = calls[c].status
          /\ calls'[c].attempt_epoch = calls[c].attempt_epoch
          /\ calls'[c].retries_remaining = calls[c].retries_remaining]_vars

CampaignDone(k) == \A c \in CallsOf(k) : calls[c].status \in TERMINAL_CALL_STATUSES

\* The campaign rollup is exact: a campaign is folded in the very step that
\* finishes its last call, never earlier, and to COMPLETED if and only if
\* some call of it completed.
RollupExact ==
    \A k \in Campaign :
        /\ campaigns[k] \in {"COMPLETED", "FAILED"} <=> CampaignDone(k)
        /\ campaigns[k] = "COMPLETED" =>
              \E c \in CallsOf(k) : calls[c].status = "COMPLETED"
        /\ campaigns[k] = "FAILED" =>
              \A c \in CallsOf(k) : calls[c].status # "COMPLETED"

\* A call as CampaignEnd sees it.
Phase(c) ==
    LET row == calls[c]
    IN  CASE row.status = ABSENT                            -> "absent"
          [] row.status = "QUEUED" /\ row.attempt_epoch = 0 -> "fresh"
          [] row.status = "QUEUED" /\ row.attempt_epoch > 0 -> "waiting"
          [] row.status = "RETRY_PENDING"                   -> "waiting"
          [] row.status \in IN_FLIGHT                       -> "in_flight"
          [] row.status \in TERMINAL_CALL_STATUSES          -> "ended"

Phases(k) == [c \in CallsOf(k) |-> Phase(c)]

\* A campaign as CampaignEnd sees it.
Standing(k) == IF campaigns[k] \in {"COMPLETED", "FAILED"} THEN "FOLDED" ELSE campaigns[k]

Ends(k) == INSTANCE CampaignEnd
    WITH Call <- CallsOf(k), status <- Phases(k), campaign <- Standing(k)

\* Every campaign behaves as CampaignEnd says, whatever happens to the others:
\* it is activated by its first claim and by nothing else, no event and no
\* sweep moves a call that was never dialed, and the commit that ends the last
\* call folds the campaign.  (For each campaign k this is Ends(k)!Spec.)
CampaignsEnd ==
    /\ \A k \in Campaign : Ends(k)!Init
    /\ [][\A k \in Campaign : Ends(k)!Next \/ UNCHANGED <<Phases(k), Standing(k)>>]_vars

\* A call is only reported as finished with what the provider said of the
\* attempt that is current: COMPLETED, NO_ANSWER and BUSY in the table are
\* never left over from an attempt that was retried or taken back.
OutcomeIsReal ==
    \A c \in Call : calls[c].status \in TERMINAL_CALL_STATUSES \ {"FAILED"} =>
        calls[c].status \in trace[<<c, calls[c].attempt_epoch>>]

\* Every dial is made under an idempotency key the provider has never seen,
\* and no two replicas are ever dialing under one key.
FreshKey ==
    \A s \in Scheduler : sched[s].pc = "dial" =>
        /\ ~Placed(DialedKey(s))
        /\ \A r \in Scheduler \ {s} :
              sched[r].pc \in {"dial", "apply"} => DialedKey(r) # DialedKey(s)

\* The retries of its campaign that call c has spent.
Spent(c) == MaxAttempts[CampaignOf[c]] - calls[c].retries_remaining

\* A call is dialed once, and once more for every retry spent and for every
\* time the sweep took it back.
RetryBudget == \A c \in Call : claims[c] <= 1 + Spent(c) + Reclaims(c)

\* What became of an attempt counts once: it costs the call a retry or it ends the
\* call.  When the provider sends an outcome under one event id and in order,
\* neither a processor that crashes between its read and its commit nor the
\* sweep that has the outcome confirmed meanwhile makes one NO_ANSWER count
\* twice, which would end a call that has retries to come.
OutcomeCountedOnce ==
    \A c \in Call :
        Spent(c) + Cardinality({calls[c].status} \cap TERMINAL_CALL_STATUSES) <= claims[c]

\* The same number is never dialed for two calls at once: whichever of the
\* insert, the requeue of a retry, the sweep and a late event brings a row back
\* into the phone index, no claim (which takes any QUEUED row) and no event
\* puts two calls of one phone in flight.
NumberDialedOnce ==
    \A c, d \in Call :
        c # d /\ PhoneOf[c] = PhoneOf[d] =>
            ~(calls[c].status \in IN_FLIGHT /\ calls[d].status \in IN_FLIGHT)

\* No campaign has more than max_concurrent calls in flight.
CapRespected == \A k \in Campaign : in_flight_count(k) <= MaxConcurrent[k]

\* No call is left in DIALING: whatever the tick that claimed it, its
\* webhooks and the provider do, the attempt ends or is taken back.  (At the
\* bounds MaxEpoch and MaxReclaims the model cannot take an attempt back.)
DialingResolved ==
    \A c \in Call, e \in 1 .. MaxEpoch - 1 :
        (calls[c].status = "DIALING" /\ calls[c].attempt_epoch = e
                                    /\ Reclaims(c) < MaxReclaims[c])
            ~> (calls[c].status # "DIALING" \/ calls[c].attempt_epoch # e)

\* No campaign is starved: a call that waits for its first dial is dialed,
\* however often the calls of the other campaigns come back with retries, are
\* taken back by the sweep or get stuck.
CampaignServed ==
    \A c \in Call :
        (calls[c].status = "QUEUED" /\ calls[c].attempt_epoch = 0)
            ~> calls[c].attempt_epoch > 0

=============================================================================

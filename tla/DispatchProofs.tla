--------------------------- MODULE DispatchProofs ---------------------------
(***************************************************************************)
(* How often a call is dialed, under which keys, how many calls at a time, *)
(* and how a campaign goes from its first claim to its fold: proofs of     *)
(* FreshKey, RetryBudget, NumberDialedOnce, CapRespected and CampaignsEnd. *)
(***************************************************************************)
EXTENDS AttemptProofs, RollupProofs

-----------------------------------------------------------------------------
(* What a step does to one call                                            *)

AttemptKept(c) ==
    /\ calls'[c].attempt_epoch = calls[c].attempt_epoch
    /\ calls'[c].provider_call_id = calls[c].provider_call_id

BudgetKept(c) == calls'[c].retries_remaining = calls[c].retries_remaining

StatusKept(c) == calls'[c].status = calls[c].status

\* The next attempt begins, without a handle.
AttemptStarts(c) ==
    /\ calls'[c].attempt_epoch = calls[c].attempt_epoch + 1
    /\ calls'[c].provider_call_id = NULL
    /\ BudgetKept(c)

\* A dial's handle is stored by the tick that made the dial.
HandleStored(c) ==
    /\ calls[c].status = "DIALING" /\ StatusKept(c) /\ BudgetKept(c)
    /\ calls'[c].attempt_epoch = calls[c].attempt_epoch
    /\ \E s \in Scheduler :
          /\ sched[s].pc = "apply" /\ sched[s].call = c
          /\ sched[s].epoch = calls[c].attempt_epoch
          /\ calls'[c].provider_call_id = DialedKey(s)
          /\ sched'[s].pc = "wait"

\* An attempt ends in a retry, paid from the budget that a tick or a
\* processor read in this very attempt.
Retried(c) ==
    /\ calls[c].status \notin TERMINAL_CALL_STATUSES
    /\ calls'[c].status = "RETRY_PENDING" /\ AttemptKept(c)
    /\ \/ \E s \in Scheduler :
             /\ sched[s].pc = "apply" /\ sched[s].call = c /\ calls[c].status = "DIALING"
             /\ sched[s].epoch = calls[c].attempt_epoch
             /\ calls'[c].retries_remaining = sched[s].retries - 1
       \/ \E p \in Processor :
             /\ wp[p].pc = "apply" /\ wp[p].event.handle[1] = c
             /\ wp[p].event.status \in TERMINAL_CALL_STATUSES
             /\ wp[p].epoch = calls[c].attempt_epoch
             /\ calls'[c].retries_remaining = wp[p].retries - 1

\* An event takes the call to a status of progress.
Progressed(c) ==
    /\ calls[c].status \notin TERMINAL_CALL_STATUSES
    /\ calls'[c].status \in IN_FLIGHT /\ AttemptKept(c) /\ BudgetKept(c)
    /\ \E p \in Processor :
          /\ wp[p].pc = "apply" /\ wp[p].event.handle[1] = c
          /\ wp[p].epoch = calls[c].attempt_epoch
          /\ wp[p].event.status = calls'[c].status

\* Whatever a step is, this is what becomes of each call.
CallStep(c) ==
    \/ StatusKept(c) /\ AttemptKept(c) /\ BudgetKept(c)
    \/ /\ calls[c].status = ABSENT /\ calls'[c].status = "QUEUED"
       /\ AttemptKept(c) /\ BudgetKept(c)
    \/ /\ calls[c].status = "RETRY_PENDING" /\ calls'[c].status = "QUEUED"
       /\ AttemptKept(c) /\ BudgetKept(c)
    \/ /\ calls[c].status = "DIALING" /\ calls'[c].status = "QUEUED"
       /\ AttemptStarts(c)
    \/ /\ calls[c].status \notin TERMINAL_CALL_STATUSES \cup {ABSENT}
       /\ calls'[c].status \in TERMINAL_CALL_STATUSES
       /\ AttemptKept(c) /\ BudgetKept(c)
       /\ \/ calls[c].status = "DIALING"
          \/ \E p \in Processor :
                /\ wp[p].pc = "apply" /\ wp[p].event.handle[1] = c
                /\ wp[p].epoch = calls[c].attempt_epoch
    \/ HandleStored(c)
    \/ Retried(c)
    \/ Progressed(c)

\* The claim of a call.
Claimed(c) ==
    /\ calls[c].status = "QUEUED" /\ calls'[c].status = "DIALING"
    /\ AttemptStarts(c)
    /\ \E s \in Scheduler : claim_next_queued(s, c)

\* A call of state.transition seen from the call it writes.
LEMMA TransitionStep ==
    ASSUME TypeOK, LocalRollup, StoreRollup, NEW c \in Call, NEW row \in CallRow,
           \/ Requeued(c, row) \/ Swept(c, row)
           \/ \E s \in Scheduler : ResultStored(s, c, row)
           \/ \E p \in Processor : EventApplied(p, c, row)
    PROVE  CallStep(c) /\ \A d \in Call \ {c} : calls'[d] = calls[d]
<1>0. StoreTypeOK /\ calls[c] \in CallRow
  BY DEF TypeOK, StoreTypeOK
<1> DEFINE Written(es, ee) ==
              /\ calls[c].status = es /\ calls[c].attempt_epoch = ee
              /\ es \in TERMINAL_CALL_STATUSES => row.status = es
              /\ calls'[c].status = row.status
              /\ calls'[c].attempt_epoch = row.attempt_epoch
              /\ calls'[c].provider_call_id = row.provider_call_id
              /\ calls'[c].retries_remaining = row.retries_remaining
              /\ \A d \in Call \ {c} : calls'[d] = calls[d]
<1>1. ASSUME NEW es, NEW ee, transition(c, es, ee, row)
      PROVE  UNCHANGED calls \/ Written(es, ee)
  BY <1>0, <1>1, TransitionFields
<1>2. CASE UNCHANGED calls
  BY <1>2 DEF CallStep, StatusKept, AttemptKept, BudgetKept
<1>3. CASE Requeued(c, row)
  <2>1. UNCHANGED calls \/ Written("RETRY_PENDING", calls[c].attempt_epoch)
    BY <1>1, <1>3 DEF Requeued
  <2> QED
    BY <1>2, <1>3, <2>1 DEF Requeued, KeepsAttempt, KeepsBudget, CallStep, AttemptKept, BudgetKept
<1>4. CASE Swept(c, row)
  <2>1. UNCHANGED calls \/ Written("DIALING", rc[c].epoch)
    BY <1>1, <1>4 DEF Swept
  <2>2. "DIALING" \notin TERMINAL_CALL_STATUSES \cup {ABSENT}
    BY DEF TERMINAL_CALL_STATUSES, ABSENT
  <2> QED
    BY <1>2, <1>4, <2>1, <2>2
    DEF Swept, KeepsAttempt, KeepsBudget, CallStep, AttemptKept, BudgetKept, AttemptStarts
<1>5. ASSUME NEW s \in Scheduler, ResultStored(s, c, row)
      PROVE  CallStep(c) /\ \A d \in Call \ {c} : calls'[d] = calls[d]
  <2>1. UNCHANGED calls \/ Written("DIALING", sched[s].epoch)
    BY <1>1, <1>5 DEF ResultStored
  <2>2. "DIALING" \notin TERMINAL_CALL_STATUSES \cup {ABSENT}
    BY DEF TERMINAL_CALL_STATUSES, ABSENT
  <2>3. CASE Written("DIALING", sched[s].epoch) /\ row.status = "DIALING"
    <3>1. sched'[s].pc = "wait"
      BY <1>5 DEF ResultStored, Goto, Waiting, TypeOK, SchedTypeOK
    <3>2. HandleStored(c)
      BY <1>5, <2>3, <3>1 DEF ResultStored, OutcomeRow, TERMINAL_CALL_STATUSES, KeepsBudget,
                              HandleStored, StatusKept, BudgetKept
    <3> QED
      BY <2>3, <3>2 DEF CallStep
  <2>4. CASE Written("DIALING", sched[s].epoch) /\ row.status \in TERMINAL_CALL_STATUSES
    BY <1>5, <2>2, <2>4 DEF ResultStored, OutcomeRow, TERMINAL_CALL_STATUSES, KeepsBudget,
                           KeepsAttempt, CallStep, AttemptKept, BudgetKept
  <2>5. CASE Written("DIALING", sched[s].epoch) /\ row.status = "RETRY_PENDING"
    <3>1. Retried(c)
      BY <1>5, <2>2, <2>5 DEF ResultStored, OutcomeRow, TERMINAL_CALL_STATUSES, KeepsAttempt,
                             Retried, AttemptKept
    <3> QED
      BY <2>5, <3>1 DEF CallStep
  <2> QED
    BY <1>2, <1>5, <2>1, <2>3, <2>4, <2>5 DEF ResultStored, OutcomeRow
<1>6. ASSUME NEW p \in Processor, EventApplied(p, c, row)
      PROVE  CallStep(c) /\ \A d \in Call \ {c} : calls'[d] = calls[d]
  <2>1. UNCHANGED calls \/ Written(wp[p].status, wp[p].epoch)
    BY <1>1, <1>6 DEF EventApplied
  <2>2. calls[c].status # ABSENT /\ wp[p].pc = "apply" /\ wp[p].event.handle[1] = c
    BY <1>6 DEF EventApplied, LocalRollup, StoreRollup
  <2>3. ASSUME Written(wp[p].status, wp[p].epoch), row.status \notin TERMINAL_CALL_STATUSES
        PROVE  calls[c].status \notin TERMINAL_CALL_STATUSES
    BY <2>3
  <2>4. CASE Written(wp[p].status, wp[p].epoch) /\ row.status \in TERMINAL_CALL_STATUSES
    <3>1. AttemptKept(c) /\ BudgetKept(c)
      BY <1>6, <2>4 DEF EventApplied, OutcomeRow, TERMINAL_CALL_STATUSES, IN_FLIGHT, KeepsAttempt,
                        KeepsBudget, AttemptKept, BudgetKept
    <3> QED
      BY <2>2, <2>4, <3>1 DEF CallStep, StatusKept
  <2>5. CASE Written(wp[p].status, wp[p].epoch) /\ row.status = "RETRY_PENDING"
    <3>1. row.status \notin TERMINAL_CALL_STATUSES \cup IN_FLIGHT
      BY <2>5 DEF TERMINAL_CALL_STATUSES, IN_FLIGHT
    <3>2. Retried(c)
      BY <1>6, <2>2, <2>3, <2>5, <3>1 DEF EventApplied, OutcomeRow, KeepsAttempt, Retried, AttemptKept
    <3> QED
      BY <2>5, <3>2 DEF CallStep
  <2>6. CASE Written(wp[p].status, wp[p].epoch) /\ row.status \in IN_FLIGHT
    <3>1. row.status \notin TERMINAL_CALL_STATUSES \cup {"RETRY_PENDING"}
      BY <2>6 DEF TERMINAL_CALL_STATUSES, IN_FLIGHT
    <3>2. Progressed(c)
      BY <1>6, <2>2, <2>3, <2>6, <3>1
      DEF EventApplied, OutcomeRow, KeepsAttempt, KeepsBudget, Progressed, AttemptKept, BudgetKept
    <3> QED
      BY <2>6, <3>2 DEF CallStep
  <2> QED
    BY <1>2, <1>6, <2>1, <2>4, <2>5, <2>6 DEF EventApplied, OutcomeRow
<1> QED
  BY <1>3, <1>4, <1>5, <1>6

\* Every step of the system does one of these things to each call.
LEMMA CallSteps ==
    ASSUME TypeOK, RollupInv, Next, NEW c \in Call
    PROVE  \/ CallStep(c) /\ claims'[c] = claims[c]
           \/ Claimed(c) /\ claims'[c] = claims[c] + 1
<1>0. StoreTypeOK /\ StoreRollup /\ LocalRollup
  BY DEF TypeOK, RollupInv
<1>1. CASE UNCHANGED <<calls, claims>>
  BY <1>1 DEF CallStep, StatusKept, AttemptKept, BudgetKept
<1>2. ASSUME NEW k \in Campaign, create_campaign(k) PROVE CallStep(c) /\ UNCHANGED claims
  <2>1. CASE CampaignOf[c] = k
    <3>1. calls[c].status = ABSENT
      BY <1>0, <1>2, <2>1 DEF create_campaign, create_batch, StoreRollup
    <3> QED
      BY <1>0, <1>2, <2>1, <3>1
      DEF create_campaign, create_batch, StoreTypeOK, CallRow, CallStep, AttemptKept, BudgetKept
  <2>2. CASE CampaignOf[c] # k
    BY <1>2, <2>2 DEF create_campaign, create_batch, CallStep, StatusKept, AttemptKept, BudgetKept
  <2> QED
    BY <2>1, <2>2
<1>3. ASSUME NEW d \in Call, BackoffElapses(d) \/ age_dialing(d) PROVE CallStep(c) /\ UNCHANGED claims
  <2>1. calls[c] \in CallRow /\ calls \in [Call -> CallRow]
    BY <1>0 DEF StoreTypeOK
  <2>2. \/ calls'[c] = [calls[c] EXCEPT !.next_attempt_at = "past"]
        \/ calls'[c] = [calls[c] EXCEPT !.aged = TRUE]
        \/ calls'[c] = calls[c]
    BY <1>3, <2>1 DEF BackoffElapses, age_dialing
  <2>3. StatusKept(c) /\ AttemptKept(c) /\ BudgetKept(c)
    BY <2>1, <2>2 DEF CallRow, StatusKept, AttemptKept, BudgetKept
  <2> QED
    BY <1>3, <2>3 DEF BackoffElapses, age_dialing, CallStep
<1>4. ASSUME NEW s \in Scheduler, NEW d \in Call, claim_next_queued(s, d)
      PROVE  \/ CallStep(c) /\ claims'[c] = claims[c]
             \/ Claimed(c) /\ claims'[c] = claims[c] + 1
  <2>1. calls' = [calls EXCEPT ![d] = ClaimedRow(d)] /\ claims' = [claims EXCEPT ![d] = @ + 1]
    BY <1>4 DEF claim_next_queued
  <2>2. CASE c = d
    <3>1. calls'[c] = ClaimedRow(c) /\ claims'[c] = claims[c] + 1
      BY <1>0, <2>1, <2>2 DEF StoreTypeOK
    <3>2. calls[c].status = "QUEUED"
      BY <1>4, <2>2 DEF claim_next_queued, Claimable
    <3>3. calls'[c].status = "DIALING" /\ AttemptStarts(c)
      BY <1>0, <3>1 DEF ClaimedRow, StoreTypeOK, CallRow, AttemptStarts, BudgetKept
    <3> QED
      BY <1>4, <2>2, <3>1, <3>2, <3>3 DEF Claimed
  <2>3. CASE c # d
    BY <1>0, <2>1, <2>3 DEF StoreTypeOK, CallStep, StatusKept, AttemptKept, BudgetKept
  <2> QED
    BY <2>2, <2>3
<1>5. ASSUME Transitioned, UNCHANGED claims PROVE CallStep(c) /\ claims'[c] = claims[c]
  <2>1. PICK d \in Call, row \in CallRow :
            \/ Requeued(d, row) \/ Swept(d, row)
            \/ \E s \in Scheduler : ResultStored(s, d, row)
            \/ \E p \in Processor : EventApplied(p, d, row)
    BY <1>5 DEF Transitioned
  <2>2. CallStep(d) /\ \A x \in Call \ {d} : calls'[x] = calls[x]
    BY <1>0, <2>1, TransitionStep
  <2>3. CASE c # d
    BY <1>5, <2>2, <2>3 DEF CallStep, StatusKept, AttemptKept, BudgetKept
  <2> QED
    BY <1>5, <2>2, <2>3
<1> QED
  BY <1>1, <1>2, <1>3, <1>4, <1>5, StoreSteps

\* Attempts are numbered upwards.
LEMMA EpochGrows ==
    ASSUME TypeOK, RollupInv, Next, NEW c \in Call
    PROVE  /\ calls[c].attempt_epoch \in Nat /\ calls'[c].attempt_epoch \in Nat
           /\ calls[c].attempt_epoch <= calls'[c].attempt_epoch
<1>1. calls[c].attempt_epoch \in Nat /\ calls'[c].attempt_epoch \in Nat
  BY NextType, LimitAssumption DEF TypeOK, StoreTypeOK, CallRow, Epoch
<1>2. CallStep(c) \/ Claimed(c)
  BY CallSteps
<1> QED
  BY <1>1, <1>2 DEF CallStep, Claimed, AttemptKept, AttemptStarts, HandleStored, Retried, Progressed

-----------------------------------------------------------------------------
(* What a tick, a processor and the provider hold                          *)

\* A tick that has a call got it from its claim, and keeps it.
LEMMA TickHolds ==
    ASSUME TypeOK, Next, NEW s \in Scheduler, sched'[s].pc \in {"dial", "apply"}
    PROVE  \/ /\ sched[s].pc \in {"dial", "apply"}
              /\ sched'[s].pc = "dial" => sched[s].pc = "dial"
              /\ sched'[s].call = sched[s].call /\ sched'[s].epoch = sched[s].epoch
              /\ sched'[s].retries = sched[s].retries
           \/ \E c \in Call :
                 /\ claim_next_queued(s, c)
                 /\ sched'[s].pc = "dial" /\ sched'[s].call = c
                 /\ sched'[s].epoch = calls[c].attempt_epoch + 1
                 /\ sched'[s].retries = calls[c].retries_remaining
<1>0. sched \in [Scheduler -> SchedLocal] /\ StoreTypeOK
  BY DEF TypeOK, SchedTypeOK
<1>1. CASE sched'[s] = sched[s]
  BY <1>1
<1>2. ASSUME NEW r \in Scheduler, r # s, NEW l, sched' = [sched EXCEPT ![r] = l]
      PROVE  sched'[s] = sched[s]
  BY <1>0, <1>2
<1>3. ASSUME NEW r \in Scheduler, SchedNext(r), r # s PROVE sched'[s] = sched[s]
  BY <1>0, <1>2, <1>3
  DEF SchedNext, TickStep, tick_idle, tick, concurrency_gate, pick, requeue_oldest_retry_due,
      requeue_conflict, claim_next_queued, claim_nothing, dial, apply_result, tick_fails, Goto
<1>4. ASSUME NEW l, sched' = [sched EXCEPT ![s] = l], l.pc \notin {"dial", "apply"}
      PROVE  FALSE
  BY <1>0, <1>4
<1>5. CASE Goto(s, Waiting)
  <2>1. Waiting.pc = "wait"
    BY DEF Waiting
  <2> QED
    BY <1>4, <1>5, <2>1 DEF Goto
<1>6. ASSUME NEW open, tick(s, open) PROVE FALSE
  <2> DEFINE l == [Waiting EXCEPT !.pc      = "gate",
                                  !.capped  = Eligible \cap open,
                                  !.pending = {k \in Eligible \cap open : campaigns[k] = "PENDING"},
                                  !.cursor  = last_dispatch_at]
  <2>1. sched' = [sched EXCEPT ![s] = l] /\ l.pc = "gate"
    BY <1>6 DEF tick, Goto, Waiting
  <2> HIDE DEF l
  <2> QED
    BY <1>4, <2>1
<1>7. CASE concurrency_gate(s)
  <2>1. PICK capped : sched' = [sched EXCEPT ![s] = IF capped = {} THEN Waiting
                                  ELSE [sched[s] EXCEPT !.pc = "pick", !.capped = capped]]
    BY <1>7 DEF concurrency_gate, Goto
  <2>2. sched'[s].pc \in {"wait", "pick"}
    BY <1>0, <2>1 DEF Waiting, SchedLocal
  <2> QED
    BY <2>2
<1>8. CASE pick(s)
  <2> DEFINE k == Picked(sched[s].cursor, sched[s].capped)
             pc == IF k \in RetryDue THEN "requeue" ELSE "claim"
  <2>1. sched' = [sched EXCEPT ![s] = [Waiting EXCEPT
                      !.pc = pc, !.pending = sched[s].pending \cap {k}, !.campaign = k]]
    BY <1>8 DEF pick, Goto
  <2>2. pc \in {"requeue", "claim"}
    OBVIOUS
  <2> HIDE DEF k, pc
  <2>3. sched'[s].pc = pc
    BY <1>0, <2>1 DEF Waiting
  <2> QED
    BY <2>2, <2>3
<1>9. CASE requeue_oldest_retry_due(s)
  BY <1>0, <1>9 DEF requeue_oldest_retry_due, Goto, SchedLocal
<1>10. ASSUME NEW outcome \in DialOutcome, dial(s, outcome)
       PROVE  /\ sched[s].pc = "dial" /\ sched'[s].pc = "apply"
              /\ sched'[s].call = sched[s].call /\ sched'[s].epoch = sched[s].epoch
              /\ sched'[s].retries = sched[s].retries
  BY <1>0, <1>10 DEF dial, Goto, SchedLocal
<1>11. ASSUME NEW c \in Call, claim_next_queued(s, c)
       PROVE  /\ sched'[s].pc = "dial" /\ sched'[s].call = c
              /\ sched'[s].epoch = calls[c].attempt_epoch + 1
              /\ sched'[s].retries = calls[c].retries_remaining
  <2>1. /\ ClaimedRow(c).attempt_epoch = calls[c].attempt_epoch + 1
        /\ ClaimedRow(c).retries_remaining = calls[c].retries_remaining
    BY <1>0 DEF ClaimedRow, StoreTypeOK, CallRow
  <2> QED
    BY <1>0, <1>11, <2>1 DEF claim_next_queued, Goto, SchedLocal
<1>12. CASE SchedNext(s)
  BY <1>1, <1>5, <1>6, <1>7, <1>8, <1>9, <1>10, <1>11, <1>12
  DEF SchedNext, TickStep, tick_idle, requeue_conflict, claim_nothing, apply_result, tick_fails
<1>13. CASE EnvNext \/ ProviderNext \/ IngestNext \/ ReclaimNext
            \/ \E p \in Processor : ProcessorNext(p)
  BY <1>1, <1>13
  DEF EnvNext, ProviderNext, IngestNext, ReclaimNext, SweepBegins, SweepStep, ProcessorNext
<1> QED
  BY <1>1, <1>3, <1>12, <1>13 DEF Next

\* A processor that has an event read the call as it is, and keeps what it
\* read.
LEMMA ProcessorHolds ==
    ASSUME TypeOK, Next, NEW p \in Processor, wp'[p].pc = "apply"
    PROVE  \/ wp'[p] = wp[p]
           \/ \E e \in Event :
                 /\ claim_unprocessed_one(p, e) /\ Known(e)
                 /\ wp'[p].event = e
                 /\ wp'[p].epoch = calls[e.handle[1]].attempt_epoch
                 /\ wp'[p].retries = calls[e.handle[1]].retries_remaining
                 /\ \A q \in Processor \ {p} : wp'[q] = wp[q]
                 /\ UNCHANGED <<storeVars, trace, processed>>
<1>0. wp \in [Processor -> WpLocal]
  BY DEF TypeOK, WebhookTypeOK
<1>1. ASSUME NEW q \in Processor, ProcessorNext(q)
      PROVE  wp'[p] = wp[p] \/ \E e \in Event : process_read(p, e)
  BY <1>0, <1>1 DEF ProcessorNext, process_ignored, process_read, process_apply, process_fails, WpIdle
<1>2. ASSUME NEW e \in Event, process_read(p, e)
      PROVE  /\ claim_unprocessed_one(p, e) /\ Known(e)
             /\ wp'[p].event = e
             /\ wp'[p].epoch = calls[e.handle[1]].attempt_epoch
             /\ wp'[p].retries = calls[e.handle[1]].retries_remaining
             /\ \A q \in Processor \ {p} : wp'[q] = wp[q]
             /\ UNCHANGED <<storeVars, trace, processed>>
  BY <1>0, <1>2 DEF process_read, inboxVars
<1>3. CASE EnvNext \/ ProviderNext \/ IngestNext \/ ReclaimNext \/ \E s \in Scheduler : SchedNext(s)
  BY <1>3
  DEF EnvNext, ProviderNext, IngestNext, handle_webhook_ingest, insert, ReclaimNext, SweepBegins,
      SweepStep, SchedNext, TickStep
<1> QED
  BY <1>1, <1>2, <1>3 DEF Next

\* The provider's record of a call is opened by the dial under its key, and
\* goes on until the call has ended.
LEMMA TraceSteps ==
    ASSUME TypeOK, Next, NEW h \in Handle
    PROVE  \/ trace'[h] = trace[h]
           \/ /\ Placed(h) /\ ~Ended(h)
              /\ trace[h] \subseteq trace'[h]
           \/ /\ \E s \in Scheduler : sched[s].pc = "dial" /\ sched'[s].pc = "apply" /\ DialedKey(s) = h
              /\ trace'[h] = trace[h] \cup {"DIALING"}
<1>0. trace \in [Handle -> SUBSET EventStatus] /\ sched \in [Scheduler -> SchedLocal]
  BY DEF TypeOK, ProviderTypeOK, SchedTypeOK
<1>1. CASE UNCHANGED trace
  BY <1>1
<1>2. ASSUME NEW g \in Handle, Answer(g)
      PROVE  trace'[h] = trace[h] \/ (Placed(h) /\ ~Ended(h) /\ trace[h] \subseteq trace'[h])
  BY <1>0, <1>2 DEF Answer
<1>3. ASSUME NEW g \in Handle, NEW outcome \in Outcomes, Finish(g, outcome)
      PROVE  trace'[h] = trace[h] \/ (Placed(h) /\ ~Ended(h) /\ trace[h] \subseteq trace'[h])
  BY <1>0, <1>3 DEF Finish
<1>4. ASSUME NEW s \in Scheduler, NEW outcome \in DialOutcome, dial(s, outcome)
      PROVE  \/ trace'[h] = trace[h]
             \/ /\ sched[s].pc = "dial" /\ sched'[s].pc = "apply" /\ DialedKey(s) = h
                /\ trace'[h] = trace[h] \cup {"DIALING"}
  <2>1. sched[s].pc = "dial" /\ sched'[s].pc = "apply"
    BY <1>0, <1>4 DEF dial, Goto, SchedLocal
  <2>2. UNCHANGED trace \/ Accept(DialedKey(s))
    BY <1>4 DEF dial, place_call
  <2> QED
    BY <1>0, <2>1, <2>2 DEF Accept
<1>5. ASSUME NEW s \in Scheduler, SchedNext(s)
      PROVE  UNCHANGED trace \/ \E outcome \in DialOutcome : dial(s, outcome)
  BY <1>5
  DEF SchedNext, TickStep, tick_idle, tick, concurrency_gate, pick, requeue_oldest_retry_due,
      requeue_conflict, claim_next_queued, claim_nothing, apply_result, tick_fails
<1>6. CASE EnvNext \/ IngestNext \/ ReclaimNext \/ \E p \in Processor : ProcessorNext(p)
  BY <1>1, <1>6
  DEF EnvNext, IngestNext, handle_webhook_ingest, ReclaimNext, SweepBegins, SweepStep,
      stuck_reclaim_sweep, best_effort_get_status, apply_terminal, apply_reclaim, reclaim_fails,
      ProcessorNext, process_ignored, process_read, process_apply, process_fails
<1> QED
  BY <1>1, <1>2, <1>3, <1>4, <1>5, <1>6 DEF Next, ProviderNext

-----------------------------------------------------------------------------
(* Fresh keys                                                              *)

\* No key of an attempt that is yet to come has been dialed, by the provider's
\* record or by a tick on its way to it.
KeyInv ==
    /\ \A h \in Handle : Placed(h) => h[2] <= calls[h[1]].attempt_epoch
    /\ \A s \in Scheduler : sched[s].pc \in {"dial", "apply"} =>
          sched[s].epoch <= calls[sched[s].call].attempt_epoch
    /\ FreshKey

LEMMA InitKey == Init => KeyInv
BY DEF Init, ProviderInit, SchedInit, Waiting, KeyInv, FreshKey, Placed

LEMMA NextKey == TypeOK /\ RollupInv /\ KeyInv /\ [Next]_vars => KeyInv'
<1> SUFFICES ASSUME TypeOK, RollupInv, KeyInv, [Next]_vars PROVE KeyInv'
  OBVIOUS
<1>1. CASE UNCHANGED vars
  BY <1>1 DEF vars, storeVars, KeyInv, FreshKey, Placed, DialedKey
<1>2. CASE Next
  <2>0. sched \in [Scheduler -> SchedLocal] /\ trace \in [Handle -> SUBSET EventStatus] /\ TypeOK'
    BY <1>2, NextType DEF TypeOK, SchedTypeOK, ProviderTypeOK
  <2>1. ASSUME NEW c \in Call
        PROVE  /\ calls[c].attempt_epoch \in Nat /\ calls'[c].attempt_epoch \in Nat
               /\ calls[c].attempt_epoch <= calls'[c].attempt_epoch
    BY <1>2, EpochGrows
  <2>2. \A s \in Scheduler : sched[s].pc \in {"dial", "apply"} =>
           sched[s].call \in Call /\ sched[s].epoch \in Nat /\ DialedKey(s) \in Handle
    BY LimitAssumption DEF TypeOK, SchedTypeOK, SchedLocal, Epoch, DialedKey, Handle
  <2>3. ASSUME NEW s \in Scheduler, NEW c \in Call, claim_next_queued(s, c)
        PROVE  /\ UNCHANGED trace
               /\ \A r \in Scheduler \ {s} : sched'[r] = sched[r]
               /\ calls'[c].attempt_epoch = calls[c].attempt_epoch + 1
    <3>1. calls' = [calls EXCEPT ![c] = ClaimedRow(c)] /\ UNCHANGED trace
          /\ \A r \in Scheduler \ {s} : sched'[r] = sched[r]
      BY <2>0, <2>3 DEF claim_next_queued, Goto
    <3> QED
      BY <3>1 DEF ClaimedRow, TypeOK, StoreTypeOK, CallRow
  <2>4. ASSUME NEW h \in Handle, Placed(h)' PROVE h[2] <= calls'[h[1]].attempt_epoch
    <3>1. h[1] \in Call /\ h[2] \in Nat /\ h = <<h[1], h[2]>>
      BY LimitAssumption DEF Handle, Epoch
    <3>2. h[2] <= calls[h[1]].attempt_epoch
      <4>1. CASE Placed(h)
        BY <4>1 DEF KeyInv
      <4>2. CASE ~Placed(h)
        <5>1. PICK s \in Scheduler : sched[s].pc = "dial" /\ DialedKey(s) = h
          BY <1>2, <2>4, <4>2, TraceSteps DEF Placed
        <5>2. sched[s].call = h[1] /\ sched[s].epoch = h[2]
          BY <5>1 DEF DialedKey
        <5> QED
          BY <5>1, <5>2 DEF KeyInv
      <4> QED
        BY <4>1, <4>2
    <3> QED
      BY <2>1, <3>1, <3>2
  <2>5. ASSUME NEW s \in Scheduler, sched'[s].pc \in {"dial", "apply"}
        PROVE  sched'[s].epoch <= calls'[sched'[s].call].attempt_epoch
    <3>1. CASE /\ sched[s].pc \in {"dial", "apply"}
               /\ sched'[s].call = sched[s].call /\ sched'[s].epoch = sched[s].epoch
      BY <2>1, <2>2, <3>1 DEF KeyInv
    <3>2. ASSUME NEW c \in Call, claim_next_queued(s, c), sched'[s].call = c,
                 sched'[s].epoch = calls[c].attempt_epoch + 1
          PROVE  sched'[s].epoch <= calls'[sched'[s].call].attempt_epoch
      BY <2>1, <2>3, <3>2
    <3> QED
      BY <1>2, <2>5, <3>1, <3>2, TickHolds
  <2>6. ASSUME NEW s \in Scheduler, sched'[s].pc = "dial"
        PROVE  /\ ~Placed(DialedKey(s))'
               /\ \A r \in Scheduler \ {s} :
                     sched'[r].pc \in {"dial", "apply"} => DialedKey(r)' # DialedKey(s)'
    <3>1. ASSUME sched[s].pc = "dial", DialedKey(s)' = DialedKey(s)
          PROVE  /\ ~Placed(DialedKey(s))'
                 /\ \A r \in Scheduler \ {s} :
                       sched'[r].pc \in {"dial", "apply"} => DialedKey(r)' # DialedKey(s)'
      <4>1. ~Placed(DialedKey(s)) /\ DialedKey(s) \in Handle
        BY <2>2, <3>1 DEF KeyInv, FreshKey
      <4>2. ASSUME NEW r \in Scheduler, sched[r].pc = "dial", sched'[r].pc = "apply"
            PROVE  DialedKey(r) # DialedKey(s)
        BY <2>6, <3>1, <4>2 DEF KeyInv, FreshKey
      <4>3. trace'[DialedKey(s)] = trace[DialedKey(s)]
        BY <1>2, <4>1, <4>2, TraceSteps
      <4>4. ASSUME NEW r \in Scheduler \ {s}, sched'[r].pc \in {"dial", "apply"}
            PROVE  DialedKey(r)' # DialedKey(s)
        <5>1. CASE /\ sched[r].pc \in {"dial", "apply"}
                   /\ sched'[r].call = sched[r].call /\ sched'[r].epoch = sched[r].epoch
          BY <3>1, <5>1 DEF KeyInv, FreshKey, DialedKey
        <5>2. ASSUME NEW c \in Call, sched'[r].call = c,
                     sched'[r].epoch = calls[c].attempt_epoch + 1
              PROVE  DialedKey(r)' # DialedKey(s)
          <6>1. sched[s].call = c => sched[s].epoch # calls[c].attempt_epoch + 1
            BY <2>1, <2>2, <3>1 DEF KeyInv
          <6> QED
            BY <5>2, <6>1 DEF DialedKey
        <5> QED
          BY <1>2, <4>4, <5>1, <5>2, TickHolds
      <4> QED
        BY <3>1, <4>1, <4>3, <4>4 DEF Placed
    <3>2. ASSUME NEW c \in Call, claim_next_queued(s, c), sched'[s].call = c,
                 sched'[s].epoch = calls[c].attempt_epoch + 1
          PROVE  /\ ~Placed(DialedKey(s))'
                 /\ \A r \in Scheduler \ {s} :
                       sched'[r].pc \in {"dial", "apply"} => DialedKey(r)' # DialedKey(s)'
      <4>1. DialedKey(s)' = <<c, calls[c].attempt_epoch + 1>>
        BY <3>2 DEF DialedKey
      <4>2. DialedKey(s)' \in Handle
        BY <2>0, <2>6 DEF TypeOK, SchedTypeOK, SchedLocal, DialedKey, Handle
      <4>3. ~Placed(<<c, calls[c].attempt_epoch + 1>>)
        <5>1. <<c, calls[c].attempt_epoch + 1>> \in Handle
          BY <4>1, <4>2
        <5>2. ~(calls[c].attempt_epoch + 1 <= calls[c].attempt_epoch)
          BY <2>1
        <5> QED
          BY <5>1, <5>2 DEF KeyInv
      <4>4. ASSUME NEW r \in Scheduler \ {s}, sched'[r].pc \in {"dial", "apply"}
            PROVE  DialedKey(r)' # DialedKey(s)'
        <5>1. sched'[r] = sched[r]
          BY <2>3, <3>2
        <5>2. sched[r].call = c => sched[r].epoch # calls[c].attempt_epoch + 1
          BY <2>1, <2>2, <4>4, <5>1 DEF KeyInv
        <5> QED
          BY <4>1, <5>1, <5>2 DEF DialedKey
      <4> QED
        BY <2>3, <3>2, <4>1, <4>3, <4>4 DEF Placed
    <3>3. CASE /\ sched[s].pc \in {"dial", "apply"}
               /\ sched'[s].pc = "dial" => sched[s].pc = "dial"
               /\ sched'[s].call = sched[s].call /\ sched'[s].epoch = sched[s].epoch
      BY <2>6, <3>1, <3>3 DEF DialedKey
    <3> QED
      BY <1>2, <2>6, <3>2, <3>3, TickHolds
  <2> QED
    BY <2>4, <2>5, <2>6 DEF KeyInv, FreshKey
<1> QED
  BY <1>1, <1>2

\* The invariants so far hold together.
LEMMA KeyAlways == Spec => [](TypeOK /\ RollupInv /\ AttemptInv /\ KeyInv)
<1>1. Init => KeyInv
  BY InitKey
<1>2. TypeOK /\ RollupInv /\ KeyInv /\ [Next]_vars => KeyInv'
  BY NextKey
<1> QED
  BY <1>1, <1>2, RollupAlways, AttemptAlways, PTL DEF Spec

\* No idempotency key is ever dialed twice: whatever replicas, sweeps and
\* failed ticks do, a tick that dials does so under a key that the provider has
\* not seen and that no other tick holds.
THEOREM KeysAlwaysFresh == Spec => []FreshKey
<1>1. KeyInv => FreshKey
  BY DEF KeyInv
<1> QED
  BY <1>1, KeyAlways, PTL

-----------------------------------------------------------------------------
(* The retry budget                                                        *)

\* The retries a call may have left, from how often it was dialed and taken
\* back: RetryBudget says that retries_remaining is at most Left(c) + 1.
Left(c) == MaxAttempts[CampaignOf[c]] + calls[c].attempt_epoch - 2 * claims[c]

\* A copy of call c's retries, read in the given attempt, is no more than the
\* call may have for as long as that attempt is the current one.
HonestCopy(c, epoch, retries) ==
    /\ epoch <= calls[c].attempt_epoch
    /\ epoch = calls[c].attempt_epoch => retries <= Left(c) + 1

\* A call that waits for its next dial has that dial paid for; and no snapshot
\* that a tick or a processor may still write back, however old, holds more
\* retries than are left.
BudgetInv ==
    /\ \A c \in Call :
          /\ calls[c].retries_remaining <= Left(c) + 1
          /\ calls[c].status \in {ABSENT, "QUEUED", "RETRY_PENDING"} =>
                calls[c].retries_remaining <= Left(c)
    /\ \A s \in Scheduler : sched[s].pc \in {"dial", "apply"} =>
          HonestCopy(sched[s].call, sched[s].epoch, sched[s].retries)
    /\ \A p \in Processor : wp[p].pc = "apply" =>
          HonestCopy(wp[p].event.handle[1], wp[p].epoch, wp[p].retries)

LEMMA InitBudget == Init => BudgetInv
<1> SUFFICES ASSUME Init PROVE BudgetInv
  OBVIOUS
<1>1. ASSUME NEW c \in Call
      PROVE  /\ MaxAttempts[CampaignOf[c]] \in Nat /\ claims[c] = 0
             /\ calls[c].attempt_epoch = 0
             /\ calls[c].retries_remaining = MaxAttempts[CampaignOf[c]]
  BY CallAssumption, LimitAssumption DEF Init, StoreInit
<1>2. ASSUME NEW c \in Call PROVE calls[c].retries_remaining <= Left(c)
  BY <1>1 DEF Left
<1>3. ASSUME NEW c \in Call PROVE Left(c) \in Int /\ calls[c].retries_remaining \in Int
  BY <1>1 DEF Left
<1>4. \A s \in Scheduler : sched[s].pc = "wait"
  BY DEF Init, SchedInit, Waiting
<1>5. \A p \in Processor : wp[p].pc = "idle"
  BY DEF Init, WebhookInit, WpIdle
<1>6. \A c \in Call : calls[c].retries_remaining <= Left(c) + 1
  BY <1>2, <1>3
<1> QED
  BY <1>2, <1>4, <1>5, <1>6 DEF BudgetInv

\* The numbers are integers.
LEMMA BudgetType ==
    ASSUME TypeOK, NEW c \in Call
    PROVE  /\ calls[c].attempt_epoch \in Nat /\ calls[c].retries_remaining \in Nat
           /\ claims[c] \in Nat /\ MaxAttempts[CampaignOf[c]] \in Nat /\ Left(c) \in Int
<1>1. calls[c].attempt_epoch \in Nat /\ calls[c].retries_remaining \in Nat /\ claims[c] \in Nat
  BY LimitAssumption DEF TypeOK, StoreTypeOK, CallRow, Epoch
<1>2. MaxAttempts[CampaignOf[c]] \in Nat
  BY CallAssumption, LimitAssumption
<1> QED
  BY <1>1, <1>2 DEF Left

LEMMA HeldType ==
    ASSUME TypeOK
    PROVE  /\ \A s \in Scheduler : sched[s].pc \in {"dial", "apply"} =>
                 sched[s].call \in Call /\ sched[s].epoch \in Nat /\ sched[s].retries \in Nat
           /\ \A p \in Processor : wp[p].pc = "apply" =>
                 wp[p].event.handle[1] \in Call /\ wp[p].epoch \in Nat /\ wp[p].retries \in Nat
<1>1. \A s \in Scheduler : sched[s].pc \in {"dial", "apply"} =>
         sched[s].call \in Call /\ sched[s].epoch \in Nat /\ sched[s].retries \in Nat
  BY LimitAssumption DEF TypeOK, SchedTypeOK, SchedLocal, Epoch
<1>2. ASSUME NEW p \in Processor, wp[p].pc = "apply"
      PROVE  wp[p].event.handle[1] \in Call /\ wp[p].epoch \in Nat /\ wp[p].retries \in Nat
  <2>1. wp[p] \in WpLocal /\ wp[p].event \in Event
    BY <1>2 DEF TypeOK, WebhookTypeOK
  <2> QED
    BY <2>1, LimitAssumption DEF WpLocal, Event, Handle, Epoch
<1> QED
  BY <1>1, <1>2

LEMMA NextBudget == TypeOK /\ RollupInv /\ BudgetInv /\ [Next]_vars => BudgetInv'
<1> SUFFICES ASSUME TypeOK, RollupInv, BudgetInv, [Next]_vars PROVE BudgetInv'
  OBVIOUS
<1>1. CASE UNCHANGED vars
  BY <1>1 DEF vars, storeVars, BudgetInv, HonestCopy, Left
<1>2. CASE Next
  <2>0. TypeOK'
    BY <1>2, NextType
  <2>1. ASSUME NEW c \in Call
        PROVE  /\ calls[c].attempt_epoch \in Nat /\ calls[c].retries_remaining \in Nat
               /\ claims[c] \in Nat /\ MaxAttempts[CampaignOf[c]] \in Nat /\ Left(c) \in Int
               /\ calls'[c].attempt_epoch \in Nat /\ calls'[c].retries_remaining \in Nat
    BY <2>0, BudgetType DEF TypeOK, StoreTypeOK, CallRow, Epoch
  <2>2. ASSUME NEW c \in Call
        PROVE  \/ CallStep(c) /\ claims'[c] = claims[c]
               \/ Claimed(c) /\ claims'[c] = claims[c] + 1
    BY <1>2, CallSteps
  <2>3. ASSUME NEW c \in Call, calls'[c].attempt_epoch = calls[c].attempt_epoch
        PROVE  Left(c)' = Left(c) /\ CallStep(c)
    <3>1. ~Claimed(c)
      BY <2>1, <2>3 DEF Claimed, AttemptStarts
    <3> QED
      BY <2>2, <2>3, <3>1 DEF Left
  <2>4. ASSUME NEW c \in Call, Claimed(c)
        PROVE  Left(c)' = Left(c) - 1 /\ calls'[c].attempt_epoch = calls[c].attempt_epoch + 1
    <3>1. calls'[c].attempt_epoch = calls[c].attempt_epoch + 1 /\ calls'[c].status = "DIALING"
          /\ calls[c].status = "QUEUED"
      BY <2>4 DEF Claimed, AttemptStarts
    <3>2. claims'[c] = claims[c] + 1
      <4>1. CASE CallStep(c)
        BY <2>1, <3>1, <4>1 DEF CallStep, StatusKept, AttemptKept, HandleStored, Retried, Progressed, IN_FLIGHT
      <4> QED
        BY <2>2, <4>1
    <3>3. ASSUME NEW m \in Nat, NEW e \in Nat, NEW n \in Nat
          PROVE  m + (e + 1) - 2 * (n + 1) = m + e - 2 * n - 1
      OBVIOUS
    <3>4. Left(c)' = MaxAttempts[CampaignOf[c]] + (calls[c].attempt_epoch + 1) - 2 * (claims[c] + 1)
      BY <3>1, <3>2 DEF Left
    <3>5. Left(c)' = MaxAttempts[CampaignOf[c]] + calls[c].attempt_epoch - 2 * claims[c] - 1
      BY <2>1, <3>3, <3>4
    <3> QED
      BY <2>1, <3>1, <3>5 DEF Left
  <2>5. ASSUME NEW c \in Call, calls[c].status = "DIALING", calls'[c].status = "QUEUED",
               calls'[c].attempt_epoch = calls[c].attempt_epoch + 1
        PROVE  Left(c)' = Left(c) + 1
    <3>1. ~Claimed(c)
      BY <2>5 DEF Claimed
    <3> QED
      BY <2>1, <2>2, <2>5, <3>1 DEF Left
  <2>6. ASSUME NEW c \in Call
        PROVE  /\ calls'[c].retries_remaining <= Left(c)' + 1
               /\ calls'[c].status \in {ABSENT, "QUEUED", "RETRY_PENDING"} =>
                     calls'[c].retries_remaining <= Left(c)'
    <3>0. /\ calls[c].retries_remaining <= Left(c) + 1
          /\ calls[c].status \in {ABSENT, "QUEUED", "RETRY_PENDING"} =>
                calls[c].retries_remaining <= Left(c)
      BY DEF BudgetInv
    <3>1. CASE Claimed(c)
      BY <2>1, <2>4, <3>0, <3>1 DEF Claimed, AttemptStarts, BudgetKept, ABSENT
    <3>2. CASE /\ calls[c].status = "DIALING" /\ calls'[c].status = "QUEUED" /\ AttemptStarts(c)
      BY <2>1, <2>5, <3>0, <3>2 DEF AttemptStarts, BudgetKept
    <3>3. CASE Retried(c)
      <4>1. PICK r \in Nat : r <= Left(c) + 1 /\ calls'[c].retries_remaining = r - 1
        BY <3>3, HeldType DEF Retried, BudgetInv, HonestCopy
      <4>2. Left(c)' = Left(c)
        BY <2>3, <3>3 DEF Retried, AttemptKept
      <4> QED
        BY <2>1, <4>1, <4>2
    <3>4. ASSUME calls'[c].attempt_epoch = calls[c].attempt_epoch, BudgetKept(c),
                 calls'[c].status \in {ABSENT, "QUEUED", "RETRY_PENDING"} =>
                    calls[c].status \in {ABSENT, "QUEUED", "RETRY_PENDING"}
          PROVE  /\ calls'[c].retries_remaining <= Left(c)' + 1
                 /\ calls'[c].status \in {ABSENT, "QUEUED", "RETRY_PENDING"} =>
                       calls'[c].retries_remaining <= Left(c)'
      BY <2>1, <2>3, <3>0, <3>4 DEF BudgetKept
    <3>5. CASE HandleStored(c)
      BY <3>4, <3>5 DEF HandleStored, StatusKept
    <3>6. CASE Progressed(c)
      <4>1. calls'[c].status \notin {ABSENT, "QUEUED", "RETRY_PENDING"}
        BY <3>6 DEF Progressed, IN_FLIGHT, ABSENT
      <4> QED
        BY <3>4, <3>6, <4>1 DEF Progressed, AttemptKept
    <3>7. CASE calls'[c].status \in TERMINAL_CALL_STATUSES /\ AttemptKept(c) /\ BudgetKept(c)
      <4>1. calls'[c].status \notin {ABSENT, "QUEUED", "RETRY_PENDING"}
        BY <3>7 DEF TERMINAL_CALL_STATUSES, ABSENT
      <4> QED
        BY <3>4, <3>7, <4>1 DEF AttemptKept
    <3>8. CASE /\ AttemptKept(c) /\ BudgetKept(c)
               /\ StatusKept(c) \/ calls[c].status \in {ABSENT, "RETRY_PENDING"}
      BY <3>4, <3>8 DEF AttemptKept, StatusKept
    <3> QED
      BY <2>2, <3>1, <3>2, <3>3, <3>5, <3>6, <3>7, <3>8 DEF CallStep
  <2>7. ASSUME NEW c \in Call, NEW epoch \in Nat, NEW retries \in Nat, HonestCopy(c, epoch, retries)
        PROVE  HonestCopy(c, epoch, retries)'
    <3>1. calls[c].attempt_epoch <= calls'[c].attempt_epoch
      BY <1>2, EpochGrows
    <3> QED
      BY <2>1, <2>3, <2>7, <3>1 DEF HonestCopy
  <2>8. ASSUME NEW s \in Scheduler, sched'[s].pc \in {"dial", "apply"}
        PROVE  HonestCopy(sched[s].call, sched[s].epoch, sched[s].retries)'
    <3>1. PICK c, epoch, retries : /\ c = sched'[s].call /\ epoch = sched'[s].epoch
                                   /\ retries = sched'[s].retries
      OBVIOUS
    <3>2. HonestCopy(c, epoch, retries)'
      <4>1. CASE /\ sched[s].pc \in {"dial", "apply"}
                 /\ sched'[s].call = sched[s].call /\ sched'[s].epoch = sched[s].epoch
                 /\ sched'[s].retries = sched[s].retries
        <5>1. HonestCopy(c, epoch, retries) /\ c \in Call /\ epoch \in Nat /\ retries \in Nat
          BY <3>1, <4>1, HeldType DEF BudgetInv
        <5> QED
          BY <2>7, <5>1
      <4>2. CASE /\ c \in Call /\ claim_next_queued(s, c)
                 /\ epoch = calls[c].attempt_epoch + 1 /\ retries = calls[c].retries_remaining
        <5>1. calls'[c].attempt_epoch = calls[c].attempt_epoch + 1 /\ calls[c].status = "QUEUED"
              /\ calls'[c].status = "DIALING" /\ calls'[c].provider_call_id = NULL
              /\ calls'[c].retries_remaining = calls[c].retries_remaining
          BY <4>2 DEF claim_next_queued, Claimable, ClaimedRow, TypeOK, StoreTypeOK, CallRow
        <5>2. Claimed(c)
          BY <4>2, <5>1 DEF Claimed, AttemptStarts, BudgetKept
        <5>3. calls[c].retries_remaining <= Left(c)
          BY <4>2, <5>1 DEF BudgetInv
        <5>4. Left(c)' = Left(c) - 1
          BY <2>4, <4>2, <5>2
        <5>5. epoch <= calls'[c].attempt_epoch /\ retries <= Left(c)' + 1
          BY <2>1, <4>2, <5>1, <5>3, <5>4
        <5> QED
          BY <5>5 DEF HonestCopy
      <4> QED
        BY <1>2, <2>8, <3>1, <4>1, <4>2, TickHolds
    <3> QED
      BY <3>1, <3>2
  <2>9. ASSUME NEW p \in Processor, wp'[p].pc = "apply"
        PROVE  HonestCopy(wp[p].event.handle[1], wp[p].epoch, wp[p].retries)'
    <3>1. PICK c, epoch, retries : c = wp'[p].event.handle[1] /\ epoch = wp'[p].epoch /\ retries = wp'[p].retries
      OBVIOUS
    <3>2. c \in Call /\ epoch \in Nat /\ retries \in Nat
      <4>1. wp'[p] \in WpLocal /\ wp'[p].event \in Event
        BY <2>0, <2>9 DEF TypeOK, WebhookTypeOK
      <4> QED
        BY <3>1, <4>1, LimitAssumption DEF WpLocal, Event, Handle, Epoch
    <3>3. HonestCopy(c, epoch, retries)
      <4>1. CASE wp'[p] = wp[p]
        BY <2>9, <3>1, <4>1 DEF BudgetInv
      <4>2. CASE epoch = calls[c].attempt_epoch /\ retries = calls[c].retries_remaining
        BY <2>1, <3>2, <4>2 DEF HonestCopy, BudgetInv
      <4> QED
        BY <1>2, <2>9, <3>1, <4>1, <4>2, ProcessorHolds
    <3>4. HonestCopy(c, epoch, retries)'
      BY <2>7, <3>2, <3>3
    <3> QED
      BY <3>1, <3>4
  <2> QED
    BY <2>6, <2>8, <2>9 DEF BudgetInv
<1> QED
  BY <1>1, <1>2

\* A call is never dialed more often than its campaign's max_attempts allows,
\* reclaims aside: although the budget is written back from snapshots that may
\* be stale, no interleaving of ticks, events and sweeps dials it once more
\* than it has paid for.
THEOREM BudgetAlwaysKept == Spec => []RetryBudget
<1>1. Init => BudgetInv
  BY InitBudget
<1>2. TypeOK /\ RollupInv /\ BudgetInv /\ [Next]_vars => BudgetInv'
  BY NextBudget
<1>3. TypeOK /\ BudgetInv => RetryBudget
  <2> SUFFICES ASSUME TypeOK, BudgetInv, NEW c \in Call
               PROVE  claims[c] <= 1 + (MaxAttempts[CampaignOf[c]] - calls[c].retries_remaining)
                                     + (calls[c].attempt_epoch - claims[c])
    BY DEF RetryBudget, Spent, Reclaims
  <2>1. calls[c].retries_remaining <= Left(c) + 1
    BY DEF BudgetInv
  <2> QED
    BY <2>1, BudgetType DEF Left
<1> QED
  BY <1>1, <1>2, <1>3, RollupAlways, PTL DEF Spec

-----------------------------------------------------------------------------
(* One call at a time for a number                                         *)

\* What the phone index means: no two rows of one phone are queued or in
\* flight.  The claim takes a QUEUED row without asking the index, so the
\* queued rows belong to the invariant.
PhoneInv ==
    \A c, d \in Call :
        c # d /\ PhoneOf[c] = PhoneOf[d] =>
            ~(calls[c].status \in PHONE_INDEXED /\ calls[d].status \in PHONE_INDEXED)

\* Whoever calls it, state.transition respects the index.
LEMMA TransitionPhone ==
    ASSUME StoreTypeOK, PhoneInv, NEW c \in Call, NEW es, NEW ee, NEW row \in CallRow,
           transition(c, es, ee, row)
    PROVE  PhoneInv'
<1>1. CASE UNCHANGED calls
  BY <1>1 DEF PhoneInv
<1>2. CASE IndexAllows(c, row.status) /\ calls'[c].status = row.status
           /\ \A d \in Call \ {c} : calls'[d] = calls[d]
  BY <1>2 DEF PhoneInv, IndexAllows
<1>3. UNCHANGED calls \/ IndexAllows(c, row.status)
  BY DEF transition
<1> QED
  BY <1>1, <1>2, <1>3, TransitionFields

LEMMA InitPhone == Init => PhoneInv
BY DEF Init, StoreInit, PhoneInv, PHONE_INDEXED, ABSENT

LEMMA NextPhone == TypeOK /\ PhoneInv /\ [Next]_vars => PhoneInv'
<1> SUFFICES ASSUME TypeOK, PhoneInv, [Next]_vars
             PROVE  PhoneInv'
  OBVIOUS
<1>0. StoreTypeOK /\ calls \in [Call -> CallRow]
  BY DEF TypeOK, StoreTypeOK
<1>1. CASE UNCHANGED calls
  BY <1>1 DEF PhoneInv
<1>2. ASSUME NEW k \in Campaign, create_campaign(k)
      PROVE  PhoneInv'
  <2>1. \A c \in Call : calls'[c] = IF CampaignOf[c] = k
                                    THEN [calls[c] EXCEPT !.status = "QUEUED"]
                                    ELSE calls[c]
    BY <1>2 DEF create_campaign, create_batch
  <2>2. \A c \in Call : CampaignOf[c] = k =>
           \A d \in Call \ {c} :
              PhoneOf[d] = PhoneOf[c] => calls[d].status \notin PHONE_INDEXED
    BY <1>2 DEF create_campaign, IndexAllows, CallsOf, PHONE_INDEXED
  <2>3. ASSUME NEW c \in Call, NEW d \in Call, c # d, PhoneOf[c] = PhoneOf[d]
        PROVE  ~(calls'[c].status \in PHONE_INDEXED /\ calls'[d].status \in PHONE_INDEXED)
    <3>1. ~(CampaignOf[c] = k /\ CampaignOf[d] = k)
      BY <2>3, CallAssumption
    <3> QED
      BY <2>1, <2>2, <2>3, <3>1 DEF PhoneInv
  <2> QED
    BY <2>3 DEF PhoneInv
<1>3. ASSUME NEW c \in Call, BackoffElapses(c) \/ age_dialing(c)
      PROVE  PhoneInv'
  <2>1. \A d \in Call : calls'[d].status = calls[d].status
    BY <1>0, <1>3 DEF BackoffElapses, age_dialing, CallRow
  <2> QED
    BY <2>1 DEF PhoneInv
<1>4. ASSUME NEW s \in Scheduler, NEW c \in Call, claim_next_queued(s, c)
      PROVE  PhoneInv'
  <2>1. calls[c].status = "QUEUED" /\ calls' = [calls EXCEPT ![c] = ClaimedRow(c)]
    BY <1>4 DEF claim_next_queued, Claimable
  <2>2. calls[c].status \in PHONE_INDEXED /\ \A d \in Call \ {c} : calls'[d] = calls[d]
    BY <1>0, <2>1 DEF PHONE_INDEXED
  <2> QED
    BY <2>2 DEF PhoneInv
<1>5. CASE Transitioned
  <2>1. PICK c \in Call, row \in CallRow :
            \/ Requeued(c, row) \/ Swept(c, row)
            \/ \E s \in Scheduler : ResultStored(s, c, row)
            \/ \E p \in Processor : EventApplied(p, c, row)
    BY <1>5 DEF Transitioned
  <2>2. \E es, ee : transition(c, es, ee, row)
    BY <2>1 DEF Requeued, Swept, ResultStored, EventApplied
  <2> QED
    BY <1>0, <2>2, TransitionPhone
<1> QED
  BY <1>1, <1>2, <1>3, <1>4, <1>5, StoreSteps DEF vars, storeVars

\* No number is dialed for two calls at once, whatever inserts, retries,
\* sweeps and late events do, for any number of campaigns that share it and
\* any number of replicas: the guard of the index on every transition and on
\* the insert is enough to leave the claim without one.
THEOREM NumbersNeverDialedTwice == Spec => []NumberDialedOnce
<1>1. PhoneInv => NumberDialedOnce
  BY DEF PhoneInv, NumberDialedOnce, PHONE_INDEXED, IN_FLIGHT
<1> QED
  BY <1>1, InitPhone, NextPhone, TypeCorrect, PTL DEF Spec

-----------------------------------------------------------------------------
(* The concurrency cap                                                     *)

\* What the cap needs of the deployment: one scheduler, and a provider that
\* sends one event for each status, in order.
OneInOrder ==
    /\ InOrder = TRUE
    /\ Copies <= 1
    /\ \A s, r \in Scheduler : s = r

\* The attempt with handle h is over, and every progress event of it has been
\* dealt with.
Settled(h) ==
    /\ Ended(h)
    /\ \A status \in trace[h] \cap Reported \cap IN_FLIGHT :
          \E d \in processed : d.handle = h /\ d.status = status

WAITING == {ABSENT, "QUEUED", "RETRY_PENDING"}

\* A call that waits for its next dial has no progress event outstanding that
\* could put it back in flight: the event that ended the attempt came last.
WaitingSettled ==
    \A c \in Call :
        calls[c].status \in WAITING /\ calls[c].provider_call_id # NULL =>
            Settled(calls[c].provider_call_id)

\* The events that processors hold: each one by one processor, none of them
\* done, each for the handle its call carries unless the call has moved on;
\* a final one only after all the progress of its attempt.
HeldEvents ==
    \A p \in Processor : wp[p].pc = "apply" =>
        /\ wp[p].event \notin processed
        /\ \A q \in Processor \ {p} : wp[q].pc = "apply" => wp[q].event # wp[p].event
        /\ wp[p].epoch = calls[wp[p].event.handle[1]].attempt_epoch =>
              calls[wp[p].event.handle[1]].provider_call_id = wp[p].event.handle
        /\ wp[p].event.status \in TERMINAL_CALL_STATUSES => Settled(wp[p].event.handle)

\* No one but the tick that dials stores the attempt's handle.
DialPending ==
    \A s \in Scheduler :
        sched[s].pc \in {"dial", "apply"} /\ sched[s].epoch = calls[sched[s].call].attempt_epoch =>
            calls[sched[s].call].provider_call_id = NULL

\* What a tick has found below its cap is still below it when it claims.
GateHolds ==
    \A s \in Scheduler : sched[s].pc \in {"pick", "requeue", "claim"} =>
        \A k \in Candidates(s) : BelowCap(k)

CapInv ==
    /\ \A e \in inbox : e.status \in Reported
    /\ WaitingSettled
    /\ HeldEvents
    /\ DialPending
    /\ GateHolds
    /\ CapRespected

LEMMA InitCap == Init => CapInv
<1> SUFFICES ASSUME Init PROVE CapInv
  OBVIOUS
<1>1. \A c \in Call : calls[c].provider_call_id = NULL /\ calls[c].status = ABSENT
  BY DEF Init, StoreInit
<1>2. inbox = {} /\ \A p \in Processor : wp[p].pc = "idle"
  BY DEF Init, WebhookInit, WpIdle
<1>3. \A s \in Scheduler : sched[s].pc = "wait"
  BY DEF Init, SchedInit, Waiting
<1>4. ASSUME NEW k \in Campaign PROVE in_flight_count(k) <= MaxConcurrent[k]
  <2>1. InFlight(k) = {}
    BY <1>1 DEF InFlight, CallsOf, IN_FLIGHT, ABSENT
  <2>2. in_flight_count(k) = 0
    BY <2>1, FS_EmptySet DEF in_flight_count
  <2> QED
    BY <2>2, LimitAssumption
<1> QED
  BY <1>1, <1>2, <1>3, <1>4
  DEF CapInv, WaitingSettled, HeldEvents, DialPending, GateHolds, CapRespected

\* The inbox fills with reported events; a row is done when the processor that
\* held it, or that found nothing to do for it, says so.
LEMMA InboxSteps ==
    ASSUME TypeOK, Next
    PROVE  /\ \A e \in inbox' : e \in inbox \/ e.status \in Reported
           /\ processed \subseteq processed'
           /\ \A e \in processed' \ processed :
                 \/ UNCHANGED wp /\ \A p \in Processor : wp[p].event # e
                 \/ \E p \in Processor : wp[p].pc = "apply" /\ wp[p].event = e /\ wp'[p].pc = "idle"
<1>0. wp \in [Processor -> WpLocal]
  BY DEF TypeOK, WebhookTypeOK
<1>1. CASE UNCHANGED <<inbox, processed>>
  BY <1>1
<1>2. CASE IngestNext
  BY <1>2 DEF IngestNext, handle_webhook_ingest, insert
<1>3. ASSUME NEW p \in Processor, NEW e \in Event, process_ignored(p, e)
      PROVE  /\ UNCHANGED <<inbox, wp>> /\ processed' = processed \cup {e}
             /\ \A q \in Processor : wp[q].event # e
  BY <1>3 DEF process_ignored, claim_unprocessed_one, mark_processed
<1>4. ASSUME NEW p \in Processor, process_apply(p)
      PROVE  /\ UNCHANGED inbox /\ processed' = processed \cup {wp[p].event}
             /\ wp[p].pc = "apply" /\ wp'[p].pc = "idle"
  BY <1>0, <1>4 DEF process_apply, mark_processed, WpIdle
<1>5. ASSUME NEW p \in Processor, ProcessorNext(p)
      PROVE  \/ UNCHANGED <<inbox, processed>> \/ process_apply(p)
             \/ \E e \in Event : process_ignored(p, e)
  BY <1>5 DEF ProcessorNext, process_read, process_fails, inboxVars
<1>6. CASE EnvNext \/ ProviderNext \/ ReclaimNext \/ \E s \in Scheduler : SchedNext(s)
  BY <1>1, <1>6
  DEF EnvNext, ProviderNext, ReclaimNext, SweepBegins, SweepStep, SchedNext, TickStep, inboxVars
<1> QED
  BY <1>1, <1>2, <1>3, <1>4, <1>5, <1>6 DEF Next

\* Once settled, an attempt stays settled: the provider adds nothing to a call
\* that has ended, and its key is not dialed again.
LEMMA SettledStays ==
    ASSUME TypeOK, KeyInv, Next, NEW h \in Handle, Settled(h)
    PROVE  Settled(h)'
<1>1. Ended(h) /\ Placed(h)
  BY DEF Settled, Ended, Placed
<1>2. trace'[h] = trace[h]
  <2>1. ASSUME NEW s \in Scheduler, sched[s].pc = "dial", DialedKey(s) = h PROVE FALSE
    BY <1>1, <2>1 DEF KeyInv, FreshKey
  <2> QED
    BY <1>1, <2>1, TraceSteps
<1>3. processed \subseteq processed'
  BY InboxSteps
<1> QED
  BY <1>2, <1>3 DEF Settled, Ended

\* What the steps of the cap's proof start from.
Before == TypeOK /\ AttemptInv /\ RollupInv /\ KeyInv /\ BudgetInv /\ CapInv

LEMMA WaitingStep == ASSUME Before, Next PROVE WaitingSettled'
<1> SUFFICES ASSUME NEW c \in Call, calls'[c].status \in WAITING, calls'[c].provider_call_id # NULL
             PROVE  Settled(calls[c].provider_call_id)'
  BY DEF WaitingSettled
<1>1. PICK h : h = calls'[c].provider_call_id
  OBVIOUS
<1>2. h \in Handle /\ h # NULL
  BY <1>1, NextType DEF Before, TypeOK, StoreTypeOK, CallRow
<1>3. Settled(h)
  <2>1. CASE calls[c].status \in WAITING /\ AttemptKept(c)
    BY <1>1, <1>2, <2>1 DEF Before, CapInv, WaitingSettled, AttemptKept
  <2>2. CASE Retried(c)
    <3>1. ASSUME NEW s \in Scheduler, sched[s].pc = "apply", sched[s].call = c,
                 sched[s].epoch = calls[c].attempt_epoch
          PROVE  FALSE
      <4>1. calls[c].provider_call_id = NULL
        BY <3>1 DEF Before, CapInv, DialPending
      <4> QED
        BY <1>1, <1>2, <2>2, <4>1 DEF Retried, AttemptKept
    <3>2. PICK p \in Processor :
              /\ wp[p].pc = "apply" /\ wp[p].event.handle[1] = c
              /\ wp[p].event.status \in TERMINAL_CALL_STATUSES
              /\ wp[p].epoch = calls[c].attempt_epoch
      BY <2>2, <3>1 DEF Retried
    <3>3. Settled(wp[p].event.handle) /\ calls[c].provider_call_id = wp[p].event.handle
      BY <3>2 DEF Before, CapInv, HeldEvents
    <3> QED
      BY <1>1, <2>2, <3>3 DEF Retried, AttemptKept
  <2>3. CASE calls'[c].status \notin WAITING
    BY <2>3
  <2>4. CASE AttemptStarts(c)
    BY <1>1, <1>2, <2>4 DEF AttemptStarts
  <2>5. CASE StatusKept(c) /\ AttemptKept(c)
    BY <2>1, <2>5 DEF StatusKept
  <2>6. CASE HandleStored(c)
    BY <2>3, <2>6 DEF HandleStored, StatusKept, WAITING, ABSENT
  <2>7. CASE Progressed(c)
    BY <2>3, <2>7 DEF Progressed, IN_FLIGHT, WAITING, ABSENT
  <2>8. CASE calls'[c].status \in TERMINAL_CALL_STATUSES
    BY <2>3, <2>8 DEF TERMINAL_CALL_STATUSES, WAITING, ABSENT
  <2>9. CASE calls[c].status \in {ABSENT, "RETRY_PENDING"} /\ AttemptKept(c)
    BY <2>1, <2>9 DEF WAITING
  <2>10. CallStep(c) \/ Claimed(c)
    BY CallSteps DEF Before
  <2> QED
    BY <2>2, <2>4, <2>5, <2>6, <2>7, <2>8, <2>9, <2>10 DEF CallStep, Claimed
<1>4. Settled(h)'
  BY <1>2, <1>3, SettledStays DEF Before
<1> QED
  BY <1>1, <1>4

LEMMA HeldStep == ASSUME Before, Next, OneInOrder PROVE HeldEvents'
<1> SUFFICES ASSUME NEW p \in Processor, wp'[p].pc = "apply"
             PROVE  /\ wp'[p].event \notin processed'
                    /\ \A q \in Processor \ {p} : wp'[q].pc = "apply" => wp'[q].event # wp'[p].event
                    /\ wp'[p].epoch = calls'[wp'[p].event.handle[1]].attempt_epoch =>
                          calls'[wp'[p].event.handle[1]].provider_call_id = wp'[p].event.handle
                    /\ wp'[p].event.status \in TERMINAL_CALL_STATUSES => Settled(wp[p].event.handle)'
  BY DEF HeldEvents
<1>0. TypeOK /\ HeldEvents /\ wp \in [Processor -> WpLocal]
  BY DEF Before, TypeOK, WebhookTypeOK, CapInv
<1>1. CASE wp'[p] = wp[p]
  <2> DEFINE e == wp[p].event
             c == e.handle[1]
  <2>1. e \in inbox /\ e \in Event /\ wp[p].pc = "apply"
    BY <1>0, <1>1 DEF TypeOK, WebhookTypeOK
  <2>2. c \in Call /\ e.handle \in Handle /\ e.handle = <<c, e.handle[2]>>
        /\ wp[p].epoch \in Nat /\ e.handle[2] = wp[p].epoch
    BY <1>0, <2>1, HeldType DEF Event, Handle, Before, AttemptInv
  <2>3. e \notin processed'
    <3>1. ASSUME NEW q \in Processor, wp[q].pc = "apply", wp[q].event = e, wp'[q].pc = "idle"
          PROVE  FALSE
      BY <1>0, <1>1, <2>1, <3>1 DEF HeldEvents
    <3> QED
      BY <1>0, <2>1, <3>1, InboxSteps DEF HeldEvents
  <2>4. ASSUME NEW q \in Processor \ {p}, wp'[q].pc = "apply" PROVE wp'[q].event # e
    <3>1. CASE wp'[q] = wp[q]
      BY <1>0, <2>1, <2>4, <3>1 DEF HeldEvents
    <3>2. ASSUME NEW d, claim_unprocessed_one(q, d), wp'[q].event = d PROVE wp'[q].event # e
      BY <3>2 DEF claim_unprocessed_one
    <3> QED
      BY <1>0, <2>4, <3>1, <3>2, ProcessorHolds
  <2>5. ASSUME wp[p].epoch = calls'[c].attempt_epoch PROVE calls'[c].provider_call_id = e.handle
    <3>1. wp[p].epoch <= calls[c].attempt_epoch
      BY <2>1 DEF Before, BudgetInv, HonestCopy
    <3>2. calls[c].attempt_epoch \in Nat /\ calls[c].attempt_epoch <= calls'[c].attempt_epoch
      BY <1>0, <2>2, EpochGrows DEF Before
    <3>3. calls[c].attempt_epoch = wp[p].epoch
      BY <2>2, <2>5, <3>1, <3>2
    <3>4. calls[c].provider_call_id = e.handle
      BY <1>0, <2>1, <3>3 DEF HeldEvents
    <3>5. CallStep(c) \/ Claimed(c)
      BY <1>0, <2>2, CallSteps DEF Before
    <3>6. calls'[c].attempt_epoch # calls[c].attempt_epoch + 1
      BY <2>5, <3>2, <3>3
    <3>7. CASE AttemptKept(c)
      BY <3>4, <3>7 DEF AttemptKept
    <3>8. CASE HandleStored(c)
      <4>1. PICK s \in Scheduler : /\ sched[s].call = c /\ sched[s].epoch = calls[c].attempt_epoch
                                   /\ calls'[c].provider_call_id = DialedKey(s)
        BY <3>8 DEF HandleStored
      <4> HIDE DEF c
      <4> QED
        BY <2>2, <3>3, <4>1 DEF DialedKey
    <3> HIDE DEF c, e
    <3> QED
      BY <3>5, <3>6, <3>7, <3>8 DEF CallStep, Claimed, AttemptStarts, Retried, Progressed
  <2>6. ASSUME e.status \in TERMINAL_CALL_STATUSES PROVE Settled(wp[p].event.handle)'
    <3>1. PICK h \in Handle : h = e.handle
      BY <2>2
    <3>2. Settled(h)
      BY <1>0, <2>1, <2>6, <3>1 DEF HeldEvents
    <3>3. Settled(h)'
      BY <3>2, SettledStays DEF Before
    <3> QED
      BY <1>1, <3>1, <3>3
  <2> QED
    BY <1>1, <2>3, <2>4, <2>5, <2>6
<1>2. ASSUME NEW e \in Event,
             claim_unprocessed_one(p, e), Known(e), wp'[p].event = e,
             wp'[p].epoch = calls[e.handle[1]].attempt_epoch,
             \A q \in Processor \ {p} : wp'[q] = wp[q],
             UNCHANGED <<storeVars, trace, processed>>
      PROVE  /\ wp'[p].event \notin processed'
             /\ \A q \in Processor \ {p} : wp'[q].pc = "apply" => wp'[q].event # wp'[p].event
             /\ wp'[p].epoch = calls'[wp'[p].event.handle[1]].attempt_epoch =>
                   calls'[wp'[p].event.handle[1]].provider_call_id = wp'[p].event.handle
             /\ wp'[p].event.status \in TERMINAL_CALL_STATUSES => Settled(wp[p].event.handle)'
  <2>1. e \in inbox /\ e \notin processed /\ (\A q \in Processor : wp[q].event # e)
        /\ EarlierIn(e, processed)
    BY <1>2 DEF claim_unprocessed_one, OneInOrder
  <2>2. calls'[e.handle[1]].provider_call_id = e.handle
    BY <1>2 DEF Known, storeVars
  <2>3. ASSUME e.status \in TERMINAL_CALL_STATUSES PROVE Settled(e.handle)
    <3>1. e.status \in trace[e.handle]
      BY <2>1 DEF Before, AttemptInv
    <3>2. ASSUME NEW status \in IN_FLIGHT PROVE Rank(status) < Rank(e.status)
      BY <2>3, <3>2 DEF Rank, IN_FLIGHT, TERMINAL_CALL_STATUSES
    <3> QED
      BY <2>1, <2>3, <3>1, <3>2 DEF Settled, Ended, EarlierIn
  <2>4. ASSUME e.status \in TERMINAL_CALL_STATUSES PROVE Settled(wp[p].event.handle)'
    BY <1>2, <2>3, <2>4 DEF Settled, Ended
  <2> QED
    BY <1>2, <2>1, <2>2, <2>4
<1> QED
  BY <1>0, <1>1, <1>2, ProcessorHolds

LEMMA DialPendingStep == ASSUME Before, Next, OneInOrder PROVE DialPending'
<1> SUFFICES ASSUME NEW s \in Scheduler, sched'[s].pc \in {"dial", "apply"},
                    sched'[s].epoch = calls'[sched'[s].call].attempt_epoch
             PROVE  calls'[sched'[s].call].provider_call_id = NULL
  BY DEF DialPending
<1>0. TypeOK
  BY DEF Before
<1>1. CASE /\ sched[s].pc \in {"dial", "apply"}
           /\ sched'[s].call = sched[s].call /\ sched'[s].epoch = sched[s].epoch
  <2>1. PICK c \in Call : c = sched[s].call
    BY <1>0, <1>1, HeldType
  <2>2. sched[s].epoch <= calls[c].attempt_epoch /\ sched[s].epoch \in Nat
    BY <1>0, <1>1, <2>1, HeldType DEF Before, KeyInv
  <2>3. calls[c].attempt_epoch \in Nat /\ calls[c].attempt_epoch <= calls'[c].attempt_epoch
    BY <1>0, EpochGrows DEF Before
  <2>4. calls[c].attempt_epoch = sched[s].epoch /\ calls'[c].attempt_epoch = sched[s].epoch
    BY <1>1, <2>1, <2>2, <2>3
  <2>5. calls[c].provider_call_id = NULL
    BY <1>1, <2>1, <2>4 DEF Before, CapInv, DialPending
  <2>6. ~HandleStored(c)
    BY <1>1 DEF HandleStored, OneInOrder
  <2>7. CallStep(c) \/ Claimed(c)
    BY CallSteps DEF Before
  <2>8. AttemptKept(c) \/ AttemptStarts(c)
    BY <2>6, <2>7 DEF CallStep, Claimed, Retried, Progressed
  <2> QED
    BY <1>1, <2>1, <2>5, <2>8 DEF AttemptKept, AttemptStarts
<1>2. ASSUME NEW c \in Call, claim_next_queued(s, c), sched'[s].call = c
      PROVE  calls'[sched'[s].call].provider_call_id = NULL
  BY <1>0, <1>2 DEF claim_next_queued, ClaimedRow, TypeOK, StoreTypeOK, CallRow
<1> QED
  BY <1>0, <1>1, <1>2, TickHolds

\* Only a claim puts a call in flight: an event that would is one that its
\* attempt's last event came after.
LEMMA FlightStarts ==
    ASSUME Before, Next, OneInOrder, NEW k, NEW c \in InFlight(k)', c \notin InFlight(k)
    PROVE  \E s \in Scheduler : claim_next_queued(s, c)
<1>1. c \in Call /\ CampaignOf[c] = k /\ calls'[c].status \in IN_FLIGHT
      /\ calls[c].status \notin IN_FLIGHT
  BY DEF InFlight, CallsOf
<1>2. calls[c].status \in CallStatus \cup {ABSENT}
  BY <1>1 DEF Before, TypeOK, StoreTypeOK, CallRow
<1>3. ASSUME Progressed(c) PROVE FALSE
  <2>1. calls[c].status \in WAITING
    BY <1>1, <1>2, <1>3
    DEF Progressed, CallStatus, ACTIVE_CALL_STATUSES, IN_FLIGHT, WAITING
  <2>2. PICK p \in Processor :
            /\ wp[p].pc = "apply" /\ wp[p].event.handle[1] = c
            /\ wp[p].epoch = calls[c].attempt_epoch
            /\ wp[p].event.status \in IN_FLIGHT
    BY <1>3 DEF Progressed
  <2>3. PICK e \in Event : e = wp[p].event /\ e \in inbox /\ e \notin processed
    BY <2>2 DEF Before, TypeOK, WebhookTypeOK, CapInv, HeldEvents
  <2>4. calls[c].provider_call_id = e.handle /\ e.handle # NULL
    <3>1. e.handle # NULL
      BY NullAssumption, LimitAssumption DEF Event, Handle, Epoch
    <3> QED
      BY <2>2, <2>3, <3>1 DEF Before, CapInv, HeldEvents
  <2>5. Settled(e.handle)
    BY <1>1, <2>1, <2>4 DEF Before, CapInv, WaitingSettled
  <2>6. e.status \in trace[e.handle] \cap Reported \cap IN_FLIGHT
    BY <2>2, <2>3 DEF Before, AttemptInv, CapInv
  <2>7. PICK d \in processed : d.handle = e.handle /\ d.status = e.status
    BY <2>5, <2>6 DEF Settled
  <2>8. d \in Event
    BY DEF Before, TypeOK, WebhookTypeOK
  <2>9. d.copy = 1 /\ e.copy = 1
    BY <2>8, WebhookAssumption DEF Event, OneInOrder
  <2>10. d = e
    BY <2>7, <2>8, <2>9 DEF Event
  <2> QED
    BY <2>3, <2>7, <2>10
<1>4. CallStep(c) \/ Claimed(c)
  BY <1>1, CallSteps DEF Before
<1>5. ~CallStep(c)
  <2>1. calls'[c].status \notin TERMINAL_CALL_STATUSES \cup {"QUEUED", "RETRY_PENDING"}
    BY <1>1 DEF IN_FLIGHT, TERMINAL_CALL_STATUSES
  <2>2. "DIALING" \in IN_FLIGHT
    BY DEF IN_FLIGHT
  <2> QED
    BY <1>1, <1>3, <2>1, <2>2 DEF CallStep, StatusKept, HandleStored, Retried
<1> QED
  BY <1>4, <1>5 DEF Claimed

LEMMA InFlightFinite ==
    ASSUME NEW k
    PROVE  /\ IsFiniteSet(InFlight(k)) /\ IsFiniteSet(InFlight(k)')
           /\ in_flight_count(k) \in Nat /\ in_flight_count(k)' \in Nat
<1>1. InFlight(k) \subseteq Call /\ InFlight(k)' \subseteq Call
  BY DEF InFlight, CallsOf
<1>2. IsFiniteSet(InFlight(k)) /\ IsFiniteSet(InFlight(k)')
  BY <1>1, CallAssumption, FS_Subset
<1> QED
  BY <1>2, FS_CardinalityType DEF in_flight_count

\* A claim takes the campaign one call further, any other step not at all.
LEMMA CountSteps ==
    ASSUME Before, Next, OneInOrder, NEW k \in Campaign
    PROVE  \/ in_flight_count(k)' <= in_flight_count(k)
           \/ /\ \E s \in Scheduler, c \in Call : claim_next_queued(s, c) /\ sched[s].campaign = k
              /\ in_flight_count(k)' <= in_flight_count(k) + 1
<1>0. /\ IsFiniteSet(InFlight(k)) /\ IsFiniteSet(InFlight(k)')
      /\ in_flight_count(k) \in Nat /\ in_flight_count(k)' \in Nat
  BY InFlightFinite
<1>1. CASE InFlight(k)' \subseteq InFlight(k)
  BY <1>0, <1>1, FS_Subset DEF in_flight_count
<1>2. ASSUME NEW c \in InFlight(k)', c \notin InFlight(k)
      PROVE  /\ \E s \in Scheduler : claim_next_queued(s, c) /\ sched[s].campaign = k
             /\ c \in Call
             /\ in_flight_count(k)' <= in_flight_count(k) + 1
  <2>1. PICK s \in Scheduler : claim_next_queued(s, c)
    BY <1>2, FlightStarts
  <2>2. c \in Call /\ sched[s].campaign = k
    BY <1>2, <2>1 DEF claim_next_queued, Claimable, InFlight, CallsOf
  <2>3. InFlight(k)' \subseteq InFlight(k) \cup {c}
    <3>1. \A d \in Call \ {c} : calls'[d] = calls[d]
      BY <2>1 DEF claim_next_queued, Before, TypeOK, StoreTypeOK
    <3> QED
      BY <3>1 DEF InFlight, CallsOf
  <2>4. /\ IsFiniteSet(InFlight(k) \cup {c})
        /\ Cardinality(InFlight(k) \cup {c}) = in_flight_count(k) + 1
    BY <1>0, <1>2, FS_AddElement DEF in_flight_count
  <2>5. in_flight_count(k)' <= Cardinality(InFlight(k) \cup {c})
    BY <2>3, <2>4, FS_Subset DEF in_flight_count
  <2> QED
    BY <2>1, <2>2, <2>4, <2>5
<1> QED
  BY <1>1, <1>2

\* What a tick takes for below its cap it has just counted, or had in hand.
LEMMA GateSteps ==
    ASSUME TypeOK, Next, NEW s \in Scheduler,
           sched'[s].pc \in {"pick", "requeue", "claim"}, NEW k \in Candidates(s)'
    PROVE  \/ sched[s].pc \in {"pick", "requeue", "claim"} /\ k \in Candidates(s)
           \/ BelowCap(k) /\ UNCHANGED calls
<1>0. sched \in [Scheduler -> SchedLocal]
  BY DEF TypeOK, SchedTypeOK
<1>1. CASE sched'[s] = sched[s]
  BY <1>1 DEF Candidates
<1>2. ASSUME NEW r \in Scheduler, r # s, NEW l, sched' = [sched EXCEPT ![r] = l]
      PROVE  sched'[s] = sched[s]
  BY <1>0, <1>2
<1>3. ASSUME NEW r \in Scheduler, SchedNext(r), r # s PROVE sched'[s] = sched[s]
  BY <1>0, <1>2, <1>3
  DEF SchedNext, TickStep, tick_idle, tick, concurrency_gate, pick, requeue_oldest_retry_due,
      requeue_conflict, claim_next_queued, claim_nothing, dial, apply_result, tick_fails, Goto
<1>4. CASE concurrency_gate(s)
  <2> DEFINE capped == {j \in sched[s].capped : BelowCap(j)}
  <2>1. sched'[s] = IF capped = {} THEN Waiting
                    ELSE [sched[s] EXCEPT !.pc = "pick", !.capped = capped]
    BY <1>0, <1>4 DEF concurrency_gate, Goto
  <2>2. \A j \in capped : BelowCap(j)
    OBVIOUS
  <2> HIDE DEF capped
  <2>3. capped # {}
    BY <2>1 DEF Waiting
  <2>4. sched'[s].pc = "pick" /\ sched'[s].capped = capped
    BY <1>0, <2>1, <2>3 DEF SchedLocal
  <2> QED
    BY <1>4, <2>2, <2>4 DEF concurrency_gate, storeVars, Candidates
<1>5. CASE pick(s)
  <2>1. PICK j : j = Picked(sched[s].cursor, sched[s].capped)
    OBVIOUS
  <2>2. j \in sched[s].capped /\ sched[s].pc = "pick"
    BY <1>5, <2>1, PickedIn DEF pick, TypeOK, SchedTypeOK, SchedLocal
  <2>3. sched'[s] = [Waiting EXCEPT !.pc       = IF j \in RetryDue THEN "requeue" ELSE "claim",
                                    !.pending  = sched[s].pending \cap {j},
                                    !.campaign = j]
    BY <1>0, <1>5, <2>1 DEF pick, Goto
  <2>4. sched'[s].pc \in {"requeue", "claim"} /\ sched'[s].campaign = j
    BY <2>3 DEF Waiting
  <2> QED
    BY <2>2, <2>4 DEF Candidates
<1>6. CASE requeue_oldest_retry_due(s)
  <2>1. /\ sched[s].pc = "requeue" /\ sched'[s].pc = "claim"
        /\ sched'[s].campaign = sched[s].campaign
    BY <1>0, <1>6 DEF requeue_oldest_retry_due, Goto, SchedLocal
  <2> QED
    BY <2>1 DEF Candidates
<1>7. ASSUME NEW open, tick(s, open) PROVE FALSE
  <2>1. sched'[s].pc = "gate"
    BY <1>0, <1>7 DEF tick, Goto, Waiting
  <2> QED
    BY <2>1
<1>8. CASE Goto(s, Waiting)
  BY <1>0, <1>8 DEF Goto, Waiting
<1>9. ASSUME NEW c \in Call, claim_next_queued(s, c) PROVE FALSE
  BY <1>0, <1>9 DEF claim_next_queued, Goto, SchedLocal
<1>10. ASSUME NEW outcome \in DialOutcome, dial(s, outcome) PROVE FALSE
  BY <1>0, <1>10 DEF dial, Goto, SchedLocal
<1>11. CASE SchedNext(s)
  BY <1>1, <1>4, <1>5, <1>6, <1>7, <1>8, <1>9, <1>10, <1>11
  DEF SchedNext, TickStep, tick_idle, requeue_conflict, claim_nothing, apply_result, tick_fails
<1>12. CASE EnvNext \/ ProviderNext \/ IngestNext \/ ReclaimNext
            \/ \E p \in Processor : ProcessorNext(p)
  BY <1>1, <1>12
  DEF EnvNext, ProviderNext, IngestNext, ReclaimNext, SweepBegins, SweepStep, ProcessorNext
<1> QED
  BY <1>1, <1>3, <1>11, <1>12 DEF Next

LEMMA CapStep == ASSUME Before, Next, OneInOrder PROVE GateHolds' /\ CapRespected'
<1>0. TypeOK /\ TypeOK' /\ sched \in [Scheduler -> SchedLocal] /\ CapRespected /\ GateHolds
  BY NextType DEF Before, TypeOK, SchedTypeOK, CapInv
<1>1. ASSUME NEW k \in Campaign
      PROVE  in_flight_count(k) \in Nat /\ in_flight_count(k)' \in Nat /\ MaxConcurrent[k] \in Nat
  BY InFlightFinite, LimitAssumption
<1>2. ASSUME NEW s \in Scheduler, NEW c \in Call, claim_next_queued(s, c)
      PROVE  sched[s].pc = "claim" /\ sched'[s].pc = "dial"
  BY <1>0, <1>2 DEF claim_next_queued, Goto, SchedLocal
<1>3. GateHolds'
  <2> SUFFICES ASSUME NEW s \in Scheduler, sched'[s].pc \in {"pick", "requeue", "claim"},
                      NEW k \in Candidates(s)'
               PROVE  BelowCap(k)'
    BY DEF GateHolds
  <2>1. k \in Campaign
    BY <1>0 DEF Candidates, TypeOK, SchedTypeOK, SchedLocal
  <2>2. BelowCap(k)
    BY <1>0, GateSteps DEF GateHolds
  <2>3. in_flight_count(k)' <= in_flight_count(k)
    BY <1>2, <2>1, CountSteps DEF OneInOrder
  <2> QED
    BY <1>1, <2>1, <2>2, <2>3 DEF BelowCap
<1>4. CapRespected'
  <2> SUFFICES ASSUME NEW k \in Campaign PROVE in_flight_count(k)' <= MaxConcurrent[k]
    BY DEF CapRespected
  <2>1. CASE in_flight_count(k)' <= in_flight_count(k)
    BY <1>0, <1>1, <2>1 DEF CapRespected
  <2>2. ASSUME NEW s \in Scheduler, NEW c \in Call, claim_next_queued(s, c), sched[s].campaign = k,
               in_flight_count(k)' <= in_flight_count(k) + 1
        PROVE  in_flight_count(k)' <= MaxConcurrent[k]
    <3>1. BelowCap(k)
      BY <1>0, <1>2, <2>2 DEF GateHolds, Candidates
    <3> QED
      BY <1>1, <2>2, <3>1 DEF BelowCap
  <2> QED
    BY <2>1, <2>2, CountSteps
<1> QED
  BY <1>3, <1>4

LEMMA NextCap == OneInOrder /\ Before /\ [Next]_vars => CapInv'
<1> SUFFICES ASSUME OneInOrder, Before, [Next]_vars PROVE CapInv'
  OBVIOUS
<1>1. CASE UNCHANGED vars
  <2>1. UNCHANGED <<calls, sched, trace, inbox, processed, wp>> /\ CapInv
    BY <1>1 DEF vars, storeVars, inboxVars, Before
  <2>2. \A k : in_flight_count(k)' = in_flight_count(k)
    BY <2>1 DEF in_flight_count, InFlight, CallsOf
  <2>3. \A h : Settled(h)' <=> Settled(h)
    BY <2>1 DEF Settled, Ended
  <2>4. \A s : Candidates(s)' = Candidates(s)
    BY <2>1 DEF Candidates
  <2> QED
    BY <2>1, <2>2, <2>3, <2>4
    DEF CapInv, WaitingSettled, HeldEvents, DialPending, GateHolds, CapRespected, BelowCap
<1>2. CASE Next
  <2>1. \A e \in inbox' : e.status \in Reported
    BY <1>2, InboxSteps DEF Before, CapInv
  <2> QED
    BY <1>2, <2>1, WaitingStep, HeldStep, DialPendingStep, CapStep DEF CapInv
<1> QED
  BY <1>1, <1>2

\* With one scheduler and a provider that sends one event for each status, in
\* order, no campaign ever has more than max_concurrent calls in flight,
\* although the tick counts, picks and claims in separate transactions and the
\* processors write in between.  (Run cap_out_of_order shows that the order of
\* events is needed.)
THEOREM CapAlwaysRespected == OneInOrder => (Spec => []CapRespected)
<1> SUFFICES ASSUME OneInOrder PROVE Spec => []CapRespected
  OBVIOUS
<1>1. Init => BudgetInv /\ CapInv
  BY InitBudget, InitCap
<1>2. TypeOK /\ RollupInv /\ BudgetInv /\ [Next]_vars => BudgetInv'
  BY NextBudget
<1>3. TypeOK /\ AttemptInv /\ RollupInv /\ KeyInv /\ BudgetInv /\ CapInv /\ [Next]_vars => CapInv'
  BY NextCap DEF Before
<1>4. CapInv => CapRespected
  BY DEF CapInv
<1> QED
  BY <1>1, <1>2, <1>3, <1>4, KeyAlways, PTL DEF Spec

-----------------------------------------------------------------------------
(* Every campaign ends as CampaignEnd says                                 *)

\* A call without a dial behind it has nothing that could move it but a claim:
\* it has no handle, and no processor holds an event for it.
FreshInv ==
    /\ \A c \in Call : calls[c].status = ABSENT => calls[c].attempt_epoch = 0
    /\ \A c \in Call : calls[c].attempt_epoch = 0 =>
          calls[c].status \in {ABSENT, "QUEUED"} /\ calls[c].provider_call_id = NULL
    /\ \A p \in Processor : wp[p].pc = "apply" => wp[p].epoch # 0

LEMMA InitFresh == Init => FreshInv
BY DEF Init, StoreInit, WebhookInit, WpIdle, FreshInv

LEMMA NextFresh == TypeOK /\ RollupInv /\ FreshInv /\ [Next]_vars => FreshInv'
<1> SUFFICES ASSUME TypeOK, RollupInv, FreshInv, [Next]_vars PROVE FreshInv'
  OBVIOUS
<1>1. CASE UNCHANGED vars
  BY <1>1 DEF vars, storeVars, FreshInv
<1>2. CASE Next
  <2>1. ASSUME NEW c \in Call
        PROVE  /\ calls'[c].status = ABSENT => calls'[c].attempt_epoch = 0
               /\ calls'[c].attempt_epoch = 0 =>
                     calls'[c].status \in {ABSENT, "QUEUED"} /\ calls'[c].provider_call_id = NULL
    <3>1. calls[c].attempt_epoch \in Nat
      BY <1>2, EpochGrows
    <3>2. CASE Claimed(c)
      BY <3>1, <3>2 DEF Claimed, AttemptStarts, ABSENT
    <3>3. CASE CallStep(c)
      BY <3>1, <3>3 DEF CallStep, StatusKept, AttemptKept, AttemptStarts, HandleStored, Retried,
                        Progressed, FreshInv, ABSENT, TERMINAL_CALL_STATUSES, IN_FLIGHT
    <3> QED
      BY <1>2, <3>2, <3>3, CallSteps
  <2>2. ASSUME NEW p \in Processor, wp'[p].pc = "apply" PROVE wp'[p].epoch # 0
    <3>1. CASE wp'[p] = wp[p]
      BY <2>2, <3>1 DEF FreshInv
    <3>2. ASSUME NEW e \in Event, Known(e), wp'[p].epoch = calls[e.handle[1]].attempt_epoch
          PROVE  wp'[p].epoch # 0
      <4>1. e.handle[1] \in Call /\ e.handle # NULL
        BY NullAssumption, LimitAssumption DEF Event, Handle, Epoch
      <4> QED
        BY <3>2, <4>1 DEF Known, FreshInv
    <3> QED
      BY <1>2, <2>2, <3>1, <3>2, ProcessorHolds
  <2> QED
    BY <2>1, <2>2 DEF FreshInv
<1> QED
  BY <1>1, <1>2

\* What a step makes of a call's phase: a claim dispatches it, and otherwise a
\* fresh call stays fresh and an ended one ended.
LEMMA PhaseSteps ==
    ASSUME TypeOK, RollupInv, FreshInv, Next, NEW c \in Call, CallStep(c), calls[c].status # ABSENT
    PROVE  \/ Phase(c)' = Phase(c)
           \/ /\ Phase(c) \in {"waiting", "in_flight"}
              /\ Phase(c)' \in {"waiting", "in_flight", "ended"}
<1>0. /\ calls[c].attempt_epoch \in Nat /\ calls'[c].attempt_epoch \in Nat
      /\ calls[c].attempt_epoch <= calls'[c].attempt_epoch
  BY EpochGrows
<1>1. calls[c].status \in CallStatus /\ calls'[c].status \in CallStatus
  <2>1. TypeOK'
    BY NextType
  <2>2. calls'[c].status # ABSENT
    BY DEF CallStep, StatusKept, HandleStored, Retried, Progressed, ABSENT, TERMINAL_CALL_STATUSES,
           IN_FLIGHT
  <2> QED
    BY <2>1, <2>2 DEF TypeOK, StoreTypeOK, CallRow
<1>2. CASE StatusKept(c) /\ calls'[c].attempt_epoch = calls[c].attempt_epoch
  BY <1>2 DEF StatusKept, Phase
<1>3. CASE calls[c].attempt_epoch = 0
  <2>1. calls[c].status = "QUEUED"
    BY <1>3 DEF FreshInv
  <2>2. StatusKept(c) /\ calls'[c].attempt_epoch = calls[c].attempt_epoch
    BY <1>3, <2>1 DEF CallStep, HandleStored, Retried, Progressed, AttemptKept, FreshInv, ABSENT
  <2> QED
    BY <1>2, <2>2
<1>4. CASE calls[c].attempt_epoch # 0 /\ calls[c].status \notin TERMINAL_CALL_STATUSES
  <2>1. calls[c].attempt_epoch > 0 /\ calls'[c].attempt_epoch > 0
    BY <1>0, <1>4
  <2>2. Phase(c) \in {"waiting", "in_flight"}
    BY <1>1, <1>4, <2>1 DEF Phase, CallStatus, ACTIVE_CALL_STATUSES, TERMINAL_CALL_STATUSES,
                            IN_FLIGHT, ABSENT
  <2>3. Phase(c)' \in {"waiting", "in_flight", "ended"}
    BY <1>1, <2>1 DEF Phase, CallStatus, ACTIVE_CALL_STATUSES, TERMINAL_CALL_STATUSES, IN_FLIGHT,
                      ABSENT
  <2> QED
    BY <2>2, <2>3
<1>5. CASE calls[c].status \in TERMINAL_CALL_STATUSES
  <2>1. StatusKept(c) /\ calls'[c].attempt_epoch = calls[c].attempt_epoch
    BY <1>5 DEF CallStep, HandleStored, Retried, Progressed, AttemptKept, TERMINAL_CALL_STATUSES,
                ABSENT
  <2> QED
    BY <1>2, <2>1
<1> QED
  BY <1>3, <1>4, <1>5

LEMMA PhaseEnded ==
    ASSUME StoreTypeOK, NEW c \in Call
    PROVE  Phase(c) = "ended" <=> calls[c].status \in TERMINAL_CALL_STATUSES
<1>1. calls[c].status \in CallStatus \cup {ABSENT} /\ calls[c].attempt_epoch \in Nat
  BY LimitAssumption DEF StoreTypeOK, CallRow, Epoch
<1> QED
  BY <1>1 DEF Phase, CallStatus, ACTIVE_CALL_STATUSES, TERMINAL_CALL_STATUSES, IN_FLIGHT, ABSENT

LEMMA PhaseEndedNext ==
    ASSUME StoreTypeOK', NEW c \in Call
    PROVE  Phase(c)' = "ended" <=> calls'[c].status \in TERMINAL_CALL_STATUSES
<1>1. calls'[c].status \in CallStatus \cup {ABSENT} /\ calls'[c].attempt_epoch \in Nat
  BY LimitAssumption DEF StoreTypeOK, CallRow, Epoch
<1> QED
  BY <1>1 DEF Phase, CallStatus, ACTIVE_CALL_STATUSES, TERMINAL_CALL_STATUSES, IN_FLIGHT, ABSENT

\* A campaign stands still when its status and the phases of its calls do.
LEMMA StandsStill ==
    ASSUME NEW k \in Campaign, Standing(k)' = Standing(k),
           \A c \in CallsOf(k) : Phase(c)' = Phase(c)
    PROVE  UNCHANGED <<Phases(k), Standing(k)>>
<1>1. Phases(k)' = [c \in CallsOf(k) |-> Phase(c)']
  BY DEF Phases, CallsOf
<1>2. Phases(k)' = Phases(k)
  BY <1>1 DEF Phases
<1> QED
  BY <1>2

\* One row of campaign k is written, within its attempts.
LEMMA WriteEnds ==
    ASSUME TypeOK, RollupInv, FreshInv, Next, NEW k \in Campaign, NEW c \in CallsOf(k), CallStep(c),
           calls[c].status # ABSENT,
           \A d \in Call \ {c} : calls'[d] = calls[d],
           campaigns'[k] = campaigns[k] \/ campaigns'[k] \in {"COMPLETED", "FAILED"}
    PROVE  Ends(k)!Next \/ UNCHANGED <<Phases(k), Standing(k)>>
<1>0. StoreTypeOK /\ StoreTypeOK' /\ RollupExact /\ RollupExact' /\ c \in Call
  BY NextType, StoreNextRollup DEF TypeOK, RollupInv, StoreRollup, CallsOf
<1>1. /\ campaigns[k] \in {"COMPLETED", "FAILED"} <=> CampaignDone(k)
      /\ campaigns'[k] \in {"COMPLETED", "FAILED"} <=> CampaignDone(k)'
  BY <1>0 DEF RollupExact
<1>2. \A d \in CallsOf(k) \ {c} : Phase(d)' = Phase(d)
  BY DEF CallsOf, Phase
<1>3. CampaignDone(k) <=> \A d \in CallsOf(k) : Phase(d) = "ended"
  BY <1>0, PhaseEnded DEF CampaignDone, CallsOf
<1>4. CampaignDone(k)' <=> \A d \in CallsOf(k) : Phase(d)' = "ended"
  BY <1>0, PhaseEndedNext DEF CampaignDone, CallsOf
<1>5. CASE Phase(c)' = Phase(c)
  <2>1. Standing(k)' = Standing(k)
    BY <1>1, <1>2, <1>3, <1>4, <1>5 DEF Standing
  <2> QED
    BY <1>2, <1>5, <2>1, StandsStill
<1>6. CASE /\ Phase(c) \in {"waiting", "in_flight"}
           /\ Phase(c)' \in {"waiting", "in_flight", "ended"}
  <2>1. Phases(k)' = [Phases(k) EXCEPT ![c] = Phase(c)'] /\ Phases(k)[c] = Phase(c)
    <3>1. Phases(k)' = [d \in CallsOf(k) |-> Phase(d)']
      BY DEF Phases, CallsOf
    <3> QED
      BY <1>2, <3>1 DEF Phases
  <2>2. \A d \in CallsOf(k) : Phases(k)[d] = Phase(d)
    BY DEF Phases
  <2>3. ~CampaignDone(k)
    BY <1>3, <1>6
  <2>4. CASE Phase(c)' # "ended"
    <3>1. campaigns'[k] = campaigns[k]
      BY <1>1, <1>4, <2>4
    <3>2. UNCHANGED Standing(k)
      BY <3>1 DEF Standing
    <3> QED
      BY <1>6, <2>1, <2>4, <3>2 DEF Ends!Next, Ends!Move
  <2>5. CASE Phase(c)' = "ended"
    <3>1. CampaignDone(k)' <=> \A d \in CallsOf(k) \ {c} : Phases(k)[d] = "ended"
      BY <1>2, <1>4, <2>2, <2>5
    <3>2. Standing(k)' = IF \A d \in CallsOf(k) \ {c} : Phases(k)[d] = "ended"
                         THEN "FOLDED" ELSE Standing(k)
      BY <1>1, <2>3, <3>1 DEF Standing
    <3> QED
      BY <1>6, <2>1, <2>5, <3>2 DEF Ends!Next, Ends!End
  <2> QED
    BY <2>4, <2>5
<1> QED
  BY <1>0, <1>5, <1>6, PhaseSteps

\* The claim of a call of campaign k is its dispatch.
LEMMA ClaimEnds ==
    ASSUME TypeOK, RollupInv, FreshInv, Next, NEW s \in Scheduler, NEW c \in Call,
           claim_next_queued(s, c), NEW k \in Campaign, CampaignOf[c] = k
    PROVE  Ends(k)!Next
<1>0. StoreTypeOK /\ StoreTypeOK' /\ StoreRollup /\ StoreRollup' /\ c \in CallsOf(k)
  BY NextType, ClaimRollup DEF TypeOK, RollupInv, CallsOf
<1>1. /\ calls[c].status = "QUEUED" /\ calls'[c].status = "DIALING"
      /\ \A d \in Call \ {c} : calls'[d] = calls[d]
  BY <1>0 DEF claim_next_queued, Claimable, ClaimedRow, StoreTypeOK, CallRow
<1>2. campaigns[k] \in {"PENDING", "ACTIVE"}
  <2>1. ~CampaignDone(k)
    BY <1>0, <1>1 DEF CampaignDone, TERMINAL_CALL_STATUSES
  <2> QED
    BY <1>0, <1>1, <2>1 DEF StoreRollup, RollupExact, StoreTypeOK, CampaignStatus, ABSENT
<1>3. campaigns'[k] = "ACTIVE"
  <2>1. ~CampaignDone(k)'
    BY <1>0, <1>1 DEF CampaignDone, CallsOf, TERMINAL_CALL_STATUSES
  <2> QED
    BY <1>0, <1>1, <2>1 DEF StoreRollup, RollupExact, StoreTypeOK, CampaignStatus, ABSENT
<1>4. Standing(k)' = IF Standing(k) = "PENDING" THEN "ACTIVE" ELSE Standing(k)
  BY <1>2, <1>3 DEF Standing
<1>5. Phase(c) \in {"fresh", "waiting"} /\ Phase(c)' = "in_flight"
  <2>1. calls[c].attempt_epoch \in Nat
    BY <1>0, LimitAssumption DEF StoreTypeOK, CallRow, Epoch
  <2> QED
    BY <1>1, <2>1 DEF Phase, IN_FLIGHT, ABSENT, TERMINAL_CALL_STATUSES
<1>6. Phases(k)' = [Phases(k) EXCEPT ![c] = "in_flight"] /\ Phases(k)[c] = Phase(c)
  <2>1. Phases(k)' = [d \in CallsOf(k) |-> Phase(d)']
    BY DEF Phases, CallsOf
  <2>2. \A d \in CallsOf(k) \ {c} : Phase(d)' = Phase(d)
    BY <1>1 DEF CallsOf, Phase
  <2> QED
    BY <1>0, <1>5, <2>1, <2>2 DEF Phases
<1> QED
  BY <1>0, <1>4, <1>5, <1>6 DEF Ends!Next, Ends!Dispatch

\* The insert of campaign k is its creation.
LEMMA CreateEnds ==
    ASSUME TypeOK, RollupInv, FreshInv, NEW k \in Campaign, create_campaign(k)
    PROVE  Ends(k)!Next
<1>0. StoreTypeOK /\ StoreRollup
  BY DEF TypeOK, RollupInv
<1>1. campaigns[k] = ABSENT /\ campaigns'[k] = "PENDING"
  BY <1>0 DEF create_campaign, StoreTypeOK
<1>2. ASSUME NEW c \in CallsOf(k) PROVE Phase(c)' = "fresh"
  <2>1. c \in Call /\ CampaignOf[c] = k
    BY DEF CallsOf
  <2>2. calls[c].attempt_epoch = 0
    BY <1>0, <1>1, <2>1 DEF StoreRollup, FreshInv
  <2>3. calls'[c] = [calls[c] EXCEPT !.status = "QUEUED"] /\ calls[c] \in CallRow
    BY <1>0, <2>1 DEF create_campaign, create_batch, StoreTypeOK
  <2>4. calls'[c].status = "QUEUED" /\ calls'[c].attempt_epoch = 0
    BY <2>2, <2>3 DEF CallRow
  <2> QED
    BY <2>4 DEF Phase, ABSENT, IN_FLIGHT, TERMINAL_CALL_STATUSES
<1>3. Phases(k)' = [c \in CallsOf(k) |-> "fresh"]
  BY <1>2 DEF Phases, CallsOf
<1>4. Standing(k) = "ABSENT" /\ Standing(k)' = "PENDING"
  BY <1>1 DEF Standing, ABSENT
<1> QED
  BY <1>3, <1>4 DEF Ends!Next, Ends!Create

\* Every step is, for each campaign, a step of CampaignEnd or none.
LEMMA NextEnds ==
    ASSUME TypeOK, RollupInv, FreshInv, Next, NEW k \in Campaign
    PROVE  Ends(k)!Next \/ UNCHANGED <<Phases(k), Standing(k)>>
<1>0. StoreTypeOK /\ StoreRollup /\ LocalRollup
  BY DEF TypeOK, RollupInv
<1>1. ASSUME campaigns'[k] = campaigns[k],
             \A c \in CallsOf(k) :
                /\ calls'[c].status = calls[c].status
                /\ calls'[c].attempt_epoch = calls[c].attempt_epoch
      PROVE  UNCHANGED <<Phases(k), Standing(k)>>
  <2>1. Standing(k)' = Standing(k) /\ \A c \in CallsOf(k) : Phase(c)' = Phase(c)
    BY <1>1 DEF Standing, Phase
  <2> QED
    BY <2>1, StandsStill
<1>2. CASE UNCHANGED <<calls, campaigns>>
  BY <1>1, <1>2
<1>3. ASSUME NEW j \in Campaign, create_campaign(j)
      PROVE  Ends(k)!Next \/ UNCHANGED <<Phases(k), Standing(k)>>
  <2>1. CASE j = k
    BY <1>3, <2>1, CreateEnds
  <2>2. CASE j # k
    <3>1. campaigns'[k] = campaigns[k] /\ \A c \in CallsOf(k) : calls'[c] = calls[c]
      BY <1>0, <1>3, <2>2 DEF create_campaign, create_batch, CallsOf, StoreTypeOK
    <3> QED
      BY <1>1, <3>1
  <2> QED
    BY <2>1, <2>2
<1>4. ASSUME NEW c \in Call, BackoffElapses(c) \/ age_dialing(c)
      PROVE  UNCHANGED <<Phases(k), Standing(k)>>
  <2>1. UNCHANGED campaigns
    BY <1>4 DEF BackoffElapses, age_dialing
  <2>2. ASSUME NEW d \in Call
        PROVE  calls'[d].status = calls[d].status /\ calls'[d].attempt_epoch = calls[d].attempt_epoch
    <3>1. calls[d] \in CallRow /\ calls \in [Call -> CallRow]
      BY <1>0 DEF StoreTypeOK
    <3>2. \/ calls'[d] = [calls[d] EXCEPT !.next_attempt_at = "past"]
          \/ calls'[d] = [calls[d] EXCEPT !.aged = TRUE]
          \/ calls'[d] = calls[d]
      BY <1>4, <3>1 DEF BackoffElapses, age_dialing
    <3> QED
      BY <3>1, <3>2 DEF CallRow
  <2>3. CallsOf(k) \subseteq Call
    BY DEF CallsOf
  <2> QED
    BY <1>1, <2>1, <2>2, <2>3
<1>5. ASSUME NEW s \in Scheduler, NEW c \in Call, claim_next_queued(s, c)
      PROVE  Ends(k)!Next \/ UNCHANGED <<Phases(k), Standing(k)>>
  <2>1. CASE CampaignOf[c] = k
    BY <1>5, <2>1, ClaimEnds
  <2>2. CASE CampaignOf[c] # k
    <3>1. sched[s].campaign = CampaignOf[c] /\ CampaignOf[c] \in Campaign
      BY <1>5, CallAssumption DEF claim_next_queued, Claimable, CallsOf
    <3>2. campaigns'[k] = campaigns[k]
      BY <1>0, <1>5, <2>2, <3>1 DEF claim_next_queued, maybe_promote_to_active, StoreTypeOK
    <3>3. \A d \in CallsOf(k) : calls'[d] = calls[d]
      BY <1>0, <1>5, <2>2 DEF claim_next_queued, CallsOf, StoreTypeOK
    <3> QED
      BY <1>1, <3>2, <3>3
  <2> QED
    BY <2>1, <2>2
<1>6. CASE Transitioned
  <2>1. PICK c \in Call, row \in CallRow :
            \/ Requeued(c, row) \/ Swept(c, row)
            \/ \E s \in Scheduler : ResultStored(s, c, row)
            \/ \E p \in Processor : EventApplied(p, c, row)
    BY <1>6 DEF Transitioned
  <2>2. CallStep(c) /\ \A d \in Call \ {c} : calls'[d] = calls[d]
    BY <1>0, <2>1, TransitionStep
  <2>3. PICK es, ee : /\ transition(c, es, ee, row)
                      /\ es \in {"DIALING", "RETRY_PENDING"} \/ campaigns[CampaignOf[c]] # ABSENT
    BY <1>0, <2>1 DEF Requeued, Swept, ResultStored, EventApplied, LocalRollup
  <2>4. CASE ~UNCHANGED <<calls, campaigns>>
    <3>1. calls[c].status # ABSENT
      BY <1>0, <2>3, <2>4, TransitionFields DEF StoreRollup, ABSENT
    <3>2. \A j \in Campaign :
             \/ campaigns'[j] = campaigns[j]
             \/ j = CampaignOf[c] /\ campaigns'[j] \in {"COMPLETED", "FAILED"}
      BY <1>0, <2>3, <2>4, TransitionCases DEF maybe_transition_campaign_terminal, StoreTypeOK
    <3>3. CASE CampaignOf[c] = k
      <4>1. c \in CallsOf(k)
        BY <3>3 DEF CallsOf
      <4> QED
        BY <2>2, <3>1, <3>2, <4>1, WriteEnds
    <3>4. CASE CampaignOf[c] # k
      <4>1. \A d \in CallsOf(k) : calls'[d] = calls[d]
        BY <2>2, <3>4 DEF CallsOf
      <4> QED
        BY <1>1, <3>2, <3>4, <4>1
    <3> QED
      BY <3>3, <3>4
  <2> QED
    BY <1>2, <2>4
<1> QED
  BY <1>2, <1>3, <1>4, <1>5, <1>6, StoreSteps

LEMMA FreshAlways == Spec => [](TypeOK /\ RollupInv /\ FreshInv)
<1>1. Init => FreshInv
  BY InitFresh
<1>2. TypeOK /\ RollupInv /\ FreshInv /\ [Next]_vars => FreshInv'
  BY NextFresh
<1> QED
  BY <1>1, <1>2, RollupAlways, PTL DEF Spec

LEMMA InitEnds ==
    ASSUME Init, NEW k \in Campaign
    PROVE  Ends(k)!Init
<1>1. Phases(k) = [c \in CallsOf(k) |-> "absent"]
  <2>1. ASSUME NEW c \in CallsOf(k) PROVE Phase(c) = "absent"
    <3>1. calls[c].status = ABSENT
      BY DEF Init, StoreInit, CallsOf
    <3> QED
      BY <3>1 DEF Phase, ABSENT, IN_FLIGHT, TERMINAL_CALL_STATUSES
  <2> QED
    BY <2>1 DEF Phases
<1>2. Standing(k) = "ABSENT"
  BY DEF Init, StoreInit, Standing, ABSENT
<1> QED
  BY <1>1, <1>2 DEF Ends!Init

\* The dialer implements CampaignEnd for every campaign at once: the system as
\* it runs, with its ticks, processors and sweeps, never shows a campaign and
\* its calls in an order that the atomic specification of their end does not
\* allow.
THEOREM DialerEndsCampaigns == Spec => CampaignsEnd
<1> DEFINE Begins == \A k \in Campaign : Ends(k)!Init
           Steps  == \A k \in Campaign : Ends(k)!Next \/ UNCHANGED <<Phases(k), Standing(k)>>
<1>1. Init => Begins
  BY InitEnds
<1>2. TypeOK /\ RollupInv /\ FreshInv /\ [Next]_vars => [Steps]_vars
  BY NextEnds
<1>3. Begins /\ [][Steps]_vars => CampaignsEnd
  BY DEF CampaignsEnd
<1> HIDE DEF Begins, Steps
<1> QED
  BY <1>1, <1>2, <1>3, FreshAlways, PTL DEF Spec

\* The same, as the refinement of one campaign.
THEOREM DialerImplementsCampaignEnd ==
    ASSUME NEW k \in Campaign
    PROVE  Spec => Ends(k)!Spec
<1>1. Init => Ends(k)!Init
  BY InitEnds
<1>2. TypeOK /\ RollupInv /\ FreshInv /\ [Next]_vars =>
         [Ends(k)!Next]_<<Phases(k), Standing(k)>>
  <2>1. CASE UNCHANGED vars
    <3>1. UNCHANGED <<calls, campaigns>>
      BY <2>1 DEF vars, storeVars
    <3>2. Standing(k)' = Standing(k) /\ \A c \in CallsOf(k) : Phase(c)' = Phase(c)
      BY <3>1 DEF Standing, Phase
    <3> QED
      BY <3>2, StandsStill
  <2> QED
    BY <2>1, NextEnds
<1> QED
  BY <1>1, <1>2, FreshAlways, PTL DEF Spec, Ends!Spec

=============================================================================

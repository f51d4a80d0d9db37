---------------------------- MODULE AttemptProofs ----------------------------
(***************************************************************************)
(* Every write to a call belongs to the attempt the call is in: proofs of  *)
(* HandleCurrent, OutcomeIsReal and StaleAttemptNeverApplied.              *)
(***************************************************************************)
EXTENDS DialerProofs

\* Handles, snapshots, events and verdicts all agree on the attempt they are
\* about: the handle of a row names its current attempt; a processor holds an
\* event of the attempt it read; a reclaim task holds the handle of the epoch
\* it found; what the inbox, a verdict or a finished row reports was reported
\* by the provider for that attempt.
AttemptInv ==
    /\ HandleCurrent
    /\ \A p \in Processor : wp[p].pc = "apply" => wp[p].event.handle[2] = wp[p].epoch
    /\ \A c \in Call : rc[c].handle \in {NULL, <<c, rc[c].epoch>>}
    /\ \A e \in inbox : e.status \in trace[e.handle]
    /\ \A c \in Call : rc[c].verdict # NULL => rc[c].verdict \in trace[<<c, rc[c].epoch>>]
    /\ OutcomeIsReal

LEMMA InitAttempt == Init => AttemptInv
BY DEF Init, StoreInit, WebhookInit, ReclaimInit, AttemptInv, HandleCurrent, OutcomeIsReal,
       WpIdle, RcIdle, ABSENT, TERMINAL_CALL_STATUSES

\* A call of state.transition keeps the handles and the outcomes right when
\* the row it would write has them right.
LEMMA TransitionAttempt ==
    ASSUME StoreTypeOK, NEW c \in Call, NEW es, NEW ee, NEW row \in CallRow,
           transition(c, es, ee, row), HandleCurrent, OutcomeIsReal, UNCHANGED trace,
           calls[c].status = es /\ calls[c].attempt_epoch = ee =>
              /\ row.provider_call_id \in {NULL, <<c, row.attempt_epoch>>}
              /\ row.status \in TERMINAL_CALL_STATUSES \ {"FAILED"} =>
                    row.status \in trace[<<c, row.attempt_epoch>>]
    PROVE  HandleCurrent' /\ OutcomeIsReal'
<1>1. CASE UNCHANGED <<calls, campaigns>>
  BY <1>1 DEF HandleCurrent, OutcomeIsReal
<1>2. CASE ~UNCHANGED <<calls, campaigns>>
  <2>1. /\ calls[c].status = es /\ calls[c].attempt_epoch = ee
        /\ calls'[c].status = row.status
        /\ calls'[c].attempt_epoch = row.attempt_epoch
        /\ calls'[c].provider_call_id = row.provider_call_id
        /\ \A d \in Call \ {c} : calls'[d] = calls[d]
    BY <1>2, TransitionFields
  <2> QED
    BY <2>1 DEF HandleCurrent, OutcomeIsReal
<1> QED
  BY <1>1, <1>2

\* The provider's calls only ever gain statuses.
LEMMA TraceGrows ==
    ASSUME TypeOK, NEW h \in Handle, NEW status
    PROVE  /\ Accept(h) => \A g \in Handle : trace[g] \subseteq trace'[g]
           /\ Answer(h) => \A g \in Handle : trace[g] \subseteq trace'[g]
           /\ Finish(h, status) => \A g \in Handle : trace[g] \subseteq trace'[g]
BY DEF Accept, Answer, Finish, TypeOK, ProviderTypeOK

\* AttemptInv only speaks of the provider through what it has reported.
LEMMA TraceStepAttempt ==
    ASSUME TypeOK, AttemptInv, UNCHANGED <<calls, inbox, wp, rc>>,
           \A g \in Handle : trace[g] \subseteq trace'[g]
    PROVE  AttemptInv'
<1>1. \A c \in Call : <<c, calls[c].attempt_epoch>> \in Handle /\ <<c, rc[c].epoch>> \in Handle
  BY DEF TypeOK, StoreTypeOK, CallRow, ReclaimTypeOK, RcLocal, Handle
<1>2. \A e \in inbox : e.handle \in Handle
  BY DEF TypeOK, WebhookTypeOK, Event
<1> QED
  BY <1>1, <1>2 DEF AttemptInv, HandleCurrent, OutcomeIsReal

LEMMA EnvAttempt == TypeOK /\ AttemptInv /\ EnvNext => AttemptInv'
<1> SUFFICES ASSUME TypeOK, AttemptInv, EnvNext PROVE AttemptInv'
  OBVIOUS
<1>1. UNCHANGED <<trace, inbox, wp, rc>>
  BY DEF EnvNext, inboxVars
<1>2. ASSUME NEW c \in Call
      PROVE  /\ calls'[c].provider_call_id = calls[c].provider_call_id
             /\ calls'[c].attempt_epoch = calls[c].attempt_epoch
             /\ calls'[c].status \in {calls[c].status, "QUEUED"}
  BY DEF EnvNext, create_campaign, create_batch, BackoffElapses, age_dialing, TypeOK, StoreTypeOK, CallRow
<1> QED
  BY <1>1, <1>2 DEF AttemptInv, HandleCurrent, OutcomeIsReal, TERMINAL_CALL_STATUSES

LEMMA ProviderAttempt == TypeOK /\ AttemptInv /\ ProviderNext => AttemptInv'
<1> SUFFICES ASSUME TypeOK, AttemptInv, ProviderNext PROVE AttemptInv'
  OBVIOUS
<1>1. UNCHANGED <<calls, inbox, wp, rc>>
  BY DEF ProviderNext, storeVars, inboxVars
<1>2. \A g \in Handle : trace[g] \subseteq trace'[g]
  BY TraceGrows DEF ProviderNext
<1> QED
  BY <1>1, <1>2, TraceStepAttempt

\* A step of the scheduler: the claim starts a new attempt without a handle,
\* and Phase 3 stores the handle only in the attempt it was obtained for.
LEMMA SchedAttempt == \A s \in Scheduler : TypeOK /\ AttemptInv /\ SchedNext(s) => AttemptInv'
<1> SUFFICES ASSUME NEW s \in Scheduler, TypeOK, AttemptInv, SchedNext(s) PROVE AttemptInv'
  OBVIOUS
<1>0. StoreTypeOK /\ HandleCurrent /\ OutcomeIsReal /\ UNCHANGED <<inbox, wp, rc>>
  BY DEF TypeOK, AttemptInv, SchedNext, TickStep, inboxVars
<1>1. CASE UNCHANGED storeVars /\ \A g \in Handle : trace[g] \subseteq trace'[g]
  BY <1>0, <1>1, TraceStepAttempt DEF storeVars
<1>2. CASE UNCHANGED trace /\ HandleCurrent' /\ OutcomeIsReal'
  BY <1>0, <1>2 DEF AttemptInv
<1>3. CASE UNCHANGED <<storeVars, trace>>
  BY <1>1, <1>3
<1>4. CASE requeue_oldest_retry_due(s)
  <2>1. UNCHANGED trace
    BY <1>4 DEF requeue_oldest_retry_due
  <2>2. CASE UNCHANGED <<calls, campaigns>>
    BY <1>0, <1>2, <2>1, <2>2 DEF HandleCurrent, OutcomeIsReal
  <2>3. ASSUME NEW c \in Requeueable(sched[s].campaign),
               transition(c, "RETRY_PENDING", calls[c].attempt_epoch,
                          [calls[c] EXCEPT !.status = "QUEUED"])
        PROVE  AttemptInv'
    <3> DEFINE row == [calls[c] EXCEPT !.status = "QUEUED"]
    <3>1. c \in Call /\ calls[c] \in CallRow
      BY <1>0 DEF Requeueable, CallsOf, StoreTypeOK
    <3>2. row \in CallRow
      BY <3>1, RowWithStatus DEF CallStatus, ACTIVE_CALL_STATUSES
    <3>3. row.provider_call_id \in {NULL, <<c, row.attempt_epoch>>}
          /\ row.status \notin TERMINAL_CALL_STATUSES
      BY <1>0, <3>1 DEF HandleCurrent, CallRow, TERMINAL_CALL_STATUSES
    <3> HIDE DEF row
    <3>4. HandleCurrent' /\ OutcomeIsReal'
      BY <1>0, <2>1, <2>3, <3>1, <3>2, <3>3, TransitionAttempt DEF row
    <3> QED
      BY <1>2, <2>1, <3>4
  <2> QED
    BY <1>4, <2>2, <2>3 DEF requeue_oldest_retry_due
<1>5. ASSUME NEW c \in Call, claim_next_queued(s, c) PROVE AttemptInv'
  <2>1. UNCHANGED trace /\ calls' = [calls EXCEPT ![c] = ClaimedRow(c)]
    BY <1>5 DEF claim_next_queued
  <2>2. ClaimedRow(c).provider_call_id = NULL /\ ClaimedRow(c).status = "DIALING"
    BY <1>0 DEF ClaimedRow, StoreTypeOK, CallRow
  <2>3. HandleCurrent' /\ OutcomeIsReal'
    BY <1>0, <2>1, <2>2
    DEF HandleCurrent, OutcomeIsReal, StoreTypeOK, TERMINAL_CALL_STATUSES
  <2> QED
    BY <1>2, <2>1, <2>3
<1>6. ASSUME NEW outcome \in DialOutcome, dial(s, outcome) PROVE AttemptInv'
  <2>1. UNCHANGED storeVars /\ DialedKey(s) \in Handle
    BY <1>6 DEF dial, DialedKey, Handle, TypeOK, SchedTypeOK, SchedLocal
  <2>2. \A g \in Handle : trace[g] \subseteq trace'[g]
    BY <1>6, <2>1, TraceGrows DEF dial, place_call
  <2> QED
    BY <1>1, <2>1, <2>2
<1>7. CASE apply_result(s)
  <2> DEFINE c == sched[s].call
  <2>1. c \in Call /\ calls[c] \in CallRow /\ sched[s] \in SchedLocal
        /\ sched[s].outcome \in DialOutcome /\ UNCHANGED trace
    BY <1>7 DEF apply_result, TypeOK, SchedTypeOK, StoreTypeOK
  <2>2. CASE sched[s].outcome = "OK"
    <3> DEFINE row == [calls[c] EXCEPT !.status = "DIALING", !.provider_call_id = DialedKey(s)]
    <3>1. DialedKey(s) \in Handle /\ DialedKey(s) = <<c, sched[s].epoch>>
      BY <2>1 DEF DialedKey, Handle, SchedLocal
    <3>2. row \in CallRow /\ row.status = "DIALING" /\ row.provider_call_id = DialedKey(s)
          /\ row.attempt_epoch = calls[c].attempt_epoch
      BY <2>1, <3>1 DEF CallRow, CallStatus, ACTIVE_CALL_STATUSES
    <3>3. transition(c, "DIALING", sched[s].epoch, row)
      BY <1>7, <2>2 DEF apply_result
    <3> HIDE DEF row
    <3>4. row.status \notin TERMINAL_CALL_STATUSES
      BY <3>2 DEF TERMINAL_CALL_STATUSES
    <3>5. HandleCurrent' /\ OutcomeIsReal'
      BY <1>0, <2>1, <3>1, <3>2, <3>3, <3>4, TransitionAttempt
    <3> QED
      BY <1>2, <2>1, <3>5
  <2>3. CASE sched[s].outcome # "OK"
    <3> DEFINE outcome == IF sched[s].outcome = "REJECTED" THEN "FAILED" ELSE sched[s].outcome
    <3>1. outcome \in {"FAILED", "UNAVAILABLE"} /\ sched[s].retries \in Nat
      BY <2>1, <2>3 DEF DialOutcome, SchedLocal
    <3>2. apply_retryable_outcome(c, "DIALING", sched[s].epoch, sched[s].retries, outcome)
      BY <1>7, <2>3 DEF apply_result
    <3> HIDE DEF outcome
    <3>3. PICK row \in CallRow :
              /\ transition(c, "DIALING", sched[s].epoch, row)
              /\ row.attempt_epoch = calls[c].attempt_epoch
              /\ row.provider_call_id = calls[c].provider_call_id
              /\ row.status \in TERMINAL_CALL_STATUSES \ {"FAILED"} => row.status = outcome
      <4>1. outcome \in TERMINAL_CALL_STATUSES \cup {"UNAVAILABLE"}
        BY <3>1 DEF TERMINAL_CALL_STATUSES
      <4> QED
        BY <1>0, <2>1, <3>1, <3>2, <4>1, RetryableRow
    <3>4. row.status \notin TERMINAL_CALL_STATUSES \ {"FAILED"}
      BY <3>1, <3>3 DEF TERMINAL_CALL_STATUSES
    <3>5. row.provider_call_id \in {NULL, <<c, row.attempt_epoch>>}
      BY <1>0, <2>1, <3>3 DEF HandleCurrent
    <3>6. HandleCurrent' /\ OutcomeIsReal'
      BY <1>0, <2>1, <3>3, <3>4, <3>5, TransitionAttempt
    <3> QED
      BY <1>2, <2>1, <3>6
  <2> QED
    BY <2>2, <2>3
<1> QED
  BY <1>3, <1>4, <1>5, <1>6, <1>7
  DEF SchedNext, TickStep, tick_idle, tick, concurrency_gate, pick, requeue_conflict,
      claim_nothing, tick_fails

\* A step of the webhook route or of a processor: what a processor read and
\* what it applies belong to one attempt, whatever committed in between.
LEMMA WebhookAttempt ==
    ASSUME TypeOK, AttemptInv, IngestNext \/ \E p \in Processor : ProcessorNext(p)
    PROVE  AttemptInv'
<1>0. StoreTypeOK /\ HandleCurrent /\ OutcomeIsReal
  BY DEF TypeOK, AttemptInv
<1>1. CASE IngestNext
  <2>1. PICK e \in Event : handle_webhook_ingest(e)
    BY <1>1 DEF IngestNext
  <2>2. UNCHANGED <<calls, trace, rc, wp>> /\ inbox' = inbox \cup {e} /\ e.status \in trace[e.handle]
    BY <1>1, <2>1 DEF IngestNext, handle_webhook_ingest, insert, storeVars
  <2> QED
    BY <2>2 DEF AttemptInv, HandleCurrent, OutcomeIsReal
<1>2. ASSUME NEW p \in Processor, ProcessorNext(p) PROVE AttemptInv'
  <2>1. UNCHANGED <<rc, trace, inbox>>
    BY <1>2 DEF ProcessorNext, process_ignored, process_read, process_apply, process_fails, inboxVars
  <2>2. CASE \E e \in Event : process_ignored(p, e)
    BY <2>1, <2>2 DEF process_ignored, storeVars, AttemptInv, HandleCurrent, OutcomeIsReal
  <2>3. CASE process_fails(p)
    BY <2>1, <2>3 DEF process_fails, storeVars, WpIdle, TypeOK, WebhookTypeOK,
                      AttemptInv, HandleCurrent, OutcomeIsReal
  <2>4. ASSUME NEW e \in Event, process_read(p, e) PROVE AttemptInv'
    <3> DEFINE c == e.handle[1]
    <3> DEFINE l == [pc |-> "apply", event |-> e, status |-> calls[c].status,
                     epoch |-> calls[c].attempt_epoch, retries |-> calls[c].retries_remaining]
    <3>1. UNCHANGED calls /\ wp' = [wp EXCEPT ![p] = l] /\ Known(e)
      BY <2>4 DEF process_read, storeVars
    <3>2. e.handle \in Handle /\ c \in Call /\ e.handle # NULL
      BY NullAssumption, LimitAssumption DEF Event, Handle, Epoch
    <3>3. calls[c].provider_call_id = <<c, calls[c].attempt_epoch>>
      BY <1>0, <3>1, <3>2 DEF Known, HandleCurrent
    <3>4. l.event.handle[2] = l.epoch
      <4>1. e.handle = <<c, calls[c].attempt_epoch>>
        BY <3>1, <3>3 DEF Known
      <4> HIDE DEF c
      <4>2. e.handle[2] = calls[c].attempt_epoch
        BY <4>1
      <4> QED
        BY <4>2
    <3> QED
      BY <2>1, <3>1, <3>4 DEF TypeOK, WebhookTypeOK, AttemptInv, HandleCurrent, OutcomeIsReal
  <2>5. CASE process_apply(p)
    <3> DEFINE l == wp[p]
               c == l.event.handle[1]
    <3>1. l \in WpLocal /\ l.event \in inbox /\ l.event \in Event /\ l.pc = "apply"
      BY <2>5 DEF process_apply, TypeOK, WebhookTypeOK
    <3>2. c \in Call /\ calls[c] \in CallRow /\ l.event.status \in EventStatus
          /\ l.event.handle = <<c, l.epoch>>
      BY <1>0, <3>1 DEF Event, Handle, StoreTypeOK, AttemptInv
    <3>3. l.event.status \in trace[<<c, l.epoch>>]
      BY <3>1, <3>2 DEF AttemptInv
    <3>4. HandleCurrent' /\ OutcomeIsReal'
      <4>1. CASE l.event.status \in TERMINAL_CALL_STATUSES
        <5>1. l.retries \in Nat
          BY <3>1 DEF WpLocal
        <5>2. apply_retryable_outcome(c, l.status, l.epoch, l.retries, l.event.status)
          BY <2>5, <4>1 DEF process_apply
        <5>3. PICK row \in CallRow :
                  /\ transition(c, l.status, l.epoch, row)
                  /\ row.attempt_epoch = calls[c].attempt_epoch
                  /\ row.provider_call_id = calls[c].provider_call_id
                  /\ row.status \in TERMINAL_CALL_STATUSES \ {"FAILED"} =>
                        row.status = l.event.status
          BY <1>0, <3>2, <4>1, <5>1, <5>2, RetryableRow
        <5>4. row.provider_call_id \in {NULL, <<c, row.attempt_epoch>>}
          BY <1>0, <3>2, <5>3 DEF HandleCurrent
        <5> HIDE DEF l, c
        <5> QED
          BY <1>0, <2>1, <3>2, <3>3, <5>3, <5>4, TransitionAttempt
      <4>2. CASE l.event.status \notin TERMINAL_CALL_STATUSES
        <5> DEFINE row == [calls[c] EXCEPT !.status = l.event.status]
        <5>1. transition(c, l.status, l.epoch, row)
          BY <2>5, <4>2 DEF process_apply
        <5>2. l.event.status \in CallStatus
          BY <3>2, <4>2 DEF EventStatus, CallStatus, ACTIVE_CALL_STATUSES
        <5>3. row \in CallRow /\ row.status = l.event.status
              /\ row.provider_call_id \in {NULL, <<c, row.attempt_epoch>>}
          BY <1>0, <3>2, <5>2, RowWithStatus DEF CallRow, HandleCurrent
        <5> HIDE DEF l, c, row
        <5> QED
          BY <1>0, <2>1, <3>2, <4>2, <5>1, <5>3, TransitionAttempt
      <4> QED
        BY <4>1, <4>2
    <3>5. wp' = [wp EXCEPT ![p] = WpIdle]
      BY <2>5 DEF process_apply
    <3> QED
      BY <2>1, <3>4, <3>5 DEF AttemptInv, WpIdle, TypeOK, WebhookTypeOK
  <2> QED
    BY <1>2, <2>2, <2>3, <2>4, <2>5 DEF ProcessorNext
<1> QED
  BY <1>1, <1>2

\* A step of the reclaim sweep: a verdict is about the epoch the sweep found,
\* and taking a row back clears its handle.
LEMMA ReclaimAttempt == TypeOK /\ AttemptInv /\ ReclaimNext => AttemptInv'
<1> SUFFICES ASSUME TypeOK, AttemptInv, ReclaimNext PROVE AttemptInv'
  OBVIOUS
<1>0. StoreTypeOK /\ HandleCurrent /\ OutcomeIsReal /\ rc \in [Call -> RcLocal]
  BY DEF TypeOK, ReclaimTypeOK, AttemptInv
<1>1. UNCHANGED <<inbox, wp, trace>>
  BY DEF ReclaimNext, SweepBegins, SweepStep, stuck_reclaim_sweep, best_effort_get_status,
         apply_terminal, apply_reclaim, reclaim_fails, inboxVars
<1>2. CASE SweepBegins
  <2>1. UNCHANGED calls
    BY <1>2 DEF SweepBegins, stuck_reclaim_sweep, storeVars
  <2>2. ASSUME NEW c \in Call
        PROVE  rc'[c].handle \in {NULL, <<c, rc'[c].epoch>>} /\ rc'[c].verdict = NULL
    BY <1>0, <1>2 DEF SweepBegins, stuck_reclaim_sweep, RcIdle, HandleCurrent
  <2> QED
    BY <1>1, <2>1, <2>2 DEF AttemptInv, HandleCurrent, OutcomeIsReal
<1>3. ASSUME NEW c \in Call, best_effort_get_status(c) PROVE AttemptInv'
  <2>1. UNCHANGED calls /\ rc[c].pc = "confirm"
    BY <1>3 DEF best_effort_get_status, storeVars
  <2>2. PICK verdict \in get_status(rc[c].handle) :
            rc' = [rc EXCEPT ![c].pc = "apply", ![c].verdict = verdict]
    BY <1>3 DEF best_effort_get_status
  <2>3. rc[c].handle = <<c, rc[c].epoch>>
    <3>1. rc[c].handle \in Handle
      BY <2>1 DEF TypeOK, ReclaimTypeOK
    <3>2. rc[c].handle # NULL
      BY <3>1, NullAssumption, LimitAssumption DEF Handle, Epoch
    <3> QED
      BY <3>2 DEF AttemptInv
  <2>4. verdict # NULL => verdict \in trace[<<c, rc[c].epoch>>]
    BY <2>3 DEF get_status
  <2>5. /\ rc'[c].verdict = verdict /\ rc'[c].epoch = rc[c].epoch /\ rc'[c].handle = rc[c].handle
        /\ \A d \in Call \ {c} : rc'[d] = rc[d]
    BY <1>0, <2>2 DEF RcLocal
  <2> QED
    BY <1>1, <2>1, <2>4, <2>5 DEF AttemptInv, HandleCurrent, OutcomeIsReal
<1>4. ASSUME NEW c \in Call, rc' = [rc EXCEPT ![c] = RcIdle], HandleCurrent', OutcomeIsReal'
      PROVE  AttemptInv'
  BY <1>0, <1>1, <1>4 DEF AttemptInv, RcIdle
<1>5. ASSUME NEW c \in Call, apply_terminal(c) PROVE AttemptInv'
  <2> DEFINE row == [calls[c] EXCEPT !.status = rc[c].verdict]
  <2>1. rc[c].verdict \in TERMINAL_CALL_STATUSES /\ calls[c] \in CallRow
        /\ rc[c].verdict \in trace[<<c, rc[c].epoch>>]
    BY <1>0, <1>5 DEF apply_terminal, RcLocal, StoreTypeOK, AttemptInv
  <2>2. row \in CallRow /\ row.status = rc[c].verdict
        /\ row.provider_call_id = calls[c].provider_call_id
        /\ row.attempt_epoch = calls[c].attempt_epoch
    BY <2>1, RowWithStatus DEF CallRow, CallStatus
  <2>3. transition(c, "DIALING", rc[c].epoch, row) /\ rc' = [rc EXCEPT ![c] = RcIdle]
    BY <1>5 DEF apply_terminal
  <2> HIDE DEF row
  <2>4. row.provider_call_id \in {NULL, <<c, row.attempt_epoch>>}
    BY <1>0, <2>2 DEF HandleCurrent
  <2>5. HandleCurrent' /\ OutcomeIsReal'
    BY <1>0, <1>1, <2>1, <2>2, <2>3, <2>4, TransitionAttempt
  <2> QED
    BY <1>4, <2>3, <2>5
<1>6. ASSUME NEW c \in Call, apply_reclaim(c) PROVE AttemptInv'
  <2> DEFINE row == [calls[c] EXCEPT !.status = "QUEUED", !.attempt_epoch = rc[c].epoch + 1,
                                     !.provider_call_id = NULL]
  <2>1. rc[c].epoch + 1 \in Epoch /\ calls[c] \in CallRow
    BY <1>0, <1>6, LimitAssumption DEF apply_reclaim, RcLocal, Epoch, StoreTypeOK
  <2>2. row \in CallRow /\ row.provider_call_id = NULL /\ row.status \notin TERMINAL_CALL_STATUSES
    BY <2>1 DEF CallRow, CallStatus, ACTIVE_CALL_STATUSES, TERMINAL_CALL_STATUSES
  <2>3. transition(c, "DIALING", rc[c].epoch, row) /\ rc' = [rc EXCEPT ![c] = RcIdle]
    BY <1>6 DEF apply_reclaim
  <2> HIDE DEF row
  <2>4. HandleCurrent' /\ OutcomeIsReal'
    BY <1>0, <1>1, <2>2, <2>3, TransitionAttempt
  <2> QED
    BY <1>4, <2>3, <2>4
<1>7. ASSUME NEW c \in Call, reclaim_fails(c) PROVE AttemptInv'
  BY <1>0, <1>1, <1>4, <1>7 DEF reclaim_fails, storeVars, HandleCurrent, OutcomeIsReal
<1> QED
  BY <1>2, <1>3, <1>5, <1>6, <1>7 DEF ReclaimNext, SweepStep

LEMMA NextAttempt == TypeOK /\ AttemptInv /\ [Next]_vars => AttemptInv'
<1> SUFFICES ASSUME TypeOK, AttemptInv, [Next]_vars PROVE AttemptInv'
  OBVIOUS
<1>1. CASE UNCHANGED vars
  BY <1>1, TraceStepAttempt DEF vars, storeVars, inboxVars
<1> QED
  BY <1>1, EnvAttempt, ProviderAttempt, SchedAttempt, WebhookAttempt, ReclaimAttempt DEF Next

LEMMA AttemptAlways == Spec => [](TypeOK /\ AttemptInv)
<1>1. Init => TypeOK /\ AttemptInv
  BY InitType, InitAttempt
<1>2. TypeOK /\ AttemptInv /\ [Next]_vars => (TypeOK /\ AttemptInv)'
  BY NextType, NextAttempt
<1> QED
  BY <1>1, <1>2, PTL DEF Spec

-----------------------------------------------------------------------------
(* The theorems                                                            *)

\* A row's provider_call_id is the handle of the row's current attempt in
\* every reachable state: claim and reclaim clear it with every new epoch, and
\* the commit of a dial's result cannot store it in a later attempt.
THEOREM HandleAlwaysCurrent == Spec => []HandleCurrent
<1>1. AttemptInv => HandleCurrent
  BY DEF AttemptInv
<1> QED
  BY <1>1, AttemptAlways, PTL

\* A call that is COMPLETED, NO_ANSWER or BUSY has that status because the
\* provider reported it for the call's current attempt.
THEOREM OutcomeAlwaysReal == Spec => []OutcomeIsReal
<1>1. AttemptInv => OutcomeIsReal
  BY DEF AttemptInv
<1> QED
  BY <1>1, AttemptAlways, PTL

\* No webhook event ever changes a call that has moved on to another attempt,
\* nor any call but the one it names.
THEOREM StaleEventsRefused == Spec => StaleAttemptNeverApplied
<1> DEFINE Fresh == \A p \in Processor : process_apply(p) =>
                       \A c \in Call : calls'[c] # calls[c] =>
                           wp[p].event.handle = <<c, calls[c].attempt_epoch>>
<1>1. ASSUME TypeOK, AttemptInv, NEW p \in Processor, process_apply(p),
             NEW d \in Call, calls'[d] # calls[d]
      PROVE  wp[p].event.handle = <<d, calls[d].attempt_epoch>>
  <2> DEFINE l == wp[p]
             c == l.event.handle[1]
  <2>1. StoreTypeOK /\ l \in WpLocal /\ l.event \in inbox /\ l.event \in Event /\ l.pc = "apply"
    BY <1>1 DEF process_apply, TypeOK, WebhookTypeOK
  <2>2. c \in Call /\ calls[c] \in CallRow /\ l.event.status \in EventStatus
        /\ l.event.handle = <<c, l.epoch>>
    BY <1>1, <2>1 DEF Event, Handle, StoreTypeOK, AttemptInv
  <2>3. PICK row \in CallRow : transition(c, l.status, l.epoch, row)
    <3>1. CASE l.event.status \in TERMINAL_CALL_STATUSES
      <4>1. apply_retryable_outcome(c, l.status, l.epoch, l.retries, l.event.status)
        BY <1>1, <3>1 DEF process_apply
      <4>2. l.retries \in Nat
        BY <2>1 DEF WpLocal
      <4> QED
        BY <2>1, <2>2, <3>1, <4>1, <4>2, RetryableRow
    <3>2. CASE l.event.status \notin TERMINAL_CALL_STATUSES
      <4>1. transition(c, l.status, l.epoch, [calls[c] EXCEPT !.status = l.event.status])
        BY <1>1, <3>2 DEF process_apply
      <4>2. [calls[c] EXCEPT !.status = l.event.status] \in CallRow
        BY <2>2, <3>2, RowWithStatus DEF EventStatus, CallStatus, ACTIVE_CALL_STATUSES
      <4> QED
        BY <4>1, <4>2
    <3> QED
      BY <3>1, <3>2
  <2>4. calls[c].attempt_epoch = l.epoch /\ \A x \in Call \ {c} : calls'[x] = calls[x]
    BY <1>1, <2>1, <2>2, <2>3, TransitionFields
  <2>5. d = c
    BY <1>1, <2>4
  <2> QED
    BY <2>2, <2>4, <2>5
<1>2. TypeOK /\ AttemptInv /\ [Next]_vars => [Fresh]_vars
  BY <1>1
<1>3. [][Fresh]_vars => StaleAttemptNeverApplied
  BY DEF StaleAttemptNeverApplied
<1> HIDE DEF Fresh
<1> QED
  BY <1>2, <1>3, AttemptAlways, PTL DEF Spec

=============================================================================

---------------------------- MODULE DialerProofs ----------------------------
(***************************************************************************)
(* Theorems about the dialer, for every number of campaigns, calls,        *)
(* scheduler replicas, webhook processors, retries, epochs and copies of   *)
(* an event, and for every order of deliveries.                            *)
(***************************************************************************)
EXTENDS Dialer, FiniteSetTheorems, TLAPS, WellFoundedInduction

-----------------------------------------------------------------------------
(* The operations on the tables                                            *)

\* A row stays a row when its caller gives it a new status.
LEMMA RowWithStatus ==
    ASSUME NEW row \in CallRow, NEW status \in CallStatus
    PROVE  [row EXCEPT !.status = status] \in CallRow
BY DEF CallRow

\* The row of a scheduled retry, when the budget read was not exhausted.
LEMMA RetryRowType ==
    ASSUME StoreTypeOK, NEW c \in Call, NEW r \in Nat, r > 0
    PROVE  RetryRow(c, r) \in CallRow
<1>1. calls[c] \in CallRow
  BY DEF StoreTypeOK
<1>2. r - 1 \in Nat
  OBVIOUS
<1>3. "RETRY_PENDING" \in CallStatus
  BY DEF CallStatus, ACTIVE_CALL_STATUSES
<1> QED
  BY <1>1, <1>2, <1>3 DEF RetryRow, CallRow

\* state.transition on a typed row leaves the two tables it writes typed.
LEMMA TransitionType ==
    ASSUME StoreTypeOK, NEW c \in Call, NEW es, NEW ee, NEW row \in CallRow,
           transition(c, es, ee, row)
    PROVE  /\ calls' \in [Call -> CallRow]
           /\ campaigns' \in [Campaign -> CampaignStatus \cup {ABSENT}]
<1>1. [row EXCEPT !.aged = FALSE] \in CallRow
  BY DEF CallRow
<1>2. CASE Applies(c, es, ee, row.status)
  <2>1. calls' = [calls EXCEPT ![c] = [row EXCEPT !.aged = FALSE]]
    BY <1>2 DEF transition
  <2>2. calls' \in [Call -> CallRow]
    BY <1>1, <2>1 DEF StoreTypeOK
  <2>3. maybe_transition_campaign_terminal(CampaignOf[c], calls')
            \in [Campaign -> CampaignStatus \cup {ABSENT}]
    BY DEF maybe_transition_campaign_terminal, StoreTypeOK, CampaignStatus
  <2> QED
    BY <1>2, <2>2, <2>3 DEF transition, StoreTypeOK
<1>3. CASE ~Applies(c, es, ee, row.status)
  BY <1>3 DEF transition, StoreTypeOK
<1> QED
  BY <1>2, <1>3

\* What a call of state.transition does: nothing, or the write of the row with
\* the rollup behind it.
LEMMA TransitionCases ==
    ASSUME NEW c, NEW es, NEW ee, NEW row, transition(c, es, ee, row)
    PROVE  \/ UNCHANGED <<calls, campaigns>>
           \/ /\ CasMatches(c, es, ee)
              /\ ~TerminalRegression(es, row.status)
              /\ calls' = [calls EXCEPT ![c] = [row EXCEPT !.aged = FALSE]]
              /\ campaigns' = IF row.status \in TERMINAL_CALL_STATUSES
                              THEN maybe_transition_campaign_terminal(CampaignOf[c], calls')
                              ELSE campaigns
BY DEF transition, Applies

\* The same, field by field, for the row written and for the others.
LEMMA TransitionFields ==
    ASSUME StoreTypeOK, NEW c \in Call, NEW es, NEW ee, NEW row \in CallRow,
           transition(c, es, ee, row)
    PROVE  \/ UNCHANGED <<calls, campaigns>>
           \/ /\ calls[c].status = es /\ calls[c].attempt_epoch = ee
              /\ es \in TERMINAL_CALL_STATUSES => row.status = es
              /\ calls'[c].status = row.status
              /\ calls'[c].attempt_epoch = row.attempt_epoch
              /\ calls'[c].provider_call_id = row.provider_call_id
              /\ calls'[c].retries_remaining = row.retries_remaining
              /\ \A d \in Call \ {c} : calls'[d] = calls[d]
<1>1. CASE UNCHANGED <<calls, campaigns>>
  BY <1>1
<1>2. CASE /\ CasMatches(c, es, ee)
           /\ ~TerminalRegression(es, row.status)
           /\ calls' = [calls EXCEPT ![c] = [row EXCEPT !.aged = FALSE]]
  BY <1>2 DEF CasMatches, TerminalRegression, StoreTypeOK, CallRow
<1> QED
  BY <1>1, <1>2, TransitionCases

\* What apply_retryable_outcome writes: the final outcome itself, FAILED, or
\* a retry that spends one of the retries the caller read; within the same
\* attempt and under the same handle.
LEMMA RetryableRow ==
    ASSUME StoreTypeOK, NEW c \in Call, NEW es, NEW ee, NEW r \in Nat,
           NEW outcome \in TERMINAL_CALL_STATUSES \cup {"UNAVAILABLE"},
           apply_retryable_outcome(c, es, ee, r, outcome)
    PROVE  \E row \in CallRow :
              /\ transition(c, es, ee, row)
              /\ row.attempt_epoch = calls[c].attempt_epoch
              /\ row.provider_call_id = calls[c].provider_call_id
              /\ row.status \in TERMINAL_CALL_STATUSES \ {"FAILED"} => row.status = outcome
              /\ \/ /\ row.status \in TERMINAL_CALL_STATUSES
                    /\ row.retries_remaining = calls[c].retries_remaining
                 \/ /\ row.status = "RETRY_PENDING"
                    /\ row.retries_remaining = r - 1
<1>1. calls[c] \in CallRow
  BY DEF StoreTypeOK
<1>2. CASE classify(outcome) = "TERMINAL"
  <2>1. outcome \in TERMINAL_CALL_STATUSES
    BY <1>2 DEF classify
  <2>2. [calls[c] EXCEPT !.status = outcome] \in CallRow
    BY <1>1, <2>1, RowWithStatus DEF CallStatus
  <2>3. transition(c, es, ee, [calls[c] EXCEPT !.status = outcome])
    BY <1>2 DEF apply_retryable_outcome
  <2> QED
    BY <1>1, <2>1, <2>2, <2>3 DEF CallRow
<1>3. CASE classify(outcome) # "TERMINAL" /\ r > 0
  <2>1. RetryRow(c, r) \in CallRow
    BY <1>3, RetryRowType
  <2>2. transition(c, es, ee, RetryRow(c, r))
    BY <1>3 DEF apply_retryable_outcome
  <2> QED
    BY <1>1, <2>1, <2>2 DEF RetryRow, CallRow, TERMINAL_CALL_STATUSES
<1>4. CASE classify(outcome) # "TERMINAL" /\ ~(r > 0)
  <2>1. [calls[c] EXCEPT !.status = "FAILED"] \in CallRow
    BY <1>1, RowWithStatus DEF CallStatus, TERMINAL_CALL_STATUSES
  <2>2. transition(c, es, ee, [calls[c] EXCEPT !.status = "FAILED"])
    BY <1>4 DEF apply_retryable_outcome
  <2> QED
    BY <1>1, <2>1, <2>2 DEF CallRow, TERMINAL_CALL_STATUSES
<1> QED
  BY <1>2, <1>3, <1>4

\* apply_retryable_outcome leaves the two tables it writes typed.
LEMMA RetryableType ==
    ASSUME StoreTypeOK, NEW c \in Call, NEW es, NEW ee, NEW r \in Nat,
           NEW outcome \in TERMINAL_CALL_STATUSES \cup {"UNAVAILABLE"},
           apply_retryable_outcome(c, es, ee, r, outcome)
    PROVE  /\ calls' \in [Call -> CallRow]
           /\ campaigns' \in [Campaign -> CampaignStatus \cup {ABSENT}]
BY RetryableRow, TransitionType

-----------------------------------------------------------------------------
(* The round-robin pick                                                    *)

\* A non-empty set of naturals has a least element.
LEMMA LeastNatural ==
    ASSUME NEW S, S \subseteq Nat, S # {}
    PROVE  \E m \in S : \A n \in S : m <= n
<1>1. PICK m \in S : \A n \in S : ~ (<<n, m>> \in OpToRel(<, Nat))
  BY NatLessThanWellFounded, WFMin
<1>2. ASSUME NEW n \in S PROVE m <= n
  <2>1. ~ (n < m)
    BY <1>1 DEF OpToRel
  <2> QED
    BY <2>1
<1> QED
  BY <1>2

\* The round-robin order has a first element in every non-empty set of
\* campaigns, so the pick is one of the candidates.
LEMMA RRFirstIn ==
    ASSUME NEW cursor \in [Campaign -> Nat], NEW S, S \subseteq Campaign, S # {}
    PROVE  RRFirst(cursor, S) \in S
<1> DEFINE stamps == {cursor[k] : k \in S}
<1>0. S \subseteq Nat /\ \A k \in S : cursor[k] \in Nat
  BY CampaignAssumption
<1>1. PICK t \in stamps : \A u \in stamps : t <= u
  <2>1. stamps \subseteq Nat /\ stamps # {}
    BY <1>0
  <2> HIDE DEF stamps
  <2> QED
    BY <2>1, LeastNatural
<1> DEFINE oldest == {k \in S : cursor[k] = t}
<1>2. PICK k \in oldest : \A j \in oldest : k <= j
  <2>1. oldest \subseteq Nat /\ oldest # {}
    BY <1>0, <1>1
  <2> HIDE DEF oldest
  <2> QED
    BY <2>1, LeastNatural
<1>3. ASSUME NEW j \in S \ {k} PROVE RRBefore(cursor, k, j)
  <2>1. cursor[k] = t /\ t <= cursor[j]
    BY <1>1, <1>2
  <2>2. CASE cursor[j] = t
    <3>1. k <= j /\ k # j /\ k \in Nat /\ j \in Nat
      BY <1>0, <1>2, <2>2
    <3> QED
      BY <2>1, <2>2, <3>1 DEF RRBefore
  <2>3. CASE cursor[j] # t
    BY <1>0, <2>1, <2>3 DEF RRBefore
  <2> QED
    BY <2>2, <2>3
<1>4. k \in S
  BY <1>2
<1> QED
  BY <1>3, <1>4 DEF RRFirst

LEMMA PickedIn ==
    ASSUME NEW cursor \in [Campaign -> Nat], NEW capped, capped \subseteq Campaign, capped # {}
    PROVE  Picked(cursor, capped) \in capped
<1> DEFINE S == IF capped \cap RetryDue # {} THEN capped \cap RetryDue ELSE capped
<1>1. S \subseteq capped /\ S \subseteq Campaign /\ S # {}
  OBVIOUS
<1> HIDE DEF S
<1>2. RRFirst(cursor, S) \in S
  BY <1>1, RRFirstIn
<1> QED
  BY <1>1, <1>2 DEF Picked, S

-----------------------------------------------------------------------------
(* Type correctness                                                        *)

LEMMA InitType == Init => TypeOK
<1> SUFFICES ASSUME Init PROVE TypeOK
  OBVIOUS
<1>1. StoreTypeOK
  <2>1. 0 \in Epoch
    BY LimitAssumption DEF Epoch
  <2>2. ASSUME NEW c \in Call PROVE MaxAttempts[CampaignOf[c]] \in Nat
    BY LimitAssumption, CallAssumption
  <2> QED
    BY <2>1, <2>2 DEF Init, StoreInit, StoreTypeOK, CallRow
<1>2. ProviderTypeOK
  BY DEF Init, ProviderInit, ProviderTypeOK
<1>3. Waiting \in SchedLocal /\ WpIdle \in WpLocal /\ RcIdle \in RcLocal
  BY LimitAssumption DEF Waiting, SchedLocal, NoCursor, WpIdle, WpLocal, NoEvent, RcIdle, RcLocal, Epoch
<1>4. SchedTypeOK
  BY <1>3 DEF Init, SchedInit, SchedTypeOK, Waiting
<1>5. WebhookTypeOK
  BY <1>3 DEF Init, WebhookInit, WebhookTypeOK, WpIdle
<1>6. ReclaimTypeOK
  BY <1>3 DEF Init, ReclaimInit, ReclaimTypeOK, RcIdle
<1> QED
  BY <1>1, <1>2, <1>4, <1>5, <1>6 DEF TypeOK

\* The idle values of the processes' local variables.
LEMMA IdleType == Waiting \in SchedLocal /\ WpIdle \in WpLocal /\ RcIdle \in RcLocal
BY LimitAssumption DEF Waiting, SchedLocal, NoCursor, WpIdle, WpLocal, NoEvent, RcIdle, RcLocal, Epoch

LEMMA EnvType == TypeOK /\ EnvNext => TypeOK'
<1> SUFFICES ASSUME TypeOK, EnvNext PROVE TypeOK'
  OBVIOUS
<1> USE DEF TypeOK
<1>1. StoreTypeOK'
  <2>1. ASSUME NEW k \in Campaign, create_campaign(k) PROVE StoreTypeOK'
    <3>1. ASSUME NEW c \in Call PROVE [calls[c] EXCEPT !.status = "QUEUED"] \in CallRow
      BY RowWithStatus DEF StoreTypeOK, CallStatus, ACTIVE_CALL_STATUSES
    <3>2. calls' \in [Call -> CallRow]
      BY <2>1, <3>1 DEF create_campaign, create_batch, StoreTypeOK
    <3> QED
      BY <2>1, <3>2 DEF create_campaign, create_batch, StoreTypeOK, CampaignStatus
  <2>2. ASSUME NEW c \in Call, BackoffElapses(c) PROVE StoreTypeOK'
    <3>1. [calls[c] EXCEPT !.next_attempt_at = "past"] \in CallRow
      BY DEF StoreTypeOK, CallRow
    <3> QED
      BY <2>2, <3>1 DEF BackoffElapses, StoreTypeOK
  <2>3. ASSUME NEW c \in Call, age_dialing(c) PROVE StoreTypeOK'
    <3>1. [calls[c] EXCEPT !.aged = TRUE] \in CallRow
      BY DEF StoreTypeOK, CallRow
    <3> QED
      BY <2>3, <3>1 DEF age_dialing, StoreTypeOK
  <2> QED
    BY <2>1, <2>2, <2>3 DEF EnvNext
<1>2. UNCHANGED <<trace, sched, inbox, processed, wp, rc>>
  BY DEF EnvNext, inboxVars
<1> QED
  BY <1>1, <1>2 DEF ProviderTypeOK, SchedTypeOK, WebhookTypeOK, ReclaimTypeOK

LEMMA ProviderStepType == TypeOK /\ ProviderNext => TypeOK'
<1> SUFFICES ASSUME TypeOK, ProviderNext PROVE TypeOK'
  OBVIOUS
<1> USE DEF TypeOK
<1>1. ProviderTypeOK'
  <2>1. ASSUME NEW h \in Handle, Answer(h) PROVE ProviderTypeOK'
    BY <2>1 DEF Answer, ProviderTypeOK, EventStatus
  <2>2. ASSUME NEW h \in Handle, NEW outcome \in Outcomes, Finish(h, outcome)
        PROVE  ProviderTypeOK'
    BY <2>2, ProviderAssumption DEF Finish, ProviderTypeOK, EventStatus
  <2> QED
    BY <2>1, <2>2 DEF ProviderNext
<1>2. UNCHANGED <<calls, campaigns, last_dispatch_at, claims, sched, inbox, processed, wp, rc>>
  BY DEF ProviderNext, storeVars, inboxVars
<1> QED
  BY <1>1, <1>2 DEF StoreTypeOK, SchedTypeOK, WebhookTypeOK, ReclaimTypeOK

\* The cursors stay natural numbers.
LEMMA StampType ==
    ASSUME StoreTypeOK, NEW k \in Campaign, update_last_dispatch_at(k)
    PROVE  last_dispatch_at' \in [Campaign -> Nat]
<1> DEFINE stamped == {i \in Campaign \ {k} : last_dispatch_at[i] # 0}
<1>1. Cardinality(stamped) \in Nat
  <2>1. IsFiniteSet(stamped)
    BY CampaignAssumption, FS_Subset
  <2> QED
    BY <2>1, FS_CardinalityType
<1>2. ASSUME NEW j \in Campaign,
             last_dispatch_at[k] # 0, last_dispatch_at[j] > last_dispatch_at[k]
      PROVE  last_dispatch_at[j] - 1 \in Nat
  BY <1>2 DEF StoreTypeOK
<1> HIDE DEF stamped
<1>3. Cardinality(stamped) + 1 \in Nat
  BY <1>1
<1>4. last_dispatch_at' =
        [j \in Campaign |->
            IF j = k THEN Cardinality(stamped) + 1
            ELSE IF last_dispatch_at[k] # 0 /\ last_dispatch_at[j] > last_dispatch_at[k]
                 THEN last_dispatch_at[j] - 1
                 ELSE last_dispatch_at[j]]
  BY DEF update_last_dispatch_at, stamped
<1> QED
  BY <1>2, <1>3, <1>4 DEF StoreTypeOK

LEMMA DialType ==
    ASSUME TypeOK, NEW s \in Scheduler, NEW outcome \in DialOutcome, dial(s, outcome)
    PROVE  ProviderTypeOK' /\ SchedTypeOK' /\ UNCHANGED storeVars
<1> USE DEF TypeOK
<1>1. sched[s].call \in Call /\ sched[s].campaign \in Campaign /\ sched[s] \in SchedLocal
  BY DEF dial, SchedTypeOK
<1>2. DialedKey(s) \in Handle
  BY <1>1 DEF DialedKey, Handle, SchedLocal
<1>3. ProviderTypeOK'
  BY <1>2 DEF dial, place_call, Accept, ProviderTypeOK, EventStatus
<1>4. [sched[s] EXCEPT !.pc = "apply", !.outcome = outcome] \in SchedLocal
  BY <1>1 DEF SchedLocal
<1>5. SchedTypeOK'
  BY <1>1, <1>4 DEF dial, Goto, SchedTypeOK, SchedLocal
<1> QED
  BY <1>3, <1>5 DEF dial

LEMMA ClaimType ==
    ASSUME TypeOK, NEW s \in Scheduler, NEW c \in Call, claim_next_queued(s, c)
    PROVE  StoreTypeOK' /\ SchedTypeOK' /\ UNCHANGED trace
<1> USE DEF TypeOK
<1>1. sched[s].campaign \in Campaign /\ sched[s] \in SchedLocal /\ calls[c] \in CallRow
  BY DEF claim_next_queued, SchedTypeOK, StoreTypeOK
<1>2. calls[c].attempt_epoch + 1 \in Epoch
  BY <1>1, LimitAssumption DEF claim_next_queued, CallRow, Epoch
<1>3. ClaimedRow(c) \in CallRow
  BY <1>1, <1>2 DEF ClaimedRow, CallRow, CallStatus, ACTIVE_CALL_STATUSES
<1>4. maybe_promote_to_active(sched[s].campaign)
          \in [Campaign -> CampaignStatus \cup {ABSENT}]
  BY DEF maybe_promote_to_active, StoreTypeOK, CampaignStatus
<1>5. StoreTypeOK'
  BY <1>3, <1>4 DEF claim_next_queued, StoreTypeOK
<1>6. [sched[s] EXCEPT !.pc = "dial", !.pending = {}, !.call = c,
                       !.epoch   = ClaimedRow(c).attempt_epoch,
                       !.retries = ClaimedRow(c).retries_remaining] \in SchedLocal
  BY <1>1, <1>3 DEF SchedLocal, CallRow
<1>7. SchedTypeOK'
  BY <1>1, <1>6 DEF claim_next_queued, Goto, SchedTypeOK, SchedLocal
<1> QED
  BY <1>5, <1>7 DEF claim_next_queued

LEMMA ApplyResultType ==
    ASSUME TypeOK, NEW s \in Scheduler, apply_result(s)
    PROVE  StoreTypeOK' /\ SchedTypeOK' /\ UNCHANGED trace
<1> USE DEF TypeOK
<1> DEFINE c == sched[s].call
<1>1. c \in Call /\ sched[s] \in SchedLocal /\ calls[c] \in CallRow
      /\ sched[s].campaign \in Campaign /\ sched[s].outcome \in DialOutcome
  BY DEF apply_result, SchedTypeOK, StoreTypeOK
<1>2. calls' \in [Call -> CallRow]
      /\ campaigns' \in [Campaign -> CampaignStatus \cup {ABSENT}]
  <2>1. CASE sched[s].outcome = "OK"
    <3>1. DialedKey(s) \in Handle
      BY <1>1 DEF DialedKey, Handle, SchedLocal
    <3>2. [calls[c] EXCEPT !.status = "DIALING", !.provider_call_id = DialedKey(s)] \in CallRow
      BY <1>1, <3>1 DEF CallRow, CallStatus, ACTIVE_CALL_STATUSES
    <3>3. transition(c, "DIALING", sched[s].epoch,
                     [calls[c] EXCEPT !.status = "DIALING", !.provider_call_id = DialedKey(s)])
      BY <2>1 DEF apply_result
    <3> QED
      BY <1>1, <3>2, <3>3, TransitionType
  <2>2. CASE sched[s].outcome # "OK"
    <3> DEFINE outcome == IF sched[s].outcome = "REJECTED" THEN "FAILED" ELSE sched[s].outcome
    <3>1. outcome \in TERMINAL_CALL_STATUSES \cup {"UNAVAILABLE"}
      BY <1>1, <2>2 DEF DialOutcome, TERMINAL_CALL_STATUSES
    <3>2. apply_retryable_outcome(c, "DIALING", sched[s].epoch, sched[s].retries, outcome)
      BY <2>2 DEF apply_result
    <3>3. sched[s].retries \in Nat
      BY <1>1 DEF SchedLocal
    <3> QED
      BY <1>1, <3>1, <3>2, <3>3, RetryableType
  <2> QED
    BY <2>1, <2>2
<1>3. last_dispatch_at' \in [Campaign -> Nat]
  BY <1>1, StampType DEF apply_result
<1>4. StoreTypeOK'
  BY <1>2, <1>3 DEF apply_result, StoreTypeOK
<1>5. SchedTypeOK'
  BY IdleType DEF apply_result, Goto, SchedTypeOK, Waiting
<1> QED
  BY <1>4, <1>5 DEF apply_result

LEMMA RequeueType ==
    ASSUME TypeOK, NEW s \in Scheduler, requeue_oldest_retry_due(s)
    PROVE  StoreTypeOK' /\ SchedTypeOK' /\ UNCHANGED trace
<1> USE DEF TypeOK
<1>1. sched[s].campaign \in Campaign /\ sched[s] \in SchedLocal
  BY DEF requeue_oldest_retry_due, SchedTypeOK
<1>2. calls' \in [Call -> CallRow]
      /\ campaigns' \in [Campaign -> CampaignStatus \cup {ABSENT}]
  <2>1. CASE UNCHANGED <<calls, campaigns>>
    BY <2>1 DEF StoreTypeOK
  <2>2. ASSUME NEW c \in Requeueable(sched[s].campaign),
               transition(c, "RETRY_PENDING", calls[c].attempt_epoch,
                          [calls[c] EXCEPT !.status = "QUEUED"])
        PROVE  calls' \in [Call -> CallRow]
               /\ campaigns' \in [Campaign -> CampaignStatus \cup {ABSENT}]
    <3>1. c \in Call /\ calls[c] \in CallRow
      BY DEF Requeueable, CallsOf, StoreTypeOK
    <3>2. [calls[c] EXCEPT !.status = "QUEUED"] \in CallRow
      BY <3>1, RowWithStatus DEF CallStatus, ACTIVE_CALL_STATUSES
    <3> QED
      BY <2>2, <3>1, <3>2, TransitionType
  <2> QED
    BY <2>1, <2>2 DEF requeue_oldest_retry_due
<1>3. StoreTypeOK'
  BY <1>2 DEF requeue_oldest_retry_due, StoreTypeOK
<1>4. [sched[s] EXCEPT !.pc = "claim"] \in SchedLocal
  BY <1>1 DEF SchedLocal
<1>5. SchedTypeOK'
  BY <1>1, <1>4 DEF requeue_oldest_retry_due, Goto, SchedTypeOK, SchedLocal
<1> QED
  BY <1>3, <1>5 DEF requeue_oldest_retry_due

\* The reads of a tick.
LEMMA TickType ==
    ASSUME TypeOK, NEW s \in Scheduler, NEW open, tick(s, open)
    PROVE  SchedTypeOK' /\ UNCHANGED <<storeVars, trace>>
<1> DEFINE l == [Waiting EXCEPT !.pc      = "gate",
                                !.capped  = Eligible \cap open,
                                !.pending = {k \in Eligible \cap open : campaigns[k] = "PENDING"},
                                !.cursor  = last_dispatch_at]
<1>1. Eligible \cap open \subseteq Campaign /\ last_dispatch_at \in [Campaign -> Nat]
  BY DEF Eligible, TypeOK, StoreTypeOK
<1>2. l \in SchedLocal /\ l.pc = "gate"
  BY <1>1, IdleType DEF SchedLocal, Waiting
<1>3. sched' = [sched EXCEPT ![s] = l]
  BY DEF tick, Goto
<1> HIDE DEF l
<1>4. SchedTypeOK'
  BY <1>2, <1>3 DEF TypeOK, SchedTypeOK
<1> QED
  BY <1>4 DEF tick

LEMMA GateType ==
    ASSUME TypeOK, NEW s \in Scheduler, concurrency_gate(s)
    PROVE  SchedTypeOK' /\ UNCHANGED <<storeVars, trace>>
<1> DEFINE capped == {k \in sched[s].capped : BelowCap(k)}
<1>1. sched[s] \in SchedLocal /\ capped \subseteq Campaign
  BY DEF TypeOK, SchedTypeOK, SchedLocal
<1> HIDE DEF capped
<1> DEFINE l == IF capped = {} THEN Waiting
                ELSE [sched[s] EXCEPT !.pc = "pick", !.capped = capped]
<1>2. l \in SchedLocal /\ (l.pc = "wait" \/ (l.pc = "pick" /\ l.capped # {}))
  <2>1. CASE capped = {}
    BY <2>1, IdleType DEF Waiting
  <2>2. CASE capped # {}
    BY <1>1, <2>2 DEF SchedLocal
  <2> QED
    BY <2>1, <2>2
<1>3. sched' = [sched EXCEPT ![s] = l]
  BY DEF concurrency_gate, Goto, capped
<1> HIDE DEF l
<1>4. SchedTypeOK'
  BY <1>2, <1>3 DEF TypeOK, SchedTypeOK
<1> QED
  BY <1>4 DEF concurrency_gate

LEMMA PickType ==
    ASSUME TypeOK, NEW s \in Scheduler, pick(s)
    PROVE  SchedTypeOK' /\ UNCHANGED <<storeVars, trace>>
<1> DEFINE k == Picked(sched[s].cursor, sched[s].capped)
<1>1. k \in Campaign
  BY PickedIn DEF pick, TypeOK, SchedTypeOK, SchedLocal
<1> HIDE DEF k
<1> DEFINE l == [Waiting EXCEPT !.pc       = IF k \in RetryDue THEN "requeue" ELSE "claim",
                                !.pending  = sched[s].pending \cap {k},
                                !.campaign = k]
<1>2. l \in SchedLocal /\ l.pc \in {"requeue", "claim"} /\ l.campaign = k
  BY <1>1, IdleType DEF SchedLocal, Waiting
<1>3. sched' = [sched EXCEPT ![s] = l]
  BY DEF pick, Goto, k
<1> HIDE DEF l
<1>4. SchedTypeOK'
  BY <1>1, <1>2, <1>3 DEF TypeOK, SchedTypeOK
<1> QED
  BY <1>4 DEF pick

LEMMA SchedStepType == \A s \in Scheduler : TypeOK /\ SchedNext(s) => TypeOK'
<1> SUFFICES ASSUME NEW s \in Scheduler, TypeOK, SchedNext(s) PROVE TypeOK'
  OBVIOUS
<1> USE DEF TypeOK
<1>1. UNCHANGED <<inbox, processed, wp, rc>>
  BY DEF SchedNext, TickStep, inboxVars
<1>2. WebhookTypeOK' /\ ReclaimTypeOK'
  BY <1>1 DEF WebhookTypeOK, ReclaimTypeOK
<1>3. CASE UNCHANGED <<storeVars, trace>> /\ SchedTypeOK'
  BY <1>2, <1>3 DEF storeVars, StoreTypeOK, ProviderTypeOK
<1>4. CASE StoreTypeOK' /\ SchedTypeOK' /\ UNCHANGED trace
  BY <1>2, <1>4 DEF ProviderTypeOK
<1>5. ASSUME NEW open \in Windows, tick_idle(s, open) PROVE TypeOK'
  BY <1>3, <1>5 DEF tick_idle, SchedTypeOK
<1>6. ASSUME NEW open \in Windows, tick(s, open) PROVE TypeOK'
  BY <1>3, <1>6, TickType
<1>12. CASE concurrency_gate(s) \/ pick(s)
  BY <1>3, <1>12, GateType, PickType
<1>7. CASE requeue_oldest_retry_due(s)
  BY <1>4, <1>7, RequeueType
<1>8. CASE Goto(s, Waiting) /\ UNCHANGED <<storeVars, trace>>
  <2>1. SchedTypeOK'
    BY <1>8, IdleType DEF Goto, SchedTypeOK, Waiting
  <2> QED
    BY <1>3, <1>8, <2>1
<1>9. ASSUME NEW c \in Call, claim_next_queued(s, c) PROVE TypeOK'
  BY <1>4, <1>9, ClaimType
<1>10. ASSUME NEW outcome \in DialOutcome, dial(s, outcome) PROVE TypeOK'
  BY <1>2, <1>10, DialType DEF storeVars, StoreTypeOK
<1>11. CASE apply_result(s)
  BY <1>4, <1>11, ApplyResultType
<1> QED
  BY <1>5, <1>6, <1>7, <1>8, <1>9, <1>10, <1>11, <1>12
  DEF SchedNext, TickStep, requeue_conflict, claim_nothing, tick_fails

LEMMA WebhookStepType ==
    ASSUME TypeOK, IngestNext \/ \E p \in Processor : ProcessorNext(p)
    PROVE  TypeOK'
<1> USE DEF TypeOK
<1>1. CASE IngestNext
  <2>1. PICK e \in Event : handle_webhook_ingest(e)
    BY <1>1 DEF IngestNext
  <2>2. UNCHANGED <<calls, campaigns, last_dispatch_at, claims, trace, sched, rc, wp, processed>>
        /\ inbox' = inbox \cup {e}
    BY <1>1, <2>1 DEF IngestNext, handle_webhook_ingest, insert, storeVars
  <2> QED
    BY <2>2 DEF StoreTypeOK, ProviderTypeOK, SchedTypeOK, WebhookTypeOK, ReclaimTypeOK
<1>2. ASSUME NEW p \in Processor, ProcessorNext(p) PROVE TypeOK'
  <2>1. UNCHANGED <<sched, rc, trace, inbox>>
    BY <1>2 DEF ProcessorNext, process_ignored, process_read, process_apply, process_fails, inboxVars
  <2>2. ProviderTypeOK' /\ SchedTypeOK' /\ ReclaimTypeOK'
    BY <2>1 DEF ProviderTypeOK, SchedTypeOK, ReclaimTypeOK
  <2>3. ASSUME NEW e \in Event, process_ignored(p, e) PROVE TypeOK'
    <3>1. UNCHANGED storeVars /\ processed' = processed \cup {e} /\ e \in inbox /\ UNCHANGED wp
      BY <2>3 DEF process_ignored, claim_unprocessed_one, mark_processed
    <3> QED
      BY <2>1, <2>2, <3>1 DEF storeVars, StoreTypeOK, WebhookTypeOK
  <2>4. ASSUME NEW e \in Event, process_read(p, e) PROVE TypeOK'
    <3> DEFINE c == e.handle[1]
    <3> DEFINE l == [pc |-> "apply", event |-> e, status |-> calls[c].status,
                     epoch |-> calls[c].attempt_epoch, retries |-> calls[c].retries_remaining]
    <3>1. UNCHANGED storeVars /\ UNCHANGED processed /\ e \in inbox
          /\ wp' = [wp EXCEPT ![p] = l] /\ Known(e)
      BY <2>4 DEF process_read, claim_unprocessed_one, inboxVars
    <3>2. e.handle \in Handle /\ c \in Call
      BY DEF Event, Handle
    <3>3. calls[c] \in CallRow
      BY <3>2 DEF StoreTypeOK
    <3>4. l \in WpLocal
      BY <3>3 DEF WpLocal, CallRow
    <3> QED
      BY <2>1, <2>2, <3>1, <3>4 DEF storeVars, StoreTypeOK, WebhookTypeOK
  <2>5. CASE process_fails(p)
    BY <2>1, <2>2, <2>5, IdleType
    DEF process_fails, inboxVars, storeVars, StoreTypeOK, WebhookTypeOK, WpIdle
  <2>6. CASE process_apply(p)
    <3> DEFINE l == wp[p]
               c == l.event.handle[1]
    <3>1. l \in WpLocal /\ l.event \in inbox /\ l.event \in Event
      BY <2>6 DEF process_apply, WebhookTypeOK
    <3>2. c \in Call /\ calls[c] \in CallRow /\ l.event.status \in EventStatus
      BY <3>1 DEF Event, Handle, StoreTypeOK
    <3>3. calls' \in [Call -> CallRow]
          /\ campaigns' \in [Campaign -> CampaignStatus \cup {ABSENT}]
      <4>1. CASE l.event.status \in TERMINAL_CALL_STATUSES
        <5>1. apply_retryable_outcome(c, l.status, l.epoch, l.retries, l.event.status)
          BY <2>6, <4>1 DEF process_apply
        <5>2. l.retries \in Nat
          BY <3>1 DEF WpLocal
        <5> QED
          BY <3>2, <4>1, <5>1, <5>2, RetryableType
      <4>2. CASE l.event.status \notin TERMINAL_CALL_STATUSES
        <5>1. transition(c, l.status, l.epoch, [calls[c] EXCEPT !.status = l.event.status])
          BY <2>6, <4>2 DEF process_apply
        <5>2. l.event.status \in CallStatus
          BY <3>2, <4>2 DEF EventStatus, CallStatus, ACTIVE_CALL_STATUSES
        <5>3. [calls[c] EXCEPT !.status = l.event.status] \in CallRow
          BY <3>2, <5>2, RowWithStatus
        <5> QED
          BY <3>2, <5>1, <5>3, TransitionType
      <4> QED
        BY <4>1, <4>2
    <3>4. StoreTypeOK'
      BY <2>6, <3>3 DEF process_apply, StoreTypeOK
    <3>5. WebhookTypeOK'
      BY <2>6, <3>1, IdleType DEF process_apply, mark_processed, WebhookTypeOK, WpIdle
    <3> QED
      BY <2>2, <3>4, <3>5
  <2> QED
    BY <1>2, <2>3, <2>4, <2>5, <2>6 DEF ProcessorNext
<1> QED
  BY <1>1, <1>2

LEMMA ReclaimStepType == TypeOK /\ ReclaimNext => TypeOK'
<1> SUFFICES ASSUME TypeOK, ReclaimNext PROVE TypeOK'
  OBVIOUS
<1> USE DEF TypeOK
<1>1. UNCHANGED <<sched, inbox, processed, wp, trace>>
  BY DEF ReclaimNext, SweepBegins, SweepStep, stuck_reclaim_sweep, best_effort_get_status,
         apply_terminal, apply_reclaim, reclaim_fails, inboxVars
<1>2. ProviderTypeOK' /\ SchedTypeOK' /\ WebhookTypeOK'
  BY <1>1 DEF ProviderTypeOK, SchedTypeOK, WebhookTypeOK
<1>3. CASE SweepBegins
  <2>1. ReclaimTypeOK'
    <3>1. ASSUME NEW c \in Call
          PROVE  [pc      |-> IF calls[c].provider_call_id = NULL THEN "apply" ELSE "confirm",
                  epoch   |-> calls[c].attempt_epoch,
                  handle  |-> calls[c].provider_call_id,
                  verdict |-> NULL] \in RcLocal
      BY DEF StoreTypeOK, CallRow, RcLocal
    <3>2. rc' \in [Call -> RcLocal]
      BY <1>3, <3>1, IdleType DEF SweepBegins, stuck_reclaim_sweep
    <3>3. ASSUME NEW c \in Call, rc'[c].pc = "confirm" PROVE rc'[c].handle \in Handle
      BY <1>3, <3>3 DEF SweepBegins, stuck_reclaim_sweep, RcIdle, StoreTypeOK, CallRow
    <3> QED
      BY <3>2, <3>3 DEF ReclaimTypeOK
  <2> QED
    BY <1>2, <1>3, <2>1 DEF SweepBegins, stuck_reclaim_sweep, storeVars, StoreTypeOK
<1>4. ASSUME NEW c \in Call, best_effort_get_status(c) PROVE TypeOK'
  <2>1. PICK verdict \in get_status(rc[c].handle) :
            rc' = [rc EXCEPT ![c].pc = "apply", ![c].verdict = verdict]
    BY <1>4 DEF best_effort_get_status
  <2>2. verdict \in TERMINAL_CALL_STATUSES \cup {NULL}
    BY DEF get_status
  <2>3. rc[c] \in RcLocal
    BY DEF ReclaimTypeOK
  <2>4. ReclaimTypeOK'
    BY <2>1, <2>2, <2>3 DEF ReclaimTypeOK, RcLocal
  <2> QED
    BY <1>2, <1>4, <2>4 DEF best_effort_get_status, storeVars, StoreTypeOK
<1>5. ASSUME NEW c \in Call, apply_terminal(c) PROVE TypeOK'
  <2>1. rc[c].verdict \in CallStatus /\ calls[c] \in CallRow
    BY <1>5 DEF apply_terminal, ReclaimTypeOK, RcLocal, CallStatus, StoreTypeOK
  <2>2. [calls[c] EXCEPT !.status = rc[c].verdict] \in CallRow
    BY <2>1, RowWithStatus
  <2>3. StoreTypeOK'
    BY <1>5, <2>2, TransitionType DEF apply_terminal, StoreTypeOK
  <2>4. ReclaimTypeOK'
    BY <1>5, IdleType DEF apply_terminal, ReclaimTypeOK, RcIdle
  <2> QED
    BY <1>2, <2>3, <2>4
<1>6. ASSUME NEW c \in Call, apply_reclaim(c) PROVE TypeOK'
  <2>1. rc[c].epoch + 1 \in Epoch /\ calls[c] \in CallRow
    BY <1>6, LimitAssumption DEF apply_reclaim, ReclaimTypeOK, RcLocal, Epoch, StoreTypeOK
  <2>2. [calls[c] EXCEPT !.status = "QUEUED", !.attempt_epoch = rc[c].epoch + 1,
                         !.provider_call_id = NULL] \in CallRow
    BY <2>1 DEF CallRow, CallStatus, ACTIVE_CALL_STATUSES
  <2>3. StoreTypeOK'
    BY <1>6, <2>2, TransitionType DEF apply_reclaim, StoreTypeOK
  <2>4. ReclaimTypeOK'
    BY <1>6, IdleType DEF apply_reclaim, ReclaimTypeOK, RcIdle
  <2> QED
    BY <1>2, <2>3, <2>4
<1>7. ASSUME NEW c \in Call, reclaim_fails(c) PROVE TypeOK'
  BY <1>2, <1>7, IdleType DEF reclaim_fails, storeVars, StoreTypeOK, ReclaimTypeOK, RcIdle
<1> QED
  BY <1>3, <1>4, <1>5, <1>6, <1>7 DEF ReclaimNext, SweepStep

LEMMA StutterType == TypeOK /\ UNCHANGED vars => TypeOK'
BY DEF TypeOK, vars, storeVars, inboxVars, StoreTypeOK, ProviderTypeOK, SchedTypeOK,
       WebhookTypeOK, ReclaimTypeOK

LEMMA NextType == TypeOK /\ [Next]_vars => TypeOK'
BY EnvType, ProviderStepType, SchedStepType, WebhookStepType, ReclaimStepType, StutterType
DEF Next

\* Every variable, and every local variable of every process, keeps its type:
\* in particular the retry budget never goes below zero, no epoch leaves its
\* range, and no step of the tick uses a campaign or a call it has not got.
THEOREM TypeCorrect == Spec => []TypeOK
<1>1. Init => TypeOK
  BY InitType
<1>2. TypeOK /\ [Next]_vars => TypeOK'
  BY NextType
<1> QED
  BY <1>1, <1>2, PTL DEF Spec

-----------------------------------------------------------------------------
(* What a step can write                                                   *)

KeepsAttempt(c, row) ==
    /\ row.attempt_epoch = calls[c].attempt_epoch
    /\ row.provider_call_id = calls[c].provider_call_id

KeepsBudget(c, row) == row.retries_remaining = calls[c].retries_remaining

\* What an outcome makes of a row: the end, or a retry that spends one of the
\* r retries its writer had read.
OutcomeRow(c, r, row) ==
    /\ KeepsAttempt(c, row)
    /\ \/ row.status \in TERMINAL_CALL_STATUSES /\ KeepsBudget(c, row)
       \/ row.status = "RETRY_PENDING" /\ row.retries_remaining = r - 1

\* The writes that go through state.transition: a due retry is queued again,
\* the result of a dial is stored, an event is applied, the sweep settles a
\* row or takes it back.
Requeued(c, row) ==
    /\ transition(c, "RETRY_PENDING", calls[c].attempt_epoch, row)
    /\ row.status = "QUEUED" /\ KeepsAttempt(c, row) /\ KeepsBudget(c, row)

ResultStored(s, c, row) ==
    /\ sched[s].pc = "apply" /\ c = sched[s].call /\ Goto(s, Waiting)
    /\ transition(c, "DIALING", sched[s].epoch, row)
    /\ \/ /\ row.status = "DIALING" /\ KeepsBudget(c, row)
          /\ row.attempt_epoch = calls[c].attempt_epoch
          /\ row.provider_call_id = DialedKey(s)
       \/ OutcomeRow(c, sched[s].retries, row)

EventApplied(p, c, row) ==
    /\ wp[p].pc = "apply" /\ c = wp[p].event.handle[1]
    /\ transition(c, wp[p].status, wp[p].epoch, row)
    /\ \/ /\ wp[p].event.status \in TERMINAL_CALL_STATUSES
          /\ OutcomeRow(c, wp[p].retries, row)
       \/ /\ wp[p].event.status \in IN_FLIGHT /\ row.status = wp[p].event.status
          /\ KeepsAttempt(c, row) /\ KeepsBudget(c, row)

Swept(c, row) ==
    /\ rc[c].pc = "apply"
    /\ transition(c, "DIALING", rc[c].epoch, row)
    /\ KeepsBudget(c, row)
    /\ \/ row.status \in TERMINAL_CALL_STATUSES /\ KeepsAttempt(c, row)
       \/ /\ row.status = "QUEUED" /\ row.provider_call_id = NULL
          /\ row.attempt_epoch = rc[c].epoch + 1

Transitioned ==
    \E c \in Call, row \in CallRow :
        \/ Requeued(c, row)
        \/ \E s \in Scheduler : ResultStored(s, c, row)
        \/ \E p \in Processor : EventApplied(p, c, row)
        \/ Swept(c, row)

LEMMA RequeueWrites ==
    ASSUME TypeOK, NEW s \in Scheduler, requeue_oldest_retry_due(s)
    PROVE  UNCHANGED <<calls, campaigns, claims>> \/ (UNCHANGED claims /\ Transitioned)
<1>1. UNCHANGED claims
  BY DEF requeue_oldest_retry_due
<1>2. ASSUME NEW c \in Requeueable(sched[s].campaign),
             transition(c, "RETRY_PENDING", calls[c].attempt_epoch,
                        [calls[c] EXCEPT !.status = "QUEUED"])
      PROVE  Transitioned
  <2> DEFINE row == [calls[c] EXCEPT !.status = "QUEUED"]
  <2>1. c \in Call /\ calls[c] \in CallRow
    BY DEF Requeueable, CallsOf, TypeOK, StoreTypeOK
  <2>2. row \in CallRow /\ row.status = "QUEUED" /\ KeepsAttempt(c, row) /\ KeepsBudget(c, row)
    BY <2>1, RowWithStatus
    DEF CallRow, CallStatus, ACTIVE_CALL_STATUSES, KeepsAttempt, KeepsBudget
  <2>3. transition(c, "RETRY_PENDING", calls[c].attempt_epoch, row)
    BY <1>2
  <2> HIDE DEF row
  <2>4. Requeued(c, row)
    BY <2>2, <2>3 DEF Requeued
  <2> QED
    BY <2>1, <2>2, <2>4 DEF Transitioned
<1> QED
  BY <1>1, <1>2 DEF requeue_oldest_retry_due

LEMMA ResultWrites ==
    ASSUME TypeOK, NEW s \in Scheduler, apply_result(s)
    PROVE  UNCHANGED claims /\ \E row \in CallRow : ResultStored(s, sched[s].call, row)
<1> DEFINE c == sched[s].call
<1>1. c \in Call /\ calls[c] \in CallRow /\ sched[s] \in SchedLocal /\ sched[s].pc = "apply"
      /\ sched[s].outcome \in DialOutcome /\ UNCHANGED claims /\ StoreTypeOK /\ Goto(s, Waiting)
  BY DEF apply_result, TypeOK, SchedTypeOK, StoreTypeOK
<1>2. CASE sched[s].outcome = "OK"
  <2> DEFINE row == [calls[c] EXCEPT !.status = "DIALING", !.provider_call_id = DialedKey(s)]
  <2>1. DialedKey(s) \in Handle
    BY <1>1 DEF DialedKey, Handle, SchedLocal
  <2>2. /\ row \in CallRow /\ row.status = "DIALING" /\ KeepsBudget(c, row)
        /\ row.attempt_epoch = calls[c].attempt_epoch /\ row.provider_call_id = DialedKey(s)
    BY <1>1, <2>1 DEF CallRow, CallStatus, ACTIVE_CALL_STATUSES, KeepsBudget
  <2>3. transition(c, "DIALING", sched[s].epoch, row)
    BY <1>2 DEF apply_result
  <2> HIDE DEF row
  <2> QED
    BY <1>1, <2>2, <2>3 DEF ResultStored
<1>3. CASE sched[s].outcome # "OK"
  <2> DEFINE outcome == IF sched[s].outcome = "REJECTED" THEN "FAILED" ELSE sched[s].outcome
  <2>1. outcome \in TERMINAL_CALL_STATUSES \cup {"UNAVAILABLE"} /\ sched[s].retries \in Nat
    BY <1>1, <1>3 DEF DialOutcome, SchedLocal, TERMINAL_CALL_STATUSES
  <2>2. apply_retryable_outcome(c, "DIALING", sched[s].epoch, sched[s].retries, outcome)
    BY <1>3 DEF apply_result
  <2> HIDE DEF outcome
  <2>3. PICK row \in CallRow :
            /\ transition(c, "DIALING", sched[s].epoch, row)
            /\ KeepsAttempt(c, row)
            /\ \/ row.status \in TERMINAL_CALL_STATUSES /\ KeepsBudget(c, row)
               \/ row.status = "RETRY_PENDING" /\ row.retries_remaining = sched[s].retries - 1
    BY <1>1, <2>1, <2>2, RetryableRow DEF KeepsAttempt, KeepsBudget
  <2> QED
    BY <1>1, <2>3 DEF ResultStored, OutcomeRow
<1> QED
  BY <1>1, <1>2, <1>3

LEMMA EventWrites ==
    ASSUME TypeOK, NEW p \in Processor, process_apply(p)
    PROVE  /\ UNCHANGED claims /\ wp[p].event.handle[1] \in Call
           /\ \E row \in CallRow : EventApplied(p, wp[p].event.handle[1], row)
<1> DEFINE l == wp[p]
           c == l.event.handle[1]
<1>1. l \in WpLocal /\ l.event \in Event /\ l.pc = "apply" /\ UNCHANGED claims /\ StoreTypeOK
  BY DEF process_apply, TypeOK, WebhookTypeOK
<1>2. c \in Call /\ calls[c] \in CallRow /\ l.event.status \in EventStatus
  BY <1>1 DEF Event, Handle, StoreTypeOK
<1>3. CASE l.event.status \in TERMINAL_CALL_STATUSES
  <2>1. apply_retryable_outcome(c, l.status, l.epoch, l.retries, l.event.status)
    BY <1>3 DEF process_apply
  <2>2. l.retries \in Nat
    BY <1>1 DEF WpLocal
  <2>3. PICK row \in CallRow :
            /\ transition(c, l.status, l.epoch, row)
            /\ KeepsAttempt(c, row)
            /\ \/ row.status \in TERMINAL_CALL_STATUSES /\ KeepsBudget(c, row)
               \/ row.status = "RETRY_PENDING" /\ row.retries_remaining = l.retries - 1
    BY <1>1, <1>2, <1>3, <2>1, <2>2, RetryableRow DEF KeepsAttempt, KeepsBudget
  <2> QED
    BY <1>1, <1>2, <1>3, <2>3 DEF EventApplied, OutcomeRow
<1>4. CASE l.event.status \notin TERMINAL_CALL_STATUSES
  <2> DEFINE row == [calls[c] EXCEPT !.status = l.event.status]
  <2>1. transition(c, l.status, l.epoch, row)
    BY <1>4 DEF process_apply
  <2>2. l.event.status \in CallStatus /\ l.event.status \in IN_FLIGHT
    BY <1>2, <1>4 DEF EventStatus, CallStatus, ACTIVE_CALL_STATUSES, IN_FLIGHT
  <2>3. row \in CallRow /\ row.status = l.event.status /\ KeepsAttempt(c, row) /\ KeepsBudget(c, row)
    BY <1>2, <2>2, RowWithStatus DEF CallRow, KeepsAttempt, KeepsBudget
  <2> HIDE DEF row
  <2> QED
    BY <1>1, <1>2, <2>1, <2>2, <2>3 DEF EventApplied
<1> QED
  BY <1>3, <1>4

LEMMA SweepWrites ==
    ASSUME TypeOK, NEW c \in Call, apply_terminal(c) \/ apply_reclaim(c)
    PROVE  UNCHANGED claims /\ \E row \in CallRow : Swept(c, row)
<1>1. rc[c] \in RcLocal /\ calls[c] \in CallRow /\ rc[c].pc = "apply" /\ UNCHANGED claims
  BY DEF apply_terminal, apply_reclaim, TypeOK, ReclaimTypeOK, StoreTypeOK
<1>2. CASE apply_terminal(c)
  <2> DEFINE row == [calls[c] EXCEPT !.status = rc[c].verdict]
  <2>1. rc[c].verdict \in CallStatus /\ rc[c].verdict \in TERMINAL_CALL_STATUSES
    BY <1>1, <1>2 DEF apply_terminal, RcLocal, CallStatus
  <2>2. row \in CallRow /\ row.status = rc[c].verdict /\ KeepsAttempt(c, row) /\ KeepsBudget(c, row)
    BY <1>1, <2>1, RowWithStatus DEF CallRow, KeepsAttempt, KeepsBudget
  <2>3. transition(c, "DIALING", rc[c].epoch, row)
    BY <1>2 DEF apply_terminal
  <2> HIDE DEF row
  <2> QED
    BY <1>1, <2>1, <2>2, <2>3 DEF Swept
<1>3. CASE apply_reclaim(c)
  <2> DEFINE row == [calls[c] EXCEPT !.status = "QUEUED", !.attempt_epoch = rc[c].epoch + 1,
                                     !.provider_call_id = NULL]
  <2>1. rc[c].epoch + 1 \in Epoch
    BY <1>1, <1>3, LimitAssumption DEF apply_reclaim, RcLocal, Epoch
  <2>2. /\ row \in CallRow /\ row.status = "QUEUED" /\ row.provider_call_id = NULL
        /\ row.attempt_epoch = rc[c].epoch + 1 /\ KeepsBudget(c, row)
    BY <1>1, <2>1 DEF CallRow, CallStatus, ACTIVE_CALL_STATUSES, KeepsBudget
  <2>3. transition(c, "DIALING", rc[c].epoch, row)
    BY <1>3 DEF apply_reclaim
  <2> HIDE DEF row
  <2> QED
    BY <1>1, <2>2, <2>3 DEF Swept
<1> QED
  BY <1>1, <1>2, <1>3

\* The ways to change the tables: an insert, the clock, a claim, and the
\* writes that go through state.transition.  Only the claim is counted.
LEMMA StoreSteps ==
    ASSUME TypeOK, Next
    PROVE  \/ UNCHANGED <<calls, campaigns, claims>>
           \/ \E k \in Campaign : create_campaign(k)
           \/ \E c \in Call : BackoffElapses(c) \/ age_dialing(c)
           \/ \E s \in Scheduler, c \in Call : claim_next_queued(s, c)
           \/ UNCHANGED claims /\ Transitioned
<1>1. CASE UNCHANGED storeVars
  BY <1>1 DEF storeVars
<1>2. CASE EnvNext
  BY <1>2 DEF EnvNext
<1>3. CASE ProviderNext \/ IngestNext
  BY <1>1, <1>3 DEF ProviderNext, IngestNext, handle_webhook_ingest
<1>4. ASSUME NEW s \in Scheduler, apply_result(s) PROVE UNCHANGED claims /\ Transitioned
  <2>1. sched[s].call \in Call
    BY <1>4 DEF apply_result, TypeOK, SchedTypeOK
  <2> QED
    BY <1>4, <2>1, ResultWrites DEF Transitioned
<1>5. ASSUME NEW p \in Processor, process_apply(p) PROVE UNCHANGED claims /\ Transitioned
  BY <1>5, EventWrites DEF Transitioned
<1>6. ASSUME NEW c \in Call, apply_terminal(c) \/ apply_reclaim(c)
      PROVE  UNCHANGED claims /\ Transitioned
  BY <1>6, SweepWrites DEF Transitioned
<1>7. ASSUME NEW s \in Scheduler, SchedNext(s)
      PROVE  \/ UNCHANGED storeVars \/ requeue_oldest_retry_due(s) \/ apply_result(s)
             \/ \E c \in Call : claim_next_queued(s, c)
  BY <1>7
  DEF SchedNext, TickStep, tick_idle, tick, requeue_conflict, claim_nothing, tick_fails, dial,
      concurrency_gate, pick
<1>8. CASE ReclaimNext
  <2>1. UNCHANGED storeVars \/ \E c \in Call : apply_terminal(c) \/ apply_reclaim(c)
    BY <1>8 DEF ReclaimNext, SweepBegins, SweepStep, stuck_reclaim_sweep,
                best_effort_get_status, reclaim_fails
  <2> QED
    BY <1>1, <1>6, <2>1
<1>9. ASSUME NEW p \in Processor, ProcessorNext(p)
      PROVE  UNCHANGED storeVars \/ process_apply(p)
  BY <1>9 DEF ProcessorNext, process_ignored, process_read, process_fails
<1> QED
  BY <1>1, <1>2, <1>3, <1>4, <1>5, <1>7, <1>8, <1>9, RequeueWrites DEF Next

=============================================================================

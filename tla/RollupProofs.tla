---------------------------- MODULE RollupProofs ----------------------------
(***************************************************************************)
(* Finished calls stay finished, and a campaign is folded exactly when its *)
(* last call finishes: proofs of TerminalAbsorbing and RollupExact.        *)
(***************************************************************************)
EXTENDS DialerProofs

\* The rollup, with what it takes to keep it: a campaign and its rows are
\* inserted together, and a PENDING campaign has only undialed rows.
StoreRollup ==
    /\ RollupExact
    /\ \A c \in Call : calls[c].status = ABSENT <=> campaigns[CampaignOf[c]] = ABSENT
    /\ \A c \in Call : campaigns[CampaignOf[c]] = "PENDING" => calls[c].status = "QUEUED"
    /\ \A c \in Call : campaigns[CampaignOf[c]] \in {ABSENT, "PENDING"} =>
          calls[c].provider_call_id = NULL

\* A claim of replica s from campaign k would promote it, if it has to be.
Promotes(s, k) == campaigns[k] = "PENDING" => k \in sched[s].pending

\* No tick that is about to claim from a PENDING campaign believes it was
\* promoted already, and no processor works on a campaign never dialed.
LocalRollup ==
    /\ \A s \in Scheduler : sched[s].pc \in {"requeue", "claim"} =>
          campaigns[sched[s].campaign] # ABSENT /\ Promotes(s, sched[s].campaign)
    /\ \A s \in Scheduler : sched[s].pc \in {"gate", "pick"} =>
          \A k \in sched[s].capped : campaigns[k] # ABSENT /\ Promotes(s, k)
    /\ \A p \in Processor : wp[p].pc = "apply" =>
          campaigns[CampaignOf[wp[p].event.handle[1]]] \notin {ABSENT, "PENDING"}

RollupInv == StoreRollup /\ LocalRollup

-----------------------------------------------------------------------------
(* The rollup in state.transition                                          *)

\* A transition of a call whose campaign has been dialed keeps the rollup
\* exact, and takes no campaign back to PENDING.
LEMMA TransitionRollup ==
    ASSUME StoreTypeOK, StoreRollup,
           NEW c \in Call, NEW es, NEW ee, NEW row \in CallRow, row.status \in CallStatus,
           transition(c, es, ee, row),
           calls[c].status = es => campaigns[CampaignOf[c]] \notin {ABSENT, "PENDING"}
    PROVE  /\ StoreRollup'
           /\ \A k \in Campaign : campaigns'[k] \in {ABSENT, "PENDING"} => campaigns'[k] = campaigns[k]
           /\ \A k \in Campaign : campaigns[k] \in {ABSENT, "PENDING"} => campaigns'[k] = campaigns[k]
<1> DEFINE k0 == CampaignOf[c]
<1>1. CASE UNCHANGED <<calls, campaigns>>
  BY <1>1 DEF StoreRollup, RollupExact, CampaignDone
<1>2. CASE ~UNCHANGED <<calls, campaigns>>
  <2>1. /\ calls[c].status = es
        /\ es \in TERMINAL_CALL_STATUSES => row.status = es
        /\ calls'[c].status = row.status
        /\ \A d \in Call \ {c} : calls'[d] = calls[d]
    BY <1>2, TransitionFields
  <2>2. campaigns' = IF row.status \in TERMINAL_CALL_STATUSES
                     THEN maybe_transition_campaign_terminal(k0, calls') ELSE campaigns
    BY <1>2, TransitionCases
  <2>3. /\ k0 \in Campaign
        /\ campaigns[k0] \in {"ACTIVE", "COMPLETED", "FAILED"}
        /\ campaigns \in [Campaign -> CampaignStatus \cup {ABSENT}]
    BY <2>1, CallAssumption DEF StoreTypeOK, CampaignStatus
  <2>4. campaigns[k0] \in {"COMPLETED", "FAILED"} <=> CampaignDone(k0)
    BY <2>3 DEF StoreRollup, RollupExact
  <2>5. ASSUME NEW d \in CallsOf(k0)
        PROVE  d \in Call /\ calls'[d].status \in CallStatus
    <3>1. d \in Call /\ CampaignOf[d] = k0
      BY DEF CallsOf
    <3>2. calls[d].status \in CallStatus
      BY <2>3, <3>1 DEF StoreRollup, StoreTypeOK, CallRow, ABSENT
    <3> QED
      BY <2>1, <3>1, <3>2
  <2>6. c \in CallsOf(k0)
    BY DEF CallsOf
  <2>7. \A k \in Campaign \ {k0} : campaigns'[k] = campaigns[k]
    BY <2>2, <2>3 DEF maybe_transition_campaign_terminal
  <2>8. /\ campaigns'[k0] \in {"ACTIVE", "COMPLETED", "FAILED"}
        /\ campaigns'[k0] \in {"COMPLETED", "FAILED"} <=> CampaignDone(k0)'
        /\ campaigns'[k0] = "COMPLETED" => \E d \in CallsOf(k0) : calls'[d].status = "COMPLETED"
        /\ campaigns'[k0] = "FAILED" => \A d \in CallsOf(k0) : calls'[d].status # "COMPLETED"
    <3>1. CASE row.status \notin TERMINAL_CALL_STATUSES
      <4>1. calls[c].status \notin TERMINAL_CALL_STATUSES
        BY <2>1, <3>1
      <4>2. ~CampaignDone(k0) /\ ~CampaignDone(k0)'
        BY <2>1, <2>6, <3>1, <4>1 DEF CampaignDone
      <4> QED
        BY <2>2, <2>3, <2>4, <3>1, <4>2
    <3>2. CASE row.status \in TERMINAL_CALL_STATUSES /\ campaigns[k0] = "ACTIVE"
      <4> DEFINE statuses == {calls'[d].status : d \in CallsOf(k0)}
      <4>1. campaigns' = IF statuses \cap ACTIVE_CALL_STATUSES = {}
                         THEN [campaigns EXCEPT ![k0] = IF "COMPLETED" \in statuses
                                                        THEN "COMPLETED" ELSE "FAILED"]
                         ELSE campaigns
        BY <2>2, <3>2 DEF maybe_transition_campaign_terminal
      <4>2. CampaignDone(k0)' <=> statuses \cap ACTIVE_CALL_STATUSES = {}
        <5>1. CallStatus = ACTIVE_CALL_STATUSES \cup TERMINAL_CALL_STATUSES
              /\ ACTIVE_CALL_STATUSES \cap TERMINAL_CALL_STATUSES = {}
          BY DEF CallStatus, ACTIVE_CALL_STATUSES, TERMINAL_CALL_STATUSES
        <5>2. CampaignDone(k0)' <=> \A d \in CallsOf(k0) : calls'[d].status \in TERMINAL_CALL_STATUSES
          BY DEF CampaignDone, CallsOf
        <5> QED
          BY <2>5, <5>1, <5>2
      <4>3. "COMPLETED" \in statuses <=> \E d \in CallsOf(k0) : calls'[d].status = "COMPLETED"
        OBVIOUS
      <4> HIDE DEF statuses
      <4> QED
        BY <2>3, <3>2, <4>1, <4>2, <4>3
    <3>3. CASE row.status \in TERMINAL_CALL_STATUSES /\ campaigns[k0] # "ACTIVE"
      <4>1. campaigns' = campaigns
        BY <2>2, <3>3 DEF maybe_transition_campaign_terminal
      <4>2. CampaignDone(k0)
        BY <2>3, <2>4, <3>3
      <4>3. calls[c].status \in TERMINAL_CALL_STATUSES
        BY <2>6, <4>2 DEF CampaignDone
      <4>4. \A d \in CallsOf(k0) : calls'[d].status = calls[d].status
        BY <2>1, <4>3 DEF CallsOf
      <4>5. CampaignDone(k0)'
        BY <4>2, <4>4 DEF CampaignDone, CallsOf
      <4> QED
        BY <2>3, <3>3, <4>1, <4>4, <4>5 DEF StoreRollup, RollupExact
    <3> QED
      BY <2>3, <3>1, <3>2, <3>3
  <2>9. RollupExact'
    <3>1. ASSUME NEW k \in Campaign, k # k0
          PROVE  /\ campaigns'[k] = campaigns[k]
                 /\ \A d \in CallsOf(k) : calls'[d] = calls[d]
      BY <2>1, <2>7, <3>1 DEF CallsOf
    <3>2. ASSUME NEW k \in Campaign, k # k0
          PROVE  /\ campaigns'[k] \in {"COMPLETED", "FAILED"} <=> CampaignDone(k)'
                 /\ campaigns'[k] = "COMPLETED" => \E d \in CallsOf(k) : calls'[d].status = "COMPLETED"
                 /\ campaigns'[k] = "FAILED" => \A d \in CallsOf(k) : calls'[d].status # "COMPLETED"
      <4>1. CampaignDone(k)' <=> CampaignDone(k)
        BY <3>1, <3>2 DEF CampaignDone, CallsOf
      <4> QED
        BY <3>1, <3>2, <4>1 DEF StoreRollup, RollupExact
    <3> HIDE DEF k0
    <3>3. \A k \in Campaign : CallsOf(k)' = CallsOf(k)
      BY DEF CallsOf
    <3> QED
      BY <2>8, <3>2, <3>3 DEF RollupExact
  <2>10. ASSUME NEW d \in Call
         PROVE  /\ calls'[d].status = ABSENT <=> campaigns'[CampaignOf[d]] = ABSENT
                /\ campaigns'[CampaignOf[d]] = "PENDING" => calls'[d].status = "QUEUED"
                /\ campaigns'[CampaignOf[d]] \in {ABSENT, "PENDING"} => calls'[d].provider_call_id = NULL
    <3>1. CASE CampaignOf[d] = k0
      <4>1. calls'[d].status # ABSENT
        BY <2>5, <3>1 DEF CallsOf, CallStatus, ACTIVE_CALL_STATUSES, TERMINAL_CALL_STATUSES, ABSENT
      <4> QED
        BY <2>8, <3>1, <4>1 DEF ABSENT
    <3>2. CASE CampaignOf[d] # k0
      <4>1. calls'[d] = calls[d] /\ CampaignOf[d] \in Campaign
        BY <2>1, <3>2, CallAssumption
      <4> QED
        BY <2>7, <3>2, <4>1 DEF StoreRollup
    <3> QED
      BY <3>1, <3>2
  <2>11. StoreRollup'
    BY <2>9, <2>10 DEF StoreRollup
  <2> QED
    BY <2>3, <2>7, <2>8, <2>11 DEF ABSENT
<1> QED
  BY <1>1, <1>2

-----------------------------------------------------------------------------
(* The invariant                                                           *)

LEMMA InitRollup == Init => RollupInv
<1> SUFFICES ASSUME Init PROVE RollupInv
  OBVIOUS
<1>1. \A c \in Call : calls[c].status = ABSENT /\ calls[c].provider_call_id = NULL
  BY DEF Init, StoreInit
<1>2. \A k \in Campaign : campaigns[k] = ABSENT
  BY DEF Init, StoreInit
<1>3. RollupExact
  <2>1. ASSUME NEW k \in Campaign PROVE ~CampaignDone(k)
    BY <1>1, CampaignAssumption DEF CampaignDone, CallsOf, ABSENT, TERMINAL_CALL_STATUSES
  <2> QED
    BY <1>2, <2>1 DEF RollupExact, ABSENT
<1>4. \A c \in Call : CampaignOf[c] \in Campaign
  BY CallAssumption
<1>5. LocalRollup
  BY DEF Init, SchedInit, WebhookInit, Waiting, WpIdle, LocalRollup
<1> QED
  BY <1>1, <1>2, <1>3, <1>4, <1>5 DEF RollupInv, StoreRollup, ABSENT

\* The claim: it takes an undialed row, and promotes a campaign that is still
\* PENDING because it was PENDING when the tick read it.
LEMMA ClaimRollup ==
    ASSUME TypeOK, RollupInv, NEW s \in Scheduler, NEW c \in Call, claim_next_queued(s, c)
    PROVE  /\ StoreRollup'
           /\ \A k \in Campaign : campaigns'[k] \in {ABSENT, "PENDING"} => campaigns'[k] = campaigns[k]
           /\ \A k \in Campaign : campaigns[k] \notin {ABSENT, "PENDING"} =>
                 campaigns'[k] \notin {ABSENT, "PENDING"}
           /\ \A k \in Campaign : campaigns[k] # ABSENT => campaigns'[k] # ABSENT
<1>0. StoreTypeOK /\ StoreRollup /\ LocalRollup
  BY DEF TypeOK, RollupInv
<1>1. PICK k0 \in Campaign : /\ k0 = sched[s].campaign /\ CampaignOf[c] = k0
                             /\ c \in CallsOf(k0) /\ calls[c].status = "QUEUED"
  BY DEF claim_next_queued, Claimable, CallsOf, TypeOK, SchedTypeOK
<1>2. /\ campaigns[k0] # ABSENT
      /\ campaigns[k0] = "PENDING" => k0 \in sched[s].pending
  BY <1>0, <1>1 DEF claim_next_queued, LocalRollup, Promotes
<1>3. calls' = [calls EXCEPT ![c] = ClaimedRow(c)] /\ ClaimedRow(c).status = "DIALING"
  BY <1>0 DEF claim_next_queued, ClaimedRow, StoreTypeOK, CallRow
<1>4. calls'[c].status = "DIALING" /\ \A d \in Call \ {c} : calls'[d] = calls[d]
  BY <1>0, <1>3 DEF StoreTypeOK
<1>5. campaigns[k0] \in {"PENDING", "ACTIVE"}
  <2>1. ~CampaignDone(k0)
    BY <1>1 DEF CampaignDone, TERMINAL_CALL_STATUSES
  <2> QED
    BY <1>0, <1>1, <1>2, <2>1 DEF StoreRollup, RollupExact, StoreTypeOK, CampaignStatus
<1>6. campaigns'[k0] = "ACTIVE" /\ \A k \in Campaign \ {k0} : campaigns'[k] = campaigns[k]
  BY <1>0, <1>1, <1>2, <1>5 DEF claim_next_queued, maybe_promote_to_active, StoreTypeOK
<1>7. RollupExact'
  <2>1. ~CampaignDone(k0)'
    BY <1>1, <1>4 DEF CampaignDone, CallsOf, TERMINAL_CALL_STATUSES
  <2>2. ASSUME NEW k \in Campaign, k # k0
        PROVE  \A d \in CallsOf(k) : calls'[d] = calls[d]
    BY <1>1, <1>4, <2>2 DEF CallsOf
  <2>3. ASSUME NEW k \in Campaign, k # k0
        PROVE  CampaignDone(k)' <=> CampaignDone(k)
    BY <2>2, <2>3 DEF CampaignDone, CallsOf
  <2>4. \A k \in Campaign : CallsOf(k)' = CallsOf(k)
    BY DEF CallsOf
  <2> QED
    BY <1>0, <1>6, <2>1, <2>2, <2>3, <2>4 DEF StoreRollup, RollupExact
<1>8. ASSUME NEW d \in Call
      PROVE  /\ calls'[d].status = ABSENT <=> campaigns'[CampaignOf[d]] = ABSENT
             /\ campaigns'[CampaignOf[d]] = "PENDING" => calls'[d].status = "QUEUED"
             /\ campaigns'[CampaignOf[d]] \in {ABSENT, "PENDING"} => calls'[d].provider_call_id = NULL
  <2>1. CampaignOf[d] \in Campaign
    BY CallAssumption
  <2>2. CASE CampaignOf[d] = k0
    BY <1>0, <1>2, <1>4, <1>6, <2>2 DEF StoreRollup, ABSENT
  <2>3. CASE CampaignOf[d] # k0
    BY <1>0, <1>1, <1>4, <1>6, <2>1, <2>3 DEF StoreRollup
  <2> QED
    BY <2>2, <2>3
<1>9. StoreRollup'
  BY <1>7, <1>8 DEF StoreRollup
<1> QED
  BY <1>6, <1>9 DEF ABSENT

\* The insert of a campaign with its rows.
LEMMA CreateRollup ==
    ASSUME StoreTypeOK, StoreRollup, NEW k0 \in Campaign, create_campaign(k0)
    PROVE  /\ StoreRollup'
           /\ campaigns[k0] = ABSENT
           /\ \A k \in Campaign \ {k0} : campaigns'[k] = campaigns[k]
<1>1. /\ campaigns[k0] = ABSENT /\ campaigns'[k0] = "PENDING"
      /\ \A k \in Campaign \ {k0} : campaigns'[k] = campaigns[k]
  BY DEF create_campaign, create_batch, StoreTypeOK
<1>2. \A c \in Call : /\ CampaignOf[c] = k0 => calls'[c].status = "QUEUED"
                      /\ calls'[c].provider_call_id = calls[c].provider_call_id
                      /\ CampaignOf[c] # k0 => calls'[c] = calls[c]
  BY DEF create_campaign, create_batch, StoreTypeOK, CallRow
<1>3. RollupExact'
  <2>1. ~CampaignDone(k0)'
    BY <1>2, CampaignAssumption DEF CampaignDone, CallsOf, TERMINAL_CALL_STATUSES
  <2>2. ASSUME NEW k \in Campaign, k # k0
        PROVE  \A d \in CallsOf(k) : calls'[d] = calls[d]
    BY <1>2, <2>2 DEF CallsOf
  <2>3. ASSUME NEW k \in Campaign, k # k0
        PROVE  CampaignDone(k)' <=> CampaignDone(k)
    BY <2>2, <2>3 DEF CampaignDone, CallsOf
  <2>4. \A k \in Campaign : CallsOf(k)' = CallsOf(k)
    BY DEF CallsOf
  <2> QED
    BY <1>1, <2>1, <2>2, <2>3, <2>4 DEF StoreRollup, RollupExact
<1>4. ASSUME NEW d \in Call
      PROVE  /\ calls'[d].status = ABSENT <=> campaigns'[CampaignOf[d]] = ABSENT
             /\ campaigns'[CampaignOf[d]] = "PENDING" => calls'[d].status = "QUEUED"
             /\ campaigns'[CampaignOf[d]] \in {ABSENT, "PENDING"} => calls'[d].provider_call_id = NULL
  <2>1. CampaignOf[d] \in Campaign
    BY CallAssumption
  <2>2. CASE CampaignOf[d] = k0
    BY <1>1, <1>2, <2>2 DEF StoreRollup, ABSENT
  <2>3. CASE CampaignOf[d] # k0
    BY <1>1, <1>2, <2>1, <2>3 DEF StoreRollup
  <2> QED
    BY <2>2, <2>3
<1> QED
  BY <1>1, <1>3, <1>4 DEF StoreRollup

\* The clock touches no status and no handle.
LEMMA ClockRollup ==
    ASSUME StoreTypeOK, StoreRollup, NEW c \in Call, BackoffElapses(c) \/ age_dialing(c)
    PROVE  StoreRollup' /\ UNCHANGED campaigns
<1>1. UNCHANGED campaigns
  BY DEF BackoffElapses, age_dialing
<1>2. \A d \in Call : calls'[d].status = calls[d].status
                      /\ calls'[d].provider_call_id = calls[d].provider_call_id
  BY DEF BackoffElapses, age_dialing, StoreTypeOK, CallRow
<1>3. \A k \in Campaign : CampaignDone(k)' <=> CampaignDone(k)
  BY <1>2 DEF CampaignDone, CallsOf
<1>4. \A k \in Campaign : CallsOf(k)' = CallsOf(k) /\ CallsOf(k) \subseteq Call
  BY DEF CallsOf
<1>5. RollupExact'
  BY <1>1, <1>2, <1>3, <1>4 DEF StoreRollup, RollupExact
<1> QED
  BY <1>1, <1>2, <1>5 DEF StoreRollup

\* The tables: the rollup is kept, and a campaign never goes back to ABSENT
\* or PENDING.
LEMMA StoreNextRollup ==
    ASSUME TypeOK, RollupInv, Next
    PROVE  /\ StoreRollup'
           /\ \A k \in Campaign : campaigns[k] # ABSENT =>
                 /\ campaigns'[k] # ABSENT
                 /\ campaigns'[k] = "PENDING" => campaigns[k] = "PENDING"
<1>0. StoreTypeOK /\ StoreRollup /\ LocalRollup
  BY DEF TypeOK, RollupInv
<1>1. CASE UNCHANGED <<calls, campaigns>>
  <2>1. \A k \in Campaign : CampaignDone(k)' <=> CampaignDone(k)
    BY <1>1 DEF CampaignDone, CallsOf
  <2> QED
    BY <1>0, <1>1, <2>1 DEF StoreRollup, RollupExact, CallsOf
<1>2. ASSUME NEW k \in Campaign, create_campaign(k)
      PROVE  /\ StoreRollup'
             /\ \A j \in Campaign : campaigns[j] # ABSENT => campaigns'[j] = campaigns[j]
  BY <1>0, <1>2, CreateRollup
<1>3. ASSUME NEW c \in Call, BackoffElapses(c) \/ age_dialing(c)
      PROVE  StoreRollup' /\ UNCHANGED campaigns
  BY <1>0, <1>3, ClockRollup
<1>4. ASSUME NEW s \in Scheduler, NEW c \in Call, claim_next_queued(s, c)
      PROVE  /\ StoreRollup'
             /\ \A k \in Campaign : campaigns'[k] = "PENDING" => campaigns[k] = "PENDING"
             /\ \A k \in Campaign : campaigns[k] # ABSENT => campaigns'[k] # ABSENT
  BY <1>4, ClaimRollup
<1>5. ASSUME NEW c \in Call, NEW row \in CallRow, NEW es, NEW ee, transition(c, es, ee, row),
             row.status \in CallStatus,
             calls[c].status = es => campaigns[CampaignOf[c]] \notin {ABSENT, "PENDING"}
      PROVE  /\ StoreRollup'
             /\ \A k \in Campaign : campaigns'[k] \in {ABSENT, "PENDING"} => campaigns'[k] = campaigns[k]
  BY <1>0, <1>5, TransitionRollup
<1>6. ASSUME NEW c \in Call, calls[c].status \in {"DIALING", "RETRY_PENDING"}
      PROVE  campaigns[CampaignOf[c]] \notin {ABSENT, "PENDING"}
  BY <1>0, <1>6 DEF StoreRollup, ABSENT
<1>7. ASSUME NEW p \in Processor, wp[p].pc = "apply"
      PROVE  campaigns[CampaignOf[wp[p].event.handle[1]]] \notin {ABSENT, "PENDING"}
  BY <1>0, <1>7 DEF LocalRollup
<1>8. CASE Transitioned
  <2>1. PICK c \in Call, row \in CallRow :
            \/ Requeued(c, row) \/ Swept(c, row)
            \/ \E s \in Scheduler : ResultStored(s, c, row)
            \/ \E p \in Processor : EventApplied(p, c, row)
    BY <1>8 DEF Transitioned
  <2>2. row.status \in CallStatus
    BY <2>1 DEF Requeued, Swept, ResultStored, EventApplied, OutcomeRow, CallStatus,
                ACTIVE_CALL_STATUSES, IN_FLIGHT
  <2>3. PICK es, ee :
            /\ transition(c, es, ee, row)
            /\ \/ es \in {"DIALING", "RETRY_PENDING"}
               \/ \E p \in Processor : wp[p].pc = "apply" /\ c = wp[p].event.handle[1]
    BY <2>1 DEF Requeued, Swept, ResultStored, EventApplied
  <2>4. calls[c].status = es => campaigns[CampaignOf[c]] \notin {ABSENT, "PENDING"}
    BY <1>6, <1>7, <2>3
  <2> QED
    BY <1>5, <2>2, <2>3, <2>4
<1> QED
  BY <1>1, <1>2, <1>3, <1>4, <1>8, StoreSteps

\* The campaigns a tick has in hand: those it read, in the statuses it read.
Candidates(s) == IF sched[s].pc \in {"gate", "pick"} THEN sched[s].capped
                 ELSE IF sched[s].pc \in {"requeue", "claim"} THEN {sched[s].campaign}
                 ELSE {}

\* The scheduler: a tick starts from the campaigns it has just read, and only
\* ever narrows them down.
LEMMA SchedPicks ==
    ASSUME TypeOK, Next, NEW s \in Scheduler, NEW k, k \in Candidates(s)'
    PROVE  \/ k \in Candidates(s) /\ (k \in sched[s].pending => k \in sched'[s].pending)
           \/ /\ UNCHANGED campaigns
              /\ campaigns[k] \in {"PENDING", "ACTIVE"}
              /\ campaigns[k] = "PENDING" => k \in sched'[s].pending
<1>0. sched \in [Scheduler -> SchedLocal] /\ StoreTypeOK
  BY DEF TypeOK, SchedTypeOK
<1>1. CASE sched'[s] = sched[s]
  BY <1>1 DEF Candidates
<1>2. ASSUME NEW r \in Scheduler, r # s, NEW l, sched' = [sched EXCEPT ![r] = l]
      PROVE  sched'[s] = sched[s]
  BY <1>0, <1>2
<1>3. ASSUME NEW r \in Scheduler, SchedNext(r), r # s PROVE sched'[s] = sched[s]
  BY <1>0, <1>2, <1>3
  DEF SchedNext, TickStep, tick_idle, tick, concurrency_gate, pick, requeue_oldest_retry_due,
      requeue_conflict, claim_next_queued, claim_nothing, dial, apply_result, tick_fails, Goto
<1>4. ASSUME NEW open \in Windows, tick(s, open)
      PROVE  /\ UNCHANGED campaigns
             /\ campaigns[k] \in {"PENDING", "ACTIVE"}
             /\ campaigns[k] = "PENDING" => k \in sched'[s].pending
  <2>1. sched'[s] = [Waiting EXCEPT !.pc      = "gate",
                                    !.capped  = Eligible \cap open,
                                    !.pending = {j \in Eligible \cap open : campaigns[j] = "PENDING"},
                                    !.cursor  = last_dispatch_at]
    BY <1>0, <1>4 DEF tick, Goto
  <2>2. /\ sched'[s].pc = "gate" /\ sched'[s].capped = Eligible \cap open
        /\ sched'[s].pending = {j \in Eligible \cap open : campaigns[j] = "PENDING"}
    BY <2>1 DEF Waiting
  <2>3. k \in Eligible \cap open
    BY <2>2 DEF Candidates
  <2> QED
    BY <1>4, <2>2, <2>3 DEF Eligible, tick, storeVars
<1>5. CASE concurrency_gate(s)
  <2> DEFINE capped == {j \in sched[s].capped : BelowCap(j)}
  <2>1. sched'[s] = IF capped = {} THEN Waiting
                    ELSE [sched[s] EXCEPT !.pc = "pick", !.capped = capped]
    BY <1>0, <1>5 DEF concurrency_gate, Goto
  <2>2. capped \subseteq sched[s].capped
    OBVIOUS
  <2> HIDE DEF capped
  <2>3. CASE capped = {}
    BY <2>1, <2>3 DEF Waiting, Candidates
  <2>4. CASE capped # {}
    <3>1. sched'[s].pc = "pick" /\ sched'[s].capped = capped /\ sched'[s].pending = sched[s].pending
      BY <1>0, <2>1, <2>4 DEF SchedLocal
    <3> QED
      BY <1>5, <2>2, <3>1 DEF concurrency_gate, Candidates
  <2> QED
    BY <2>3, <2>4
<1>6. CASE pick(s)
  <2>1. PICK j : j = Picked(sched[s].cursor, sched[s].capped)
    OBVIOUS
  <2>2. j \in sched[s].capped
    BY <1>6, <2>1, PickedIn DEF pick, TypeOK, SchedTypeOK, SchedLocal
  <2>3. sched'[s] = [Waiting EXCEPT !.pc       = IF j \in RetryDue THEN "requeue" ELSE "claim",
                                    !.pending  = sched[s].pending \cap {j},
                                    !.campaign = j]
    BY <1>0, <1>6, <2>1 DEF pick, Goto
  <2>4. /\ sched'[s].pc \in {"requeue", "claim"} /\ sched'[s].campaign = j
        /\ sched'[s].pending = sched[s].pending \cap {j}
    BY <2>3 DEF Waiting
  <2>5. k = j
    BY <2>4 DEF Candidates
  <2> QED
    BY <1>6, <2>2, <2>4, <2>5 DEF pick, Candidates
<1>7. CASE requeue_oldest_retry_due(s)
  <2>1. /\ sched[s].pc = "requeue" /\ sched'[s].pc = "claim"
        /\ sched'[s].campaign = sched[s].campaign /\ sched'[s].pending = sched[s].pending
    BY <1>0, <1>7 DEF requeue_oldest_retry_due, Goto, SchedLocal
  <2> QED
    BY <2>1 DEF Candidates
<1>8. ASSUME sched'[s].pc \in {"wait", "dial", "apply"} PROVE FALSE
  BY <1>8 DEF Candidates
<1>9. CASE Goto(s, Waiting)
  BY <1>0, <1>8, <1>9 DEF Goto, Waiting
<1>10. ASSUME NEW c \in Call, claim_next_queued(s, c) PROVE FALSE
  BY <1>0, <1>8, <1>10 DEF claim_next_queued, Goto, SchedLocal
<1>11. ASSUME NEW outcome \in DialOutcome, dial(s, outcome) PROVE FALSE
  BY <1>0, <1>8, <1>11 DEF dial, Goto, SchedLocal
<1>12. CASE SchedNext(s)
  BY <1>1, <1>4, <1>5, <1>6, <1>7, <1>9, <1>10, <1>11, <1>12
  DEF SchedNext, TickStep, tick_idle, requeue_conflict, claim_nothing, apply_result, tick_fails
<1>13. CASE EnvNext \/ ProviderNext \/ IngestNext \/ ReclaimNext
            \/ \E p \in Processor : ProcessorNext(p)
  BY <1>1, <1>13
  DEF EnvNext, ProviderNext, IngestNext, ReclaimNext, SweepBegins, SweepStep, ProcessorNext
<1> QED
  BY <1>1, <1>3, <1>12, <1>13 DEF Next

\* The processors: a call is read only through a handle it carries.
LEMMA ProcessorReads ==
    ASSUME TypeOK, StoreRollup, Next, NEW p \in Processor, wp'[p].pc = "apply"
    PROVE  \/ wp'[p] = wp[p]
           \/ /\ UNCHANGED campaigns
              /\ campaigns[CampaignOf[wp'[p].event.handle[1]]] \notin {ABSENT, "PENDING"}
<1>0. wp \in [Processor -> WpLocal]
  BY DEF TypeOK, WebhookTypeOK
<1>1. ASSUME NEW q \in Processor, NEW e \in Event, process_read(q, e), q = p
      PROVE  /\ UNCHANGED campaigns
             /\ campaigns[CampaignOf[wp'[p].event.handle[1]]] \notin {ABSENT, "PENDING"}
  <2>1. wp'[p].event = e /\ UNCHANGED campaigns /\ Known(e)
    BY <1>0, <1>1 DEF process_read, storeVars
  <2>2. e.handle[1] \in Call /\ e.handle # NULL
    BY NullAssumption, LimitAssumption DEF Event, Handle, Epoch
  <2> QED
    BY <2>1, <2>2 DEF Known, StoreRollup
<1>2. ASSUME NEW q \in Processor, ProcessorNext(q)
      PROVE  wp'[p] = wp[p] \/ \E e \in Event : process_read(q, e) /\ q = p
  BY <1>0, <1>2 DEF ProcessorNext, process_ignored, process_read, process_apply, process_fails, WpIdle
<1>3. CASE UNCHANGED wp
  BY <1>3
<1>4. CASE EnvNext \/ ProviderNext \/ IngestNext \/ ReclaimNext \/ \E s \in Scheduler : SchedNext(s)
  BY <1>3, <1>4
  DEF EnvNext, ProviderNext, IngestNext, handle_webhook_ingest, insert, ReclaimNext, SweepBegins,
      SweepStep, SchedNext, TickStep
<1> QED
  BY <1>1, <1>2, <1>4 DEF Next

LEMMA NextRollup == TypeOK /\ RollupInv /\ [Next]_vars => RollupInv'
<1> SUFFICES ASSUME TypeOK, RollupInv, [Next]_vars PROVE RollupInv'
  OBVIOUS
<1>1. CASE UNCHANGED vars
  <2>1. UNCHANGED <<calls, campaigns, sched, wp>>
    BY <1>1 DEF vars, storeVars
  <2>2. \A k \in Campaign : CampaignDone(k)' <=> CampaignDone(k)
    BY <2>1 DEF CampaignDone, CallsOf
  <2> QED
    BY <2>1, <2>2 DEF RollupInv, StoreRollup, RollupExact, LocalRollup, Promotes, CallsOf
<1>2. CASE Next
  <2>1. /\ StoreRollup'
        /\ \A k \in Campaign : campaigns[k] # ABSENT =>
              /\ campaigns'[k] # ABSENT
              /\ campaigns'[k] = "PENDING" => campaigns[k] = "PENDING"
    BY <1>2, StoreNextRollup
  <2>2. StoreRollup /\ LocalRollup /\ TypeOK'
    BY <1>2, NextType DEF RollupInv
  <2>3. ASSUME NEW s \in Scheduler, NEW k, k \in Candidates(s)'
        PROVE  campaigns'[k] # ABSENT /\ Promotes(s, k)'
    <3>1. k \in Campaign
      BY <2>2, <2>3 DEF Candidates, TypeOK, SchedTypeOK, SchedLocal
    <3>2. ASSUME k \in Candidates(s) PROVE campaigns[k] # ABSENT /\ Promotes(s, k)
      BY <2>2, <3>2 DEF Candidates, LocalRollup
    <3> QED
      BY <1>2, <2>1, <2>3, <3>1, <3>2, SchedPicks DEF Promotes, ABSENT
  <2>4. ASSUME NEW p \in Processor, wp'[p].pc = "apply"
        PROVE  campaigns'[CampaignOf[wp'[p].event.handle[1]]] \notin {ABSENT, "PENDING"}
    <3>1. wp'[p].event \in Event
      BY <2>2, <2>4 DEF TypeOK, WebhookTypeOK
    <3>2. CampaignOf[wp'[p].event.handle[1]] \in Campaign
      BY <3>1, CallAssumption DEF Event, Handle
    <3> QED
      BY <1>2, <2>1, <2>2, <2>4, <3>2, ProcessorReads DEF LocalRollup
  <2> QED
    BY <2>1, <2>3, <2>4 DEF RollupInv, LocalRollup, Candidates
<1> QED
  BY <1>1, <1>2

LEMMA RollupAlways == Spec => [](TypeOK /\ RollupInv)
<1>1. Init => TypeOK /\ RollupInv
  BY InitType, InitRollup
<1>2. TypeOK /\ RollupInv /\ [Next]_vars => (TypeOK /\ RollupInv)'
  BY NextType, NextRollup
<1> QED
  BY <1>1, <1>2, PTL DEF Spec

-----------------------------------------------------------------------------
(* The theorems                                                            *)

\* In every reachable state a campaign is COMPLETED or FAILED if and only if
\* all of its calls have finished, and COMPLETED if and only if, besides, one
\* of them completed: no rollup is missed, early or wrong, whatever order the
\* ticks, events and sweeps commit in.
THEOREM RollupAlwaysExact == Spec => []RollupExact
<1>1. RollupInv => RollupExact
  BY DEF RollupInv, StoreRollup
<1> QED
  BY <1>1, RollupAlways, PTL

\* A finished call keeps its status, its attempt and its budget for ever,
\* whichever process holds a snapshot of it from before it finished.
THEOREM FinishedStaysFinished == Spec => TerminalAbsorbing
<1> DEFINE Kept(c) == /\ calls'[c].status = calls[c].status
                      /\ calls'[c].attempt_epoch = calls[c].attempt_epoch
                      /\ calls'[c].retries_remaining = calls[c].retries_remaining
           Absorbing == \A c \in Call : calls[c].status \in TERMINAL_CALL_STATUSES => Kept(c)
<1>1. ASSUME TypeOK, RollupInv, Next, NEW d \in Call, calls[d].status \in TERMINAL_CALL_STATUSES
      PROVE  Kept(d)
  <2>0. StoreTypeOK /\ StoreRollup
    BY <1>1 DEF TypeOK, RollupInv
  <2>1. CASE UNCHANGED <<calls, campaigns>>
    BY <2>1
  <2>2. ASSUME NEW k \in Campaign, create_campaign(k) PROVE Kept(d)
    <3>1. CampaignOf[d] # k
      BY <1>1, <2>0, <2>2 DEF create_campaign, create_batch, StoreRollup, TERMINAL_CALL_STATUSES, ABSENT
    <3> QED
      BY <2>2, <3>1 DEF create_campaign, create_batch
  <2>3. ASSUME NEW c \in Call, BackoffElapses(c) \/ age_dialing(c) PROVE Kept(d)
    BY <2>0, <2>3 DEF BackoffElapses, age_dialing, StoreTypeOK, CallRow
  <2>4. ASSUME NEW s \in Scheduler, NEW c \in Call, claim_next_queued(s, c) PROVE Kept(d)
    <3>1. d # c
      BY <1>1, <2>4 DEF claim_next_queued, Claimable, TERMINAL_CALL_STATUSES
    <3> QED
      BY <2>0, <2>4, <3>1 DEF claim_next_queued, StoreTypeOK
  <2>5. ASSUME NEW c \in Call, NEW row \in CallRow, NEW es \in {"DIALING", "RETRY_PENDING"},
               NEW ee, transition(c, es, ee, row)
        PROVE  Kept(d)
    <3>1. es \notin TERMINAL_CALL_STATUSES
      BY DEF TERMINAL_CALL_STATUSES
    <3> QED
      BY <1>1, <2>0, <2>5, <3>1, TransitionFields
  <2>6. ASSUME NEW c \in Call, NEW row \in CallRow, NEW es, NEW ee, transition(c, es, ee, row),
               row.attempt_epoch = calls[c].attempt_epoch,
               row.status \in TERMINAL_CALL_STATUSES =>
                  row.retries_remaining = calls[c].retries_remaining
        PROVE  Kept(d)
    BY <1>1, <2>0, <2>6, TransitionFields
  <2>7. CASE Transitioned
    <3>1. PICK c \in Call, row \in CallRow :
              \/ Requeued(c, row) \/ Swept(c, row)
              \/ \E s \in Scheduler : ResultStored(s, c, row)
              \/ \E p \in Processor : EventApplied(p, c, row)
      BY <2>7 DEF Transitioned
    <3>2. CASE Requeued(c, row) \/ Swept(c, row) \/ \E s \in Scheduler : ResultStored(s, c, row)
      <4>1. PICK es, ee : es \in {"DIALING", "RETRY_PENDING"} /\ transition(c, es, ee, row)
        BY <3>2 DEF Requeued, Swept, ResultStored
      <4> HIDE DEF Kept
      <4> QED
        BY <2>5, <4>1
    <3>3. ASSUME NEW p \in Processor, EventApplied(p, c, row) PROVE Kept(d)
      <4>1. /\ transition(c, wp[p].status, wp[p].epoch, row)
            /\ row.attempt_epoch = calls[c].attempt_epoch
            /\ row.status \in TERMINAL_CALL_STATUSES =>
                  row.retries_remaining = calls[c].retries_remaining
        BY <3>3 DEF EventApplied, OutcomeRow, KeepsAttempt, KeepsBudget, TERMINAL_CALL_STATUSES
      <4> HIDE DEF Kept
      <4> QED
        BY <2>6, <4>1
    <3> QED
      BY <3>1, <3>2, <3>3
  <2> HIDE DEF Kept
  <2> QED
    BY <1>1, <2>1, <2>2, <2>3, <2>4, <2>7, StoreSteps
<1>2. TypeOK /\ RollupInv /\ [Next]_vars => [Absorbing]_vars
  BY <1>1
<1>3. [][Absorbing]_vars => TerminalAbsorbing
  BY DEF TerminalAbsorbing
<1> HIDE DEF Absorbing
<1> QED
  BY <1>2, <1>3, RollupAlways, PTL DEF Spec

=============================================================================

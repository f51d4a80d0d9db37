---------------------------- MODULE RuntimeProofs ----------------------------
(***************************************************************************)
(* No wake-up is lost, for any number of calls, drains and rows.           *)
(***************************************************************************)
EXTENDS Runtime, WellFoundedInduction, TLAPS

\* Only a drain that runs, and only a sweep that runs, has something left to
\* announce.
Announcers ==
    /\ \A d \in Drain : drain[d].pc = "off" => drain[d].applied_any = FALSE
    /\ sweep.pc = "idle" => sweep = NoSweep

WakeInv == RuntimeTypeOK /\ Announcers /\ WakeCovered

-----------------------------------------------------------------------------
\* ORDER BY received_at has a first row.
LEMMA OldestRow ==
    ASSUME NEW S \in SUBSET Nat, S # {}
    PROVE  Min(S) \in S
<1>1. \E x \in S : \A y \in S : ~ (<<y, x>> \in OpToRel(<, Nat))
  BY WFMin, NatLessThanWellFounded
<1>2. \A x, y \in Nat : <<y, x>> \in OpToRel(<, Nat) <=> y < x
  BY DEF OpToRel
<1>3. \E x \in S : \A y \in S : ~ (y < x)
  BY <1>1, <1>2
<1>4. \E x \in S : \A y \in S : x <= y
  BY <1>3
<1> QED
  BY <1>4 DEF Min

LEMMA InitWake == Init => WakeInv
<1> SUFFICES ASSUME Init
             PROVE  WakeInv
  OBVIOUS
<1> USE RuntimeAssumption DEF Init
<1>1. drain \in [Drain -> DrainLocal]
  BY DEF DrainLocal, Off
<1>2. RuntimeTypeOK
  BY <1>1 DEF RuntimeTypeOK, Off, Waiting, NoSweep
<1>3. Announcers /\ WakeCovered
  BY DEF Announcers, WakeCovered, Off
<1> QED
  BY <1>2, <1>3 DEF WakeInv

\* The routes.
LEMMA RouteSteps ==
    ASSUME WakeInv,
           \/ create_campaign
           \/ notify_created
           \/ \E r \in Row : ingest(r)
           \/ \E r \in Row, t \in Task : spawn_drain(r, t)
           \/ safety_net_drain
    PROVE  WakeInv'
<1> USE DEF WakeInv, inboxVars, loopVars
<1>1. CASE create_campaign
  BY <1>1 DEF create_campaign, RuntimeTypeOK, Announcers, WakeCovered
<1>2. CASE notify_created
  BY <1>2 DEF notify_created, RuntimeTypeOK, Announcers, WakeCovered
<1>3. ASSUME NEW r \in Row, ingest(r)
      PROVE  WakeInv'
  BY <1>3 DEF ingest, RuntimeTypeOK, Announcers, WakeCovered
<1>4. ASSUME NEW d \in Drain, drain[d].pc = "off",
             drain' = [drain EXCEPT ![d] = Started],
             requests' \subseteq requests,
             UNCHANGED <<status, inbox, processed, loopVars, sweep, posting>>
      PROVE  WakeInv'
  <2>1. RuntimeTypeOK'
    BY <1>4, RuntimeAssumption DEF RuntimeTypeOK, DrainLocal, Started
  <2>2. Announcers'
    BY <1>4 DEF RuntimeTypeOK, Announcers, Started
  <2>3. WakeCovered'
    BY <1>4 DEF RuntimeTypeOK, Announcers, WakeCovered, Started
  <2> QED
    BY <2>1, <2>2, <2>3
<1>5. ASSUME NEW r \in Row, NEW t \in Task, spawn_drain(r, t)
      PROVE  WakeInv'
  BY <1>4, <1>5 DEF spawn_drain, Drain
<1>6. CASE safety_net_drain
  BY <1>4, <1>6 DEF safety_net_drain, Drain
<1> QED
  BY <1>1, <1>2, <1>3, <1>5, <1>6

\* What a transition of a call leaves alone.
LEMMA TransitionType ==
    ASSUME RuntimeTypeOK, NEW c, NEW to \in {"waiting", "in_flight", "ended"},
           transition(c, to)
    PROVE  status' \in [Call -> {"absent", "fresh", "waiting", "in_flight", "ended"}]
  BY DEF RuntimeTypeOK, transition

\* A drain that goes on with its next row remembers what it has applied.
LEMMA GoesOnWithNextRow ==
    ASSUME WakeInv, NEW d \in Drain, NEW applied \in BOOLEAN,
           drain[d].pc = "row", NextRow(d, applied),
           UNCHANGED <<inbox, requests, event, loop, sweep, posting>>,
           status' \in [Call -> {"absent", "fresh", "waiting", "in_flight", "ended"}],
           processed' = processed \/ processed' = processed \cup {drain[d].row},
           owed' \in BOOLEAN, owed' => owed \/ applied
    PROVE  WakeInv'
<1> USE DEF WakeInv
<1>1. drain' \in [Drain -> DrainLocal]
  <2>1. drain[d] \in DrainLocal /\ drain[d].left > 0
    BY DEF RuntimeTypeOK
  <2>2. PICK any \in BOOLEAN : any = (drain[d].applied_any \/ applied)
    OBVIOUS
  <2>3. [pc |-> "next", row |-> NULL, left |-> drain[d].left - 1,
         applied_any |-> any] \in DrainLocal
    BY <2>1, RuntimeAssumption DEF DrainLocal
  <2> QED
    BY <2>2, <2>3 DEF RuntimeTypeOK, NextRow
<1>2. RuntimeTypeOK'
  BY <1>1 DEF RuntimeTypeOK, NextRow
<1>3. Announcers'
  BY DEF RuntimeTypeOK, Announcers, NextRow
<1>4. WakeCovered'
  BY DEF RuntimeTypeOK, DrainLocal, WakeCovered, NextRow
<1> QED
  BY <1>2, <1>3, <1>4

\* The drains.
LEMMA DrainSteps ==
    ASSUME WakeInv, NEW d \in Drain, DrainStep(d) \/ row_error(d)
    PROVE  WakeInv'
<1> USE DEF inboxVars, loopVars
<1>1. CASE claim_row(d)
  <2>1. Claimable \subseteq inbox /\ Claimable \in SUBSET Nat
    BY RowAssumption DEF WakeInv, RuntimeTypeOK, Claimable
  <2>2. Min(Claimable) \in inbox
    BY <1>1, <2>1, OldestRow DEF claim_row
  <2>3. RuntimeTypeOK'
    BY <1>1, <2>2 DEF claim_row, WakeInv, RuntimeTypeOK, DrainLocal
  <2>4. Announcers' /\ WakeCovered'
    BY <1>1 DEF claim_row, WakeInv, RuntimeTypeOK, DrainLocal, Announcers, WakeCovered
  <2> QED
    BY <2>3, <2>4 DEF WakeInv
<1>2. CASE row_stale(d)
  BY <1>2, GoesOnWithNextRow DEF row_stale, WakeInv, RuntimeTypeOK
<1>3. CASE row_applied(d)
  <2>1. status' \in [Call -> {"absent", "fresh", "waiting", "in_flight", "ended"}]
    BY <1>3, TransitionType DEF row_applied, WakeInv
  <2>2. owed' \in BOOLEAN
    BY <1>3 DEF row_applied, WakeInv, RuntimeTypeOK
  <2> QED
    BY <1>3, <2>1, <2>2, GoesOnWithNextRow DEF row_applied
<1>4. CASE row_error(d)
  BY <1>4, GoesOnWithNextRow DEF row_error, WakeInv, RuntimeTypeOK
<1>5. CASE drain_ends(d)
  <2> USE <1>5 DEF drain_ends, Off
  <2>1. event' \in BOOLEAN
    BY DEF WakeInv, RuntimeTypeOK, DrainLocal
  <2>2. drain' \in [Drain -> DrainLocal]
    BY RuntimeAssumption DEF WakeInv, RuntimeTypeOK, DrainLocal
  <2>3. RuntimeTypeOK'
    BY <2>1, <2>2 DEF WakeInv, RuntimeTypeOK
  <2>4. Announcers'
    BY DEF WakeInv, RuntimeTypeOK, Announcers
  <2>5. WakeCovered'
    BY DEF WakeInv, RuntimeTypeOK, WakeCovered
  <2> QED
    BY <2>3, <2>4, <2>5 DEF WakeInv
<1> QED
  BY <1>1, <1>2, <1>3, <1>4, <1>5 DEF DrainStep

\* The scheduler loop.  Its tick begins with the flag down and nothing owed,
\* and leaves the flag alone when it is over.
LEMMA LoopSteps ==
    ASSUME WakeInv, LoopNext
    PROVE  WakeInv'
<1> USE DEF inboxVars, WakeInv, Waiting, Announcers, WakeCovered, Lowered, TickOver
<1>1. CASE loop_wakes
  BY <1>1 DEF loop_wakes, RuntimeTypeOK
<1>2. ASSUME NEW c \in Call, tick_claims(c)
      PROVE  WakeInv'
  BY <1>2, RuntimeAssumption DEF tick_claims, RuntimeTypeOK
<1>3. CASE tick_idle
  BY <1>3 DEF tick_idle, RuntimeTypeOK
<1>4. CASE tick_dialed
  BY <1>4 DEF tick_dialed, RuntimeTypeOK
<1>5. CASE tick_refused
  <2>1. status' \in [Call -> {"absent", "fresh", "waiting", "in_flight", "ended"}]
    BY <1>5, TransitionType DEF tick_refused
  <2> QED
    BY <1>5, <2>1 DEF tick_refused, RuntimeTypeOK
<1>6. CASE tick_fails
  BY <1>6 DEF tick_fails, RuntimeTypeOK
<1> QED
  BY <1>1, <1>2, <1>3, <1>4, <1>5, <1>6 DEF LoopNext

\* The sweep, which raises the flag when its last task is done.
LEMMA SweepSteps ==
    ASSUME WakeInv, SweepNext
    PROVE  WakeInv'
<1> USE DEF inboxVars, loopVars, WakeInv
<1>1. ASSUME NEW stuck \in SUBSET Call, sweep_begins(stuck)
      PROVE  WakeInv'
  BY <1>1 DEF sweep_begins, RuntimeTypeOK, Announcers, WakeCovered, NoSweep
<1>2. ASSUME NEW c \in Call, sweep_applied(c)
      PROVE  WakeInv'
  <2>1. status' \in [Call -> {"absent", "fresh", "waiting", "in_flight", "ended"}]
    BY <1>2, TransitionType DEF sweep_applied
  <2>2. sweep.pc # "idle"
    BY <1>2 DEF sweep_applied, Announcers, NoSweep
  <2> QED
    BY <1>2, <2>1, <2>2 DEF sweep_applied, RuntimeTypeOK, Announcers, WakeCovered
<1>3. ASSUME NEW c \in Call, sweep_skipped(c)
      PROVE  WakeInv'
  <2>1. sweep.pc # "idle"
    BY <1>3 DEF sweep_skipped, Announcers, NoSweep
  <2> QED
    BY <1>3, <2>1 DEF sweep_skipped, RuntimeTypeOK, Announcers, WakeCovered
<1>4. CASE sweep_ends
  BY <1>4 DEF sweep_ends, RuntimeTypeOK, Announcers, WakeCovered, NoSweep
<1> QED
  BY <1>1, <1>2, <1>3, <1>4 DEF SweepNext

\* The process is started again with nothing to announce.
LEMMA CrashStep ==
    ASSUME WakeInv, crash
    PROVE  WakeInv'
<1> USE RuntimeAssumption DEF crash
<1>1. drain' \in [Drain -> DrainLocal]
  BY DEF DrainLocal, Off
<1>2. RuntimeTypeOK'
  BY <1>1 DEF WakeInv, RuntimeTypeOK, Off, Waiting, NoSweep
<1>3. Announcers' /\ WakeCovered'
  BY DEF Announcers, WakeCovered, Off, NoSweep
<1> QED
  BY <1>2, <1>3 DEF WakeInv

LEMMA WakeStep == WakeInv /\ [Next]_vars => WakeInv'
<1> SUFFICES ASSUME WakeInv, [Next]_vars
             PROVE  WakeInv'
  OBVIOUS
<1>1. CASE UNCHANGED vars
  BY <1>1 DEF vars, inboxVars, loopVars, WakeInv, RuntimeTypeOK, Announcers, WakeCovered
<1> QED
  BY <1>1, RouteSteps, DrainSteps, LoopSteps, SweepSteps, CrashStep DEF Next

-----------------------------------------------------------------------------
(* The theorem                                                             *)

\* The loop lowers the flag before its tick, and every task raises it after
\* the commit it announces: whatever is committed while a tick runs is seen by
\* the next one without the help of the timer.
THEOREM NoLostWakeUp == Spec => []WakeCovered
<1>1. Spec => []WakeInv
  BY InitWake, WakeStep, PTL DEF Spec
<1>2. WakeInv => WakeCovered
  BY DEF WakeInv
<1> QED
  BY <1>1, <1>2, PTL

=============================================================================

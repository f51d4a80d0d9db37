------------------------------ MODULE Runtime -------------------------------
(***************************************************************************)
(* One process of the application: the tasks that share its event loop and *)
(* when each of them runs.                                                 *)
(*   - the webhook route commits an event to webhook_inbox and spawns a    *)
(*     task that drains the inbox (app/api/webhooks_ingest.py);            *)
(*   - a drain claims at most Batch rows, oldest first, each in its own    *)
(*     transaction, and raises the wake flag at its end; a timer starts    *)
(*     another drain (app/scheduler/webhook_processor.py);                 *)
(*   - the scheduler waits for the flag or its timer, lowers the flag and  *)
(*     ticks (app/scheduler/loop.py, wake.py);                             *)
(*   - the reclaim sweep raises the flag when all its tasks are done;      *)
(*   - the process may die and be started again (app/main.py).             *)
(*                                                                         *)
(* Calls belong to one campaign and are fresh, waiting, in flight or       *)
(* ended, as in CampaignEnd.  What an event does to its call is module     *)
(* Dialer's: here it may free a slot or not, be stale, or be impossible to *)
(* process.                                                                *)
(***************************************************************************)
EXTENDS Integers, FiniteSets, FiniteSetsExt

CONSTANTS
    Call,          \* the calls of the campaign
    Task,          \* the drains that the webhook route can have running
    SafetyNet,     \* the drain of webhook_inbox_safety_net_loop
    Row,           \* the events of the provider, numbered by received_at
    About,         \* the call each of them is about (NULL: a call of no one)
    Bad,           \* the rows whose processing raises every time
    Batch,         \* webhook_processor_batch_max
    MaxConcurrent, \* max_concurrent of the campaign
    NULL

Drain == Task \cup {SafetyNet}

ASSUME RowAssumption ==
    /\ Row \subseteq Nat
    /\ NULL \notin Row
    /\ About \in [Row -> Call \cup {NULL}]
    /\ Bad \subseteq Row
ASSUME RuntimeAssumption ==
    /\ NULL \notin Call
    /\ Batch \in Nat \ {0}
    /\ MaxConcurrent \in Nat \ {0}

VARIABLES
    status,     \* the calls table
    inbox,      \* the rows of webhook_inbox
    processed,  \* those with processed_at set
    requests,   \* the rows whose request has not spawned its drain yet
    drain,      \* the local variables of each drain
    event,      \* the flag of SchedulerWake
    loop,       \* where the scheduler loop is, and the call it dials
    sweep,      \* the sweep in progress
    posting,    \* POST /campaigns has committed and not notified yet
    owed        \* history: a webhook, the sweep or a route (not a tick) has freed a
                \* slot or added work since a tick began

inboxVars == <<inbox, processed, requests, drain>>
loopVars == <<event, loop, owed>>
vars == <<status, inboxVars, loopVars, sweep, posting>>

DrainLocal == [pc : {"off", "next", "row"}, row : Row \cup {NULL},
               left : 0 .. Batch, applied_any : BOOLEAN]

Off == [pc |-> "off", row |-> NULL, left |-> 0, applied_any |-> FALSE]
Started == [pc |-> "next", row |-> NULL, left |-> Batch, applied_any |-> FALSE]
Waiting == [pc |-> "wait", call |-> NULL]
NoSweep == [pc |-> "idle", todo |-> {}, freed |-> FALSE]

RuntimeTypeOK ==
    /\ status \in [Call -> {"absent", "fresh", "waiting", "in_flight", "ended"}]
    /\ inbox \subseteq Row
    /\ processed \subseteq inbox
    /\ requests \subseteq inbox
    /\ drain \in [Drain -> DrainLocal]
    /\ \A d \in Drain : IF drain[d].pc = "row"
                       THEN drain[d].row \in inbox /\ drain[d].left > 0
                       ELSE drain[d].row = NULL
    /\ event \in BOOLEAN
    /\ loop \in [pc : {"wait", "read", "dial"}, call : Call \cup {NULL}]
    /\ loop.pc = "dial" <=> loop.call # NULL
    /\ sweep \in [pc : {"idle", "tasks"}, todo : SUBSET Call, freed : BOOLEAN]
    /\ posting \in BOOLEAN
    /\ owed \in BOOLEAN

Init ==
    /\ status = [c \in Call |-> "absent"]
    /\ inbox = {}
    /\ processed = {}
    /\ requests = {}
    /\ drain = [d \in Drain |-> Off]
    /\ event = FALSE
    /\ loop = Waiting
    /\ sweep = NoSweep
    /\ posting = FALSE
    /\ owed = FALSE

Queued == {c \in Call : status[c] \in {"fresh", "waiting"}}
InFlight == {c \in Call : status[c] = "in_flight"}

\* A transition of a call that was dialed.
transition(c, to) ==
    /\ status[c] \in {"waiting", "in_flight"}
    /\ status' = [status EXCEPT ![c] = to]

\* It left a slot to another call.
Frees == InFlight' # InFlight /\ InFlight' \subseteq InFlight

-----------------------------------------------------------------------------
(* The routes                                                              *)

\* POST /campaigns commits; the notification follows the commit.
create_campaign ==
    /\ \A c \in Call : status[c] = "absent"
    /\ status' = [c \in Call |-> "fresh"]
    /\ posting' = TRUE
    /\ owed' = TRUE
    /\ UNCHANGED <<inboxVars, event, loop, sweep>>

notify_created ==
    /\ posting
    /\ posting' = FALSE
    /\ event' = TRUE
    /\ UNCHANGED <<status, inboxVars, loop, owed, sweep>>

\* POST /webhooks/provider commits the event of a call that was dialed, or of
\* none.  The insert of a known event is a no-op, but its request spawns a
\* drain like any other.
ingest(r) ==
    /\ About[r] # NULL => status[About[r]] \notin {"absent", "fresh"}
    /\ r \notin requests
    /\ inbox' = inbox \cup {r}
    /\ requests' = requests \cup {r}
    /\ UNCHANGED <<status, processed, drain, loopVars, sweep, posting>>

\* The drain is spawned after the commit.
spawn_drain(r, t) ==
    /\ r \in requests
    /\ drain[t].pc = "off"
    /\ requests' = requests \ {r}
    /\ drain' = [drain EXCEPT ![t] = Started]
    /\ UNCHANGED <<status, inbox, processed, loopVars, sweep, posting>>

-----------------------------------------------------------------------------
(* A drain of the inbox                                                    *)

\* Mutation: the safety net runs while the inbox has never had a row, which
\* is once, at startup.
safety_net_drain_AtStartup ==
    /\ drain[SafetyNet].pc = "off"
    /\ inbox = {}
    /\ drain' = [drain EXCEPT ![SafetyNet] = Started]
    /\ UNCHANGED <<status, inbox, processed, requests, loopVars, sweep, posting>>

\* The timer of the safety net starts a drain.
safety_net_drain ==
    /\ drain[SafetyNet].pc = "off"
    /\ drain' = [drain EXCEPT ![SafetyNet] = Started]
    /\ UNCHANGED <<status, inbox, processed, requests, loopVars, sweep, posting>>

\* The rows that claim_unprocessed_one does not skip.
Claimable == {r \in inbox \ processed : \A d \in Drain : drain[d].row # r}

\* The oldest of them is claimed and stays locked while it is processed.
claim_row(d) ==
    /\ drain[d].pc = "next"
    /\ drain[d].left > 0
    /\ Claimable # {}
    /\ drain' = [drain EXCEPT ![d].pc = "row", ![d].row = Min(Claimable)]
    /\ UNCHANGED <<status, inbox, processed, requests, loopVars, sweep, posting>>

\* Mutation: only the last row counts.
NextRow_LastOnly(d, applied) ==
    drain' = [drain EXCEPT ![d] = [pc |-> "next", row |-> NULL, left |-> @.left - 1,
                                   applied_any |-> applied]]

\* On with the next row, of the number the drain may still take.
NextRow(d, applied) ==
    drain' = [drain EXCEPT ![d] = [pc |-> "next", row |-> NULL, left |-> @.left - 1,
                                   applied_any |-> @.applied_any \/ applied]]

\* The event is for a call of no one, for a dead attempt, or no news.
row_stale(d) ==
    /\ drain[d].pc = "row"
    /\ drain[d].row \notin Bad
    /\ processed' = processed \cup {drain[d].row}
    /\ NextRow(d, FALSE)
    /\ UNCHANGED <<status, inbox, requests, loopVars, sweep, posting>>

\* The event is applied and marked in one commit.
row_applied(d) ==
    /\ drain[d].pc = "row"
    /\ drain[d].row \notin Bad
    /\ About[drain[d].row] # NULL
    /\ \E to \in {"waiting", "in_flight", "ended"} : transition(About[drain[d].row], to)
    /\ owed' = (owed \/ Frees)
    /\ processed' = processed \cup {drain[d].row}
    /\ NextRow(d, TRUE)
    /\ UNCHANGED <<inbox, requests, event, loop, sweep, posting>>

\* The payload cannot be parsed, or a statement fails: the transaction is
\* rolled back, the row stays unprocessed and the drain goes on.
row_error(d) ==
    /\ drain[d].pc = "row"
    /\ NextRow(d, FALSE)
    /\ UNCHANGED <<status, inbox, processed, requests, loopVars, sweep, posting>>

\* The inbox is empty or the batch is used up: notify, once, if any row was
\* applied.
drain_ends(d) ==
    /\ drain[d].pc = "next"
    /\ drain[d].left = 0 \/ Claimable = {}
    /\ event' = (event \/ drain[d].applied_any)
    /\ drain' = [drain EXCEPT ![d] = Off]
    /\ UNCHANGED <<status, inbox, processed, requests, loop, owed, sweep, posting>>

-----------------------------------------------------------------------------
(* The scheduler loop                                                      *)

\* Mutation: the flag is lowered when the tick is over.
Lowered_AfterTick(moment) == IF moment = "tick over" THEN FALSE ELSE event

\* What becomes of the flag at either end of a tick.
Lowered(moment) == IF moment = "tick begins" THEN FALSE ELSE event

\* wait() returns, for the flag or for the timer; clear(); the tick begins.
loop_wakes ==
    /\ loop.pc = "wait"
    /\ event' = Lowered("tick begins")
    /\ loop' = [loop EXCEPT !.pc = "read"]
    /\ owed' = FALSE
    /\ UNCHANGED <<status, inboxVars, sweep, posting>>

TickOver ==
    /\ event' = Lowered("tick over")
    /\ loop' = Waiting

\* The tick finds a slot and claims a call for it: one per tick.
tick_claims(c) ==
    /\ loop.pc = "read"
    /\ c \in Queued
    /\ Cardinality(InFlight) < MaxConcurrent
    /\ status' = [status EXCEPT ![c] = "in_flight"]
    /\ loop' = [pc |-> "dial", call |-> c]
    /\ UNCHANGED <<inboxVars, event, owed, sweep, posting>>

\* The tick finds nothing to dial: no call is queued, the campaign is at its
\* cap or out of its hours.
tick_idle ==
    /\ loop.pc = "read"
    /\ TickOver
    /\ UNCHANGED <<status, inboxVars, owed, sweep, posting>>

\* place_call answers and Phase 3 writes the handle, or finds that the call
\* has moved on.
tick_dialed ==
    /\ loop.pc = "dial"
    /\ TickOver
    /\ UNCHANGED <<status, inboxVars, owed, sweep, posting>>

\* The provider refuses: the call ends or waits for its retry.  The slot is
\* free and nobody is told.
tick_refused ==
    /\ loop.pc = "dial"
    /\ loop.call \in InFlight
    /\ \E to \in {"waiting", "ended"} : transition(loop.call, to)
    /\ TickOver
    /\ UNCHANGED <<inboxVars, owed, sweep, posting>>

\* The tick raises; the loop sleeps before it waits again, which no one can
\* tell from a longer wait.  A call that was claimed stays in flight.
tick_fails ==
    /\ loop.pc \in {"read", "dial"}
    /\ loop' = Waiting
    /\ UNCHANGED <<status, inboxVars, event, owed, sweep, posting>>

-----------------------------------------------------------------------------
(* The reclaim sweep                                                       *)

\* Some calls are found stuck and get a task each.
sweep_begins(stuck) ==
    /\ sweep.pc = "idle"
    /\ stuck # {}
    /\ stuck \subseteq InFlight
    /\ sweep' = [pc |-> "tasks", todo |-> stuck, freed |-> FALSE]
    /\ UNCHANGED <<status, inboxVars, loopVars, posting>>

\* A task ends the call or takes it back.
sweep_applied(c) ==
    /\ c \in sweep.todo
    /\ c \in InFlight
    /\ \E to \in {"waiting", "ended"} : transition(c, to)
    /\ owed' = TRUE
    /\ sweep' = [sweep EXCEPT !.todo = @ \ {c}, !.freed = TRUE]
    /\ UNCHANGED <<inboxVars, event, loop, posting>>

\* SKIPPED_NO_OP and FAILED.
sweep_skipped(c) ==
    /\ c \in sweep.todo
    /\ sweep' = [sweep EXCEPT !.todo = @ \ {c}]
    /\ UNCHANGED <<status, inboxVars, loopVars, posting>>

\* All tasks are done.
sweep_ends ==
    /\ sweep.pc = "tasks"
    /\ sweep.todo = {}
    /\ sweep' = NoSweep
    /\ event' = (event \/ sweep.freed)
    /\ UNCHANGED <<status, inboxVars, loop, owed, posting>>

-----------------------------------------------------------------------------
(* The process                                                             *)

\* The process dies or is shut down, with its tasks, its open transactions
\* and the flag, and is started again.
crash ==
    /\ requests' = {}
    /\ drain' = [d \in Drain |-> Off]
    /\ event' = FALSE
    /\ loop' = Waiting
    /\ sweep' = NoSweep
    /\ posting' = FALSE
    /\ owed' = FALSE
    /\ UNCHANGED <<status, inbox, processed>>

\* What a drain does when its transactions succeed.
DrainStep(d) == claim_row(d) \/ row_stale(d) \/ row_applied(d) \/ drain_ends(d)

LoopNext ==
    \/ loop_wakes
    \/ \E c \in Call : tick_claims(c)
    \/ tick_idle
    \/ tick_dialed
    \/ tick_refused
    \/ tick_fails

SweepNext ==
    \/ \E stuck \in SUBSET Call : sweep_begins(stuck)
    \/ \E c \in Call : sweep_applied(c) \/ sweep_skipped(c)
    \/ sweep_ends

Next ==
    \/ create_campaign
    \/ notify_created
    \/ \E r \in Row : ingest(r)
    \/ \E r \in Row, t \in Task : spawn_drain(r, t)
    \/ safety_net_drain
    \/ \E d \in Drain : DrainStep(d) \/ row_error(d)
    \/ LoopNext
    \/ SweepNext
    \/ crash

Spec == Init /\ [][Next]_vars

\* The event loop runs every drain that can go on, the timer of the safety
\* net fires, a row that can be processed is when it is tried again and again,
\* and from some time on the process stays up.  Nothing is assumed of the
\* routes, of the tasks they spawn beyond the first, of the sweep or the loop.
Fairness ==
    /\ WF_vars(safety_net_drain)
    /\ \A d \in Drain :
          /\ WF_vars(DrainStep(d) \/ row_error(d))
          /\ SF_vars(row_stale(d) \/ row_applied(d))
    /\ <>[][~crash]_vars

FairSpec == Spec /\ Fairness

-----------------------------------------------------------------------------
(* Properties                                                              *)

\* No wake-up is lost: as long as no tick has begun since a webhook or the
\* sweep freed a slot or a campaign was created, the flag is up or the task
\* that did so is still going to raise it.  It says nothing of the slots that
\* ticks free themselves by refused dials: no one announces those, and they
\* are left to the timer of the loop.
WakeCovered ==
    owed => \/ event
            \/ posting
            \/ \E d \in Drain : drain[d].applied_any
            \/ sweep.freed

\* Every event that was accepted and can be processed is processed in the
\* end, though the process dies between the commit and the spawn, and though
\* more rows wait than one drain may take.
InboxDrained == \A r \in Row \ Bad : r \in inbox ~> r \in processed

=============================================================================

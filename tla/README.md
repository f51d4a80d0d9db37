# A TLA+ development of the campaign dialer

The repository is an outbound-call service: campaigns of phone numbers are
created over HTTP, a scheduler dials them within business hours and under a
concurrency cap, a telephony provider reports what became of each call by
webhook, failed calls are retried with a backoff, and a sweep recovers calls
that got stuck. All state that matters is in Postgres; the processes share
nothing else.

This directory holds the TLA+ modules that model it, the TLC runs that check
them and the proofs that TLAPS checks. `PROJECT.json` is the index: the runs
with their properties, the mutations that each property must catch, the source
lines behind each definition, and the list of hazards the properties are for.

## 1. Inventory

| part | state | operations | talks to |
|---|---|---|---|
| state machine (`app/state`) | none of its own; writes `calls`, `campaigns` | `transition` (guard, compare-and-swap on status and epoch, rollup hook), `apply_retryable_outcome`, promotion, terminal rollup | called by the tick, the processor, the sweep |
| tables (`schema.sql`, `repositories.py`) | `calls`, `campaigns`, `scheduler_campaign_state`, `webhook_inbox`, `scheduler_audit` | `claim_next_queued` (the one write that bypasses `transition`), inserts, reads | everyone |
| scheduler tick (`tick.py`) | local variables of one tick | eligibility, hours, cap, pick, requeue, three-phase dispatch | tables, provider |
| scheduler loop and wake (`loop.py`, `wake.py`) | one `asyncio.Event` | wait or time out, clear, tick | notified by ingest, sweep, campaign creation |
| webhook ingest and processor | an open transaction per drained row | insert an event, claim a row, read the call, apply, mark processed | tables, wake |
| reclaim sweep (`reclaim.py`) | a task per stuck row | find stuck rows, `get_status`, apply final status or take the row back | tables, provider, wake |
| provider (`app/provider`) | what became of each call, by idempotency key | `place_call`, `get_status`, events | tick, sweep, ingest |
| campaign API | - | create a campaign with its calls; list, page, statistics | tables, wake |
| business hours | - | pure: is this instant within a campaign's weekly windows | tick |
| audit log (`app/audit`) | append-only rows | insert with the transaction that caused it; query a page below a cursor | written by all, read by the audit tab |
| audit tab (`frontend/audit.js`) | filters, page, cursor stack, requests in flight | filter, page, poll, switch tab, apply an answer if its token is current | GET /audit |
| scripts, configuration | - | presentation, wiring | - |

What is hard in it: nothing but the rows coordinates the actors. The tick holds
no transaction across `place_call` and reads the tables four times before it
writes; the processor reads a call without a lock and updates it later; the
sweep waits for `get_status` between its read and its write; a second replica
does all of this at the same time. Events come late, twice, out of order or
never, possibly before the handle they name has been committed. A process can
die between any two commits. The defence is a single idea, the compare-and-swap
on `(status, attempt_epoch)`, together with the rule that whoever bumps the
epoch clears `provider_call_id`; most properties below ask whether that is
enough.

What makes each part correct:

- *state machine*: terminal is absorbing; an event of a dead attempt changes
  nothing; the budget of retries is spent once per retry;
- *rollup*: a campaign is final exactly when its calls are, with the right
  verdict;
- *tick*: at most `max_concurrent` calls in flight; a fresh idempotency key for
  each dial; no number dialed for two calls at once; no campaign starved;
- *sweep*: every stuck attempt is resolved, and never wrongly;
- *audit log and tab*: a walk by cursor misses and repeats nothing; the screen
  shows what its filters say;
- *loop*: no wake-up lost;
- *inbox*: every committed event is processed in the end, whatever crashes;
- *campaign API and business hours*: an accepted campaign is dialed when its
  request says so and at no other time.

## 2. Modules

```
CallTypes <- CallStore <- Provider <- SchedulerTick    \
                                   <- WebhookProcessor  > Dialer <- MCDialer
                                   <- ReclaimSweep     /
Dialer <- DialerProofs <- AttemptProofs, RollupProofs <- DispatchProofs

CampaignEnd <.. RollupTxn <- RollupTxnProofs       (<.. : implements)
            <.. Dialer    <- DispatchProofs

Runtime <- MCRuntime
        <- RuntimeProofs

BusinessHours <- CampaignIntake <- MCIntake
                                <- IntakeProofs

AuditLog <- AuditPages <- MCAudit
         <- AuditView  <- MCView
AuditPages, AuditView <- AuditProofs
```

**CallTypes**: the statuses, the status lists that the SQL spells inline and
`classify`.

**CallStore**: the shared tables. `calls[c]` is the row of call `c`,
`campaigns[k]` the status of campaign `k` (`ABSENT` before the insert),
`last_dispatch_at[k]` the round-robin cursor, `claims[c]` the number of CLAIMED
audit rows of `c` (history only: nothing reads it). `transition` is one call of
`state.transition` and its commit; it takes the new row, is a no-op when the
guard or the compare-and-swap refuses, and is not enabled where the UPDATE
would raise a unique violation of the phone index (the caller's failure action
covers that). Timestamps are kept as what the queries compare them with:
`next_attempt_at` is null, in the future or past; `updated_at` is recent or
beyond the grace window (`aged`); `last_dispatch_at` is a rank. An idempotency
key `call_id:attempt_epoch` is the pair `<<c, epoch>>`; since the provider
answers one key with one handle, the pair also names the handle.

**Provider**: for each key the set of statuses its call has gone through.
`place_call` accepts, rejects, or is unavailable, and in the last case the call
may have been placed all the same. `get_status` answers with the final status
of an ended call or with nothing (running, unknown, error, timeout: the sweep
treats them alike). Deliveries are in the receiver's module.

**SchedulerTick**: one action per statement or transaction of a tick: `tick`
(eligibility and business hours; `tick_idle` when nothing is left),
`concurrency_gate`, `pick`, `requeue_oldest_retry_due`, `claim_next_queued` or
`claim_nothing` (Phase 1), `dial` (Phase 2), `apply_result` (Phase 3 with the
cursor). `tick.py` shares one connection between its reads for "a consistent
snapshot", but each statement under READ COMMITTED has a snapshot of its own,
so they are separate steps. `requeue_conflict` is the unique violation of the
requeue; `tick_fails` any other exception or the death of the process, at every
point where something has been or is about to be written (a tick that fails in
its reads has done nothing). The business hours enter as the set `open` of
campaigns, any member of `Windows`.

**WebhookProcessor**: `handle_webhook_ingest` commits an event,
`claim_unprocessed_one` with `process_read` takes a row and reads the call,
`process_apply` applies the event to the call as read and marks the row;
`process_ignored` is the drop of an unknown or same-state event,
`process_fails` the rollback. Inbox rows are drawn in any order: `received_at`
is the order of ingest, and ingest itself may reorder what the provider sent.
`Copies` is the number of event ids one status is sent under. `InOrder` is the
restriction that the events of one call are ingested and processed in emission
order; only the run `cap` uses it.

**ReclaimSweep**: `stuck_reclaim_sweep` starts a task for every aged DIALING
row; a task confirms with `best_effort_get_status` if the row had a handle,
then takes `apply_terminal` or `apply_reclaim`; `reclaim_fails` ends it early.
A sweep starts when the previous one has finished.

**Dialer**: the composition, the fairness and the properties. **MCDialer**: the
instances.

**CampaignEnd** is the promise that the rest relies on: the commit that ends the
last call of a campaign folds it, in one step. **RollupTxn** is what implements
it: for each connection the statements of `state.transition` and of
`maybe_transition_campaign_terminal` one by one. A statement sees the committed
tables and its own transaction's write; an UPDATE holds its call and the
`FOR NO KEY UPDATE` its campaign until the commit, and `WaitsFor` is who waits
for whom. `AtomicRollup` is the refinement, with the committed tables as the
state of `CampaignEnd`. Calls are `fresh` (QUEUED, never dialed), `waiting`
(RETRY_PENDING or QUEUED again), `in_flight` or `ended`; that a stale epoch is
refused is `update_refused`, at any time.
`Dialer`, where the same transaction is one step, implements `CampaignEnd` as
well, once per campaign: `Ends(k)` instantiates it with `Phases(k)` (what the
rows of campaign `k` are in those four words) and `Standing(k)` (its status, with
COMPLETED and FAILED both FOLDED), and `CampaignsEnd` says that every step is
allowed for every campaign. So the step that one model takes as atomic is the
step that the other derives.

**Runtime**: one process and the tasks on its event loop. The routes commit and
only then spawn a drain or raise the flag, as two steps. A drain
(`process_pending_inbox`) takes `Batch` rows at most, always the oldest that no
one has locked, and raises the flag at its end if it applied anything; a row
that fails is rolled back and is the oldest again. The loop lowers the flag, then
its tick claims a call and waits for the provider. `crash` loses the tasks, the
locks and the flag and keeps the tables. `owed` is history: since the last tick
began, a webhook, the sweep or a route has freed a slot or added a campaign. What an event does to its call is left open here (any status it can lead
to); `Dialer` has it. The pause after a failed tick is part of the wait, during
which nothing is lost either. A tick whose dial is refused frees a slot and
raises no flag (`tick_refused`), although README.md:88 of the repository lists it
among the events that do; such a slot waits for the timer and is not counted in
`owed`.

**BusinessHours**: `is_in_window` over a week of moments. A zone is its offset
at every instant, so a clock change is an offset that changes. **CampaignIntake**:
the validators of `CampaignCreate` and what the route stores; the reference for
the hours (`AskedFor`) is the set of moments of the operator's local week,
without days, windows or conversion. `E164` stands for `phonenumbers`: what it
makes of each way to write a number. The calls that the route inserts are
`CallStore`'s; here a batch that breaks the phone index is `create_conflict`.

**AuditLog**: the rows of `scheduler_audit`, apart from the dialer (no decision
reads them). A transaction begins, inserts and commits or rolls back as
separate steps, since `ts` is the start of the transaction, `id` is drawn at the
insert and the row is visible from the commit on. `query_audit` is a set
comprehension: the hits below the cursor that fewer than `PageLimit` hits
precede. **AuditPages**: a client that follows `next_cursor`; its walk is kept
as the sequence of pages.

**AuditView**: `state` of `audit.js` variable by variable and one action per
handler. A request goes through three steps: sent, answered by the server from
what is committed, received. Its token is kept as `fresh`, whether it is still
`state.fetchToken`, so that the counter needs no bound. `Links` is what the URL
can hold when the tab is shown or the window loaded: a pasted link, or an entry
of the history that Back brought up; clicks on the tab already shown and a new
hash query are `switch_tab` too. The handlers of the tab
replace the filters and send a request in one step, as they do in the
browser's single thread; showing the tab waits for the campaign names first
(`tabLoads`), which is the one place where the filters change before the
request goes out. One set of campaigns stands for all filters; one campaign is
filtered by the server and several in the window, as in the code.

Where steps are merged, and why this loses nothing: a transaction whose reads
are all of rows it has locked, or whose result depends on one statement, is one
step. `SKIP LOCKED` lets two claimers pass each other, which has the effect of
one of the two serial orders, or of finding nothing, which `tick_fails` also
allows; a requeue that skips a due row because it is locked does what it would
have done a moment before the backoff elapsed. The terminal transition and its rollup are one step because the
rollup's `FOR NO KEY UPDATE` makes a second transaction on the same campaign
wait; `RollupTxn` does not take this for granted but shows it. All rows of a campaign are inserted by one statement and share
`created_at`, so `ORDER BY created_at` chooses arbitrarily among them.

## 3. Runs

Sizes are distinct states.

| run | instance | properties | states |
|---|---|---|---|
| `attempts` | 1 call, 3 epochs, 1 retry, 2 processors, all outcomes and refusals, fair | `TypeOK`, `HandleCurrent`, `OutcomeIsReal`, `RetryBudget`, `StaleAttemptNeverApplied`, `TerminalAbsorbing`, `DialingResolved` | 74 000 |
| `cap` | 2 calls in one campaign, cap 1, in-order events, 2 processors | `CapRespected`, `RollupExact`, `OutcomeCountedOnce`, `CampaignsEnd` | 109 000 |
| `replicas` | 2 replicas, 2 campaigns with a common phone, 3 epochs | `FreshKey`, `RollupExact`, `NumberDialedOnce` | 771 000 |
| `served` | 2 campaigns; the rival has 2 retries and 1 reclaim, fair | `CampaignServed` | 57 000 |
| `rollup` | 3 calls, 3 connections | `AtomicRollup` | 273 000 |
| `process` | 1 call, 2 events, a spawned drain and the safety net, 2 rows per drain, fair | `WakeCovered`, `InboxDrained` | 193 000 |
| `hours` | 7 600 requests: 4 zone names, windows on Sunday and Monday; a week of 28 moments | `HoursExact` | 12 000 |
| `pages` | 2 transactions, 4 rows, 2 timestamps, pages of 2 | `WalkComplete`, `NoRowTwice` | 31 000 |
| `audit_tab` | 2 rows, pages of 1, 2 requests in flight, selections of one and of two campaigns | `AuditTypeOK`, `ShownIsCurrent` | 2 075 000 |

- `HandleCurrent`, `OutcomeIsReal`, `StaleAttemptNeverApplied` are the three
  faces of attempt isolation: handle, result, event. Two processors, the sweep,
  a tick that may still be in `place_call` and a redial compete for one row.
- `TerminalAbsorbing`: no event, verdict or retry moves a finished call.
- `RetryBudget`: a call is claimed at most once plus once per retry spent plus
  once per reclaim. It is not obvious, because `retries_remaining` is written
  from copies that may be older than the row.
- `RollupExact`: final campaign if and only if all calls final, COMPLETED if
  and only if one completed.
- `CampaignsEnd`: the refinement of `CampaignEnd` by the dialer. Beyond
  `RollupExact` it speaks of steps: only a claim activates a campaign or moves a
  call that was never dialed, an ended call never moves, and the campaign is
  folded in the step of its last call. TLC cannot take
  `\A k : Ends(k)!Spec` as a property, so `CampaignsEnd` spells it as the initial
  condition and one action over all campaigns.
- `FreshKey`: no dial under a key the provider has seen, or another replica is
  using.
- `NumberDialedOnce`: no two calls with one phone are in flight at once. Only
  some of the writes that lead there meet the phone index: a row that waits for
  its retry is outside it, comes back by the requeue or by a late event, and the
  claim takes any QUEUED row. The run has the insert, the requeue and the sweep
  on two replicas; late events are in the proof.
- `OutcomeCountedOnce`: an attempt costs its call a retry or ends it, not both, and
  neither twice. It needs one event id per status and events in order. Without
  the order a late DIALING revives the call and the sweep ends the attempt that
  has already cost a retry; under a second event id an outcome is applied again
  to the row in RETRY_PENDING.
- `CapRespected` holds with one replica as long as events are handled in the
  order of emission.
- `DialingResolved`, `CampaignServed`: leads-to properties under `FairSpec`. In
  `served` the rival is dialed four times (first, two retries, after a reclaim)
  and every bound lies beyond that, so the property has no exception.
- `AtomicRollup`: without the lock on the campaign row the last two calls can
  each count the other as active and leave the campaign ACTIVE for ever; with
  it, every commit is a step of `CampaignEnd`.
- `WakeCovered`: while a webhook or the sweep has freed a slot, or a campaign was
  created, and no tick has begun since, the flag is up or a task is on its way to
  raise it. It says nothing of the timer, which would cover a lost wake-up a
  second later, nor of slots that refused dials free. With two rows per drain a
  row that changes nothing may follow one that freed a slot.
- `InboxDrained`: every event that was accepted and can be processed is
  processed in the end, though the process dies between commit and spawn.
- `HoursExact`: an accepted campaign is open at the local moments its request
  lists and at no other.
- `WalkComplete`, `NoRowTwice`: a walk to the end has shown every row committed
  when it began, and no row twice, though rows share timestamps and others are
  committed in between, above or below the cursor.
- `ShownIsCurrent`: with nothing loading, the page answers the filters and the
  cursor of the tab, and Older goes on from a row of that answer, in whatever
  order the answers came.

Runs that TLC must find violated, each a disagreement between a text of the
repository and the code (quoted under `findings` in `PROJECT.json`):

| run | statement | what happens |
|---|---|---|
| `cap_out_of_order` | `CapRespected` | NO_ANSWER overtakes DIALING; the late DIALING moves the call from RETRY_PENDING to DIALING past the gate while another call has the slot |
| `starved` | `CampaignServed` | a due retry whose phone another campaign has queued fails every tick; nobody is dialed any more |
| `poisoned` | `InboxDrained` | a row whose payload cannot be read is rolled back and claimed first again, until the batch is used up, by every drain; the event behind it waits for ever |

Other places where the code does something else than a text says, without a run:
an outcome that the provider re-fires under a new event id passes the same-state
test once the row is RETRY_PENDING and spends a second retry (the comment at
`webhook_processor.py:78` has such events collapsed); a change of a filter leaves
`nextCursor`, which Older uses until the answer comes, and a link leaves
`pageHistory` too (the comment at `audit.js:82` has every cursor invalidated); a
dial-time rejection raises no wake flag (README.md:88); the sweep makes a confirmed
NO_ANSWER or BUSY final while retries are left (README.md:108 has it retried);
a transaction that commits late can put a row into an audit page already read
(README.md:137 says pages do not shift); and a window time with an offset of its own, which the
schema accepts, makes every tick raise on that weekday (`business_hours.py:18`
has an invalid schedule count as no work).

### Bounds

`MaxEpoch` bounds `attempt_epoch`. Three epochs allow a claim, a reclaim and a
redial (or two retries), which is what it takes for a late step of the first
attempt to meet the second; two suffice where one redial is enough.
`MaxReclaims` bounds how often the sweep takes a call back. In `served` the rival
is reclaimed once, and its four claims and one reclaim use the five epochs
exactly, so that no claim is cut off; in `starved` nothing is reclaimed, since
the counterexample needs none. Elsewhere only the epochs bound the reclaims. At a bound a claim or a reclaim is not enabled in
the model, which `DialingResolved` excepts explicitly. One retry (`MaxAttempts`) reaches every branch of
the budget: spent, and at zero. One call suffices
for what concerns the attempts of a call, since no action on a row reads
another row apart from the phone index and the counts; those have runs with two
calls. `Copies` is 1: redelivery under the same event
id is absorbed by the unique index and is a no-op of ingest, and a second event
id multiplies the states beyond reach (the theorems hold for any number). In
`rollup`, three connections are two that race for the last two calls and one
that may hold either row meanwhile. In `process`, two rows and a batch of two let a
drain go on after it has freed a slot, and end with rows waiting once failing
rows have used up its batch; two drains are what it takes for
`SKIP LOCKED` to matter. In `poisoned` the batch is two, so that a drain could
reach the second row if it did not take the first one again. In `hours` a day has
four moments: midnight, two in between and 23:59:59.999999, which no window can
include; the zones are one moment ahead of UTC, one behind, and level with it
after a clock change in the middle of the week. Four audit rows
with pages of two have a page boundary within, between and at the end of the
timestamps; two requests in flight are what it takes for one to overtake the
other, and two rows with pages of one give the tab a latest, an older and a
last page, with one step back (`MaxHistory`) from links on either. The proofs below do not depend on any of these values.

### Fairness

`FairSpec` assumes that the clock runs (a backoff elapses, a DIALING row ages),
that the scheduler loop and the sweep loop keep running (both are
`while True` loops on a timer that survive every exception), and that a step of
theirs which is tried again and again succeeds in the end (strong fairness per
step: a tick may crash any number of times, but not for ever at the same
point). Nothing is assumed of the provider, of deliveries or of the webhook
processors: the liveness properties hold if no webhook ever arrives.

`FairSpec` of `Runtime` assumes that the timer of the safety net fires (a
`while True` loop that survives every exception), that the event loop runs every
drain that can go on, that a row which can be processed is processed when it is
tried again and again, and that from some time on the process stays up. Nothing
is assumed of the drains that the route should spawn: the safety net alone
suffices. Nor is anything assumed of the sweep and the scheduler loop.

## 4. Proofs

The theorems hold for any set of campaigns, calls, replicas and processors, any
cap, budget and epoch bound, any provider behaviour within the port. The
assumptions on the constants are the named ASSUMEs of the modules: the sets of
calls and campaigns are finite, campaign ids are ordered as numbers, every
campaign has a call and no phone twice (`CampaignCreate` validates both), caps
are positive.

- `DialerProofs`: lemmas about `transition` and `apply_retryable_outcome` (what
  rows they produce, which columns they leave alone), then `TypeCorrect`,
  `Spec => []TypeOK`. Type correctness includes that the round-robin pick yields
  a campaign (the order of `_rr_sort_key` is total, so a finite non-empty set has
  a first element) and that a budget never goes negative. `StoreSteps` lists the
  ways to write the tables; the later proofs go through it.
- `AttemptProofs`: `HandleAlwaysCurrent`, `OutcomeAlwaysReal`,
  `StaleEventsRefused`. None of the three is inductive. `AttemptInv` adds that
  a processor between read and update holds an event of the very attempt whose
  epoch it read, that a sweep task holds the handle of the epoch it found, and
  that whatever the inbox or a verdict reports is in the provider's history of
  that attempt. The compare-and-swap on the epoch then carries the attempt from
  the read over to the write.
- `RollupProofs`: `RollupAlwaysExact`, `FinishedStaysFinished`. `RollupInv`
  adds that a campaign and its rows appear together, that a PENDING campaign
  has only undialed rows without a handle, and that no tick which has read a
  campaign as ACTIVE, no processor and no sweep task works on a campaign that
  is PENDING. That is why the promotion may be decided on a stale status: the
  snapshot can only be stale towards PENDING, where promoting again does
  nothing.
- `DispatchProofs`: `CallSteps` says what any step can do to one call (eight
  things and the claim), and five results rest on it.
  - `KeysAlwaysFresh`. `KeyInv` adds that no key of an attempt yet to come has
    been placed and no tick holds an epoch the row has not reached; a claim then
    always makes a key above all of them.
  - `BudgetAlwaysKept`. `RetryBudget` alone is not inductive, because a retry
    writes back a copy of the budget. `Left(c)` is what the claims so far leave of
    the budget; `BudgetInv` says that a call which waits has its next dial paid
    for, and that no copy read in the current attempt, however old, exceeds
    `Left(c) + 1`. It holds although a copy can be larger than the row (an
    attempt that is revived and retried several times), since only a claim
    dials.
  - `NumbersNeverDialedTwice`. `PhoneInv` widens `NumberDialedOnce` from the calls
    in flight to all rows within the phone index, QUEUED ones included: a claim
    then moves a row inside the index, and every write that brings one in is
    checked by it.
  - `CapAlwaysRespected`, under `OneInOrder`: one scheduler, one event per status,
    ingested and processed in the order of emission. Each part is needed: two
    schedulers can both pass the gate before either claims, and a progress event
    that comes after the outcome puts a waiting call back in flight past the gate
    (the run `cap_out_of_order`). `CapInv` follows the events: one is
    held by at most one processor, a held outcome has all progress of its attempt
    behind it, hence a waiting call has no progress event outstanding
    (`WaitingSettled`); and what the gate of the tick found below the cap stays so
    until its claim (`GateHolds`), since nothing else adds a call in flight.
  - `DialerEndsCampaigns` (`CampaignsEnd`) and `DialerImplementsCampaignEnd`
    (`Spec => Ends(k)!Spec` for each `k`), step by step from `RollupInv` and
    `FreshInv`: a call with epoch 0 has no handle, and no processor holds an event
    for an attempt 0, so only a claim can move it.

- `AuditProofs`, in three parts. `LogInv`: rows have ids of their own wherever
  they are, and are finitely many; so the order of the query is total on them, a
  page is the beginning of the hits, it leaves hits out only when it is full, and
  a full page has a last row. From this, `WalkAlwaysComplete` and `RowsShownOnce`:
  `WalkInv` says that nothing shown is past the cursor and all that is still due
  is, which separates what a commit may add on either side. `AuditTypeCorrect`
  needs the same facts for the cursors of the answers. `ShownAlwaysCurrent`:
  `ViewInv` adds that at most one request is fresh, that the tab is loading while
  there is one and that it asks for the present filters unless a tab load is
  under way, that an answer holds only committed rows which match its request,
  and that its cursor is the key of such a row. A link never holds anything but
  filters (`LinksAreFilters`). The assumptions are that pages are not empty, that a selection is a
  finite set of campaigns and that null is no number, campaign id or cursor.

- `RollupTxnProofs`: `RollupSerialized` and `RollupIsAtomic`. `TxnInv` says that
  a call whose UPDATE has been executed has one owner and has not moved since,
  that the campaign row has one owner, and that what the COUNT found still
  stands (no other call of the campaign can end while the row is held). The
  refinement follows step by step: only a commit, a claim and the insert change
  the committed tables. No assumption is made on the sets of calls and
  connections.
- `RuntimeProofs`: `NoLostWakeUp`. `WakeInv` adds to `WakeCovered` who can be an
  announcer: a drain that is off has applied nothing, an idle sweep has freed
  nothing. A crash loses the announcement and with it the obligation: the
  restarted loop begins with a tick (after at most one timer).
- `IntakeProofs`: `HoursAsAsked`, from what the route stores (`Stored`) and the arithmetic of the week: a moment of the week is its
  day times `DayLength` plus its time of day, in one way only.

The inductive invariants `KeyInv`, `BudgetInv`, `CapInv`, `LogInv` and `WalkInv`
were checked with TLC on the instances of the runs before they were proved.

Only model-checked: the three liveness properties `DialingResolved`,
`CampaignServed` and `InboxDrained` (liveness under fairness is outside the
prover's reach), and `OutcomeCountedOnce`. Every other invariant and every action
property of the runs is proved.

## 5. Not modelled, and the plan

What would come next, in this order:

1. **CallLifecycle**: an abstract specification of one call (attempts, outcome,
   finality) that `Dialer` implements under a refinement mapping.
2. A proof of `OutcomeCountedOnce` under `OneInOrder`, from the invariants of the
   cap.
3. The read API: pages of the drill-in list by `updated_at`, and the statistics
   (`retries_attempted` is computed from the epoch, which reclaims bump too).
4. The business hours within the tick, to follow a schedule with offset times
   from the request to the ticks that fail on it.

Left out for good: rendering, the campaigns tab, the demo scripts, pools and
configuration. In `AuditView` the time range covers the log, and a click in the instant between an answer and its render does not happen. A
limitation of the system to keep in mind: an IN_PROGRESS call whose final webhook is lost is never recovered by
anything, and no text of the repository says it would be; `DialingResolved` is
about DIALING only. With several replicas there is one sweep per replica in the
deployment and one in the model. `Runtime` is one process, whose flag no other replica
raises; with several, a slot freed by one wakes only that one, and the timers of
the others do the rest.

-------------------------- MODULE WebhookProcessor --------------------------
(***************************************************************************)
(* Provider events on their way to a call: the webhook route commits an    *)
(* event to webhook_inbox (app/api/webhooks_ingest.py), and a processor    *)
(* claims an unprocessed row and applies it in one transaction             *)
(* (app/scheduler/webhook_processor.py).  The transaction reads the call   *)
(* without locking it and updates it later by compare-and-swap, so other   *)
(* commits fall between the two steps.                                     *)
(*                                                                         *)
(* Events are delivered late, out of order, several times under one event  *)
(* id, under several ids (copies), or never.                               *)
(***************************************************************************)
EXTENDS Provider

CONSTANTS
    Processor,   \* the tasks that drain the inbox
    Reported,    \* the statuses this provider sends webhooks for
    Copies,      \* bound: how many event ids the provider gives one status
    InOrder      \* TRUE: the events of one call are handled in emission order

ASSUME WebhookAssumption ==
    /\ Reported \subseteq EventStatus
    /\ Copies \in Nat
    /\ InOrder \in BOOLEAN

VARIABLES
    inbox,       \* the rows of webhook_inbox
    processed,   \* the rows of it with processed_at set
    wp           \* each processor's open transaction

inboxVars == <<inbox, processed>>

\* An event; its provider_event_id is the whole record.
Event == [handle : Handle, status : EventStatus, copy : 1 .. Copies]

NoEvent == NULL

\* A processor between its read of the call and its update: the inbox row it
\* holds locked, and the call as read.
WpLocal == [pc      : {"idle", "apply"},
            event   : Event \cup {NoEvent},
            status  : CallStatus \cup {ABSENT, NULL},
            epoch   : Epoch,
            retries : Nat]

WpIdle == [pc |-> "idle", event |-> NoEvent, status |-> NULL, epoch |-> 0, retries |-> 0]

WebhookTypeOK ==
    /\ inbox \subseteq Event
    /\ processed \subseteq inbox
    /\ wp \in [Processor -> WpLocal]
    /\ \A p \in Processor : wp[p].pc = "apply" => wp[p].event \in inbox

WebhookInit ==
    /\ inbox = {}
    /\ processed = {}
    /\ wp = [p \in Processor |-> WpIdle]

\* Where a status stands in the life of a call.
Rank(status) == IF status = "DIALING" THEN 1 ELSE IF status = "IN_PROGRESS" THEN 2 ELSE 3

\* Every earlier event of the same call is in the set of rows done.
EarlierIn(e, done) ==
    \A status \in trace[e.handle] \cap Reported :
        Rank(status) < Rank(e.status) =>
            \E d \in done : d.handle = e.handle /\ d.status = status

-----------------------------------------------------------------------------
(* Ingest                                                                  *)

\* The unique index on the event id makes the delivery of a known event a
\* no-op.
insert(e) == inbox' = inbox \cup {e}

\* POST /webhooks/provider: the insert commits.  The processor that is spawned
\* after the commit may start at any later time.
handle_webhook_ingest(e) ==
    /\ e.status \in trace[e.handle] \cap Reported
    /\ e \notin inbox
    /\ InOrder => EarlierIn(e, inbox)
    /\ insert(e)
    /\ UNCHANGED <<processed, wp, storeVars, trace>>

-----------------------------------------------------------------------------
(* One inbox row                                                           *)

\* Mutation: the call is found through its id, whatever attempt it is in.
Known_AnyAttempt(e) == calls[e.handle[1]].provider_call_id # NULL

\* The call an event names, as get_by_provider_call_id finds it.
Known(e) == calls[e.handle[1]].provider_call_id = e.handle

\* claim_unprocessed_one gives processor p row e: unprocessed and locked by
\* no one else.
claim_unprocessed_one(p, e) ==
    /\ wp[p].pc = "idle"
    /\ e \in inbox \ processed
    /\ \A q \in Processor : wp[q].event # e
    /\ InOrder => EarlierIn(e, processed)

\* Mutation: the mark is a transaction of its own, which a crash may lose.
mark_processed_Apart(e) == processed' \in {processed, processed \cup {e}}

mark_processed(e) == processed' = processed \cup {e}

\* The event is dropped: no call carries its handle, or the call already has
\* the status it reports.
process_ignored(p, e) ==
    /\ claim_unprocessed_one(p, e)
    /\ Known(e) => calls[e.handle[1]].status = e.status
    /\ mark_processed(e)
    /\ UNCHANGED <<inbox, wp, storeVars, trace>>

\* The event is for a live handle and reports news: the call is read.
process_read(p, e) ==
    /\ claim_unprocessed_one(p, e)
    /\ Known(e)
    /\ calls[e.handle[1]].status # e.status
    /\ wp' = [wp EXCEPT ![p] = [pc      |-> "apply",
                                event   |-> e,
                                status  |-> calls[e.handle[1]].status,
                                epoch   |-> calls[e.handle[1]].attempt_epoch,
                                retries |-> calls[e.handle[1]].retries_remaining]]
    /\ UNCHANGED <<inboxVars, storeVars, trace>>

\* The event is applied to the call as it was read, or refused by the state
\* machine as stale; either way the row is done.
process_apply(p) ==
    LET l == wp[p]
        c == l.event.handle[1]
    IN  /\ l.pc = "apply"
        /\ \/ /\ l.event.status \in TERMINAL_CALL_STATUSES
              /\ apply_retryable_outcome(c, l.status, l.epoch, l.retries, l.event.status)
           \/ /\ l.event.status \notin TERMINAL_CALL_STATUSES
              /\ transition(c, l.status, l.epoch,
                            [calls[c] EXCEPT !.status = l.event.status])
        /\ mark_processed(l.event)
        /\ wp' = [wp EXCEPT ![p] = WpIdle]
        /\ UNCHANGED <<inbox, last_dispatch_at, claims, trace>>

\* The transaction raises (a unique violation of the phone index, a database
\* error) or the process dies: it rolls back and the row stays unprocessed.
process_fails(p) ==
    /\ wp[p].pc = "apply"
    /\ wp' = [wp EXCEPT ![p] = WpIdle]
    /\ UNCHANGED <<inboxVars, storeVars, trace>>

=============================================================================

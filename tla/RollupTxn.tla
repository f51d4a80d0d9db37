----------------------------- MODULE RollupTxn ------------------------------
(***************************************************************************)
(* state.transition at the level of its SQL statements.  Several database  *)
(* connections end calls of one campaign at the same time under READ       *)
(* COMMITTED: a statement sees what is committed and what its own          *)
(* transaction has written; an UPDATE and a SELECT ... FOR NO KEY UPDATE   *)
(* wait while another open transaction holds the row, and every lock is    *)
(* held until the commit.                                                  *)
(*                                                                         *)
(* The statuses are those of CampaignEnd.  The attempt is left out (module *)
(* Dialer has it): a compare-and-swap that expects an attempt which is     *)
(* over appears as one that is refused.                                    *)
(***************************************************************************)
EXTENDS Integers, Sequences

CONSTANTS
    Call,     \* the calls of the campaign
    Worker,   \* the connections: of drains, of sweep tasks, of ticks
    NULL

VARIABLES
    status,     \* the committed calls table
    campaign,   \* the committed status of the campaign
    txn         \* the open transaction of each worker

tableVars == <<status, campaign>>

\* Mutation: the rollup counts without locking the campaign.
Statements_NoLock(to) ==
    IF to = "ended" THEN <<"update", "count", "commit">> ELSE <<"update", "commit">>

\* What a transaction that moves a call to the given status executes: the
\* compare-and-swap on the call and, when the call ends, the rollup.
Statements(to) ==
    IF to = "ended" THEN <<"update", "lock", "count", "commit">> ELSE <<"update", "commit">>

\* The statement it is about to execute (none: 0), the call it moves and
\* where to, and what the rollup has decided.
Txn == [at   : 0 .. 4,
        call : Call \cup {NULL},
        to   : {"waiting", "in_flight", "ended", NULL},
        fold : BOOLEAN]

NoTxn == [at |-> 0, call |-> NULL, to |-> NULL, fold |-> FALSE]

Begun(c, to) == [at |-> 1, call |-> c, to |-> to, fold |-> FALSE]

Open(w) == txn[w].at # 0

At(w, statement) == Open(w) /\ Statements(txn[w].to)[txn[w].at] = statement

Executed(w, statement) ==
    Open(w) /\ \E i \in 1 .. txn[w].at - 1 : Statements(txn[w].to)[i] = statement

HoldsCall(w, c) == txn[w].call = c /\ Executed(w, "update")
HoldsCampaign(w) == Executed(w, "lock")

\* The locks that a worker's next statement waits for belong to these.
WaitsFor(w) ==
    {v \in Worker \ {w} :
        \/ At(w, "update") /\ HoldsCall(v, txn[w].call)
        \/ At(w, "lock") /\ HoldsCampaign(v)}

TxnInit ==
    /\ status = [c \in Call |-> "absent"]
    /\ campaign = "ABSENT"
    /\ txn = [w \in Worker |-> NoTxn]

\* POST /campaigns and its calls.
insert_campaign ==
    /\ campaign = "ABSENT"
    /\ campaign' = "PENDING"
    /\ status' = [c \in Call |-> "fresh"]
    /\ UNCHANGED txn

\* claim_next_queued, with the promotion: one transaction that passes over
\* the calls that others hold (SKIP LOCKED).
claim_call(c) ==
    /\ status[c] \in {"fresh", "waiting"}
    /\ \A w \in Worker : ~HoldsCall(w, c)
    /\ status' = [status EXCEPT ![c] = "in_flight"]
    /\ campaign' = IF campaign = "PENDING" THEN "ACTIVE" ELSE campaign
    /\ UNCHANGED txn

-----------------------------------------------------------------------------
(* The transaction of worker w, statement by statement                     *)

\* A webhook, a confirmed status or the answer to a dial has decided where the
\* call goes, on a row read earlier.
begin(w, c, to) ==
    /\ ~Open(w)
    /\ txn' = [txn EXCEPT ![w] = Begun(c, to)]
    /\ UNCHANGED tableVars

GoesOn(w) == txn' = [txn EXCEPT ![w].at = @ + 1]

\* UPDATE calls ... WHERE id, status and epoch are as expected: those of a call
\* that was dialed and has not ended.
update_call(w) ==
    /\ At(w, "update")
    /\ WaitsFor(w) = {}
    /\ status[txn[w].call] \in {"waiting", "in_flight"}
    /\ GoesOn(w)
    /\ UNCHANGED tableVars

\* The UPDATE matches no row: the status or the epoch has moved on.  The
\* transaction ends without a change to the call.
update_refused(w) ==
    /\ At(w, "update")
    /\ WaitsFor(w) = {}
    /\ txn' = [txn EXCEPT ![w] = NoTxn]
    /\ UNCHANGED tableVars

\* SELECT 1 FROM campaigns ... FOR NO KEY UPDATE.
lock_campaign(w) ==
    /\ At(w, "lock")
    /\ WaitsFor(w) = {}
    /\ GoesOn(w)
    /\ UNCHANGED tableVars

\* SELECT COUNT(*): the committed rows and this transaction's own.
count_active(w) ==
    /\ At(w, "count")
    /\ txn' = [txn EXCEPT ![w].at = @ + 1,
                          ![w].fold = \A d \in Call \ {txn[w].call} : status[d] = "ended"]
    /\ UNCHANGED tableVars

\* UPDATE campaigns ... WHERE status = 'ACTIVE', if nothing is active, and the
\* commit that makes it all visible.
commit(w) ==
    /\ At(w, "commit")
    /\ status' = [status EXCEPT ![txn[w].call] = txn[w].to]
    /\ campaign' = IF txn[w].fold /\ campaign = "ACTIVE" THEN "FOLDED" ELSE campaign
    /\ txn' = [txn EXCEPT ![w] = NoTxn]

\* The transaction fails and is rolled back.
rollback(w) ==
    /\ Open(w)
    /\ txn' = [txn EXCEPT ![w] = NoTxn]
    /\ UNCHANGED tableVars

WorkerNext(w) ==
    \/ \E c \in Call, to \in {"waiting", "in_flight", "ended"} : begin(w, c, to)
    \/ update_call(w)
    \/ update_refused(w)
    \/ lock_campaign(w)
    \/ count_active(w)
    \/ commit(w)
    \/ rollback(w)

TxnNext ==
    \/ insert_campaign
    \/ \E c \in Call : claim_call(c)
    \/ \E w \in Worker : WorkerNext(w)

TxnSpec == TxnInit /\ [][TxnNext]_<<tableVars, txn>>

-----------------------------------------------------------------------------
(* What the transactions implement                                         *)

Atomic == INSTANCE CampaignEnd
    WITH Call <- Call, status <- status, campaign <- campaign

\* The statements of concurrent transactions implement the single step of
\* CampaignEnd: the campaign is folded in the commit that ends its last call,
\* never earlier and never by nobody, although no transaction sees what the
\* others have not committed.
AtomicRollup == Atomic!Spec

=============================================================================

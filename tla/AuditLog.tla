------------------------------ MODULE AuditLog ------------------------------
(***************************************************************************)
(* The table scheduler_audit and the query that reads it a page at a time. *)
(* emit_audit inserts on the connection of the caller, so a row becomes    *)
(* visible when the transaction that caused it commits.  Its ts is NOW(),  *)
(* which PostgreSQL fixes at the start of the transaction, and its id is   *)
(* drawn from a sequence at the insert: rows may appear in any order.      *)
(***************************************************************************)
EXTENDS Naturals, FiniteSets

CONSTANTS NULL,
          Txn,        \* transactions of the dialer that write audit rows
          Campaign,
          PageLimit,  \* rows of a page
          MaxRows,    \* bound: ids drawn from the sequence
          MaxNow      \* bound: clock readings

ASSUME AuditAssumption ==
    /\ PageLimit \in Nat \ {0}
    /\ MaxRows \in Nat
    /\ MaxNow \in Nat
    /\ NULL \notin Campaign
    /\ NULL \notin Nat
    /\ NULL \notin [ts : Nat, id : Nat]

VARIABLES scheduler_audit,  \* the committed rows
          txn,              \* per transaction: when it began and its inserts
          lastId,           \* last value of the id sequence
          now               \* the clock of the database

logVars == <<scheduler_audit, txn, lastId, now>>

AuditRow == [ts : 0..MaxNow, id : 1..MaxRows, campaign_id : Campaign]

\* A transaction has not begun (ts is NULL), is open, or is over.
AuditTxn == [ts : 0..MaxNow \cup {NULL}, rows : SUBSET AuditRow, over : BOOLEAN]

LogTypeOK ==
    /\ scheduler_audit \subseteq AuditRow
    /\ txn \in [Txn -> AuditTxn]
    /\ lastId \in 0..MaxRows
    /\ now \in 0..MaxNow

LogInit ==
    /\ scheduler_audit = {}
    /\ txn = [t \in Txn |-> [ts |-> NULL, rows |-> {}, over |-> FALSE]]
    /\ lastId = 0
    /\ now = 0

Open(t) == txn[t].ts # NULL /\ ~txn[t].over

-----------------------------------------------------------------------------
(* Writing. *)

Begin(t) ==
    /\ txn[t].ts = NULL
    /\ txn' = [txn EXCEPT ![t].ts = now]
    /\ UNCHANGED <<scheduler_audit, lastId, now>>

emit_audit(t, k) ==
    /\ Open(t)
    /\ lastId < MaxRows
    /\ lastId' = lastId + 1
    /\ txn' = [txn EXCEPT ![t].rows =
                  @ \cup {[ts |-> txn[t].ts, id |-> lastId + 1, campaign_id |-> k]}]
    /\ UNCHANGED <<scheduler_audit, now>>

Commit(t) ==
    /\ Open(t)
    /\ scheduler_audit' = scheduler_audit \cup txn[t].rows
    /\ txn' = [txn EXCEPT ![t].over = TRUE, ![t].rows = {}]
    /\ UNCHANGED <<lastId, now>>

\* The state change failed: its audit rows go with it, the ids are spent.
Rollback(t) ==
    /\ Open(t)
    /\ txn' = [txn EXCEPT ![t].over = TRUE, ![t].rows = {}]
    /\ UNCHANGED <<scheduler_audit, lastId, now>>

ClockTicks ==
    /\ now < MaxNow
    /\ now' = now + 1
    /\ UNCHANGED <<scheduler_audit, txn, lastId>>

LogNext ==
    \/ \E t \in Txn : Begin(t) \/ Commit(t) \/ Rollback(t)
    \/ \E t \in Txn, k \in Campaign : emit_audit(t, k)
    \/ ClockTicks

-----------------------------------------------------------------------------
(* Reading: GET /audit. *)

\* ORDER BY ts DESC, id DESC: a is listed before b.
Before(a, b) == a.ts > b.ts \/ (a.ts = b.ts /\ a.id > b.id)

\* The cursor compared by its timestamp alone.
Past_TimestampOnly(r, cursor) == cursor = NULL \/ cursor.ts > r.ts

\* The row of the cursor not left out.
Past_Inclusive(r, cursor) == cursor = NULL \/ ~Before(r, cursor)

\* (ts, id) < cursor, or no cursor.
Past(r, cursor) == cursor = NULL \/ Before(cursor, r)

\* The rows of table that the WHERE clause keeps; campaign_id is NULL when
\* the request does not name one.
Hits(table, campaign_id, cursor) ==
    {r \in table : /\ campaign_id \in {NULL, r.campaign_id}
                   /\ Past(r, cursor)}

\* ORDER BY ... LIMIT: the hits that fewer than PageLimit hits precede.
Page(hits) ==
    {r \in hits : Cardinality({s \in hits : Before(s, r)}) < PageLimit}

\* The whole row taken for the cursor.
encode_cursor_Row(page) == CHOOSE r \in page : \A s \in page : ~Before(r, s)

\* The cursor is the key of the last row of a full page; a page that is not
\* full is the last one.
encode_cursor(page) ==
    LET last == CHOOSE r \in page : \A s \in page : ~Before(r, s)
    IN [ts |-> last.ts, id |-> last.id]

next_cursor(page) ==
    IF Cardinality(page) = PageLimit THEN encode_cursor(page) ELSE NULL

query_audit(campaign_id, cursor) ==
    LET page == Page(Hits(scheduler_audit, campaign_id, cursor))
    IN [rows |-> page, next_cursor |-> next_cursor(page)]

=============================================================================

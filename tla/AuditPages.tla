----------------------------- MODULE AuditPages -----------------------------
(***************************************************************************)
(* A client of GET /audit that follows next_cursor from the latest page to *)
(* the end, while transactions write to the log.                           *)
(***************************************************************************)
EXTENDS AuditLog, Sequences

VARIABLE reader   \* the walk of the client

pagesVars == <<logVars, reader>>

\* Which campaign it asks for (NULL: all), the pages so far, the cursor to go
\* on from, and, as history, the matching rows committed when it began.
Reader == [campaign_id : Campaign \cup {NULL}, pages : Seq(SUBSET AuditRow),
           cursor : [ts : 0..MaxNow, id : 1..MaxRows] \cup {NULL},
           due : SUBSET AuditRow]

PagesInit ==
    /\ LogInit
    /\ reader = [campaign_id |-> NULL, pages |-> <<>>, cursor |-> NULL, due |-> {}]

first_page(k) ==
    LET answer == query_audit(k, NULL)
    IN /\ reader' = [campaign_id |-> k, pages |-> <<answer.rows>>,
                     cursor |-> answer.next_cursor,
                     due |-> Hits(scheduler_audit, k, NULL)]
       /\ UNCHANGED logVars

next_page ==
    LET answer == query_audit(reader.campaign_id, reader.cursor)
    IN /\ reader.cursor # NULL
       /\ reader' = [reader EXCEPT !.pages = Append(@, answer.rows),
                                   !.cursor = answer.next_cursor]
       /\ UNCHANGED logVars

PagesNext ==
    \/ LogNext /\ UNCHANGED reader
    \/ \E k \in Campaign \cup {NULL} : first_page(k)
    \/ next_page

PagesSpec == PagesInit /\ [][PagesNext]_pagesVars

-----------------------------------------------------------------------------
(* Properties. *)

\* The rows on the pages of the walk.
Surfaced == UNION {reader.pages[i] : i \in DOMAIN reader.pages}

\* A walk that ran to its end has shown every matching row that was committed
\* when it began, whatever was committed meanwhile and though rows share a
\* timestamp.  The cursor of query_audit.
WalkComplete ==
    reader.pages # <<>> /\ reader.cursor = NULL => reader.due \subseteq Surfaced

\* No row is on two pages of a walk, though rows are committed between its
\* pages.  The cursor of query_audit; test_paginate_three_pages: "each row
\* surfaces exactly once".
NoRowTwice ==
    \A i, j \in DOMAIN reader.pages :
        i # j => reader.pages[i] \cap reader.pages[j] = {}

=============================================================================

----------------------------- MODULE AuditView ------------------------------
(***************************************************************************)
(* The audit tab of the UI: filters, the page on the screen, the stack of  *)
(* cursors behind "Newer", polling, and requests in flight whose answers   *)
(* arrive in any order.  One browser window reads the log of AuditLog.     *)
(*                                                                         *)
(* The filters of the tab are one set of campaigns; the other filters are  *)
(* changed by handlers of the same shape.  The time range covers the log.  *)
(* The buttons are those of the present state: a click between an answer   *)
(* and its render is left out.                                             *)
(***************************************************************************)
EXTENDS AuditLog, Sequences

CONSTANTS Selections,   \* the sets of campaigns the operator selects
          MaxInflight,  \* bound: requests of the window not yet answered
          MaxHistory    \* bound: pages walked back

ASSUME SelectionsAssumption ==
    \A F \in Selections : F \subseteq Campaign /\ IsFiniteSet(F)

VARIABLES filters,      \* state.filters: campaigns and cursor
          events,       \* state.events
          nextCursor,   \* state.nextCursor
          loading,      \* state.loading
          error,        \* state.error # null
          pageHistory,  \* state.pageHistory
          pollTimer,    \* state.pollTimer # null
          activeTab,    \* App.activeTab
          visible,      \* document.visibilityState = "visible"
          tabLoads,     \* ensureCampaignsLoaded().then(...) not yet run
          inflight,     \* GET /audit requests
          shown         \* history: the filters the page on screen answers

pageVars == <<filters, pageHistory>>
answerVars == <<events, nextCursor, shown>>
tabVars == <<activeTab, visible, tabLoads>>
viewVars == <<filters, events, nextCursor, loading, error, pageHistory, pollTimer,
              activeTab, visible, tabLoads, inflight, shown>>
vars == <<logVars, viewVars>>

Cursor == [ts : 0..MaxNow, id : 1..MaxRows]

Filters == [campaigns : Selections, cursor : Cursor \cup {NULL}]

Reply == [rows : SUBSET AuditRow, next_cursor : Cursor \cup {NULL}]

\* A request; fresh says that its token is still state.fetchToken.
Request == [filters : Filters, fresh : BOOLEAN, reply : Reply \cup {NULL}]

\* Type correctness of the log and of the window.
AuditTypeOK ==
    /\ LogTypeOK
    /\ filters \in Filters
    /\ events \subseteq AuditRow
    /\ nextCursor \in Cursor \cup {NULL}
    /\ loading \in BOOLEAN /\ error \in BOOLEAN
    /\ pageHistory \in Seq(Cursor \cup {NULL})
    /\ pollTimer \in BOOLEAN
    /\ activeTab \in {"campaigns", "audit"}
    /\ visible \in BOOLEAN
    /\ tabLoads \in 0..2
    /\ inflight \subseteq Request
    /\ shown \in Filters \cup {NULL}

-----------------------------------------------------------------------------
(* The functions the handlers share. *)

Wanted(F) == {r \in scheduler_audit : F = {} \/ r.campaign_id \in F}

\* Only a single campaign is sent to the server.
campaign_id(F) == IF Cardinality(F) = 1 THEN CHOOSE k \in F : TRUE ELSE NULL

\* Several campaigns are told apart in the window, after the answer.
ClientSide(rows, F) ==
    IF Cardinality(F) > 1 THEN {r \in rows : r.campaign_id \in F} ELSE rows

\* A new token makes every request in flight a late one.
fetchEvents(f) ==
    /\ Cardinality(inflight) < MaxInflight
    /\ inflight' = {[q EXCEPT !.fresh = FALSE] : q \in inflight}
                       \cup {[filters |-> f, fresh |-> TRUE, reply |-> NULL]}
    /\ loading' = TRUE
    /\ error' = FALSE

shouldPoll(tab, seenByUser, cursor) == seenByUser /\ tab = "audit" /\ cursor = NULL

\* The handlers that call reevaluatePolling leave the timer set exactly when
\* the window should poll.
reevaluatePolling ==
    pollTimer' = shouldPoll(activeTab', visible', filters'.cursor)

\* The key of a row, as a cursor carries it.
Key(r) == [ts |-> r.ts, id |-> r.id]

\* What a URL of the tab can carry, a shared link or an entry of the browser's
\* history: a selection, and the latest page or a page from some row on.
Links == [campaigns : Selections, cursor : {NULL} \cup {Key(r) : r \in scheduler_audit}]

GoTo(f) ==
    /\ filters' = f
    /\ fetchEvents(f)

-----------------------------------------------------------------------------
(* What the operator does. *)

\* Any change of a filter; resetPagination.  The timer of a typed filter may
\* fire when the other tab is already shown.
change_filter(F) ==
    /\ GoTo([campaigns |-> F, cursor |-> NULL])
    /\ pageHistory' = <<>>
    /\ UNCHANGED <<logVars, answerVars, pollTimer, tabVars>>

older ==
    /\ activeTab = "audit"
    /\ nextCursor # NULL
    /\ Len(pageHistory) < MaxHistory
    /\ pageHistory' = Append(pageHistory, filters.cursor)
    /\ GoTo([filters EXCEPT !.cursor = nextCursor])
    /\ UNCHANGED <<logVars, answerVars, tabVars>>
    /\ reevaluatePolling

newer ==
    /\ activeTab = "audit"
    /\ pageHistory # <<>>
    /\ pageHistory' = SubSeq(pageHistory, 1, Len(pageHistory) - 1)
    /\ GoTo([filters EXCEPT !.cursor = pageHistory[Len(pageHistory)]])
    /\ UNCHANGED <<logVars, answerVars, tabVars>>
    /\ reevaluatePolling

back_to_latest ==
    /\ activeTab = "audit"
    /\ filters.cursor # NULL
    /\ pageHistory' = <<>>
    /\ GoTo([filters EXCEPT !.cursor = NULL])
    /\ UNCHANGED <<logVars, answerVars, tabVars>>
    /\ reevaluatePolling

\* The button of the error banner.
retry ==
    /\ activeTab = "audit"
    /\ error
    /\ fetchEvents(filters)
    /\ UNCHANGED <<logVars, pageVars, answerVars, pollTimer, tabVars>>

\* setTab and the tabchange handler.
tabchange(tab) ==
    /\ activeTab' = tab
    /\ tabLoads' = IF tab = "audit" THEN tabLoads + 1 ELSE tabLoads
    /\ tabLoads' <= 2
    /\ UNCHANGED <<logVars, visible, loading, error, inflight, answerVars, pageHistory>>
    /\ IF tab = "audit" THEN UNCHANGED pollTimer ELSE reevaluatePolling

\* A click on a tab, the one that is shown included, or another hash in the
\* address bar.  Showing the audit tab reads the filters from the URL: the
\* handlers keep it equal to the filters, but a link may have been pasted into
\* it, and Back and Forward bring back the URL of other filters.
switch_tab(tab) ==
    /\ filters' \in IF tab = "audit" THEN Links ELSE {filters}
    /\ tabchange(tab)

\* "View" in the drawer of a campaign: a URL with filters of its own and no
\* cursor.
view_call(k) ==
    /\ activeTab = "campaigns"
    /\ {k} \in Selections
    /\ filters' = [campaigns |-> {k}, cursor |-> NULL]
    /\ tabchange("audit")

visibilitychange ==
    /\ visible' = ~visible
    /\ UNCHANGED <<logVars, pageVars, answerVars, loading, error, inflight,
                   activeTab, tabLoads>>
    /\ reevaluatePolling

\* The window is loaded again, from its URL or from another: app.js and audit.js
\* both start a load of the audit tab.
reload ==
    /\ pageHistory' = <<>>
    /\ events' = {} /\ nextCursor' = NULL /\ shown' = NULL
    /\ loading' = FALSE /\ error' = FALSE
    /\ pollTimer' = FALSE
    /\ inflight' = {}
    /\ filters' \in Links
    /\ activeTab' \in {"campaigns", "audit"}
    /\ tabLoads' = IF activeTab' = "audit" THEN 2 ELSE 0
    /\ UNCHANGED <<logVars, visible>>

-----------------------------------------------------------------------------
(* What the browser does. *)

tab_loaded ==
    /\ tabLoads > 0
    /\ tabLoads' = tabLoads - 1
    /\ fetchEvents(filters)
    /\ UNCHANGED <<logVars, pageVars, answerVars, activeTab, visible>>
    /\ reevaluatePolling

poll ==
    /\ pollTimer
    /\ shouldPoll(activeTab, visible, filters.cursor)
    /\ fetchEvents(filters)
    /\ UNCHANGED <<logVars, pageVars, answerVars, pollTimer, tabVars>>

\* The server answers a request from what is committed.
list_audit(q) ==
    /\ q.reply = NULL
    /\ inflight' = (inflight \ {q}) \cup
           {[q EXCEPT !.reply = query_audit(campaign_id(q.filters.campaigns),
                                            q.filters.cursor)]}
    /\ UNCHANGED <<logVars, pageVars, answerVars, loading, error, pollTimer, tabVars>>

\* The token is not tested.
TokenCurrent_Always(q) == TRUE

\* The token test of a fetch that resumes.
TokenCurrent(q) == q.fresh

response(q) ==
    /\ q.reply # NULL
    /\ TokenCurrent(q)
    /\ inflight' = inflight \ {q}
    /\ events' = ClientSide(q.reply.rows, filters.campaigns)
    /\ nextCursor' = q.reply.next_cursor
    /\ loading' = FALSE
    /\ shown' = q.filters
    /\ UNCHANGED <<logVars, pageVars, error, pollTimer, tabVars>>

\* The request failed, on its way there or back.
request_failed(q) ==
    /\ TokenCurrent(q)
    /\ inflight' = inflight \ {q}
    /\ events' = {}
    /\ nextCursor' = NULL
    /\ loading' = FALSE
    /\ error' = TRUE
    /\ UNCHANGED <<logVars, pageVars, shown, pollTimer, tabVars>>

\* An answer or a failure that is not for the last request.
late_response(q) ==
    /\ ~TokenCurrent(q)
    /\ inflight' = inflight \ {q}
    /\ UNCHANGED <<logVars, pageVars, answerVars, loading, error, pollTimer, tabVars>>

-----------------------------------------------------------------------------
\* The window opens on either tab, with any filters in its URL.
AuditInit ==
    /\ LogInit
    /\ filters \in Links
    /\ events = {} /\ nextCursor = NULL /\ shown = NULL
    /\ loading = FALSE /\ error = FALSE
    /\ pageHistory = <<>>
    /\ pollTimer = FALSE
    /\ activeTab \in {"campaigns", "audit"}
    /\ visible = TRUE
    /\ tabLoads = IF activeTab = "audit" THEN 2 ELSE 0
    /\ inflight = {}

OperatorNext ==
    \/ \E F \in Selections : change_filter(F)
    \/ older \/ newer \/ back_to_latest \/ retry
    \/ \E tab \in {"campaigns", "audit"} : switch_tab(tab)
    \/ \E k \in Campaign : view_call(k)
    \/ visibilitychange \/ reload

BrowserNext ==
    \/ tab_loaded \/ poll
    \/ \E q \in inflight : response(q) \/ request_failed(q) \/ late_response(q)

AuditNext ==
    \/ LogNext /\ UNCHANGED viewVars
    \/ \E q \in inflight : list_audit(q)
    \/ OperatorNext
    \/ BrowserNext

AuditSpec == AuditInit /\ [][AuditNext]_vars

-----------------------------------------------------------------------------
(* Properties. *)

\* At rest (nothing loading, no error, no tab load under way) the page on the
\* screen answers the filters and the cursor the tab shows, however answers
\* overtook each other, and Older goes on from a row of that answer: nextCursor
\* is the key of a committed row that the present request asks for.  fetchEvents
\* and its token.
ShownIsCurrent ==
    ~loading /\ ~error /\ tabLoads = 0 /\ shown # NULL =>
        /\ shown = filters
        /\ events \subseteq Wanted(filters.campaigns)
        /\ nextCursor # NULL =>
              \E r \in Hits(scheduler_audit, campaign_id(filters.campaigns), filters.cursor) :
                  nextCursor = Key(r)

=============================================================================

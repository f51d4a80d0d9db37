---------------------------- MODULE AuditProofs -----------------------------
(***************************************************************************)
(* The readers of the audit log: a walk over its pages loses no row and    *)
(* shows none twice (WalkComplete, NoRowTwice), and the audit tab shows    *)
(* the page its filters ask for (AuditTypeOK, ShownIsCurrent), for any     *)
(* page size, any log and any number of requests in flight.                *)
(***************************************************************************)
EXTENDS AuditPages, AuditView, FiniteSetTheorems, WellFoundedInduction, TLAPS

-----------------------------------------------------------------------------
(* The order of the rows                                                   *)

\* Rows as a query sees them: finitely many, each with a timestamp and an id
\* of its own.
Listed(S) ==
    /\ IsFiniteSet(S)
    /\ \A r \in S : r.ts \in Nat /\ r.id \in Nat
    /\ \A r, s \in S : r.id = s.id => r = s

\* A non-empty set of naturals has a least element.
LEMMA LeastOf ==
    ASSUME NEW S, S \subseteq Nat, S # {}
    PROVE  \E m \in S : \A n \in S : m <= n
<1>1. PICK m \in S : \A n \in S : ~ (<<n, m>> \in OpToRel(<, Nat))
  BY NatLessThanWellFounded, WFMin
<1>2. ASSUME NEW n \in S PROVE m <= n
  <2>1. ~ (n < m)
    BY <1>1 DEF OpToRel
  <2> QED
    BY <2>1
<1> QED
  BY <1>2

\* The order is total, and a row listed earlier has fewer rows ahead of it.
LEMMA OrderTotal ==
    ASSUME NEW S, Listed(S)
    PROVE  /\ \A r, s \in S : r = s \/ Before(r, s) \/ Before(s, r)
           /\ \A r, s \in S : ~ (Before(r, s) /\ Before(s, r))
           /\ \A r, s, t \in S : Before(r, s) /\ Before(s, t) => Before(r, t)
BY DEF Listed, Before

LEMMA AheadGrows ==
    ASSUME NEW S, Listed(S), NEW r \in S, NEW s \in S, Before(r, s)
    PROVE  Cardinality({t \in S : Before(t, r)}) < Cardinality({t \in S : Before(t, s)})
<1> DEFINE A == {t \in S : Before(t, r)}
           B == {t \in S : Before(t, s)}
<1>1. IsFiniteSet(B) /\ IsFiniteSet(A)
  BY FS_Subset DEF Listed
<1>2. A \subseteq B /\ r \in B /\ r \notin A
  BY OrderTotal
<1>3. Cardinality(A) <= Cardinality(B) /\ Cardinality(A) # Cardinality(B)
  BY <1>1, <1>2, FS_Subset
<1>4. Cardinality(A) \in Nat /\ Cardinality(B) \in Nat
  BY <1>1, FS_CardinalityType
<1> QED
  BY <1>3, <1>4

LEMMA BehindShrinks ==
    ASSUME NEW S, Listed(S), NEW r \in S, NEW s \in S, Before(r, s)
    PROVE  Cardinality({t \in S : Before(s, t)}) < Cardinality({t \in S : Before(r, t)})
<1> DEFINE A == {t \in S : Before(s, t)}
           B == {t \in S : Before(r, t)}
<1>1. IsFiniteSet(B) /\ IsFiniteSet(A)
  BY FS_Subset DEF Listed
<1>2. A \subseteq B /\ s \in B /\ s \notin A
  BY OrderTotal
<1>3. Cardinality(A) <= Cardinality(B) /\ Cardinality(A) # Cardinality(B)
  BY <1>1, <1>2, FS_Subset
<1>4. Cardinality(A) \in Nat /\ Cardinality(B) \in Nat
  BY <1>1, FS_CardinalityType
<1> QED
  BY <1>3, <1>4

\* Every non-empty set of rows has a first and a last one.
LEMMA FirstRow ==
    ASSUME NEW S, Listed(S), NEW T, T \subseteq S, T # {}
    PROVE  \E r \in T : \A s \in T : r = s \/ Before(r, s)
<1> DEFINE Ahead(r) == Cardinality({t \in S : Before(t, r)})
           ranks == {Ahead(r) : r \in T}
<1>1. ASSUME NEW r \in T PROVE Ahead(r) \in Nat
  BY FS_Subset, FS_CardinalityType DEF Listed
<1>2. ASSUME NEW r \in S, NEW s \in S, Before(r, s) PROVE Ahead(r) < Ahead(s)
  BY <1>2, AheadGrows
<1> HIDE DEF Ahead
<1>3. ranks \subseteq Nat /\ ranks # {}
  BY <1>1
<1>4. PICK r \in T : \A n \in ranks : Ahead(r) <= n
  BY <1>3, LeastOf
<1>5. ASSUME NEW s \in T PROVE r = s \/ Before(r, s)
  <2>1. Ahead(r) <= Ahead(s)
    BY <1>4
  <2>2. ~Before(s, r)
    BY <1>1, <1>2, <2>1
  <2> QED
    BY <2>2, OrderTotal
<1> QED
  BY <1>5

LEMMA LastRow ==
    ASSUME NEW S, Listed(S), NEW T, T \subseteq S, T # {}
    PROVE  \E r \in T : \A s \in T : r = s \/ Before(s, r)
<1> DEFINE Behind(r) == Cardinality({t \in S : Before(r, t)})
           ranks == {Behind(r) : r \in T}
<1>1. ASSUME NEW r \in T PROVE Behind(r) \in Nat
  BY FS_Subset, FS_CardinalityType DEF Listed
<1>2. ASSUME NEW r \in S, NEW s \in S, Before(r, s) PROVE Behind(s) < Behind(r)
  BY <1>2, BehindShrinks
<1> HIDE DEF Behind
<1>3. ranks \subseteq Nat /\ ranks # {}
  BY <1>1
<1>4. PICK r \in T : \A n \in ranks : Behind(r) <= n
  BY <1>3, LeastOf
<1>5. ASSUME NEW s \in T PROVE r = s \/ Before(s, r)
  <2>1. Behind(r) <= Behind(s)
    BY <1>4
  <2>2. ~Before(r, s)
    BY <1>1, <1>2, <2>1
  <2> QED
    BY <2>2, OrderTotal
<1> QED
  BY <1>5

-----------------------------------------------------------------------------
(* The page of a query                                                     *)

\* A page is the beginning of the hits.
LEMMA PageFromStart ==
    ASSUME NEW hits, Listed(hits), NEW r \in Page(hits), NEW s \in hits \ Page(hits)
    PROVE  Before(r, s)
<1>1. r \in hits /\ Cardinality({t \in hits : Before(t, r)}) < PageLimit
  BY DEF Page
<1>2. ~ (Cardinality({t \in hits : Before(t, s)}) < PageLimit)
  BY DEF Page
<1>3. /\ Cardinality({t \in hits : Before(t, r)}) \in Nat
      /\ Cardinality({t \in hits : Before(t, s)}) \in Nat
  BY FS_Subset, FS_CardinalityType DEF Listed
<1>4. ~Before(s, r)
  <2> SUFFICES ASSUME Before(s, r) PROVE FALSE
    OBVIOUS
  <2>1. Cardinality({t \in hits : Before(t, s)}) < Cardinality({t \in hits : Before(t, r)})
    BY <1>1, AheadGrows
  <2> QED
    BY <1>1, <1>2, <1>3, <2>1, AuditAssumption
<1> QED
  BY <1>1, <1>4, OrderTotal

\* A page holds no more rows than the limit, and leaves hits out only when it
\* is full.
LEMMA PageFills ==
    ASSUME NEW hits, Listed(hits), Page(hits) # hits
    PROVE  Cardinality(Page(hits)) = PageLimit
<1> DEFINE page == Page(hits)
           Ahead(r) == {t \in hits : Before(t, r)}
<1>1. page \subseteq hits /\ IsFiniteSet(page) /\ IsFiniteSet(hits)
  <2>1. page \subseteq hits
    BY DEF Page
  <2> QED
    BY <2>1, FS_Subset DEF Listed
<1>2. ASSUME NEW r \in hits
      PROVE  /\ IsFiniteSet(Ahead(r)) /\ Cardinality(Ahead(r)) \in Nat
             /\ r \in page <=> Cardinality(Ahead(r)) < PageLimit
  BY <1>1, FS_Subset, FS_CardinalityType DEF Page
<1>3. Cardinality(page) \in Nat /\ PageLimit \in Nat \ {0}
  BY <1>1, FS_CardinalityType, AuditAssumption
<1>4. Cardinality(page) >= PageLimit
  <2>1. hits \ page \subseteq hits /\ hits \ page # {}
    BY <1>1
  <2>2. PICK m \in hits \ page : \A s \in hits \ page : m = s \/ Before(m, s)
    BY <2>1, FirstRow
  <2>3. Ahead(m) = page
    <3>1. \A s \in hits \ page : ~Before(s, m)
      BY <2>2, OrderTotal
    <3>2. \A r \in page : Before(r, m)
      BY PageFromStart
    <3> QED
      BY <1>1, <3>1, <3>2
  <2> QED
    BY <1>2, <1>3, <2>3
<1>5. Cardinality(page) <= PageLimit
  <2>1. page # {}
    BY <1>3, <1>4, FS_EmptySet
  <2>2. PICK l \in page : \A s \in page : l = s \/ Before(s, l)
    BY <1>1, <2>1, LastRow
  <2>3. page \ {l} \subseteq Ahead(l)
    BY <1>1, <2>2
  <2>4. Cardinality(page \ {l}) <= Cardinality(Ahead(l))
    BY <1>1, <1>2, <2>3, FS_Subset
  <2>5. Cardinality(page \ {l}) = Cardinality(page) - 1
    BY <1>1, FS_RemoveElement
  <2>6. Cardinality(Ahead(l)) < PageLimit /\ Cardinality(Ahead(l)) \in Nat
    BY <1>1, <1>2
  <2> QED
    BY <1>3, <2>4, <2>5, <2>6
<1> QED
  BY <1>3, <1>4, <1>5

\* What the answer of a query says: without a cursor the page is all there
\* is; with one, the cursor is the key of a row of the page, nothing on the
\* page is past it and every other hit is.
LEMMA Answered ==
    ASSUME NEW hits, Listed(hits)
    PROVE  \/ next_cursor(Page(hits)) = NULL /\ Page(hits) = hits
           \/ \E last \in Page(hits) :
                 /\ next_cursor(Page(hits)) = [ts |-> last.ts, id |-> last.id]
                 /\ \A r \in Page(hits) : ~Before(last, r)
                 /\ \A r \in hits \ Page(hits) : Before(last, r)
<1> DEFINE page == Page(hits)
<1>1. page \subseteq hits
  BY DEF Page
<1>2. CASE Cardinality(page) # PageLimit
  BY <1>2, PageFills DEF next_cursor
<1>3. CASE Cardinality(page) = PageLimit
  <2>1. page # {}
    BY <1>3, FS_EmptySet, AuditAssumption
  <2>2. \E r \in page : \A s \in page : ~Before(r, s)
    BY <1>1, <2>1, LastRow, OrderTotal
  <2> DEFINE last == CHOOSE r \in page : \A s \in page : ~Before(r, s)
  <2>3. last \in page /\ \A s \in page : ~Before(last, s)
    BY <2>2
  <2>4. next_cursor(page) = [ts |-> last.ts, id |-> last.id]
    BY <1>3 DEF next_cursor, encode_cursor
  <2>5. \A r \in hits \ page : Before(last, r)
    BY <2>3, PageFromStart
  <2> QED
    BY <2>3, <2>4, <2>5
<1> QED
  BY <1>2, <1>3

-----------------------------------------------------------------------------
(* The log                                                                 *)

\* The rows committed and the rows of the open transactions.
Rows == scheduler_audit \cup UNION {txn[t].rows : t \in Txn}

\* No two of them share an id, wherever they are; the next id is new.
LogInv ==
    /\ LogTypeOK
    /\ IsFiniteSet(scheduler_audit)
    /\ \A t \in Txn : IsFiniteSet(txn[t].rows)
    /\ \A r, s \in Rows : r.id = s.id => r = s
    /\ \A r \in Rows : r.id <= lastId

LEMMA InitLog == LogInit => LogInv
<1> SUFFICES ASSUME LogInit PROVE LogInv
  OBVIOUS
<1>1. Rows = {} /\ \A t \in Txn : txn[t].rows = {}
  BY DEF LogInit, Rows
<1>2. LogTypeOK
  BY AuditAssumption DEF LogInit, LogTypeOK, AuditTxn
<1> QED
  BY <1>1, <1>2, FS_EmptySet DEF LogInv, LogInit

\* A step that moves rows from transactions to the table, or drops them, keeps
\* the ids apart.
LEMMA FewerRows ==
    ASSUME LogInv, Rows' \subseteq Rows, UNCHANGED lastId
    PROVE  /\ \A r, s \in Rows' : r.id = s.id => r = s
           /\ \A r \in Rows' : r.id <= lastId'
BY DEF LogInv

\* The log keeps its invariant and every row.
LEMMA NextLog ==
    ASSUME LogInv, LogNext \/ UNCHANGED logVars
    PROVE  LogInv' /\ scheduler_audit \subseteq scheduler_audit'
<1>0. /\ scheduler_audit \subseteq AuditRow /\ txn \in [Txn -> AuditTxn]
      /\ lastId \in 0..MaxRows /\ now \in 0..MaxNow
      /\ IsFiniteSet(scheduler_audit) /\ \A t \in Txn : IsFiniteSet(txn[t].rows)
  BY DEF LogInv, LogTypeOK
<1>1. CASE UNCHANGED logVars
  BY <1>1 DEF logVars, LogInv, LogTypeOK, Rows
<1>2. CASE ClockTicks
  <2>1. now' \in 0..MaxNow /\ UNCHANGED <<scheduler_audit, txn, lastId>>
    BY <1>0, <1>2, AuditAssumption DEF ClockTicks
  <2> QED
    BY <2>1 DEF LogInv, LogTypeOK, Rows
<1>3. ASSUME NEW t \in Txn, Begin(t) PROVE LogInv' /\ UNCHANGED scheduler_audit
  <2>1. UNCHANGED <<scheduler_audit, lastId, now>> /\ txn' \in [Txn -> AuditTxn]
    BY <1>0, <1>3 DEF Begin, AuditTxn
  <2>2. \A u \in Txn : txn'[u].rows = txn[u].rows
    BY <1>0, <1>3 DEF Begin, AuditTxn
  <2>3. Rows' \subseteq Rows
    BY <2>1, <2>2 DEF Rows
  <2> QED
    BY <1>0, <2>1, <2>2, <2>3, FewerRows DEF LogInv, LogTypeOK
<1>4. ASSUME NEW t \in Txn, Commit(t) \/ Rollback(t)
      PROVE  LogInv' /\ scheduler_audit \subseteq scheduler_audit'
  <2>1. UNCHANGED <<lastId, now>> /\ txn' \in [Txn -> AuditTxn]
    BY <1>0, <1>4 DEF Commit, Rollback, AuditTxn
  <2>2. txn'[t].rows = {} /\ \A u \in Txn \ {t} : txn'[u].rows = txn[u].rows
    BY <1>0, <1>4 DEF Commit, Rollback, AuditTxn
  <2>3. scheduler_audit' \in {scheduler_audit, scheduler_audit \cup txn[t].rows}
    BY <1>4 DEF Commit, Rollback
  <2>4. Rows' \subseteq Rows
    BY <2>2, <2>3 DEF Rows
  <2>5. scheduler_audit' \subseteq AuditRow
    BY <1>0, <2>3 DEF AuditTxn
  <2>6. IsFiniteSet(scheduler_audit') /\ \A u \in Txn : IsFiniteSet(txn'[u].rows)
    <3>1. IsFiniteSet(scheduler_audit \cup txn[t].rows)
      BY <1>0, FS_Union
    <3>2. \A u \in Txn : IsFiniteSet(txn'[u].rows)
      BY <1>0, <2>2, FS_EmptySet
    <3> QED
      BY <1>0, <2>3, <3>1, <3>2
  <2> QED
    BY <1>0, <2>1, <2>3, <2>4, <2>5, <2>6, FewerRows DEF LogInv, LogTypeOK
<1>5. ASSUME NEW t \in Txn, NEW k \in Campaign, emit_audit(t, k)
      PROVE  LogInv' /\ UNCHANGED scheduler_audit
  <2> DEFINE row == [ts |-> txn[t].ts, id |-> lastId + 1, campaign_id |-> k]
  <2>1. /\ lastId' = lastId + 1 /\ lastId' \in 0..MaxRows /\ lastId \in Nat
        /\ UNCHANGED <<scheduler_audit, now>>
    BY <1>0, <1>5, AuditAssumption DEF emit_audit
  <2>2. txn[t].ts \in 0..MaxNow
    BY <1>0, <1>5 DEF emit_audit, Open, AuditTxn
  <2>3. row \in AuditRow /\ row.id = lastId + 1
    BY <2>1, <2>2 DEF AuditRow
  <2>4. /\ txn'[t] = [txn[t] EXCEPT !.rows = txn[t].rows \cup {row}]
        /\ \A u \in Txn \ {t} : txn'[u] = txn[u]
        /\ txn' = [txn EXCEPT ![t] = txn'[t]]
    BY <1>0, <1>5 DEF emit_audit
  <2> HIDE DEF row
  <2>5. txn'[t].rows = txn[t].rows \cup {row} /\ txn'[t] \in AuditTxn
    BY <1>0, <2>3, <2>4 DEF AuditTxn
  <2>6. txn' \in [Txn -> AuditTxn]
    BY <1>0, <2>4, <2>5
  <2>7. Rows' = Rows \cup {row}
    <3>1. \A u \in Txn : /\ txn[u].rows \subseteq txn'[u].rows
                         /\ txn'[u].rows \subseteq txn[u].rows \cup {row}
      BY <2>4, <2>5
    <3>2. row \in Rows'
      BY <2>5 DEF Rows
    <3>3. Rows \subseteq Rows' /\ Rows' \subseteq Rows \cup {row}
      BY <2>1, <3>1 DEF Rows
    <3> QED
      BY <3>2, <3>3
  <2>8. \A r \in Rows : r.id \in Nat /\ r.id <= lastId
    <3>1. Rows \subseteq AuditRow
      BY <1>0 DEF Rows, AuditTxn
    <3> QED
      BY <3>1 DEF LogInv, AuditRow
  <2>9. /\ \A r, s \in Rows' : r.id = s.id => r = s
        /\ \A r \in Rows' : r.id <= lastId'
    BY <2>1, <2>3, <2>7, <2>8 DEF LogInv
  <2>10. \A u \in Txn : IsFiniteSet(txn'[u].rows)
    BY <1>0, <2>4, <2>5, FS_AddElement
  <2> QED
    BY <1>0, <2>1, <2>6, <2>9, <2>10 DEF LogInv, LogTypeOK
<1> QED
  BY <1>1, <1>2, <1>3, <1>4, <1>5 DEF LogNext, ClockTicks

\* What a query selects is a list.
LEMMA HitsListed ==
    ASSUME LogInv, NEW k, NEW cursor
    PROVE  /\ Listed(Hits(scheduler_audit, k, cursor))
           /\ Hits(scheduler_audit, k, cursor) \subseteq AuditRow
<1> DEFINE hits == Hits(scheduler_audit, k, cursor)
<1>1. hits \subseteq scheduler_audit /\ hits \subseteq Rows /\ hits \subseteq AuditRow
  BY DEF Hits, Rows, LogInv, LogTypeOK
<1>2. IsFiniteSet(hits)
  BY <1>1, FS_Subset DEF LogInv
<1>3. \A r \in hits : r.ts \in Nat /\ r.id \in Nat
  BY <1>1, AuditAssumption DEF AuditRow
<1> QED
  BY <1>1, <1>2, <1>3 DEF Listed, LogInv

\* The answer of a query, in terms of the rows it selects from.
LEMMA QueryAnswers ==
    ASSUME LogInv, NEW k, NEW cursor
    PROVE  LET hits   == Hits(scheduler_audit, k, cursor)
               answer == query_audit(k, cursor)
           IN  /\ answer.rows \subseteq hits /\ answer.rows \subseteq AuditRow
               /\ \/ answer.next_cursor = NULL /\ answer.rows = hits
                  \/ \E last \in answer.rows :
                        /\ answer.next_cursor = [ts |-> last.ts, id |-> last.id]
                        /\ answer.next_cursor \in Cursor
                        /\ answer.next_cursor # NULL
                        /\ \A r \in answer.rows : ~Before(answer.next_cursor, r)
                        /\ \A r \in hits \ answer.rows : Before(answer.next_cursor, r)
<1> DEFINE hits   == Hits(scheduler_audit, k, cursor)
           page   == Page(hits)
<1>1. Listed(hits) /\ hits \subseteq AuditRow
  BY HitsListed
<1>2. query_audit(k, cursor).rows = page /\ query_audit(k, cursor).next_cursor = next_cursor(page)
  BY DEF query_audit
<1>3. page \subseteq hits
  BY DEF Page
<1>4. ASSUME NEW last \in page
      PROVE  /\ [ts |-> last.ts, id |-> last.id] \in Cursor
             /\ [ts |-> last.ts, id |-> last.id] # NULL
             /\ \A r : Before([ts |-> last.ts, id |-> last.id], r) <=> Before(last, r)
  <2>1. last.ts \in 0..MaxNow /\ last.id \in 1..MaxRows
    BY <1>1, <1>3 DEF AuditRow
  <2>2. [ts |-> last.ts, id |-> last.id] \in [ts : Nat, id : Nat]
    BY <2>1, AuditAssumption
  <2> QED
    BY <2>1, <2>2, AuditAssumption DEF Cursor, Before
<1> HIDE DEF hits, page
<1>5. \/ next_cursor(page) = NULL /\ page = hits
      \/ \E last \in page :
            /\ next_cursor(page) = [ts |-> last.ts, id |-> last.id]
            /\ \A r \in page : ~Before(last, r)
            /\ \A r \in hits \ page : Before(last, r)
  BY <1>1, Answered DEF page
<1> QED
  BY <1>1, <1>2, <1>3, <1>4, <1>5 DEF hits

-----------------------------------------------------------------------------
(* The walk                                                                *)

\* Nothing on the pages so far is past the cursor, and every row that is still
\* due is: what the cursor leaves to come and what has been shown are apart.
WalkInv ==
    /\ reader \in Reader
    /\ reader.due \subseteq Hits(scheduler_audit, reader.campaign_id, NULL)
    /\ reader.cursor # NULL => \A r \in Surfaced : ~Before(reader.cursor, r)
    /\ \A r \in reader.due \ Surfaced : reader.cursor # NULL /\ Before(reader.cursor, r)
    /\ NoRowTwice

\* One page further: the rows of the answer are new, none of what has been
\* shown is past the new cursor, and all that is still due is.
LEMMA PageTurns ==
    ASSUME LogInv, NEW k, NEW cursor \in Cursor \cup {NULL}, NEW shownRows, NEW due,
           shownRows \subseteq AuditRow,
           due \subseteq Hits(scheduler_audit, k, NULL),
           cursor = NULL => shownRows = {},
           cursor # NULL => \A r \in shownRows : ~Before(cursor, r),
           cursor # NULL => \A r \in due \ shownRows : Before(cursor, r)
    PROVE  LET answer == query_audit(k, cursor)
               next   == answer.next_cursor
           IN  /\ answer.rows \cap shownRows = {}
               /\ next # NULL => \A r \in shownRows \cup answer.rows : ~Before(next, r)
               /\ \A r \in due \ (shownRows \cup answer.rows) : next # NULL /\ Before(next, r)
<1> DEFINE hits   == Hits(scheduler_audit, k, cursor)
           rows   == query_audit(k, cursor).rows
           next   == query_audit(k, cursor).next_cursor
<1>1. /\ rows \subseteq hits /\ rows \subseteq AuditRow
      /\ \/ next = NULL /\ rows = hits
         \/ \E last \in rows :
               /\ next = [ts |-> last.ts, id |-> last.id]
               /\ next \in Cursor /\ next # NULL
               /\ \A r \in rows : ~Before(next, r)
               /\ \A r \in hits \ rows : Before(next, r)
  BY QueryAnswers
<1> HIDE DEF rows, next
<1>2. \A r \in hits : cursor # NULL => Before(cursor, r)
  BY DEF Hits, Past
<1>3. rows \cap shownRows = {}
  BY <1>1, <1>2
<1>4. due \ shownRows \subseteq hits
  BY DEF Hits, Past
<1>5. \A r \in due \ (shownRows \cup rows) : next # NULL /\ Before(next, r)
  BY <1>1, <1>4
<1>6. ASSUME next # NULL, NEW r \in shownRows PROVE ~Before(next, r)
  <2>1. PICK last \in rows : next = [ts |-> last.ts, id |-> last.id]
    BY <1>1, <1>6
  <2>2. cursor # NULL /\ Before(cursor, last) /\ ~Before(cursor, r)
    BY <1>1, <1>2, <1>6
  <2>3. /\ last.ts \in Nat /\ last.id \in Nat /\ r.ts \in Nat /\ r.id \in Nat
        /\ cursor.ts \in Nat /\ cursor.id \in Nat
    BY <1>1, <2>2, AuditAssumption DEF AuditRow, Cursor
  <2> QED
    BY <2>1, <2>2, <2>3 DEF Before
<1>7. next # NULL => \A r \in rows : ~Before(next, r)
  BY <1>1
<1> QED
  BY <1>3, <1>5, <1>6, <1>7 DEF rows, next

LEMMA InitWalk == PagesInit => WalkInv
<1> SUFFICES ASSUME PagesInit PROVE WalkInv
  OBVIOUS
<1>1. reader = [campaign_id |-> NULL, pages |-> <<>>, cursor |-> NULL, due |-> {}]
  BY DEF PagesInit
<1>2. reader \in Reader
  BY <1>1 DEF Reader
<1>3. DOMAIN reader.pages = {}
  BY <1>1
<1> QED
  BY <1>1, <1>2, <1>3 DEF WalkInv, NoRowTwice

\* The first page.
LEMMA FirstStep ==
    ASSUME LogInv, NEW k \in Campaign \cup {NULL}, first_page(k)
    PROVE  WalkInv'
<1> DEFINE answer == query_audit(k, NULL)
<1>1. /\ reader' = [campaign_id |-> k, pages |-> <<answer.rows>>, cursor |-> answer.next_cursor,
                    due |-> Hits(scheduler_audit, k, NULL)]
      /\ UNCHANGED scheduler_audit
  BY DEF first_page, logVars
<1>2. answer.rows \subseteq AuditRow /\ answer.next_cursor \in Cursor \cup {NULL}
  BY QueryAnswers
<1>3. /\ answer.next_cursor # NULL => \A r \in answer.rows : ~Before(answer.next_cursor, r)
      /\ \A r \in Hits(scheduler_audit, k, NULL) \ answer.rows :
            answer.next_cursor # NULL /\ Before(answer.next_cursor, r)
  BY QueryAnswers
<1> HIDE DEF answer
<1>4. DOMAIN reader'.pages = {1} /\ reader'.pages[1] = answer.rows
  BY <1>1
<1>5. Surfaced' = answer.rows
  BY <1>4 DEF Surfaced
<1>6. reader' \in Reader
  <2>1. Hits(scheduler_audit, k, NULL) \subseteq AuditRow
    BY HitsListed
  <2>2. <<answer.rows>> \in Seq(SUBSET AuditRow)
    BY <1>2
  <2> QED
    BY <1>1, <1>2, <2>1, <2>2 DEF Reader, Cursor
<1>7. NoRowTwice'
  BY <1>4 DEF NoRowTwice
<1>8. (reader.due \subseteq Hits(scheduler_audit, reader.campaign_id, NULL))'
  BY <1>1 DEF Hits
<1>9. reader'.cursor = answer.next_cursor /\ reader'.due = Hits(scheduler_audit, k, NULL)
  BY <1>1
<1> QED
  BY <1>3, <1>5, <1>6, <1>7, <1>8, <1>9 DEF WalkInv

\* A page after it.
LEMMA NextStep ==
    ASSUME LogInv, WalkInv, next_page
    PROVE  WalkInv'
<1> DEFINE k      == reader.campaign_id
           answer == query_audit(k, reader.cursor)
           pages  == reader.pages
<1>0. /\ reader \in Reader /\ pages \in Seq(SUBSET AuditRow) /\ reader.cursor \in Cursor
      /\ reader.due \subseteq Hits(scheduler_audit, k, NULL)
      /\ reader.cursor # NULL
  BY DEF WalkInv, Reader, Cursor, next_page
<1>1. reader' = [reader EXCEPT !.pages = Append(pages, answer.rows), !.cursor = answer.next_cursor]
      /\ UNCHANGED scheduler_audit
  BY DEF next_page, logVars
<1>2. answer.rows \subseteq AuditRow /\ answer.next_cursor \in Cursor \cup {NULL}
  BY QueryAnswers
<1>3. Surfaced \subseteq AuditRow
  BY <1>0 DEF Surfaced
<1>4. /\ answer.rows \cap Surfaced = {}
      /\ answer.next_cursor # NULL =>
            \A r \in Surfaced \cup answer.rows : ~Before(answer.next_cursor, r)
      /\ \A r \in reader.due \ (Surfaced \cup answer.rows) :
            answer.next_cursor # NULL /\ Before(answer.next_cursor, r)
  <2>1. /\ \A r \in Surfaced : ~Before(reader.cursor, r)
        /\ \A r \in reader.due \ Surfaced : Before(reader.cursor, r)
    BY <1>0 DEF WalkInv
  <2> QED
    BY <1>0, <1>3, <2>1, PageTurns
<1> HIDE DEF answer
<1>5. /\ reader'.pages = Append(pages, answer.rows) /\ reader'.cursor = answer.next_cursor
      /\ reader'.due = reader.due /\ reader'.campaign_id = k
      /\ reader' \in Reader
  <2>1. Append(pages, answer.rows) \in Seq(SUBSET AuditRow)
    BY <1>0, <1>2
  <2> QED
    BY <1>0, <1>1, <1>2, <2>1 DEF Reader, Cursor
<1>6. /\ DOMAIN pages = 1 .. Len(pages) /\ Len(pages) \in Nat
      /\ DOMAIN reader'.pages = 1 .. Len(pages) + 1
      /\ \A i \in 1 .. Len(pages) : reader'.pages[i] = pages[i]
      /\ reader'.pages[Len(pages) + 1] = answer.rows
  BY <1>0, <1>2, <1>5
<1>7. Surfaced' = Surfaced \cup answer.rows
  <2>1. Surfaced' = UNION {reader'.pages[i] : i \in 1 .. Len(pages) + 1}
    BY <1>6 DEF Surfaced
  <2>2. Surfaced = UNION {pages[i] : i \in 1 .. Len(pages)}
    BY <1>6 DEF Surfaced
  <2>3. 1 .. Len(pages) + 1 = (1 .. Len(pages)) \cup {Len(pages) + 1}
    BY <1>6
  <2> QED
    BY <1>6, <2>1, <2>2, <2>3
<1>8. NoRowTwice'
  <2>1. ASSUME NEW i \in 1 .. Len(pages) + 1, NEW j \in 1 .. Len(pages) + 1, i # j
        PROVE  reader'.pages[i] \cap reader'.pages[j] = {}
    <3>1. \A l \in 1 .. Len(pages) : answer.rows \cap pages[l] = {}
      BY <1>4, <1>6 DEF Surfaced
    <3>2. CASE i \in 1 .. Len(pages) /\ j \in 1 .. Len(pages)
      BY <1>6, <2>1, <3>2 DEF WalkInv, NoRowTwice
    <3>3. CASE i = Len(pages) + 1 /\ j \in 1 .. Len(pages)
      BY <1>6, <3>1, <3>3
    <3>4. CASE j = Len(pages) + 1 /\ i \in 1 .. Len(pages)
      BY <1>6, <3>1, <3>4
    <3> QED
      BY <1>6, <2>1, <3>2, <3>3, <3>4
  <2> QED
    BY <1>6, <2>1 DEF NoRowTwice
<1>9. (reader.due \subseteq Hits(scheduler_audit, reader.campaign_id, NULL))'
  BY <1>0, <1>1, <1>5 DEF Hits
<1> QED
  BY <1>4, <1>5, <1>7, <1>8, <1>9 DEF WalkInv

LEMMA NextWalk == LogInv /\ WalkInv /\ [PagesNext]_pagesVars => LogInv' /\ WalkInv'
<1> SUFFICES ASSUME LogInv, WalkInv, [PagesNext]_pagesVars PROVE LogInv' /\ WalkInv'
  OBVIOUS
<1>1. CASE (LogNext \/ UNCHANGED logVars) /\ UNCHANGED reader
  <2>1. LogInv' /\ scheduler_audit \subseteq scheduler_audit'
    BY <1>1, NextLog
  <2>2. Surfaced' = Surfaced /\ NoRowTwice'
    BY <1>1 DEF Surfaced, WalkInv, NoRowTwice
  <2>3. (reader.due \subseteq Hits(scheduler_audit, reader.campaign_id, NULL))'
    BY <1>1, <2>1 DEF WalkInv, Hits
  <2> QED
    BY <1>1, <2>1, <2>2, <2>3 DEF WalkInv, Reader, AuditRow
<1>2. ASSUME NEW k \in Campaign \cup {NULL}, first_page(k) PROVE LogInv' /\ WalkInv'
  <2>1. UNCHANGED logVars
    BY <1>2 DEF first_page
  <2> QED
    BY <1>2, <2>1, NextLog, FirstStep
<1>3. CASE next_page
  <2>1. UNCHANGED logVars
    BY <1>3 DEF next_page
  <2> QED
    BY <1>3, <2>1, NextLog, NextStep
<1> QED
  BY <1>1, <1>2, <1>3 DEF PagesNext, pagesVars

LEMMA WalkAlways == PagesSpec => [](LogInv /\ WalkInv)
<1>1. PagesInit => LogInv /\ WalkInv
  BY InitLog, InitWalk DEF PagesInit
<1> QED
  BY <1>1, NextWalk, PTL DEF PagesSpec

\* A walk from the latest page to the end shows every matching row that was
\* committed when it began, whatever is committed meanwhile.  query_audit and
\* the cursor on (ts, id).
THEOREM WalkAlwaysComplete == PagesSpec => []WalkComplete
<1>1. WalkInv => WalkComplete
  BY DEF WalkInv, WalkComplete
<1> QED
  BY <1>1, WalkAlways, PTL

\* No row is on two pages of a walk.  query_audit and its cursor, which leaves
\* out the row it was made from.
THEOREM RowsShownOnce == PagesSpec => []NoRowTwice
<1>1. WalkInv => NoRowTwice
  BY DEF WalkInv
<1> QED
  BY <1>1, WalkAlways, PTL

-----------------------------------------------------------------------------
(* The types of the audit tab                                              *)

LEMMA FetchType ==
    ASSUME AuditTypeOK, NEW f \in Filters, fetchEvents(f)
    PROVE  inflight' \subseteq Request /\ loading' \in BOOLEAN /\ error' \in BOOLEAN
<1>1. [filters |-> f, fresh |-> TRUE, reply |-> NULL] \in Request
  BY DEF Request
<1>2. ASSUME NEW q \in inflight PROVE [q EXCEPT !.fresh = FALSE] \in Request
  BY DEF AuditTypeOK, Request
<1> QED
  BY <1>1, <1>2 DEF fetchEvents

\* What the server answers with.
LEMMA ReplyType ==
    ASSUME LogInv, NEW k, NEW cursor
    PROVE  query_audit(k, cursor) \in Reply
<1>1. /\ query_audit(k, cursor).rows \subseteq AuditRow
      /\ query_audit(k, cursor).next_cursor \in Cursor \cup {NULL}
  BY QueryAnswers
<1>2. query_audit(k, cursor) = [rows |-> query_audit(k, cursor).rows,
                                next_cursor |-> query_audit(k, cursor).next_cursor]
  BY DEF query_audit
<1> QED
  BY <1>1, <1>2 DEF Reply

\* What a URL carries are filters.
LEMMA LinksAreFilters ==
    ASSUME LogTypeOK
    PROVE  Links \subseteq Filters
<1>1. ASSUME NEW r \in scheduler_audit PROVE Key(r) \in Cursor
  BY DEF LogTypeOK, AuditRow, Key, Cursor
<1> QED
  BY <1>1 DEF Links, Filters

\* The handlers of the operator.
LEMMA OperatorType ==
    ASSUME AuditTypeOK, OperatorNext
    PROVE  AuditTypeOK' /\ UNCHANGED logVars
<1> USE DEF logVars, pageVars, answerVars, tabVars
<1>0. /\ filters \in Filters /\ nextCursor \in Cursor \cup {NULL}
      /\ pageHistory \in Seq(Cursor \cup {NULL})
      /\ <<>> \in Seq(Cursor \cup {NULL})
  BY DEF AuditTypeOK
<1>1. ASSUME NEW c \in Cursor \cup {NULL} PROVE [filters EXCEPT !.cursor = c] \in Filters
  BY <1>0 DEF Filters
<1>2. ASSUME reevaluatePolling, visible' \in BOOLEAN PROVE pollTimer' \in BOOLEAN
  BY <1>2 DEF reevaluatePolling, shouldPoll
<1>3. ASSUME NEW f \in Filters, GoTo(f), UNCHANGED <<logVars, answerVars, tabVars>>,
             pollTimer' \in BOOLEAN, pageHistory' \in Seq(Cursor \cup {NULL})
      PROVE  AuditTypeOK' /\ UNCHANGED logVars
  <2>1. /\ inflight' \subseteq Request /\ loading' \in BOOLEAN /\ error' \in BOOLEAN
        /\ filters' \in Filters
    BY <1>3, FetchType DEF GoTo
  <2> QED
    BY <1>3, <2>1 DEF AuditTypeOK, LogTypeOK
<1>4. ASSUME NEW F \in Selections, change_filter(F) PROVE AuditTypeOK' /\ UNCHANGED logVars
  <2>1. [campaigns |-> F, cursor |-> NULL] \in Filters
    BY DEF Filters
  <2>2. pollTimer' \in BOOLEAN /\ pageHistory' = <<>>
    BY <1>4 DEF change_filter, AuditTypeOK
  <2> QED
    BY <1>0, <1>3, <1>4, <2>1, <2>2 DEF change_filter
<1>5. CASE older
  <2>1. pageHistory' \in Seq(Cursor \cup {NULL})
    <3>1. filters.cursor \in Cursor \cup {NULL}
      BY <1>0 DEF Filters
    <3> QED
      BY <1>0, <1>5, <3>1 DEF older
  <2>2. pollTimer' \in BOOLEAN
    BY <1>2, <1>5 DEF older, AuditTypeOK
  <2> QED
    BY <1>0, <1>1, <1>3, <1>5, <2>1, <2>2 DEF older
<1>6. CASE newer
  <2>1. pageHistory[Len(pageHistory)] \in Cursor \cup {NULL}
    BY <1>0, <1>6 DEF newer
  <2>2. pageHistory' \in Seq(Cursor \cup {NULL})
    BY <1>0, <1>6 DEF newer
  <2>3. pollTimer' \in BOOLEAN
    BY <1>2, <1>6 DEF newer, AuditTypeOK
  <2> QED
    BY <1>1, <1>3, <1>6, <2>1, <2>2, <2>3 DEF newer
<1>7. CASE back_to_latest
  <2>1. pollTimer' \in BOOLEAN
    BY <1>2, <1>7 DEF back_to_latest, AuditTypeOK
  <2> QED
    BY <1>0, <1>1, <1>3, <1>7, <2>1 DEF back_to_latest
<1>8. CASE retry
  <2>1. inflight' \subseteq Request /\ loading' \in BOOLEAN /\ error' \in BOOLEAN
    BY <1>0, <1>8, FetchType DEF retry
  <2> QED
    BY <1>8, <2>1 DEF retry, AuditTypeOK, LogTypeOK
<1>9. ASSUME NEW tab \in {"campaigns", "audit"}, tabchange(tab), filters' \in Filters
      PROVE  AuditTypeOK' /\ UNCHANGED logVars
  <2>1. pollTimer' \in BOOLEAN
    BY <1>2, <1>9 DEF tabchange, AuditTypeOK
  <2>2. tabLoads' \in 0..2
    BY <1>9 DEF tabchange, AuditTypeOK
  <2>3. activeTab' \in {"campaigns", "audit"}
    BY <1>9 DEF tabchange
  <2>4. UNCHANGED <<logVars, visible, loading, error, inflight, answerVars, pageHistory>>
    BY <1>9 DEF tabchange
  <2> QED
    BY <1>9, <2>1, <2>2, <2>3, <2>4 DEF AuditTypeOK, LogTypeOK
<1>10. ASSUME NEW tab \in {"campaigns", "audit"}, switch_tab(tab)
       PROVE  AuditTypeOK' /\ UNCHANGED logVars
  <2>1. filters' \in Filters
    BY <1>0, <1>10, LinksAreFilters DEF switch_tab, AuditTypeOK
  <2> QED
    BY <1>9, <1>10, <2>1 DEF switch_tab
<1>11. ASSUME NEW k \in Campaign, view_call(k) PROVE AuditTypeOK' /\ UNCHANGED logVars
  <2>1. filters' \in Filters
    BY <1>11 DEF view_call, Filters
  <2> QED
    BY <1>9, <1>11, <2>1 DEF view_call
<1>12. CASE visibilitychange
  <2>1. visible' \in BOOLEAN
    BY <1>12 DEF visibilitychange
  <2>2. pollTimer' \in BOOLEAN
    BY <1>2, <1>12, <2>1 DEF visibilitychange
  <2>3. UNCHANGED <<logVars, pageVars, answerVars, loading, error, inflight, activeTab, tabLoads>>
    BY <1>12 DEF visibilitychange
  <2> QED
    BY <2>1, <2>2, <2>3 DEF AuditTypeOK, LogTypeOK
<1>13. CASE reload
  <2>1. tabLoads' \in 0..2 /\ filters' \in Filters /\ activeTab' \in {"campaigns", "audit"}
    BY <1>13, LinksAreFilters DEF reload, AuditTypeOK
  <2>2. loading' \in BOOLEAN /\ error' \in BOOLEAN /\ pollTimer' \in BOOLEAN
    BY <1>13 DEF reload
  <2>3. /\ pageHistory' \in Seq(Cursor \cup {NULL}) /\ events' \subseteq AuditRow
        /\ nextCursor' \in Cursor \cup {NULL} /\ shown' \in Filters \cup {NULL}
        /\ inflight' \subseteq Request
        /\ UNCHANGED <<logVars, visible>>
    BY <1>0, <1>13 DEF reload
  <2> QED
    BY <2>1, <2>2, <2>3 DEF AuditTypeOK, LogTypeOK
<1> QED
  BY <1>4, <1>5, <1>6, <1>7, <1>8, <1>10, <1>11, <1>12, <1>13 DEF OperatorNext

\* The requests and what becomes of them.
LEMMA BrowserType ==
    ASSUME LogInv, AuditTypeOK, BrowserNext \/ \E q \in inflight : list_audit(q)
    PROVE  AuditTypeOK' /\ UNCHANGED logVars
<1> USE DEF logVars, pageVars, answerVars, tabVars
<1>0. inflight \subseteq Request /\ filters \in Filters
  BY DEF AuditTypeOK
<1>1. CASE tab_loaded
  <2>1. inflight' \subseteq Request /\ loading' \in BOOLEAN /\ error' \in BOOLEAN
    BY <1>0, <1>1, FetchType DEF tab_loaded
  <2>2. pollTimer' \in BOOLEAN
    BY <1>1 DEF tab_loaded, reevaluatePolling, shouldPoll, AuditTypeOK
  <2>3. tabLoads' \in 0..2
    BY <1>1 DEF tab_loaded, AuditTypeOK
  <2> QED
    BY <1>1, <2>1, <2>2, <2>3 DEF tab_loaded, AuditTypeOK, LogTypeOK
<1>2. CASE poll
  <2>1. inflight' \subseteq Request /\ loading' \in BOOLEAN /\ error' \in BOOLEAN
    BY <1>0, <1>2, FetchType DEF poll
  <2> QED
    BY <1>2, <2>1 DEF poll, AuditTypeOK, LogTypeOK
<1>3. ASSUME NEW q \in inflight, response(q) PROVE AuditTypeOK' /\ UNCHANGED logVars
  <2>1. q.reply \in Reply /\ q.filters \in Filters
    BY <1>0, <1>3 DEF response, Request
  <2>2. q.reply.rows \subseteq AuditRow /\ q.reply.next_cursor \in Cursor \cup {NULL}
    BY <2>1 DEF Reply
  <2>3. events' \subseteq AuditRow
    BY <1>3, <2>2 DEF response, ClientSide
  <2>4. /\ inflight' \subseteq Request /\ nextCursor' \in Cursor \cup {NULL} /\ loading' = FALSE
        /\ shown' \in Filters /\ UNCHANGED <<logVars, pageVars, error, pollTimer, tabVars>>
    BY <1>0, <1>3, <2>1, <2>2 DEF response
  <2> QED
    BY <2>3, <2>4 DEF AuditTypeOK, LogTypeOK
<1>4. ASSUME NEW q \in inflight, request_failed(q) \/ late_response(q)
      PROVE  AuditTypeOK' /\ UNCHANGED logVars
  BY <1>4 DEF request_failed, late_response, AuditTypeOK, LogTypeOK
<1>5. ASSUME NEW q \in inflight, list_audit(q) PROVE AuditTypeOK' /\ UNCHANGED logVars
  <2> DEFINE reply == query_audit(campaign_id(q.filters.campaigns), q.filters.cursor)
  <2>1. reply \in Reply
    BY ReplyType
  <2> HIDE DEF reply
  <2>2. [q EXCEPT !.reply = reply] \in Request
    BY <1>0, <2>1 DEF Request
  <2>3. inflight' \subseteq Request
    BY <1>0, <1>5, <2>2 DEF list_audit, reply
  <2> QED
    BY <1>5, <2>3 DEF list_audit, AuditTypeOK, LogTypeOK
<1> QED
  BY <1>1, <1>2, <1>3, <1>4, <1>5 DEF BrowserNext

\* The log stays well formed and the window keeps its types.
LEMMA TypesAlways == AuditSpec => [](LogInv /\ AuditTypeOK)
<1>1. AuditInit => LogInv /\ AuditTypeOK
  <2> SUFFICES ASSUME AuditInit PROVE LogInv /\ AuditTypeOK
    OBVIOUS
  <2>1. LogInv /\ LogTypeOK
    BY InitLog DEF AuditInit, LogInv
  <2>2. filters \in Filters
    BY <2>1, LinksAreFilters DEF AuditInit
  <2>3. pageHistory \in Seq(Cursor \cup {NULL})
    BY DEF AuditInit
  <2>4. tabLoads \in 0..2 /\ activeTab \in {"campaigns", "audit"}
    BY DEF AuditInit
  <2>5. loading \in BOOLEAN /\ error \in BOOLEAN /\ pollTimer \in BOOLEAN /\ visible \in BOOLEAN
    BY DEF AuditInit
  <2>6. /\ events \subseteq AuditRow /\ nextCursor \in Cursor \cup {NULL}
        /\ inflight \subseteq Request /\ shown \in Filters \cup {NULL}
    BY DEF AuditInit
  <2> QED
    BY <2>1, <2>2, <2>3, <2>4, <2>5, <2>6 DEF AuditTypeOK
<1>2. LogInv /\ AuditTypeOK /\ [AuditNext]_vars => LogInv' /\ AuditTypeOK'
  <2> SUFFICES ASSUME LogInv, AuditTypeOK, [AuditNext]_vars PROVE LogInv' /\ AuditTypeOK'
    OBVIOUS
  <2>1. CASE (LogNext \/ UNCHANGED logVars) /\ UNCHANGED viewVars
    <3>1. LogInv' /\ LogTypeOK'
      BY <2>1, NextLog DEF LogInv
    <3> QED
      BY <2>1, <3>1 DEF viewVars, AuditTypeOK
  <2>2. CASE OperatorNext
    BY <2>2, OperatorType, NextLog
  <2>3. CASE BrowserNext \/ \E q \in inflight : list_audit(q)
    BY <2>3, BrowserType, NextLog
  <2> QED
    BY <2>1, <2>2, <2>3 DEF AuditNext, vars
<1> QED
  BY <1>1, <1>2, PTL DEF AuditSpec

\* The log and the window keep their types: every cursor the tab holds, in its
\* filters, its history, its requests or their answers, is a key of the log,
\* and every row it shows a row of it.  audit.js and the cursors of query_audit.
THEOREM AuditTypeCorrect == AuditSpec => []AuditTypeOK
  BY TypesAlways, PTL

-----------------------------------------------------------------------------
(* What the tab shows                                                      *)

\* The shape of the filters and of a request, and the selections they carry.
FiltersShape(f) ==
    /\ f = [campaigns |-> f.campaigns, cursor |-> f.cursor]
    /\ f.campaigns \in Selections

RequestShape(q) ==
    /\ q = [filters |-> q.filters, fresh |-> q.fresh, reply |-> q.reply]
    /\ q.fresh \in BOOLEAN
    /\ FiltersShape(q.filters)

Shapes ==
    /\ FiltersShape(filters)
    /\ \A q \in inflight : RequestShape(q)
    /\ tabLoads \in Nat
    /\ loading \in BOOLEAN /\ error \in BOOLEAN

\* The request with the current token is the only one, is being waited for,
\* and asks for what the tab shows unless a load of the tab is under way.
TokenInv ==
    /\ \A p, q \in inflight : p.fresh /\ q.fresh => p = q
    /\ \A q \in inflight : q.fresh =>
          loading /\ (tabLoads = 0 => q.filters = filters)

\* An answer holds committed rows that its request asked for, and its cursor is
\* the key of one of them.
Answers(reply, f) ==
    /\ reply.rows \subseteq Hits(scheduler_audit, campaign_id(f.campaigns), f.cursor)
    /\ reply.next_cursor # NULL => \E r \in reply.rows : reply.next_cursor = Key(r)

ReplyInv == \A q \in inflight : q.reply # NULL => Answers(q.reply, q.filters)

ViewInv == Shapes /\ TokenInv /\ ReplyInv /\ ShownIsCurrent

-----------------------------------------------------------------------------
\* fetchEvents: afterwards the new request is the only one with the current
\* token and has no answer yet; the others kept their answers.
LEMMA FetchStep ==
    ASSUME ViewInv, NEW f, FiltersShape(f), fetchEvents(f),
           filters' = f, UNCHANGED scheduler_audit, tabLoads' \in Nat
    PROVE  ViewInv'
<1>1. ASSUME NEW q \in inflight'
      PROVE  \/ q = [filters |-> f, fresh |-> TRUE, reply |-> NULL]
             \/ \E p \in inflight : q = [p EXCEPT !.fresh = FALSE]
  BY <1>1 DEF fetchEvents
<1>2. ASSUME NEW q \in inflight', NEW p \in inflight, q = [p EXCEPT !.fresh = FALSE]
      PROVE  /\ RequestShape(q) /\ ~q.fresh
             /\ q.filters = p.filters /\ q.reply = p.reply
  <2>1. p = [filters |-> p.filters, fresh |-> p.fresh, reply |-> p.reply]
    BY DEF ViewInv, Shapes, RequestShape
  <2>2. FiltersShape(p.filters)
    BY DEF ViewInv, Shapes, RequestShape
  <2>3. q = [filters |-> p.filters, fresh |-> FALSE, reply |-> p.reply]
    BY <1>2, <2>1
  <2> QED BY <2>2, <2>3 DEF RequestShape
<1>3. Shapes'
  <2>1. FiltersShape(filters)'
    BY DEF FiltersShape
  <2>2. ASSUME NEW q \in inflight' PROVE RequestShape(q)
    <3>1. CASE q = [filters |-> f, fresh |-> TRUE, reply |-> NULL]
      BY <3>1 DEF RequestShape
    <3> QED BY <1>1, <1>2, <3>1, <2>2
  <2>3. loading' \in BOOLEAN /\ error' \in BOOLEAN
    BY DEF fetchEvents
  <2> QED BY <2>1, <2>2, <2>3 DEF Shapes, RequestShape, FiltersShape
<1>4. TokenInv'
  <2>1. ASSUME NEW q \in inflight', q.fresh
        PROVE  q = [filters |-> f, fresh |-> TRUE, reply |-> NULL]
    BY <1>1, <1>2, <2>1
  <2>2. loading'
    BY DEF fetchEvents
  <2>3. ASSUME NEW q \in inflight', q.fresh PROVE q.filters = f
    <3>1. q = [filters |-> f, fresh |-> TRUE, reply |-> NULL]
      BY <2>1, <2>3
    <3> QED BY <3>1
  <2>4. ASSUME NEW p \in inflight', NEW q \in inflight', p.fresh, q.fresh
        PROVE  p = q
    BY <2>1, <2>4, Zenon
  <2> QED BY <2>2, <2>3, <2>4, Zenon DEF TokenInv
<1>5. ReplyInv'
  <2>1. ASSUME NEW q \in inflight', q.reply # NULL
        PROVE  Answers(q.reply, q.filters)
    <3>1. q # [filters |-> f, fresh |-> TRUE, reply |-> NULL]
      BY <2>1
    <3>2. PICK p \in inflight : q = [p EXCEPT !.fresh = FALSE]
      BY <1>1, <3>1, <2>1
    <3>3. q.filters = p.filters /\ q.reply = p.reply
      BY <1>2, <3>2, <2>1
    <3> QED BY <3>3, <2>1 DEF ViewInv, ReplyInv
  <2> QED BY <2>1 DEF ReplyInv, Answers, Hits
<1>6. ShownIsCurrent'
  BY DEF fetchEvents, ShownIsCurrent
<1> QED BY <1>3, <1>4, <1>5, <1>6 DEF ViewInv

-----------------------------------------------------------------------------
\* What the server keeps for the campaigns of a selection, and the window
\* after it, are rows the operator wants.
LEMMA ShownRowsWanted ==
    ASSUME NEW F \in Selections, NEW rows, NEW cursor,
           rows \subseteq Hits(scheduler_audit, campaign_id(F), cursor)
    PROVE  ClientSide(rows, F) \subseteq Wanted(F)
<1>1. F \subseteq Campaign /\ IsFiniteSet(F)
  BY SelectionsAssumption
<1>2. Cardinality(F) \in Nat
  BY <1>1, FS_CardinalityType
<1>3. CASE Cardinality(F) = 0
  <2>1. F = {}
    BY <1>1, <1>3, FS_EmptySet
  <2>2. ClientSide(rows, F) = rows
    BY <1>3 DEF ClientSide
  <2> QED BY <2>1, <2>2 DEF Hits, Wanted
<1>4. CASE Cardinality(F) = 1
  <2>1. PICK k : F = {k}
    BY <1>1, <1>4, FS_Singleton
  <2>2. campaign_id(F) = k
    BY <1>4, <2>1 DEF campaign_id
  <2>3. k # NULL
    BY <1>1, <2>1, AuditAssumption
  <2>4. ClientSide(rows, F) = rows
    BY <1>4 DEF ClientSide
  <2> QED BY <2>1, <2>2, <2>3, <2>4 DEF Hits, Wanted
<1>5. CASE Cardinality(F) > 1
  BY <1>5 DEF ClientSide, Hits, Wanted
<1> QED BY <1>2, <1>3, <1>4, <1>5

\* A step that takes requests out of flight and leaves the log, the filters
\* and the loads of the tab alone keeps the parts about requests, provided it
\* waits on.
LEMMA FewerRequests ==
    ASSUME ViewInv, inflight' \subseteq inflight,
           UNCHANGED <<scheduler_audit, filters, tabLoads>>,
           \A q \in inflight' : q.fresh => loading',
           loading' \in BOOLEAN, error' \in BOOLEAN
    PROVE  Shapes' /\ TokenInv' /\ ReplyInv'
<1>1. Shapes'
  BY DEF ViewInv, Shapes, FiltersShape, RequestShape
<1>2. TokenInv'
  BY DEF ViewInv, TokenInv
<1>3. ReplyInv'
  BY DEF ViewInv, ReplyInv, Answers, Hits
<1> QED BY <1>1, <1>2, <1>3

\* Rows are only added to the log.
LEMMA LogStep ==
    ASSUME ViewInv, LogNext, UNCHANGED viewVars
    PROVE  ViewInv'
<1>1. scheduler_audit \subseteq scheduler_audit'
  BY DEF LogNext, Begin, Commit, Rollback, emit_audit, ClockTicks
<1>2. UNCHANGED <<filters, events, nextCursor, loading, error, tabLoads, inflight, shown>>
  BY DEF viewVars
<1>3. Shapes' /\ TokenInv'
  BY <1>2 DEF ViewInv, Shapes, FiltersShape, RequestShape, TokenInv
<1>4. ReplyInv'
  BY <1>1, <1>2 DEF ViewInv, ReplyInv, Answers, Hits
<1>5. ShownIsCurrent'
  BY <1>1, <1>2 DEF ViewInv, ShownIsCurrent, Wanted, Hits
<1> QED BY <1>3, <1>4, <1>5 DEF ViewInv

\* The server's answer to a request.
LEMMA ServerStep ==
    ASSUME LogInv, ViewInv, NEW q \in inflight, list_audit(q)
    PROVE  ViewInv'
<1> DEFINE F == q.filters.campaigns
           r == [q EXCEPT !.reply = query_audit(campaign_id(F), q.filters.cursor)]
<1>1. /\ inflight' = (inflight \ {q}) \cup {r}
      /\ UNCHANGED <<scheduler_audit, filters, events, nextCursor, loading, error, tabLoads, shown>>
  BY DEF list_audit, logVars, pageVars, answerVars, tabVars
<1>2. RequestShape(q)
  BY DEF ViewInv, Shapes
<1>3. r = [filters |-> q.filters, fresh |-> q.fresh,
           reply |-> query_audit(campaign_id(F), q.filters.cursor)]
  BY <1>2 DEF RequestShape
<1>4. r.filters = q.filters /\ r.fresh = q.fresh /\ RequestShape(r)
  BY <1>2, <1>3 DEF RequestShape
<1>5. Answers(r.reply, q.filters)
  <2>1. r.reply = query_audit(campaign_id(F), q.filters.cursor)
    BY <1>3
  <2> QED BY <2>1, QueryAnswers DEF Answers, Key
<1>6. Shapes'
  BY <1>1, <1>4 DEF ViewInv, Shapes, FiltersShape, RequestShape
<1>7. TokenInv'
  BY <1>1, <1>4 DEF ViewInv, TokenInv
<1>8. ReplyInv'
  <2>1. ASSUME NEW p \in inflight', p.reply # NULL
        PROVE  Answers(p.reply, p.filters)
    <3>1. CASE p = r
      BY <3>1, <1>4, <1>5
    <3>2. CASE p \in inflight
      BY <3>2, <2>1 DEF ViewInv, ReplyInv
    <3> QED BY <1>1, <3>1, <3>2
  <2> QED BY <2>1, <1>1 DEF ReplyInv, Answers, Hits
<1>9. ShownIsCurrent'
  BY <1>1 DEF ViewInv, ShownIsCurrent, Wanted, Hits
<1> QED BY <1>6, <1>7, <1>8, <1>9 DEF ViewInv

\* The end of a request: its page is shown, its failure is, or it is late.
LEMMA AnswerStep ==
    ASSUME ViewInv, NEW q \in inflight,
           response(q) \/ request_failed(q) \/ late_response(q)
    PROVE  ViewInv'
<1>1. ASSUME q.fresh PROVE \A p \in inflight \ {q} : ~p.fresh
  BY <1>1 DEF ViewInv, TokenInv, Shapes, RequestShape
<1>2. CASE response(q)
  <2>1. /\ inflight' = inflight \ {q} /\ q.fresh /\ q.reply # NULL
        /\ events' = ClientSide(q.reply.rows, filters.campaigns)
        /\ nextCursor' = q.reply.next_cursor /\ loading' = FALSE /\ shown' = q.filters
        /\ UNCHANGED <<scheduler_audit, filters, error, tabLoads>>
    BY <1>2 DEF response, TokenCurrent, logVars, pageVars, tabVars
  <2>2. \A p \in inflight' : p.fresh => loading'
    BY <1>1, <2>1
  <2>3. loading' \in BOOLEAN /\ error' \in BOOLEAN
    BY <2>1 DEF ViewInv, Shapes
  <2>4. Shapes' /\ TokenInv' /\ ReplyInv'
    BY <2>1, <2>2, <2>3, FewerRequests
  <2>5. ASSUME tabLoads = 0
        PROVE  /\ q.filters = filters
               /\ ClientSide(q.reply.rows, filters.campaigns)
                      \subseteq Wanted(filters.campaigns)
               /\ q.reply.next_cursor # NULL =>
                     \E r \in Hits(scheduler_audit, campaign_id(filters.campaigns),
                                  filters.cursor) : q.reply.next_cursor = Key(r)
    <3>1. q.filters = filters
      BY <2>1, <2>5 DEF ViewInv, TokenInv
    <3>2. filters.campaigns \in Selections
      BY DEF ViewInv, Shapes, FiltersShape
    <3>3. Answers(q.reply, filters)
      BY <2>1, <3>1 DEF ViewInv, ReplyInv
    <3>4. q.reply.rows \subseteq
              Hits(scheduler_audit, campaign_id(filters.campaigns), filters.cursor)
      BY <3>3 DEF Answers
    <3>5. ClientSide(q.reply.rows, filters.campaigns) \subseteq Wanted(filters.campaigns)
      BY <3>2, <3>4, ShownRowsWanted
    <3> QED BY <3>1, <3>3, <3>4, <3>5 DEF Answers
  <2>6. ShownIsCurrent'
    BY <2>1, <2>5 DEF ShownIsCurrent, Wanted, Hits
  <2> QED BY <2>4, <2>6 DEF ViewInv
<1>3. CASE request_failed(q)
  <2>1. /\ inflight' = inflight \ {q} /\ q.fresh
        /\ loading' = FALSE /\ error' = TRUE
        /\ UNCHANGED <<scheduler_audit, filters, tabLoads>>
    BY <1>3 DEF request_failed, TokenCurrent, logVars, pageVars, tabVars
  <2>2. \A p \in inflight' : p.fresh => loading'
    BY <1>1, <2>1
  <2>3. Shapes' /\ TokenInv' /\ ReplyInv'
    BY <2>1, <2>2, FewerRequests
  <2> QED BY <2>1, <2>3 DEF ViewInv, ShownIsCurrent
<1>4. CASE late_response(q)
  <2>1. /\ inflight' = inflight \ {q}
        /\ UNCHANGED <<scheduler_audit, filters, events, nextCursor, loading, error, tabLoads, shown>>
    BY <1>4 DEF late_response, logVars, pageVars, answerVars, tabVars
  <2>2. \A p \in inflight' : p.fresh => loading'
    BY <2>1 DEF ViewInv, TokenInv
  <2>3. loading' \in BOOLEAN /\ error' \in BOOLEAN
    BY <2>1 DEF ViewInv, Shapes
  <2>4. Shapes' /\ TokenInv' /\ ReplyInv'
    BY <2>1, <2>2, <2>3, FewerRequests
  <2>5. ShownIsCurrent'
    BY <2>1 DEF ViewInv, ShownIsCurrent, Wanted, Hits
  <2> QED BY <2>4, <2>5 DEF ViewInv
<1> QED BY <1>2, <1>3, <1>4

-----------------------------------------------------------------------------
\* The handlers of the operator: a fetch, a load of the tab, or neither.
LEMMA OperatorStep ==
    ASSUME ViewInv, OperatorNext
    PROVE  ViewInv'
<1> USE DEF logVars, pageVars, answerVars, tabVars
<1>1. filters = [campaigns |-> filters.campaigns, cursor |-> filters.cursor]
         /\ filters.campaigns \in Selections /\ tabLoads \in Nat
  BY DEF ViewInv, Shapes, FiltersShape
<1>2. ASSUME NEW c PROVE FiltersShape([filters EXCEPT !.cursor = c])
  BY <1>1 DEF FiltersShape
<1>3. ASSUME NEW F \in Selections, change_filter(F) PROVE ViewInv'
  <2>1. FiltersShape([campaigns |-> F, cursor |-> NULL])
    BY DEF FiltersShape
  <2> QED BY <1>1, <1>3, <2>1, FetchStep DEF change_filter, GoTo
<1>4. CASE older
  BY <1>1, <1>2, <1>4, FetchStep DEF older, GoTo
<1>5. CASE newer
  BY <1>1, <1>2, <1>5, FetchStep DEF newer, GoTo
<1>6. CASE back_to_latest
  BY <1>1, <1>2, <1>6, FetchStep DEF back_to_latest, GoTo
<1>7. CASE retry
  BY <1>1, <1>7, FetchStep DEF retry, FiltersShape
<1>8. ASSUME NEW tab, tabchange(tab), FiltersShape(filters'),
             tab = "audit" \/ UNCHANGED filters
      PROVE  ViewInv'
  <2>1. UNCHANGED <<scheduler_audit, events, nextCursor, loading, error, inflight, shown>>
    BY <1>8 DEF tabchange
  <2>2. tabLoads' \in Nat /\ (tab = "audit" => tabLoads' # 0)
           /\ (tab # "audit" => tabLoads' = tabLoads)
    BY <1>1, <1>8 DEF tabchange
  <2>3. Shapes'
    BY <1>8, <2>1, <2>2 DEF ViewInv, Shapes, FiltersShape, RequestShape
  <2>4. TokenInv'
    BY <1>8, <2>1, <2>2 DEF ViewInv, TokenInv
  <2>5. ReplyInv'
    BY <2>1 DEF ViewInv, ReplyInv, Answers, Hits
  <2>6. ShownIsCurrent'
    BY <1>8, <2>1, <2>2 DEF ViewInv, ShownIsCurrent, Wanted, Hits
  <2> QED BY <2>3, <2>4, <2>5, <2>6 DEF ViewInv
<1>9. ASSUME NEW tab, switch_tab(tab) PROVE ViewInv'
  <2>1. tab = "audit" => FiltersShape(filters')
    BY <1>9 DEF switch_tab, Links, FiltersShape
  <2>2. tab # "audit" => UNCHANGED filters
    BY <1>9 DEF switch_tab
  <2> QED BY <1>1, <1>8, <1>9, <2>1, <2>2 DEF switch_tab, FiltersShape
<1>10. ASSUME NEW k, view_call(k) PROVE ViewInv'
  <2>1. FiltersShape(filters')
    BY <1>10 DEF view_call, FiltersShape
  <2> QED BY <1>8, <1>10, <2>1 DEF view_call
<1>11. CASE visibilitychange
  <2>1. UNCHANGED <<scheduler_audit, filters, events, nextCursor, loading, error, tabLoads,
                    inflight, shown>>
    BY <1>11 DEF visibilitychange
  <2> QED BY <2>1 DEF ViewInv, Shapes, FiltersShape, RequestShape, TokenInv,
                      ReplyInv, Answers, Hits, ShownIsCurrent, Wanted
<1>12. CASE reload
  <2>1. /\ inflight' = {} /\ shown' = NULL /\ loading' = FALSE /\ error' = FALSE
        /\ tabLoads' \in Nat /\ filters' \in Links
    BY <1>12 DEF reload
  <2>2. FiltersShape(filters')
    BY <2>1 DEF Links, FiltersShape
  <2> QED BY <2>1, <2>2 DEF ViewInv, Shapes, FiltersShape, TokenInv, ReplyInv,
                            ShownIsCurrent
<1> QED BY <1>3, <1>4, <1>5, <1>6, <1>7, <1>9, <1>10, <1>11, <1>12 DEF OperatorNext

\* The inductive invariant of the tab.
LEMMA ViewInvariant == AuditSpec => []ViewInv
<1>1. AuditInit => ViewInv
  <2> SUFFICES ASSUME AuditInit PROVE ViewInv
    OBVIOUS
  <2>1. FiltersShape(filters)
    BY DEF AuditInit, Links, FiltersShape
  <2>2. Shapes
    BY <2>1 DEF AuditInit, Shapes
  <2>3. TokenInv /\ ReplyInv
    BY DEF AuditInit, TokenInv, ReplyInv
  <2>4. ShownIsCurrent
    BY DEF AuditInit, ShownIsCurrent
  <2> QED BY <2>2, <2>3, <2>4 DEF ViewInv
<1>2. ASSUME LogInv, ViewInv, [AuditNext]_vars PROVE ViewInv'
  <2>1. CASE LogNext /\ UNCHANGED viewVars
    BY <1>2, <2>1, LogStep
  <2>2. ASSUME NEW q \in inflight, list_audit(q) PROVE ViewInv'
    BY <1>2, <2>2, ServerStep
  <2>3. CASE OperatorNext
    BY <1>2, <2>3, OperatorStep
  <2>4. CASE tab_loaded
    BY <1>2, <2>4, FetchStep
       DEF tab_loaded, ViewInv, Shapes, logVars, pageVars
  <2>5. CASE poll
    BY <1>2, <2>5, FetchStep
       DEF poll, ViewInv, Shapes, logVars, pageVars, tabVars
  <2>6. ASSUME NEW q \in inflight,
               response(q) \/ request_failed(q) \/ late_response(q)
        PROVE  ViewInv'
    BY <1>2, <2>6, AnswerStep
  <2>7. CASE UNCHANGED vars
    BY <1>2, <2>7 DEF vars, logVars, viewVars, ViewInv, Shapes, FiltersShape,
                      RequestShape, TokenInv, ReplyInv, Answers, Hits, ShownIsCurrent,
                      Wanted
  <2> QED BY <1>2, <2>1, <2>2, <2>3, <2>4, <2>5, <2>6, <2>7 DEF AuditNext, BrowserNext
<1> QED BY <1>1, <1>2, TypesAlways, PTL DEF AuditSpec

\* At rest the page on the screen answers the filters and the cursor of the
\* tab, and Older goes on from a row of it, for any number of requests
\* overtaking each other.  fetchEvents and its token.
THEOREM ShownAlwaysCurrent == AuditSpec => []ShownIsCurrent
<1>1. ViewInv => ShownIsCurrent
  BY DEF ViewInv
<1> QED BY <1>1, ViewInvariant, PTL

=============================================================================

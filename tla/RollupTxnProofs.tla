-------------------------- MODULE RollupTxnProofs ---------------------------
(***************************************************************************)
(* The statements of concurrent transactions implement the atomic step of  *)
(* CampaignEnd, for any number of calls and of connections.                *)
(*                                                                         *)
(* The argument: a transaction that has executed its UPDATE owns its call, *)
(* which therefore stays as it is; one that has executed the SELECT ...    *)
(* FOR NO KEY UPDATE owns the campaign, so that no other call of it ends   *)
(* until the commit; hence what the COUNT found is still true when the     *)
(* transaction commits.                                                    *)
(***************************************************************************)
EXTENDS RollupTxn, TLAPS

\* The transactions are well formed: each is somewhere in its statements.
TxnShape ==
    /\ txn \in [Worker -> Txn]
    /\ \A w \in Worker : Open(w) =>
          /\ txn[w].call \in Call
          /\ txn[w].to \in {"waiting", "in_flight", "ended"}
          /\ txn[w].to # "ended" => txn[w].at <= 2

\* The tables are well formed, and the status of the campaign agrees with its
\* calls.
TablesAgree ==
    /\ status \in [Call -> {"absent", "fresh", "waiting", "in_flight", "ended"}]
    /\ campaign \in {"ABSENT", "PENDING", "ACTIVE", "FOLDED"}
    /\ \A c \in Call : status[c] = "absent" <=> campaign = "ABSENT"
    /\ \A c \in Call : campaign = "PENDING" => status[c] = "fresh"
    /\ \A c \in Call : campaign = "FOLDED" => status[c] = "ended"

\* Where a transaction is past its UPDATE, and past the lock of the rollup.
Updated(w) == txn[w].at >= 2
Locked(w) == txn[w].to = "ended" /\ txn[w].at >= 3

\* A call and the campaign have one owner each, and an owned call has not
\* moved since the UPDATE.
LocksExclusive ==
    /\ \A v, w \in Worker :
          Updated(v) /\ Updated(w) /\ txn[v].call = txn[w].call => v = w
    /\ \A v, w \in Worker : Locked(v) /\ Locked(w) => v = w
    /\ \A w \in Worker : Updated(w) => status[txn[w].call] \in {"waiting", "in_flight"}

OthersEnded(c) == \A d \in Call \ {c} : status[d] = "ended"

\* What the COUNT found holds until the commit.
CountStands ==
    \A w \in Worker :
        txn[w].fold <=> txn[w].at = 4 /\ OthersEnded(txn[w].call)

TxnInv == TxnShape /\ TablesAgree /\ LocksExclusive /\ CountStands

-----------------------------------------------------------------------------
(* Where the statements are                                                *)

\* The statements of a transaction that ends its call, and of one that
\* returns it, by their numbers.
LEMMA StatementsNumbered ==
    ASSUME TxnShape, NEW w \in Worker
    PROVE  /\ At(w, "update") <=> txn[w].at = 1
           /\ At(w, "lock") <=> txn[w].at = 2 /\ txn[w].to = "ended"
           /\ At(w, "count") <=> txn[w].at = 3
           /\ At(w, "commit") <=> \/ txn[w].at = 4
                                  \/ txn[w].at = 2 /\ txn[w].to # "ended"
           /\ Executed(w, "update") <=> Updated(w)
           /\ HoldsCampaign(w) <=> Locked(w)
<1> USE DEF TxnShape, Txn, Open
<1>0. txn[w] \in Txn
  OBVIOUS
<1>1. CASE txn[w].at = 0
  BY <1>0, <1>1 DEF At, Executed, HoldsCampaign, Updated, Locked
<1>2. CASE txn[w].at # 0 /\ txn[w].to = "ended"
  <2>1. Statements(txn[w].to) = <<"update", "lock", "count", "commit">>
    BY <1>2 DEF Statements
  <2> QED
    BY <1>0, <1>2, <2>1 DEF At, Executed, HoldsCampaign, Updated, Locked
<1>3. CASE txn[w].at # 0 /\ txn[w].to # "ended"
  <2>1. Statements(txn[w].to) = <<"update", "commit">>
    BY <1>3 DEF Statements
  <2>2. txn[w].at \in {1, 2}
    BY <1>0, <1>3
  <2> QED
    BY <1>0, <1>3, <2>1, <2>2 DEF At, Executed, HoldsCampaign, Updated, Locked
<1> QED
  BY <1>0, <1>1, <1>2, <1>3

-----------------------------------------------------------------------------
(* The steps                                                               *)

\* The wait for a lock is over when nobody else holds it.
LEMMA LockFree ==
    ASSUME TxnInv, NEW w \in Worker, WaitsFor(w) = {}
    PROVE  /\ txn[w].at = 1 => \A v \in Worker \ {w} :
                                  ~(Updated(v) /\ txn[v].call = txn[w].call)
           /\ At(w, "lock") => \A v \in Worker \ {w} : ~Locked(v)
<1>1. \A v \in Worker : /\ Executed(v, "update") <=> Updated(v)
                        /\ HoldsCampaign(v) <=> Locked(v)
  BY StatementsNumbered DEF TxnInv
<1>2. At(w, "update") <=> txn[w].at = 1
  BY StatementsNumbered DEF TxnInv
<1> QED
  BY <1>1, <1>2 DEF WaitsFor, HoldsCall

LEMMA InitTxn == TxnInit => TxnInv
  BY DEF TxnInit, TxnInv, TxnShape, TablesAgree, LocksExclusive, CountStands,
         Txn, NoTxn, Open, Updated, Locked, OthersEnded

\* A transaction that ends without a commit leaves everything to the others.
LEMMA Abandons ==
    ASSUME TxnInv, NEW w \in Worker,
           txn' = [txn EXCEPT ![w] = NoTxn], UNCHANGED tableVars
    PROVE  TxnInv'
<1> USE DEF TxnInv, TxnShape, Txn, NoTxn, Open, Updated, Locked, tableVars
<1>1. TxnShape'
  OBVIOUS
<1>2. TablesAgree'
  BY DEF TablesAgree
<1>3. LocksExclusive'
  BY DEF LocksExclusive
<1>4. CountStands'
  BY DEF CountStands, OthersEnded
<1> QED
  BY <1>1, <1>2, <1>3, <1>4

\* The steps of POST /campaigns and of the claim.
LEMMA TableSteps ==
    ASSUME TxnInv, insert_campaign \/ \E c \in Call : claim_call(c)
    PROVE  TxnInv'
<1>1. CASE insert_campaign
  <2> USE <1>1 DEF insert_campaign
  <2>1. TxnShape'
    BY DEF TxnInv, TxnShape, Open
  <2>2. TablesAgree'
    BY DEF TxnInv, TablesAgree
  <2>3. \A w \in Worker : ~Updated(w)
    BY DEF TxnInv, TxnShape, TablesAgree, LocksExclusive, Open, Updated, Txn
  <2>4. LocksExclusive'
    BY <2>3 DEF TxnInv, TxnShape, LocksExclusive, Updated, Locked, Txn
  <2>5. CountStands'
    BY <2>3 DEF TxnInv, TxnShape, CountStands, Updated, Txn
  <2> QED
    BY <2>1, <2>2, <2>4, <2>5 DEF TxnInv
<1>2. ASSUME NEW c \in Call, claim_call(c)
      PROVE  TxnInv'
  <2> USE <1>2 DEF claim_call
  <2>1. TxnShape'
    BY DEF TxnInv, TxnShape, Open
  <2>2. TablesAgree'
    BY DEF TxnInv, TablesAgree
  <2>3. LocksExclusive'
    BY DEF TxnInv, TxnShape, TablesAgree, LocksExclusive, Open, Updated, Locked, Txn
  <2>4. \A d \in Call : status'[d] = "ended" <=> status[d] = "ended"
    BY DEF TxnInv, TablesAgree
  <2>5. CountStands'
    BY <2>4 DEF TxnInv, CountStands, OthersEnded
  <2> QED
    BY <2>1, <2>2, <2>3, <2>5 DEF TxnInv
<1> QED
  BY <1>1, <1>2

\* The steps of a transaction before its commit.
LEMMA StatementSteps ==
    ASSUME TxnInv, NEW w \in Worker,
           \/ \E c \in Call, to \in {"waiting", "in_flight", "ended"} : begin(w, c, to)
           \/ update_call(w)
           \/ lock_campaign(w)
           \/ count_active(w)
    PROVE  TxnInv'
<1> USE DEF tableVars
<1>0. /\ UNCHANGED <<status, campaign>>
      /\ TablesAgree'
  BY DEF begin, update_call, lock_campaign, count_active, TxnInv, TablesAgree
<1>1. ASSUME NEW c \in Call, NEW to \in {"waiting", "in_flight", "ended"},
             begin(w, c, to)
      PROVE  TxnInv'
  <2> USE <1>1 DEF begin, Begun, TxnInv, TxnShape, Txn, Open, Updated, Locked
  <2>1. TxnShape'
    OBVIOUS
  <2>2. LocksExclusive'
    BY <1>0 DEF LocksExclusive
  <2>3. CountStands'
    BY <1>0 DEF CountStands, OthersEnded
  <2> QED
    BY <1>0, <2>1, <2>2, <2>3
<1>2. CASE update_call(w)
  <2> USE <1>2 DEF update_call, GoesOn, TxnInv, TxnShape, Txn, Open, Updated, Locked
  <2>1. txn[w].at = 1
    BY StatementsNumbered
  <2>2. \A v \in Worker \ {w} : ~(Updated(v) /\ txn[v].call = txn[w].call)
    BY <2>1, LockFree
  <2>3. TxnShape'
    BY <2>1
  <2>4. LocksExclusive'
    BY <1>0, <2>1, <2>2 DEF LocksExclusive
  <2>5. CountStands'
    BY <1>0, <2>1 DEF CountStands, OthersEnded
  <2> QED
    BY <1>0, <2>3, <2>4, <2>5
<1>3. CASE lock_campaign(w)
  <2> USE <1>3 DEF lock_campaign, GoesOn, TxnInv, TxnShape, Txn, Open, Updated, Locked
  <2>1. txn[w].at = 2 /\ txn[w].to = "ended"
    BY StatementsNumbered
  <2>2. \A v \in Worker \ {w} : ~Locked(v)
    BY LockFree
  <2>3. TxnShape'
    BY <2>1
  <2>4. LocksExclusive'
    BY <1>0, <2>1, <2>2 DEF LocksExclusive
  <2>5. CountStands'
    BY <1>0, <2>1 DEF CountStands, OthersEnded
  <2> QED
    BY <1>0, <2>3, <2>4, <2>5
<1>4. CASE count_active(w)
  <2> USE <1>4 DEF count_active, TxnInv, TxnShape, Txn, Open, Updated, Locked
  <2>1. txn[w].at = 3 /\ txn[w].to = "ended"
    BY StatementsNumbered
  <2>2. TxnShape'
    <3>1. PICK found \in BOOLEAN :
             txn' = [txn EXCEPT ![w].at = @ + 1, ![w].fold = found]
      OBVIOUS
    <3> HIDE <1>4
    <3> QED
      BY <2>1, <3>1
  <2>3. LocksExclusive'
    BY <1>0, <2>1 DEF LocksExclusive
  <2>4. CountStands'
    BY <1>0, <2>1 DEF CountStands, OthersEnded
  <2> QED
    BY <1>0, <2>2, <2>3, <2>4
<1> QED
  BY <1>1, <1>2, <1>3, <1>4

\* The commit: what the UPDATE of the call and the fold of the campaign make
\* visible, for the transaction that ends its call and for the one that
\* returns it.
LEMMA CommitEffect ==
    ASSUME TxnInv, NEW w \in Worker, commit(w)
    PROVE  /\ txn[w].call \in Call
           /\ status[txn[w].call] \in {"waiting", "in_flight"}
           /\ campaign = "ACTIVE"
           /\ status' = [status EXCEPT ![txn[w].call] = txn[w].to]
           /\ \/ /\ txn[w].to \in {"waiting", "in_flight"}
                 /\ campaign' = campaign
              \/ /\ txn[w].to = "ended"
                 /\ Locked(w)
                 /\ campaign' = IF OthersEnded(txn[w].call) THEN "FOLDED" ELSE campaign
<1> USE DEF TxnInv
<1>1. \/ txn[w].at = 4
      \/ txn[w].at = 2 /\ txn[w].to # "ended"
  BY StatementsNumbered DEF commit
<1>2. Updated(w) /\ Open(w)
  BY <1>1 DEF Updated, Open
<1>3. /\ txn[w].call \in Call
      /\ txn[w].to \in {"waiting", "in_flight", "ended"}
      /\ status[txn[w].call] \in {"waiting", "in_flight"}
  BY <1>2 DEF TxnShape, LocksExclusive
<1>4. campaign = "ACTIVE"
  BY <1>3 DEF TablesAgree
<1>5. CASE txn[w].at = 2 /\ txn[w].to # "ended"
  BY <1>3, <1>4, <1>5 DEF commit, CountStands
<1>6. CASE txn[w].at = 4
  <2>1. txn[w].to = "ended" /\ Locked(w)
    BY <1>2, <1>6 DEF TxnShape, Txn, Open, Locked
  <2> QED
    BY <1>3, <1>4, <1>6, <2>1 DEF commit, CountStands
<1> QED
  BY <1>1, <1>5, <1>6

LEMMA CommitStep ==
    ASSUME TxnInv, NEW w \in Worker, commit(w)
    PROVE  TxnInv'
<1>0. txn' = [txn EXCEPT ![w] = NoTxn]
  BY DEF commit
<1>1. TxnShape'
  BY <1>0 DEF TxnInv, TxnShape, Txn, NoTxn, Open
<1>2. TablesAgree'
  BY CommitEffect DEF TxnInv, TablesAgree, OthersEnded
<1>3. Updated(w)
  BY StatementsNumbered DEF commit, TxnInv, Updated
<1>4. \A v \in Worker \ {w} : Updated(v) => txn[v].call # txn[w].call
  BY <1>3 DEF TxnInv, LocksExclusive
<1>5. LocksExclusive'
  <2>1. \A v \in Worker \ {w} : Updated(v) => status'[txn[v].call] \in {"waiting", "in_flight"}
    BY <1>4, CommitEffect DEF TxnInv, TxnShape, TablesAgree, LocksExclusive,
                              Txn, Open, Updated
  <2> QED
    BY <1>0, <2>1 DEF TxnInv, TxnShape, LocksExclusive, Txn, NoTxn, Updated, Locked
<1>6. CountStands'
  <2> SUFFICES ASSUME NEW v \in Worker \ {w}, txn[v].at = 4
               PROVE  OthersEnded(txn[v].call)' <=> OthersEnded(txn[v].call)
    BY <1>0 DEF TxnInv, TxnShape, CountStands, Txn, NoTxn
  <2>1. Locked(v) /\ Updated(v)
    BY DEF TxnInv, TxnShape, Txn, Open, Locked, Updated
  <2>2. ~Locked(w)
    BY <2>1 DEF TxnInv, LocksExclusive
  <2>3. txn[w].to \in {"waiting", "in_flight"}
    BY <2>2, CommitEffect
  <2>4. txn'[v] = txn[v]
    BY <1>0 DEF TxnInv, TxnShape
  <2>5. \A d \in Call : status'[d] = "ended" <=> status[d] = "ended"
    BY <2>3, CommitEffect DEF TxnInv, TablesAgree
  <2> QED
    BY <2>4, <2>5 DEF OthersEnded
<1> QED
  BY <1>1, <1>2, <1>5, <1>6 DEF TxnInv

LEMMA TxnStep == TxnInv /\ [TxnNext]_<<tableVars, txn>> => TxnInv'
<1> SUFFICES ASSUME TxnInv, [TxnNext]_<<tableVars, txn>>
             PROVE  TxnInv'
  OBVIOUS
<1>1. CASE insert_campaign \/ \E c \in Call : claim_call(c)
  BY <1>1, TableSteps
<1>2. ASSUME NEW w \in Worker, WorkerNext(w)
      PROVE  TxnInv'
  <2>1. CASE update_refused(w) \/ rollback(w)
    BY <2>1, Abandons DEF update_refused, rollback
  <2>2. CASE commit(w)
    BY <2>2, CommitStep
  <2> QED
    BY <1>2, <2>1, <2>2, StatementSteps DEF WorkerNext
<1>3. CASE UNCHANGED <<tableVars, txn>>
  BY <1>3 DEF TxnInv, TxnShape, TablesAgree, LocksExclusive, CountStands,
              OthersEnded, Open, Updated, Locked, tableVars
<1> QED
  BY <1>1, <1>2, <1>3 DEF TxnNext

-----------------------------------------------------------------------------
(* The theorems                                                            *)

\* Two transactions that end calls of one campaign never hold its row
\* together, a call that one of them has updated does not move, and what the
\* COUNT of the rollup found stands until the commit.
THEOREM RollupSerialized == TxnSpec => []TxnInv
  BY InitTxn, TxnStep, PTL DEF TxnSpec

\* Under READ COMMITTED and with the lock on the campaign, the statements of
\* state.transition and of its rollup implement the atomic steps of
\* CampaignEnd: the commit that ends the last call of the campaign, and no
\* other, folds it.
THEOREM RollupIsAtomic == TxnSpec => AtomicRollup
<1>1. TxnInit => Atomic!Init
  BY DEF TxnInit, Atomic!Init
<1>2. ASSUME TxnInv, [TxnNext]_<<tableVars, txn>>
      PROVE  [Atomic!Next]_<<status, campaign>>
  <2>1. CASE insert_campaign
    BY <2>1 DEF insert_campaign, Atomic!Next, Atomic!Create
  <2>2. ASSUME NEW c \in Call, claim_call(c)
        PROVE  Atomic!Next
    BY <2>2 DEF claim_call, Atomic!Next, Atomic!Dispatch
  <2>3. ASSUME NEW w \in Worker, commit(w)
        PROVE  Atomic!Next
    <3>1. CASE txn[w].to # "ended"
      <4>1. Atomic!Move(txn[w].call)
        BY <1>2, <2>3, <3>1, CommitEffect DEF Atomic!Move
      <4> QED
        BY <1>2, <2>3, <4>1, CommitEffect DEF Atomic!Next
    <3>2. CASE txn[w].to = "ended"
      <4>1. Atomic!End(txn[w].call)
        BY <1>2, <2>3, <3>2, CommitEffect DEF Atomic!End, OthersEnded
      <4> QED
        BY <1>2, <2>3, <4>1, CommitEffect DEF Atomic!Next
    <3> QED
      BY <1>2, <2>3, <3>1, <3>2, CommitEffect
  <2>4. CASE UNCHANGED tableVars
    BY <2>4 DEF tableVars
  <2> QED
    BY <1>2, <2>1, <2>2, <2>3, <2>4
       DEF TxnNext, WorkerNext, begin, update_call, update_refused, lock_campaign,
           count_active, rollback
<1> QED
  BY <1>1, <1>2, RollupSerialized, PTL DEF TxnSpec, AtomicRollup, Atomic!Spec

=============================================================================

---------------------------- MODULE CampaignEnd -----------------------------
(***************************************************************************)
(* What the rest of the code relies on when a call ends: the call's final  *)
(* status and the fold of its campaign are one step, taken by the last     *)
(* call of the campaign and by no other.  It is implemented twice: by the  *)
(* statements of state.transition with its rollup (RollupTxn), and, with   *)
(* that transaction as one step, by the whole dialer (Dialer, Ends).       *)
(*                                                                         *)
(* One campaign.  A call is fresh (QUEUED and never dialed), waiting       *)
(* (RETRY_PENDING, or QUEUED again), in flight (DIALING or IN_PROGRESS) or *)
(* ended (a terminal status).                                              *)
(***************************************************************************)
CONSTANT Call

VARIABLES status, campaign

Init ==
    /\ status = [c \in Call |-> "absent"]
    /\ campaign = "ABSENT"

Create ==
    /\ campaign = "ABSENT"
    /\ campaign' = "PENDING"
    /\ status' = [c \in Call |-> "fresh"]

\* The first call that is claimed activates the campaign.
Dispatch(c) ==
    /\ status[c] \in {"fresh", "waiting"}
    /\ status' = [status EXCEPT ![c] = "in_flight"]
    /\ campaign' = IF campaign = "PENDING" THEN "ACTIVE" ELSE campaign

\* Progress, a retry, a late event of the attempt, or the sweep that takes the
\* call back.
Move(c) ==
    /\ status[c] \in {"waiting", "in_flight"}
    /\ \E to \in {"waiting", "in_flight"} : status' = [status EXCEPT ![c] = to]
    /\ UNCHANGED campaign

\* The last call to end folds the campaign in the same step.
End(c) ==
    /\ status[c] \in {"waiting", "in_flight"}
    /\ status' = [status EXCEPT ![c] = "ended"]
    /\ campaign' = IF \A d \in Call \ {c} : status[d] = "ended" THEN "FOLDED" ELSE campaign

Next == Create \/ \E c \in Call : Dispatch(c) \/ Move(c) \/ End(c)

Spec == Init /\ [][Next]_<<status, campaign>>

=============================================================================

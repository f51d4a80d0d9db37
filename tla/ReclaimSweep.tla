---------------------------- MODULE ReclaimSweep ----------------------------
(***************************************************************************)
(* The stuck-reclaim sweep (app/scheduler/reclaim.py): it finds the DIALING*)
(* rows older than the grace window, asks the provider what became of each *)
(* one that has a handle, and either applies the final status it is told   *)
(* or takes the row back for another dial.  The rows of one sweep are      *)
(* worked on concurrently, and a sweep starts only when the previous one   *)
(* has finished with all of its rows.                                      *)
(***************************************************************************)
EXTENDS Provider

CONSTANT MaxReclaims   \* bound: how often each call is taken back

ASSUME ReclaimAssumption == MaxReclaims \in [Call -> Nat]

VARIABLE rc   \* the per-row task of the sweep in progress

\* A task remembers the row as the sweep found it and the confirmed final
\* status, if any.
RcLocal == [pc      : {"idle", "confirm", "apply"},
            epoch   : Epoch,
            handle  : Handle \cup {NULL},
            verdict : TERMINAL_CALL_STATUSES \cup {NULL}]

RcIdle == [pc |-> "idle", epoch |-> 0, handle |-> NULL, verdict |-> NULL]

ReclaimTypeOK ==
    /\ rc \in [Call -> RcLocal]
    /\ \A c \in Call : rc[c].pc = "confirm" => rc[c].handle \in Handle

ReclaimInit == rc = [c \in Call |-> RcIdle]

\* Mutation: only rows with a handle are looked for.
StuckDialing_WithHandle ==
    {c \in Call : /\ calls[c].status = "DIALING" /\ calls[c].aged
                  /\ calls[c].provider_call_id # NULL}

\* find_stuck_dialing.
StuckDialing == {c \in Call : calls[c].status = "DIALING" /\ calls[c].aged}

\* A sweep begins: one task for every stuck row.  A row without a handle
\* skips the confirmation.
stuck_reclaim_sweep ==
    /\ \A c \in Call : rc[c].pc = "idle"
    /\ StuckDialing # {}
    /\ rc' = [c \in Call |->
                IF c \in StuckDialing
                THEN [pc      |-> IF calls[c].provider_call_id = NULL
                                  THEN "apply" ELSE "confirm",
                      epoch   |-> calls[c].attempt_epoch,
                      handle  |-> calls[c].provider_call_id,
                      verdict |-> NULL]
                ELSE RcIdle]
    /\ UNCHANGED <<storeVars, trace>>

\* get_status answers, fails or times out.
best_effort_get_status(c) ==
    /\ rc[c].pc = "confirm"
    /\ \E verdict \in get_status(rc[c].handle) :
          rc' = [rc EXCEPT ![c].pc = "apply", ![c].verdict = verdict]
    /\ UNCHANGED <<storeVars, trace>>

\* The provider confirmed a final status: it is written as it is.
apply_terminal(c) ==
    /\ rc[c].pc = "apply"
    /\ rc[c].verdict # NULL
    /\ transition(c, "DIALING", rc[c].epoch,
                  [calls[c] EXCEPT !.status = rc[c].verdict])
    /\ rc' = [rc EXCEPT ![c] = RcIdle]
    /\ UNCHANGED <<last_dispatch_at, claims, trace>>

\* Nothing final is known: the row goes back to QUEUED under a new epoch,
\* without its handle.
apply_reclaim(c) ==
    /\ rc[c].pc = "apply"
    /\ rc[c].verdict = NULL
    /\ rc[c].epoch < MaxEpoch
    /\ Reclaims(c) < MaxReclaims[c]
    /\ transition(c, "DIALING", rc[c].epoch,
                  [calls[c] EXCEPT !.status           = "QUEUED",
                                   !.attempt_epoch    = rc[c].epoch + 1,
                                   !.provider_call_id = NULL])
    /\ rc' = [rc EXCEPT ![c] = RcIdle]
    /\ UNCHANGED <<last_dispatch_at, claims, trace>>

\* The task raises, and is turned into a FAILED outcome; or the process dies.
reclaim_fails(c) ==
    /\ rc[c].pc # "idle"
    /\ rc' = [rc EXCEPT ![c] = RcIdle]
    /\ UNCHANGED <<storeVars, trace>>

=============================================================================

--------------------------- MODULE CampaignIntake ---------------------------
(***************************************************************************)
(* POST /campaigns: what the schema accepts (app/api/schemas/campaigns.py) *)
(* and what the route stores (app/api/routers/campaigns.py), as far as the *)
(* ticks that come later depend on it.                                     *)
(***************************************************************************)
EXTENDS BusinessHours, Sequences

CONSTANTS
    Body,       \* the requests
    Canonical,  \* _DEPRECATED_TZ_ALIASES: the new names of the old zones
    E164,       \* what phonenumbers makes of an input (INVALID: nothing)
    INVALID,
    NULL

ASSUME IntakeAssumption == \A body \in Body :
    /\ \A day \in DOMAIN body.schedule :
          day \in Day /\ body.schedule[day] \subseteq Window
    /\ body.phones \in Seq(DOMAIN E164)

VARIABLES
    campaign,   \* the stored campaign: timezone and schedule
    asked,      \* history: the request it was made from
    now         \* the clock

intakeVars == <<campaign, asked, now>>

IntakeInit ==
    /\ campaign = NULL
    /\ asked = NULL
    /\ now = 0

-----------------------------------------------------------------------------
(* The schema                                                              *)

canonical(timezone) ==
    IF timezone \in DOMAIN Canonical THEN Canonical[timezone] ELSE timezone

\* _tz_valid, on the canonical name.
tz_valid(body) == canonical(body.timezone) \in Zone

\* Mutation: a window that wraps midnight is taken.
start_before_end_Missing(body) == TRUE

\* _start_before_end, for every window of every day.
start_before_end(body) ==
    \A day \in DOMAIN body.schedule : \A w \in body.schedule[day] : w.start < w.end

\* _normalize_phones raises none of its errors: every entry is a number, and no
\* two are the same number, however they are written.
phones_valid(body) ==
    /\ body.phones # <<>>
    /\ \A i \in DOMAIN body.phones :
          /\ E164[body.phones[i]] # INVALID
          /\ \A j \in 1 .. i - 1 : E164[body.phones[i]] # E164[body.phones[j]]

CampaignCreate(body) == tz_valid(body) /\ start_before_end(body) /\ phones_valid(body)

-----------------------------------------------------------------------------
(* The route                                                               *)

\* One transaction inserts the campaign and its calls (the calls and the phone
\* index are CallStore's).
create_campaign(body) ==
    /\ campaign = NULL
    /\ CampaignCreate(body)
    /\ campaign' = [timezone |-> canonical(body.timezone), schedule |-> body.schedule]
    /\ asked' = body
    /\ UNCHANGED now

\* A number of the request is queued or in flight for another campaign: the
\* insert of the calls breaks the phone index, the transaction rolls the
\* campaign back with it, and the request fails.
create_conflict(body) ==
    /\ campaign = NULL
    /\ CampaignCreate(body)
    /\ UNCHANGED intakeVars

\* 422.
rejected(body) ==
    /\ campaign = NULL
    /\ ~CampaignCreate(body)
    /\ UNCHANGED intakeVars

clock_ticks ==
    /\ now' = (now + 1) % (7 * DayLength)
    /\ UNCHANGED <<campaign, asked>>

IntakeNext ==
    \/ \E body \in Body : create_campaign(body) \/ create_conflict(body) \/ rejected(body)
    \/ clock_ticks

IntakeSpec == IntakeInit /\ [][IntakeNext]_intakeVars

-----------------------------------------------------------------------------
(* Properties                                                              *)

\* The moments of the local week that the operator has asked for.
AskedFor(schedule) ==
    {i \in Instant : \E day \in DOMAIN schedule : \E w \in schedule[day] :
        day * DayLength + w.start <= i /\ i < day * DayLength + w.end}

\* A campaign that was accepted is open at the moments of the operator's local
\* week that its request lists and at no other: the day of the schedule is the
\* local one on both sides of midnight in UTC, an old name of a zone is still
\* its zone, and no accepted window silences the others of its day.  (The
\* schema also accepts times with an offset; with those there is no decision.)
HoursExact ==
    campaign # NULL /\ Comparable(campaign.schedule) =>
        (is_in_window(campaign.schedule, campaign.timezone, now) <=>
            Local(canonical(asked.timezone), now) \in AskedFor(asked.schedule))

=============================================================================

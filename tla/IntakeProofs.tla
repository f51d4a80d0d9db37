---------------------------- MODULE IntakeProofs -----------------------------
(***************************************************************************)
(* The business-hour gate decides what the request asked for, for every    *)
(* set of zones and offsets, every resolution of the clock and every       *)
(* request.                                                                *)
(***************************************************************************)
EXTENDS CampaignIntake, TLAPS

\* The stored campaign is the accepted request under its canonical zone.
Stored ==
    /\ now \in Instant
    /\ campaign # NULL =>
          /\ asked \in Body
          /\ CampaignCreate(asked)
          /\ campaign = [timezone |-> canonical(asked.timezone),
                         schedule |-> asked.schedule]

-----------------------------------------------------------------------------
(* The arithmetic of the week                                              *)

\* A moment of the week lies in one day only.
LEMMA DayOfMoment ==
    ASSUME NEW L \in Nat \ {0}, NEW q \in Int, NEW d \in Int,
           NEW r \in 0 .. L - 1, NEW m \in 0 .. L - 1, q * L + r = d * L + m
    PROVE  q = d /\ r = m
<1>1. CASE q >= d + 1
  <2>1. (q - d) * L >= L
    BY <1>1
  <2> QED
    BY <2>1
<1>2. CASE d >= q + 1
  <2>1. (d - q) * L >= L
    BY <1>2
  <2> QED
    BY <2>1
<1>3. CASE q = d
  BY <1>3
<1> QED
  BY <1>1, <1>2, <1>3

\* The day and the time of day of a moment of the week.
LEMMA DayAndTime ==
    ASSUME NEW L \in Nat \ {0}, NEW x \in Int
    PROVE  /\ x \div L \in Int
           /\ x % L \in 0 .. L - 1
           /\ x = (x \div L) * L + (x % L)
  OBVIOUS

\* The test of is_in_window by day and time of day, and the test by the moment
\* of the week.
LEMMA WindowOfWeek ==
    ASSUME NEW L \in Nat \ {0}, NEW x \in Int, NEW d \in Int,
           NEW start \in 0 .. L - 1, NEW end \in 0 .. L - 1
    PROVE  d * L + start <= x /\ x < d * L + end
             <=> x \div L = d /\ start <= x % L /\ x % L < end
<1> DEFINE q == x \div L
           r == x % L
<1>1. q \in Int /\ r \in 0 .. L - 1 /\ x = q * L + r
  BY DayAndTime
<1> HIDE DEF q, r
<1>2. ASSUME q = d, start <= r, r < end
      PROVE  d * L + start <= x /\ x < d * L + end
  BY <1>1, <1>2
<1>3. ASSUME d * L + start <= x, x < d * L + end
      PROVE  q = d /\ start <= r /\ r < end
  <2>1. PICK m \in 0 .. L - 1 : x = d * L + m /\ start <= m /\ m < end
    <3>1. d * L \in Int
      OBVIOUS
    <3>2. x - d * L \in 0 .. L - 1
      BY <1>3, <3>1
    <3> QED
      BY <1>3, <3>1, <3>2
  <2> QED
    BY <1>1, <2>1, DayOfMoment
<1> QED
  BY <1>2, <1>3 DEF q, r

-----------------------------------------------------------------------------
(* The steps                                                               *)

\* A campaign is stored as it was asked for.
LEMMA StoredAsAsked == IntakeSpec => []Stored
<1>1. IntakeInit => Stored
  BY HoursAssumption DEF IntakeInit, Stored, Instant
<1>2. Stored /\ [IntakeNext]_intakeVars => Stored'
  <2> SUFFICES ASSUME Stored, [IntakeNext]_intakeVars
               PROVE  Stored'
    OBVIOUS
  <2>1. ASSUME NEW body \in Body, create_campaign(body)
        PROVE  Stored'
    BY <2>1 DEF Stored, create_campaign, CampaignCreate, tz_valid, start_before_end,
                phones_valid, canonical
  <2>2. CASE clock_ticks
    <3>1. now' \in Instant
      BY <2>2, HoursAssumption, DayAndTime DEF clock_ticks, Stored, Instant
    <3> QED
      BY <2>2, <3>1 DEF clock_ticks, Stored, CampaignCreate, tz_valid,
                        start_before_end, phones_valid, canonical
  <2>3. CASE UNCHANGED intakeVars
    BY <2>3 DEF intakeVars, Stored, CampaignCreate, tz_valid, start_before_end,
                phones_valid, canonical
  <2> QED
    BY <2>1, <2>2, <2>3 DEF IntakeNext, rejected, create_conflict
<1> QED
  BY <1>1, <1>2, PTL DEF IntakeSpec

-----------------------------------------------------------------------------
(* The theorem                                                             *)

\* However coarse or fine the clock, wherever the zones lie and whenever they
\* change their offset, an accepted campaign is open at the local moments that
\* its request lists and at no other.
THEOREM HoursAsAsked == IntakeSpec => []HoursExact
<1>1. ASSUME Stored
      PROVE  HoursExact
  <2> SUFFICES ASSUME campaign # NULL
               PROVE  is_in_window(campaign.schedule, campaign.timezone, now) <=>
                        Local(canonical(asked.timezone), now) \in AskedFor(asked.schedule)
    BY DEF HoursExact
  <2> DEFINE zone == canonical(asked.timezone)
             schedule == asked.schedule
             x == Local(zone, now)
  <2>1. /\ campaign.timezone = zone /\ campaign.schedule = schedule
        /\ asked \in Body /\ now \in Instant
        /\ CampaignCreate(asked)
    BY <1>1 DEF Stored
  <2>2. zone \in Zone
    BY <2>1 DEF CampaignCreate, tz_valid
  <2>3. \A d \in DOMAIN schedule :
           /\ d \in Day /\ schedule[d] \subseteq Window
           /\ \A w \in schedule[d] : w.start < w.end
    BY <2>1, IntakeAssumption DEF CampaignCreate, start_before_end
  <2>4. x \in Instant
    <3>1. now + Offset[zone][now] \in Int
      BY <2>1, <2>2, HoursAssumption DEF Instant
    <3>2. 7 * DayLength \in Nat \ {0}
      BY HoursAssumption
    <3> QED
      BY <3>1, <3>2, DayAndTime DEF Local, Instant
  <2> HIDE DEF zone, schedule, x
  <2>5. is_in_window(schedule, zone, now) <=>
          \E d \in DOMAIN schedule : \E w \in schedule[d] :
             x \div DayLength = d /\ w.start <= x % DayLength /\ x % DayLength < w.end
    BY <2>2, <2>3 DEF is_in_window, DayWindows, parse_day_windows, x
  <2>6. ASSUME NEW d \in DOMAIN schedule, NEW w \in schedule[d]
        PROVE  (d * DayLength + w.start <= x /\ x < d * DayLength + w.end)
                 <=> (x \div DayLength = d /\ w.start <= x % DayLength
                                           /\ x % DayLength < w.end)
    <3>1. d \in Int /\ x \in Int
      BY <2>3, <2>4 DEF Day, Instant
    <3>2. w.start \in 0 .. DayLength - 1 /\ w.end \in 0 .. DayLength - 1
      BY <2>3 DEF Window, Moment
    <3> QED
      BY <3>1, <3>2, HoursAssumption, WindowOfWeek
  <2>7. x \in AskedFor(schedule) <=>
          \E d \in DOMAIN schedule : \E w \in schedule[d] :
             d * DayLength + w.start <= x /\ x < d * DayLength + w.end
    BY <2>4 DEF AskedFor
  <2>8. is_in_window(schedule, zone, now) <=> x \in AskedFor(schedule)
    BY <2>5, <2>6, <2>7
  <2> QED
    BY <2>1, <2>8 DEF x, zone, schedule
<1> QED
  BY <1>1, StoredAsAsked, PTL

=============================================================================

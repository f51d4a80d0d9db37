---------------------------- MODULE BusinessHours ----------------------------
(***************************************************************************)
(* The business-hour gate of the tick (app/scheduler/business_hours.py).   *)
(*                                                                         *)
(* Time is counted in moments: a day has DayLength of them, the first is   *)
(* midnight and the last stands for 23:59:59.999999, the latest time of    *)
(* day there is.  Instants are the moments of one week in UTC, which comes *)
(* round again.  ZoneInfo is the set of zones it knows and the offset it   *)
(* gives for an instant, which changes where clocks are put forward.       *)
(***************************************************************************)
EXTENDS Integers

CONSTANTS
    DayLength,   \* the moments of a day
    Zone,        \* the names ZoneInfo knows
    Offset       \* the moments each zone is ahead of UTC, for every instant

Moment == 0 .. DayLength - 1
Instant == 0 .. 7 * DayLength - 1
Day == 0 .. 6   \* mon .. sun

ASSUME HoursAssumption ==
    /\ DayLength \in Nat \ {0}
    /\ Offset \in [Zone -> [Instant -> -DayLength .. DayLength]]

\* A window of a schedule.  The times of a window may carry an offset of
\* their own (09:00Z); Python does not compare such a time with one that has
\* none.
Window == [start : Moment, end : Moment, aware : BOOLEAN]

Local(timezone, now) == (now + Offset[timezone][now]) % (7 * DayLength)

\* parse_window and parse_day_windows: one bad window spoils its day.
parse_day_windows(windows) == \A w \in windows : w.start < w.end

\* The windows of a day; a day that is not in the schedule has none.
DayWindows(schedule, day) == IF day \in DOMAIN schedule THEN schedule[day] ELSE {}

\* Mutation: the weekday is taken before the conversion to local time.
is_in_window_UtcDay(schedule, timezone, now) ==
    /\ timezone \in Zone
    /\ LET windows == DayWindows(schedule, now \div DayLength)
           t_now   == Local(timezone, now) % DayLength
       IN  /\ parse_day_windows(windows)
           /\ \E w \in windows : w.start <= t_now /\ t_now < w.end

\* Unknown zones and bad windows count as closed.
is_in_window(schedule, timezone, now) ==
    /\ timezone \in Zone
    /\ LET windows == DayWindows(schedule, Local(timezone, now) \div DayLength)
           t_now   == Local(timezone, now) % DayLength
       IN  /\ parse_day_windows(windows)
           /\ \E w \in windows : w.start <= t_now /\ t_now < w.end

\* The comparison with the time of day raises instead, and the tick with it,
\* when it meets a time with an offset.
Comparable(schedule) == \A day \in DOMAIN schedule : \A w \in schedule[day] : ~w.aware

=============================================================================

------------------------------ MODULE MCIntake ------------------------------
(***************************************************************************)
(* Requests for a zone east of UTC, for one that puts its clocks forward   *)
(* in the middle of the week, under old and unknown names; windows on      *)
(* Sunday and Monday, on either side of the end of the week; one number    *)
(* that can be written in two ways.                                        *)
(***************************************************************************)
EXTENDS CampaignIntake

\* The west is one moment behind UTC, and level with it from Thursday on.
Offsets == [zone \in Zone |->
    [i \in Instant |-> IF zone = "east" THEN 1
                       ELSE IF i < 3 * DayLength THEN -1 ELSE 0]]

Aliases == [old |-> "east"]

Written == [p1 |-> "p", p2 |-> "p", q |-> "q", x |-> INVALID]

\* Two windows that overlap, one that wraps midnight and one in UTC.
Windows == {[start |-> 0, end |-> 2, aware |-> FALSE],
            [start |-> 1, end |-> 3, aware |-> FALSE],
            [start |-> 3, end |-> 1, aware |-> FALSE],
            [start |-> 2, end |-> 3, aware |-> TRUE]}

Schedules == UNION {[days -> SUBSET Windows] : days \in {{0}, {0, 6}}}

Phones == {<<>>} \cup {<<i>> : i \in {"p1", "x"}}
                 \cup {<<"p1", i>> : i \in DOMAIN Written}

Requests == [timezone : {"east", "west", "old", "nowhere"},
             schedule : Schedules, phones : Phones]

=============================================================================

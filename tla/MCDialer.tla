------------------------------ MODULE MCDialer ------------------------------
(***************************************************************************)
(* Small instances of the dialer.  A configuration picks the calls,        *)
(* the campaigns, which calls they hold and how the numbers are shared.    *)
(***************************************************************************)
EXTENDS Dialer, TLC

CONSTANTS a, b   \* calls

\* All calls in campaign 1.
OneCampaign == [d \in Call |-> 1]

\* Call a in campaign 1, every other call in campaign 2.
TwoCampaigns == [d \in Call |-> IF d = a THEN 1 ELSE 2]

\* Every call has a phone of its own.
OwnPhone == [d \in Call |-> d]

\* Calls a and b share a phone.
SharedPhone == [d \in Call |-> IF d = b THEN a ELSE d]

\* Business hours: any campaign may be open or closed, or all are open.
AnyHours == SUBSET Campaign
AlwaysOpen == {Campaign}

\* The limits, the same for every campaign.
One == [k \in Campaign |-> 1]
Two == [k \in Campaign |-> 2]

\* Campaign 1 retries twice, the others never.
TwoThenNone == [k \in Campaign |-> IF k = 1 THEN 2 ELSE 0]

\* The sweep takes a call back as long as there are epochs; it takes call a
\* back once and no other; it takes none back.
AsEpochsLast == [d \in Call |-> MaxEpoch]
OnceA == [d \in Call |-> IF d = a THEN 1 ELSE 0]
Never == [d \in Call |-> 0]

\* Calls of one campaign with a phone each, and processors, are
\* interchangeable.
Interchangeable == Permutations(Call) \cup Permutations(Processor)

\* Scheduler replicas are interchangeable.
Replicas == Permutations(Scheduler)

=============================================================================

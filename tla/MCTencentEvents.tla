--------------------------- MODULE MCTencentEvents ---------------------------
EXTENDS TencentEvents, TLC

CONSTANTS ann, bob, lowerBob

\* Bob's uuid has capitals, Ann's has none.
MCLower == [u \in Users |-> IF u = bob THEN lowerBob ELSE u]

\* An occurrence of a recurring meeting.
weekly == [id |-> "m1", sub |-> "s1"]

\* The meeting without its occurrence, as an event may name it.
series == [id |-> "m1", sub |-> None]

MCMeetings == {weekly}
MeetingAndOccurrence == {weekly, series}

\* Ann starts her own meeting, Bob joins it, Ann ends it; Bob leaves.
About(event, u) ==
    [event |-> event, meeting |-> weekly, operator |-> u, creator |-> ann]

Starts == About("meeting.started", ann)
Joins == About("meeting.participant-joined", bob)
Ends == About("meeting.end", ann)
Leaves == About("other", bob)

\* The occurrence is joined, the meeting started without it.
StartsSeries == [Starts EXCEPT !.meeting = series]

StartAndJoin == {StartsSeries, Joins}
WholeMeeting == {Starts, Joins, Ends, Leaves}

StartTwice == [e \in StartAndJoin |-> IF e = StartsSeries THEN 2 ELSE 1]
AnyTwice == [e \in WholeMeeting |-> IF e = Starts THEN 2 ELSE 1]

PostgresDown == {{"postgres"}}
BitableDown == {{"bitable"}}

RequestSymmetry == Permutations(Deliveries)
=============================================================================

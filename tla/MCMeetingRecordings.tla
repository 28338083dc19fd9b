------------------------- MODULE MCMeetingRecordings -------------------------
EXTENDS MeetingRecordings, TLC

CONSTANTS f1, f2, ann

MCLower == [u \in Users |-> u]

Meeting == [id |-> "m", sub |-> None]
MCMeetings == {Meeting}
MCLarkMeetings == {[id |-> "l", sub |-> None]}

MCAttendees == [m \in Meetings |-> {ann}]
\* Ann attends and speaks in one of two files.
MCSpeakers == [f \in Files |-> IF f = f2 THEN {ann} ELSE {}]

DeliverySymmetry == Permutations(Deliveries)
=============================================================================

\* Bitable: the start of a meeting, sent twice, or with a participant who joins.
SPECIFICATION Spec
CONSTANTS
    ann = ann
    bob = bob
    lowerBob = lowerBob
    Deliveries = {d1, d2}
    Users = {ann, bob}
    Lower <- MCLower
    IgnoresCase = TRUE
    None = None
    Meetings <- MeetingAndOccurrence
    Events <- StartAndJoin
    Attempts <- StartTwice
    Outages <- PostgresDown
    MaxTableFaults = 1
    MaxDbFaults = 0
    MaxCrashes = 0
SYMMETRY RequestSymmetry
INVARIANTS
    TablesTypeOK
    TwinsOverlap
    PeopleAreRows
    ParticipantsWereThere
PROPERTIES
    LostOnlyToStaleWrites
    ImplementsTables
CHECK_DEADLOCK FALSE

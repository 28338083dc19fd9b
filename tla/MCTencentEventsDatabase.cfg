\* Postgres: two requests about one meeting.
SPECIFICATION FairSpec
CONSTANTS
    ann = ann
    bob = bob
    lowerBob = lowerBob
    Deliveries = {d1, d2}
    Users = {ann, bob}
    Lower <- MCLower
    IgnoresCase = FALSE
    None = None
    Meetings <- MCMeetings
    Events <- WholeMeeting
    Attempts <- AnyTwice
    Outages <- BitableDown
    MaxTableFaults = 0
    MaxDbFaults = 1
    MaxCrashes = 1
INVARIANTS
    DatabaseTypeOK
    PlatformTwinsOverlap
    RecordsHaveTheirCreator
PROPERTIES
    ImplementsDatabase
    DeliveriesSettle
CHECK_DEADLOCK FALSE

SPECIFICATION RecordingsSpec
CONSTANTS
    Deliveries = {d1, d2}
    f1 = f1
    f2 = f2
    ann = ann
    None = None
    Meetings <- MCMeetings
    LarkMeetings <- MCLarkMeetings
    Files = {f1, f2}
    Users = {ann}
    Lower <- MCLower
    PlainRows = {}
    IgnoresCase = FALSE
    Attendees <- MCAttendees
    Speakers <- MCSpeakers
    MaxDeliveries = 2
    MaxFaults = 1
    MaxCrashes = 2
CHECK_DEADLOCK FALSE
SYMMETRY DeliverySymmetry
INVARIANTS
    RecordingsTypeOK
    TwinsOverlapped
    LinksAgree
    ThroughIsWritten
PROPERTIES
    PartsAreKept

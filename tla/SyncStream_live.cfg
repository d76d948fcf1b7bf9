CONSTANTS
    accepted = accepted
    request = request
    Rooms <- RequestRoom
    JoinedRooms <- NoRooms
    NoRoom = NoRoom
    Kinds <- TextOrOther
    OwnKinds <- Text
    TimelineLimit = 5
    Polling = TRUE
    BackfillBatchSize = 5
    MaxEvents = 3
    MaxQueue = 1
    MaxCrashes = 0
    MaxLogins = 1

SPECIFICATION FairSpec

CHECK_DEADLOCK FALSE

INVARIANTS
    NoEcho
PROPERTIES
    ShownWithoutGaps
    EveryMessageShown

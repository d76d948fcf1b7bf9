CONSTANTS
    accepted = accepted
    request = request
    Rooms <- RequestRoom
    JoinedRooms <- NoRooms
    NoRoom = NoRoom
    Kinds <- TextOrMedia
    OwnKinds <- Media
    TimelineLimit = 5
    Polling = FALSE
    BackfillBatchSize = 5
    MaxEvents = 4
    MaxQueue = 2
    MaxCrashes = 2
    MaxLogins = 0

SPECIFICATION Spec

CHECK_DEADLOCK FALSE

INVARIANTS
    NoEcho
PROPERTIES
    ShownInOrder

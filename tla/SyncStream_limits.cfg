CONSTANTS
    accepted = accepted
    request = request
    Rooms <- BothRooms
    JoinedRooms <- AcceptedRoom
    NoRoom = NoRoom
    Kinds <- Text
    OwnKinds <- Text
    TimelineLimit = 1
    Polling = TRUE
    BackfillBatchSize = 1
    MaxEvents = 4
    MaxQueue = 1
    MaxCrashes = 1
    MaxLogins = 0

SPECIFICATION Spec

CHECK_DEADLOCK FALSE

INVARIANTS
    TypeOK
    TokenBehindQueues
    NoEcho

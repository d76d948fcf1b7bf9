CONSTANTS
    NoToken = NoToken
    EndOfTimeline = EndOfTimeline
    AskedCounts <- OneOrOpen
    BackfillBatchSize = 2
    InitialEvents = 4
    MaxEvents = 5
    MaxCrashes = 1

SPECIFICATION FairSpec

CHECK_DEADLOCK FALSE

INVARIANTS
    TypeOK
    ChatOrder
    NothingLeftBehind
PROPERTIES
    WalkEnds

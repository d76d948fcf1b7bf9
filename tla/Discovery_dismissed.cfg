CONSTANTS
    r1 = r1
    r2 = r2
    Rooms <- OneRoom
    InitiallyJoined <- OneRoom
    SyncCap = 1
    BridgeHiddenChats = FALSE
    BridgeSpamChats = FALSE
    Failing <- NoRequests
    MaxQueue = 2
    MaxRestarts = 0

SPECIFICATION Spec

INVARIANTS
    DismissedStaysOut

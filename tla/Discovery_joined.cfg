CONSTANTS
    r1 = r1
    r2 = r2
    Rooms <- TwoRooms
    InitiallyJoined <- TwoRooms
    SyncCap = 1
    BridgeHiddenChats = FALSE
    BridgeSpamChats = FALSE
    Failing <- Checks
    MaxQueue = 2
    MaxRestarts = 1

SPECIFICATION FairSpec

PROPERTIES
    JoinedChatsBridged

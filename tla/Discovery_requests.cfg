CONSTANTS
    r1 = r1
    r2 = r2
    Rooms <- TwoRooms
    InitiallyJoined <- OtherRoom
    SyncCap = 1
    BridgeHiddenChats = FALSE
    BridgeSpamChats = FALSE
    Failing <- Requests
    MaxQueue = 2
    MaxRestarts = 1

SPECIFICATION Spec
VIEW ReadState

INVARIANTS
    TypeOK
    RefusedRequestsStayOut
    StaleMarkHeals

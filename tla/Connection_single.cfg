CONSTANTS
    c1 = c1
    c2 = c2
    Conns <- OneConn
    NoConn = NoConn
    Connector = Connector
    Overlap = FALSE
    UserSends = TRUE
    OutagePastExpiry = TRUE
    SyncMinBackoff = 1
    SyncMaxBackoff = 3

SPECIFICATION FairSpec

INVARIANTS
    TypeOK
    LogoutSticks
    DeadLoopReported
PROPERTIES
    MintOnlyStaleToken
    DisconnectReturns
    LoginRecovers

CONSTANTS
    c1 = c1
    c2 = c2
    Conns <- OneConn
    NoConn = NoConn
    Connector = Connector
    Overlap = FALSE
    UserSends = TRUE
    OutagePastExpiry = FALSE
    SyncMinBackoff = 1
    SyncMaxBackoff = 3

SPECIFICATION FairSpec

PROPERTIES
    LoginSurvives

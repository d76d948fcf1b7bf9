CONSTANTS
    c1 = c1
    c2 = c2
    Conns <- TwoConns
    NoConn = NoConn
    Connector = Connector
    Overlap = TRUE
    UserSends = FALSE
    OutagePastExpiry = TRUE
    SyncMinBackoff = 1
    SyncMaxBackoff = 2

SPECIFICATION Spec
SYMMETRY HandleSymmetry
VIEW ReadState

INVARIANTS
    NoLeakedLoop
    OneMintAtATime

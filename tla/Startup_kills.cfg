CONSTANTS
    p1 = p1
    p2 = p2
    Portals <- TwoPortals
    MaxImages = 2
    MaxKills = 3

SPECIFICATION FairSpec

INVARIANTS
    TypeOK
    RunsComplete
    IconsCurrent
    UploadedOnce
PROPERTIES
    ComesUp

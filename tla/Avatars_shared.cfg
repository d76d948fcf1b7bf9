CONSTANTS
    user = user
    emoji = emoji
    l1 = l1
    s1 = s1
    s2 = s2
    Users <- OneUser
    Emoji <- OneEmoji
    Lookups <- OneLookup
    Loops <- TwoLogins
    HasCookie = TRUE
    MatrixMediaURL = FALSE
    Calm = TRUE
    MaxAvatars = 2
    MaxInbox = 1
    MaxReactions = 1
    MaxRefusals = 4

SPECIFICATION FairSpec

INVARIANTS
    TypeOK
    UploadsBounded
    RefusalsBounded
    ReactionsKept
PROPERTIES
    GhostsSettle

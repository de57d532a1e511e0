\* Three goroutines that come again and again through two credits, the default
\* of a limit that is not set.
SPECIFICATION FairSpec
CONSTANTS
    Caller = {c1, c2, c3}
    NodeRateLimit = 0
    DefaultNodeCredit = 2
    Horizon = 3
INVARIANTS
    TypeOK
    BurstBound
PROPERTIES
    OvertakenOrServed

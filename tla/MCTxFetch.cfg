\* One fetch: its two goroutines contend for a single credit.
SPECIFICATION FairSpec
CONSTANTS
    Task = {t1}
    NodeRateLimit = 1
    DefaultNodeCredit = 2
    Horizon = 0
INVARIANTS
    TypeOK
    ResultComplete
    ErrorsReported
    NothingLeftBehind
PROPERTIES
    FetchEnds

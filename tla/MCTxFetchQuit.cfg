\* One fetch, two goroutines, one credit, and the application stops.
SPECIFICATION FairSpec
CONSTANTS
    Task = {t1}
    NodeRateLimit = 1
    DefaultNodeCredit = 2
    Horizon = 0
PROPERTIES
    CanceledQuits

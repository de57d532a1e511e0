\* The same two requests over one permit, one less than Capacity asks for.
SPECIFICATION FairSpec
CONSTANTS
    r1 = r1
    r2 = r2
    Request    = {r1, r2}
    MaxHashes <- TwoAndOne
    MaxWorkers = 1
PROPERTIES
    RequestReturns

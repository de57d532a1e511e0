\* As MCFetchPool, asking that no request panics.
SPECIFICATION Spec
CONSTANTS
    r1 = r1
    r2 = r2
    Request    = {r1, r2}
    MaxHashes <- TwoEach
    MaxWorkers = 3
INVARIANTS
    NoPanic

\* A request of two hashes and one of a single hash, two permits.
SPECIFICATION FairSpec
CONSTANTS
    r1 = r1
    r2 = r2
    Request    = {r1, r2}
    MaxHashes <- TwoAndOne
    MaxWorkers = 2
INVARIANTS
    TypeOK
    PermitDiscipline
    ChannelHonest
    NotWedged
PROPERTIES
    PanicOnlyIfCanceled
    ContractKept
    RequestReturns
    TasksEnd
    MergerExits

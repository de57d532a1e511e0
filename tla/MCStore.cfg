\* Three calls on one hash, two connections.
SPECIFICATION FairSpec
CONSTANTS
    Call = {c1,c2,c3}
    Hash = {h1}
    User = {u1}
    NonAuthenticatedUser = nobody
    MaxOpenConns = 2
INVARIANTS
    TypeOK
    SerialAckStored
    SerialBalanced
    SerialNeverWaits
    LinksHaveRows
    FailureAllOrNothing
PROPERTIES
    SerialCallsReturn
    ContractKept

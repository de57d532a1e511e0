\* Two overlapping calls are enough to lose an acknowledged write.
SPECIFICATION Spec
CONSTANTS
    Call = {c1,c2}
    Hash = {h1}
    User = {u1}
    NonAuthenticatedUser = nobody
    MaxOpenConns = 2
INVARIANTS
    AckStored

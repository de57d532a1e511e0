\* One user and one request, which may name a transaction twice.
SPECIFICATION Spec
CONSTANTS
    Tx = {t1}
    User = {u1}
    NonAuthenticatedUser = nobody
    Request = {r1}
    Query <- Queries
    MaxHashes <- TwoOrThree
INVARIANTS
    NoSpuriousFailure

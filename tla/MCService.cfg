\* Two requests, two transactions, two users.
SPECIFICATION Spec
CONSTANTS
    Tx = {t1, t2}
    User = {u1, u2}
    NonAuthenticatedUser = nobody
    Request = {r1, r2}
    Query <- Queries
    MaxHashes <- TwoOrThree
SYMMETRY DataSymmetry
INVARIANTS
    TypeOK
    AnswerExact
    Remembered
    LinksEarned
    LinksHaveRows
    FailuresExplained
PROPERTIES
    MyTransactionsComplete

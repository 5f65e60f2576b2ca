SPECIFICATION ServerSpec
CONSTANTS
    post1 = post1
    post2 = post2
    cancel1 = cancel1
    get1 = get1
    Ops <- MCOps
    Kind <- MCKind
    TxInContext = TRUE
    MaxOpenConns = 2
    NoFile = NoFile
    Unset = Unset
    Malformed = Malformed
    Files <- MCFiles
    Environments <- MCEnvironments
    Followed <- MCFollowed
INVARIANTS
    PoolTypeOK
    NothingKept
    SomebodyGoesOn
    UsableWhenLoaded
    RefusedRightly
PROPERTIES
    DatabaseAnswers
    ShutdownEnds
CHECK_DEADLOCK FALSE

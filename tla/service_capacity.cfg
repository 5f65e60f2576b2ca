SPECIFICATION Spec
CONSTANTS
    r1 = r1
    r2 = r2
    r3 = r3
    c1 = c1
    wash = wash
    polish = polish
    depot = depot
    Null = Null
    NoConfig = NoConfig
    NoBooking = NoBooking
    Nobody = Nobody
    MinutesPerDay = 8
    ZoneOffset = 0
    Addresses <- MCAddresses
    Services <- MCServices
    SlotConfig <- MCSlotConfig
    DefaultConfig <- OneBox
    Requests = {r1, r2, r3}
    Body <- MCBody
    TxInContext = TRUE
    Faults = TRUE
    Nows <- MCNows
    FetchedBy <- MCFetchedBy
    InitialConfigs <- MCInitialConfigs
    Calls = {c1}
    CallBody <- MCCallBody
    Managers <- MCManagers
    CallsMayFail = FALSE
INVARIANTS
    TypeOK
    CapacityRespected
    AdmittedWithinLimit
    AnswerMatchesTable
    CountedRowsHeld
PROPERTIES
    RefusalsJustified
    ImplementsLedger
CHECK_DEADLOCK FALSE

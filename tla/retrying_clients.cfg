SPECIFICATION ClientsSpec
CONSTANTS
    a1 = a1
    a2 = a2
    a3 = a3
    b1 = b1
    b1Cancelled = b1Cancelled
    wash = wash
    depot = depot
    Null = Null
    NoConfig = NoConfig
    NoBooking = NoBooking
    Nobody = Nobody
    MinutesPerDay = 8
    ZoneOffset = 0
    Addresses = {depot}
    Services = {wash}
    SlotConfig <- MCSlotConfig
    DefaultConfig <- TwoBoxes
    Requests = {a1, a2, a3, b1}
    Body <- MCBody
    TxInContext = TRUE
    Faults = TRUE
    Nows <- MCNows
    FetchedBy <- MCFetchedBy
    InitialConfigs <- MCInitialConfigs
    Calls = {b1Cancelled}
    CallBody <- MCCallBody
    Managers <- MCManagers
    CallsMayFail = FALSE
    Clients = {1, 2}
    Tries <- MCTries
    Impatient = TRUE
INVARIANTS
    ClientsTypeOK
    BookedTwiceOnlyInDoubt
    TryingAgainHelps
PROPERTIES
    RequestsEnd
CHECK_DEADLOCK FALSE

SPECIFICATION CreateSpec
CONSTANTS
    r1 = r1
    r2 = r2
    r3 = r3
    wash = wash
    polish = polish
    depot = depot
    Null = Null
    NoConfig = NoConfig
    NoBooking = NoBooking
    MinutesPerDay = 8
    ZoneOffset = 0
    Addresses <- MCAddresses
    Services <- MCServices
    SlotConfig <- MCOneSlotConfig
    DefaultConfig <- OneBox
    Requests = {r1, r2}
    Body <- MCNightBody
    TxInContext = TRUE
    Faults = FALSE
    Nows <- MCNows
    FetchedBy <- MCFetchedBy
    InitialConfigs <- MCOneBoxConfigs
INVARIANTS
    CapacityAcrossMidnight
CHECK_DEADLOCK FALSE

SPECIFICATION CreateSpec
CONSTANTS
    r1 = r1
    r2 = r2
    r3 = r3
    wash = wash
    polish = polish
    depot = depot
    Null = Null
    NoConfig = NoConfig
    NoBooking = NoBooking
    MinutesPerDay = 8
    ZoneOffset = 0
    Addresses <- MCAddresses
    Services <- MCServices
    SlotConfig <- MCOneSlotConfig
    DefaultConfig <- OneBox
    Requests = {r1, r2}
    Body <- MCPairBody
    TxInContext = FALSE
    Faults = FALSE
    Nows <- MCNows
    FetchedBy <- MCFetchedBy
    InitialConfigs <- MCOneBoxConfigs
INVARIANTS
    CapacityRespected
CHECK_DEADLOCK FALSE

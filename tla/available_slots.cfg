SPECIFICATION SlotsSpec
CONSTANTS
    r1 = r1
    r2 = r2
    wash = wash
    depot = depot
    Null = Null
    NoConfig = NoConfig
    NoBooking = NoBooking
    MinutesPerDay = 8
    ZoneOffset = 0
    Addresses = {depot}
    Services = {wash}
    SlotConfig <- MCSlotConfig
    DefaultConfig <- Short
    Requests = {r1, r2}
    Body <- MCBody
    Givens <- MCGivens
    InitialConfigs <- MCConfigs
    SlotFaults = TRUE
INVARIANTS
    SlotsTypeOK
    SlotsAreTheGrid
    ConfigWasInForce
PROPERTIES
    SpotsAreLeft
    OffersAreBookable
    SafeHoursAnswered
CHECK_DEADLOCK FALSE

SPECIFICATION Spec
CONSTANTS
    r1 = r1
    r2 = r2
    r3 = r3
    c1 = c1
    wash = wash
    polish = polish
    depot = depot
    Null = Null
    NoConfig = NoConfig
    NoBooking = NoBooking
    Nobody = Nobody
    MinutesPerDay = 8
    ZoneOffset = 0
    Addresses <- MCAddresses
    Services <- MCServices
    SlotConfig <- MCRulesSlotConfig
    DefaultConfig <- OneBox
    Requests = {r1, r2}
    Body <- MCRulesBody
    TxInContext = TRUE
    Faults = FALSE
    Nows <- MCSomeNows
    FetchedBy <- MCOneBadFetchedBy
    InitialConfigs <- MCRulesConfigs
    Calls = {}
    CallBody <- MCNoCallBody
    Managers <- MCManagers
    CallsMayFail = FALSE
PROPERTIES
    WithinBookingWindow
    DatesRefusedRightly
CHECK_DEADLOCK FALSE

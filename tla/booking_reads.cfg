SPECIFICATION ReadsSpec
CONSTANTS
    r1 = r1
    r2 = r2
    r3 = r3
    c1 = c1
    c2 = c2
    c3 = c3
    c4 = c4
    wash = wash
    depot = depot
    Null = Null
    NoConfig = NoConfig
    NoBooking = NoBooking
    Nobody = Nobody
    MinutesPerDay = 8
    Addresses = {depot}
    Services = {wash}
    SlotConfig <- MCSlotConfig
    DefaultConfig <- MCDefaultConfig
    Requests = {r1, r2, r3}
    Body <- MCBody
    Calls = {c1, c2, c3, c4}
    CallBody <- MCCalls
    Managers <- MCManagers
    CallsMayFail = TRUE
    Asks <- MCAsks
    InitialBookings <- MCInitialBookings
INVARIANTS
    ReadsTypeOK
    AnswersWereTrue
    StrangersSeeHistoriesOnly
    ListedWithinBoxes
    ReasonMatchesStatus
    CancelledWhenToldSo
PROPERTIES
    InactiveForGood
    OnlyEntitledCallers
CHECK_DEADLOCK FALSE

SPECIFICATION ConfigSpec
CONSTANTS
    e1 = e1
    e2 = e2
    e3 = e3
    wash = wash
    depot = depot
    Null = Null
    NoConfig = NoConfig
    Addresses = {depot}
    Services = {wash}
    SlotConfig <- MCSlotConfig
    DefaultConfig <- Default
    Edits = {e1, e2, e3}
    Asks <- MCAsks
    Managers <- MCManagers
    InitialConfigs <- MCConfigs
    EditsMayFail = TRUE
SYMMETRY MCSymmetry
INVARIANTS
    ConfigTypeOK
    ConfigsStayValid
    OneCreateWins
PROPERTIES
    OnlyManagersConfigure
    PutHitsTheRowItFound
CHECK_DEADLOCK FALSE

SPECIFICATION ConfigSpec
CONSTANTS
    e1 = e1
    e2 = e2
    e3 = e3
    wash = wash
    depot = depot
    Null = Null
    NoConfig = NoConfig
    Addresses = {depot}
    Services = {wash}
    SlotConfig <- MCSlotConfig
    DefaultConfig <- Default
    Edits = {e1, e2}
    Asks <- MCPuts
    Managers <- MCManagers
    InitialConfigs <- MCWashConfigured
    EditsMayFail = FALSE
PROPERTIES
    OnlyNamedFieldsChange
CHECK_DEADLOCK FALSE

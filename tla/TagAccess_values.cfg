SPECIFICATION TagSpec
CONSTANTS
    n = n
    None = n
    Devices <- DevicesMC
    RealBits <- RealBitsMC
    Transports = {"CNET", "DHP", "unconnected", "no_route"}
    MaxCommands = 2
    MaxWriteCoils = 2
    MaxWriteRegisters = 4
INVARIANTS ReadsAreMeant WritesAreMeant
CHECK_DEADLOCK FALSE

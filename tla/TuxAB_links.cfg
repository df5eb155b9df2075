SPECIFICATION Spec
CONSTANTS
    Plants <- TestPlants
    Sessions = {1, 2}
    SerialRange = 3
    MaxEltByPacket = 2
    Base = 4
    NextSample = 2
    Wait = 2
    Long = 2
    MAX_ERR_BEFORE_CHECK = 2
    BadValue = BadValue
    CrossedValue = CrossedValue
    None = None
INVARIANTS
    SessionsAreUsed
    StoredIsOfTag
PROPERTIES
    UpSessionsStay
    PlcsComeBack
CHECK_DEADLOCK FALSE

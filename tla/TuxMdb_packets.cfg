SPECIFICATION Spec
CONSTANTS
    IdRange = 8
    WordRange = 65536
    Registers = 8
    None = None
    Rows <- TestRows
    Plants <- TestPlants
    MaxEltByPacket = 2
    MAX_SAMPLE = 2
    Wait = 3
    MaxFaults = 2
INVARIANTS
    TagsAreKept
    StoredIsOfTag
    RepliesAreOwn
PROPERTIES
    ItemsAreRead
CHECK_DEADLOCK FALSE

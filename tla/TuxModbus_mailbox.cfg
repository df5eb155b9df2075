SPECIFICATION Spec
CONSTANTS
    t1 = t1
    t2 = t2
    PlcTags <- TwoLines
    Wait = 2
    MaxStores = 2
    MaxChanges = 1
    MaxFaults = 1
    None = None
INVARIANTS
    WrittenOnce
PROPERTIES
    OnlyLateStoresAreLost
    SnapshotsAdvance
    PlcsAreTriedAgain
    StoredIsTaken
CHECK_DEADLOCK FALSE

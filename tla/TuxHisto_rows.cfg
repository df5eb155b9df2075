SPECIFICATION Spec
CONSTANTS
    Ids = {1, 2, 3, 4}
    Logged = {1, 2}
    FirstRows = {{1, 2}, {1, 2, 3, 4}}
    Cap = 3
    SQLTOLIST = 2
    Time_Sample = 1
    MaxTime = 4
    MaxFaults = 2
    None = None
INVARIANTS
    ListIsSound
    SamplesAreApart
PROPERTIES
    SnapshotsAreArchived
CHECK_DEADLOCK FALSE

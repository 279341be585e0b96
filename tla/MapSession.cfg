\* Mode supervisor, map session executor and map store; one map on disk.
CONSTANTS
    MapNames = {m1, m2}
    BadName = BadName
    NoMap = NoMap
    Found = {m1}
    MaxStarts = 2
    MaxRequests = 2
    SlowPaint = FALSE
    MaxCrashes = 1
    MaxActions = 3
SPECIFICATION SessionSpec
INVARIANTS
    RuntimesAreExclusive
    LoadedMapIsActive
    SessionNamesOneSlam
PROPERTIES
    CatalogIsImplemented
    ResetIsFresh
CHECK_DEADLOCK FALSE

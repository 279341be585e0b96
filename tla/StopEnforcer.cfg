\* The STOP executor under arbitrary requests, crashes and failed writes.
CONSTANTS
    Requesters = {1}
    MaxRequestId = 2
    MaxGeneration = 3
    MaxBoot = 2
SPECIFICATION StopSpec
INVARIANTS
    TypeOK
    UnlockedIsPersistedClear
    AppliedIsDurable
    StopIInv
PROPERTIES
    RecordsAdvance
    ReleaseWasAnnounced

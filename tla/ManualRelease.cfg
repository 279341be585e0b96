\* The supervisor against the v1.3 transition contract.
CONSTANTS
    Sessions = {s1}
    Maps = {m1}
    Poses = {p1}
    None = None
    SequenceModulus = 4
    MaxLeaseGeneration = 1
    MaxModeRequest = 1
SPECIFICATION SupervisorSpec
PROPERTIES
    ManualReleaseReturnsIdle

\* The same supervisor with one map, no symmetry, under fairness.
CONSTANTS
    Sessions = {s1, s2}
    Maps = {m1}
    Poses = {p1}
    None = None
    SequenceModulus = 3
    MaxLeaseGeneration = 2
    MaxModeRequest = 0
SPECIFICATION FairSupervisorSpec
PROPERTIES
    SilentLeaseLapses

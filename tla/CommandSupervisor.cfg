\* Two browsers, two maps, a sequence space of four numbers, two grants of
\* the lease.
CONSTANTS
    Sessions = {s1, s2}
    Maps = {m1, m2}
    Poses = {p1}
    None = None
    SequenceModulus = 4
    MaxLeaseGeneration = 3
    MaxModeRequest = 1
SYMMETRY Symmetry
SPECIFICATION SupervisorSpec
INVARIANTS
    GrantsAreCurrent
    DemandIsCurrent
    LapsedLeaseIsFree
PROPERTIES
    GrantIsDeliberate
    OwnershipChangeDisarms
    SequencesAdvance

\* Two goal poses, with two runtime epochs or two authority processes, and two
\* NavigationStates on their way.
CONSTANTS
    MaxCancelAttempts = 1
    Maps = {m1}
    Poses = {p1, p2}
    Postures = {q1}
    None = None
    MaxRevision = 2
    MaxLives = 3
    MaxEffort = 4
    MaxRequests = 2
    MaxStates = 2
SYMMETRY Symmetry
SPECIFICATION NavigationSpec
INVARIANTS
    NavigationTypeOK
    ActiveIsCurrent
    ActiveIsAccepted
    InflightIsCarried
    OnlyTriedMissionsBlocked
    FirstMotionIsSelected
PROPERTIES
    CanceledStaysDown

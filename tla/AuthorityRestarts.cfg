\* Two goal poses, an authority that may be restarted once.
CONSTANTS
    MaxCancelAttempts = 1
    Maps = {m1}
    Poses = {p1, p2}
    Postures = {q1}
    None = None
    MaxRevision = 2
    MaxLives = 3
    MaxEffort = 4
    MaxRequests = 2
    MaxStates = 1
SPECIFICATION NavigationSpec
INVARIANTS
    MotionIsSelected

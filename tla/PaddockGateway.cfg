\* The web process: two browsers, the gateway, and each part behind it.
CONSTANTS
    Connections = {c1, c2}
    NoConnection = NoConnection
    MaxActions = 5
    MaxPoseInputs = 4
    MaxInputs = 3
    MaxContexts = 2
    Owners = {o1, o2}
    Values = {v1, v2}
    Launched = v1
    NoValue = NoValue
    Profiles = {p1}
    MaxReads = 3
    Bags = {b1, b2}
    NoBag = NoBag
    MaxCandidates = 1
    MaxRoutes = 3
    MaxMissions = 3
    MaxRuntimes = 2
    MaxDemands = 2
    Parts = {"lease", "pose", "tuning", "files", "layer", "map", "route", "recording", "stream"}
SYMMETRY Symmetry
SPECIFICATION Spec
INVARIANTS
    LeasesAreBracketed
    ShownIsPresent
    OneKnownRecorder
    MarkedIsSent
PROPERTIES
    AppliedSeedIsWhole
    ReadBacksAreTheirOwn
CHECK_DEADLOCK FALSE

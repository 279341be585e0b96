\* A message that waits for the gateway lock outlives its connection.
CONSTANTS
    Connections = {c1, c2}
    NoConnection = NoConnection
    MaxActions = 3
    MaxContexts = 1
    Owners = {o1}
    Values = {v1}
    Launched = v1
    NoValue = NoValue
    Profiles = {p1}
    MaxReads = 1
    Bags = {b1}
    NoBag = NoBag
    MaxCandidates = 1
    MaxRoutes = 3
    MaxMissions = 3
    MaxRuntimes = 2
    MaxDemands = 2
    Parts = {"lease"}
    MaxPoseInputs = 0
    MaxInputs = 0
SPECIFICATION Spec
INVARIANT LeaseIsNeverStuck
CHECK_DEADLOCK FALSE

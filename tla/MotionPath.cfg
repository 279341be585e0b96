\* Every part of the motion path, with kills, restarts and a clock that steps.
SPECIFICATION Spec
CONSTANTS
    MaxTakeovers = 2
    MaxGrants = 2
    MaxChannel = 3
    MaxSequence = 4
    MaxGenerations = 3
    MaxEpochs = 2
    MaxTime = 3
    ClockLags = {0, 2}
    MaxIntegrationDt = 2
    IntegratorBound = 1
    Feedforward = 1
    OutputMax = 3
    MotionParts = {"takeover", "keyboard", "manual", "speed", "wheels"}
INVARIANTS
    TakeoverIsNotUndone
    RemoteYieldsInTime
    DutyFollowsCommand
    FrozenTimeStaysOut
PROPERTIES
    ConvertedIsCurrent
    ReversesAtRest

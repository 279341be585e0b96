\* One STOP, an executor that crashes once, under fairness.
CONSTANTS
    MaxRequester = 1
    MaxLives = 3
    Requesters = {1}
    MaxRequestId = 1
    MaxGeneration = 0
    MaxInFlight = 1
    MaxBoot = 2
SPECIFICATION FairProtocolSpec
PROPERTIES
    PendingStopIsApplied

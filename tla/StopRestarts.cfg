\* Two requests of one authority process, or one of each of two; either the
\* executor or the authority is restarted.
CONSTANTS
    MaxRequester = 2
    MaxLives = 3
    Requesters = {1, 2}
    MaxRequestId = 2
    MaxGeneration = 0
    MaxInFlight = 2
    MaxBoot = 2
SPECIFICATION ProtocolSpec
INVARIANTS
    ConfirmedStopHolds
    StopIsNeverRejected

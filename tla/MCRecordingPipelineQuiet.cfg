SPECIFICATION FairSpec

CONSTANTS
    MaxSession = 2
    MaxEvents = 2
    NoSession = 0
    StartConfirmations = 1
    EndConfirmations = 1
    WorkerBlocks = FALSE
    WorkerFails = FALSE
    ObsRefuses = FALSE
    ObsButtons = TRUE

PROPERTIES
    StartSettles
    StopSettles

SPECIFICATION Spec

CONSTANTS
    MaxSession = 2
    MaxEvents = 1
    NoSession = 0
    StartConfirmations = 1
    EndConfirmations = 1
    WorkerBlocks = TRUE
    WorkerFails = TRUE
    ObsRefuses = TRUE
    ObsButtons = FALSE

INVARIANTS
    TypeOK
    HandedOverIsFinal

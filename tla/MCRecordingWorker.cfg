SPECIFICATION Spec

CONSTANTS
    MaxSession = 2
    NoSession = 0
    StartConfirmations = 2
    EndConfirmations = 2

INVARIANTS
    TypeOK
    CutNeverHandedOver
    HandedOverStaysCompleted
    SavedBetweenRequests

SPECIFICATION FairSpec

CONSTANTS
    MaxItem = 2
    MaxChanges = 2

INVARIANTS
    TypeOK
    OneUploadAtATime
PROPERTIES
    UploadReturns
    DockCatchesUp

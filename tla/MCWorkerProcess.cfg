SPECIFICATION Spec
CONSTANTS
    Process = {w1, w2, w3}
    NoProcess = NoProcess
    Port = {port1, port2}
    Root = {root1, root2}
    NoConfig = NoConfig
    Busy = TRUE
INVARIANTS
    TypeOK
    NoOrphan
PROPERTIES
    ForeignSurvives
    StopReturns
    StartIsReported
    LossIsNoticed

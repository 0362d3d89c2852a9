SPECIFICATION Spec

CONSTANTS
    Match = {m1}
    Video = {absolute, relative}
    AbsoluteVideo = {absolute}
    VideoId = {y1, y2}
    NoMatch = NoMatch
    NoVideo = NoVideo
    NoVideoId = NoVideoId
    DefaultMaxRetries = 1
    RetryLimits <- MCRetryLimits
    MaxItemId = 2
    MaxRetryCount = 2

INVARIANTS
    MarkedIffUploaded
    FailedWithinBudget

PROPERTIES
    TerminalIsFinal
    NoBlindRequeue
    KeepsLedger

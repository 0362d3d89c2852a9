SPECIFICATION FairSpec

CONSTANTS
    Match = {m1, m2}
    Video = {v1}
    AbsoluteVideo = {v1}
    VideoId = {y1}
    NoMatch = NoMatch
    NoVideo = NoVideo
    NoVideoId = NoVideoId
    DefaultMaxRetries = 1
    RetryLimits <- NoRetryLimits
    MaxItemId = 2
    MaxRetryCount = 2
    SecondStart = TRUE

INVARIANTS
    WorkerTypeOK
    NoBlindReupload
    OutcomeReachesItsItem
    HandoffIdempotent
    UploadingIsInFlight


    
    

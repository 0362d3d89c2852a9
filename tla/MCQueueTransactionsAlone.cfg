SPECIFICATION Spec

CONSTANTS
    Match = {m1}
    Video = {v1}
    AbsoluteVideo = {v1}
    VideoId = {y1}
    NoMatch = NoMatch
    NoVideo = NoVideo
    NoVideoId = NoVideoId
    DefaultMaxRetries = 1
    RetryLimits <- MCRetryLimits
    MaxItemId = 2
    MaxRetryCount = 2
    SecondStart = FALSE

PROPERTIES
    Serializable
    ServesRecoveredQueue

SPECIFICATION RunSpec
CONSTANTS
    Names <- MCNames
    Kind <- MCKind
    Chunks <- MCChunks
    Ceiling = 2
    PageSize = 2
    MaxRetries = 3
    BackoffCap = 1
    RetryAfterCap = 2
    RetryAfters <- MCRetryAfters
    MaxEdits = 2
INVARIANTS ListingComplete DownloadSound HoleOnlyByUpload
PROPERTIES RunEnds
CHECK_DEADLOCK FALSE

CONSTANTS
    LateReplies = TRUE
    BadFrames = FALSE
    MaxConn <- MCMaxConn
    MaxRequests <- MCMaxRequests
    MaxBatches <- MCMaxBatches
    Rows <- MCRows
    MaxRetries <- MCMaxRetries
    InitialDelay <- MCInitialDelay
    MaxDelay <- MCMaxDelay

SPECIFICATION FairSpec
INVARIANT TypeOK
INVARIANT RetrySchedule
INVARIANT NoLeak
PROPERTY ReconnectSpec
PROPERTY MainEnds

CHECK_DEADLOCK FALSE
VIEW MCView

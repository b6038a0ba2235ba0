CONSTANTS
    LateReplies = TRUE
    BadFrames = TRUE
    MaxConn <- MCMaxConn
    MaxRequests <- MCMaxRequests
    MaxBatches <- MCMaxBatches
    Rows <- MCRows
    MaxRetries <- MCMaxRetries
    InitialDelay <- MCInitialDelay
    MaxDelay <- MCMaxDelay

SPECIFICATION Spec
INVARIANT NoLeak

CHECK_DEADLOCK FALSE
VIEW MCView

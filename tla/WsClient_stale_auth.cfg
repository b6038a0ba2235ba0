CONSTANTS
    HasToken = TRUE
    QueryStreaming <- MCStreamingOff
    LateReplies = FALSE
    BadFrames = FALSE
    MaxConn <- MCMaxConn
    MaxRequests <- MCMaxRequests
    MaxBatches <- MCMaxBatches
    Rows <- MCRows

SPECIFICATION Spec
INVARIANT AuthFresh

CHECK_DEADLOCK FALSE

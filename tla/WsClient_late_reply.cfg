CONSTANTS
    HasToken = TRUE
    QueryStreaming <- MCStreamingOff
    LateReplies = TRUE
    BadFrames = FALSE
    MaxConn <- MCMaxConn
    MaxRequests <- MCMaxRequests
    MaxBatches <- MCMaxBatches
    Rows <- MCRows

SPECIFICATION Spec
INVARIANT ResponseCorrelation

CHECK_DEADLOCK FALSE

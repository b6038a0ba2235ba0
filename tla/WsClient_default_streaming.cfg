CONSTANTS
    HasToken = TRUE
    QueryStreaming <- MCStreamingDefault
    LateReplies = FALSE
    BadFrames = FALSE
    MaxConn <- MCMaxConn
    MaxRequests <- MCMaxRequests
    MaxBatches <- MCMaxBatches
    Rows <- MCRows

SPECIFICATION Spec
INVARIANT ResponseCorrelation

CHECK_DEADLOCK FALSE

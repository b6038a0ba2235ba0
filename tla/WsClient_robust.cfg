CONSTANTS
    HasToken = FALSE
    QueryStreaming <- MCStreamingAny
    LateReplies = TRUE
    BadFrames = TRUE
    MaxConn <- MCMaxConn
    MaxRequests <- MCFewRequests
    MaxBatches <- MCMaxBatches
    Rows <- MCOneRow

SPECIFICATION FairSpec
INVARIANT TypeOK
PROPERTY OpsReturn

CHECK_DEADLOCK FALSE

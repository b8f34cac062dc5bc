CONSTANTS
    PoolSize <- MCPoolSize
    Fds <- MCFds
    MaxPageNo <- MCMaxPageNo
    InitNumPages <- MCInitNumPages
    Clients <- MCClients
    Vals <- MCVals
    Zero <- MCZero
    NoPage = NoPage
    AllocCanFail = TRUE
SPECIFICATION Spec
INVARIANT FrameAccounting

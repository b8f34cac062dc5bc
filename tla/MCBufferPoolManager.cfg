CONSTANTS
    PoolSize <- MCPoolSize
    Fds <- MCFds
    MaxPageNo <- MCMaxPageNo
    InitNumPages <- MCInitNumPages
    Clients <- MCClients
    Vals <- MCVals
    Zero <- MCZero
    NoPage = NoPage
    AllocCanFail = FALSE
SPECIFICATION Spec
INVARIANT TypeOK
INVARIANT FrameAccounting
INVARIANT PinsMatchHolders
PROPERTY ImplementsPageStore

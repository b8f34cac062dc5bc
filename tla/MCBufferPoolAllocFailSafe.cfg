CONSTANTS
    PoolSize <- MCPoolSize
    Fds <- MCFds
    MaxPageNo <- MCMaxPageNo
    InitNumPages <- MCInitNumPages
    Clients <- MCClients
    Vals <- MCVals
    Zero <- MCZero
    NoPage = NoPage
    AllocCanFail = TRUE
SPECIFICATION Spec
INVARIANT PinsMatchHolders
PROPERTY ImplementsPageStore
\* new_page leaks its victim frame when allocate_page fails, so after enough
\* failures every frame is gone and no fetch or new_page can succeed: the
\* pool really stops.  This run asks only whether callers still see a
\* correct page store meanwhile.
CHECK_DEADLOCK FALSE

CONSTANTS
    PoolSize <- MCPoolSize
    RecordsPerPage <- MCRecordsPerPage
    MaxNumPages <- MCMaxNumPages
    FdR = FdR
    FdO = FdO
    Rec = Rec
    Other = Other
    NoPage = NoPage
    HdrWriteCanFail = FALSE
SPECIFICATION Spec
INVARIANT TypeOK
INVARIANT ClosedFileOnDisk
PROPERTY ImplementsRmFile

\* insert_record's header write may throw and leak the pin
\* (MCRmFileHdrFail.cfg); this run asks whether the record file and its
\* durability at close are still right after such a failure.
CONSTANTS
    PoolSize <- MCPoolSize
    RecordsPerPage <- MCRecordsPerPage
    MaxNumPages <- MCMaxNumPages
    FdR = FdR
    FdO = FdO
    Rec = Rec
    Other = Other
    NoPage = NoPage
    HdrWriteCanFail = TRUE
CONSTRAINT MCPinBound
SPECIFICATION Spec
INVARIANT ClosedFileOnDisk
PROPERTY ImplementsRmFile

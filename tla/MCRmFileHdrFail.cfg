\* insert_record's header write at line 94 may throw; the ownership rule
\* of spec 7 says the pin is released on that exit as on every other.
CONSTANTS
    PoolSize <- MCPoolSize
    RecordsPerPage <- MCRecordsPerPage
    MaxNumPages <- MCMaxNumPages
    FdR = FdR
    FdO = FdO
    Rec = Rec
    Other = Other
    NoPage = NoPage
    HdrWriteCanFail = TRUE
SPECIFICATION Spec
INVARIANT NoPinLeak

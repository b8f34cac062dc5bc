CONSTANTS
    RecordsPerPage <- MCRecordsPerPage
    MaxNumPages <- MCMaxNumPages
    WithRollback = TRUE
SPECIFICATION Spec
INVARIANT FreeListSound

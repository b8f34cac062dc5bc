CONSTANTS
    RecordsPerPage <- MCRecordsPerPage
    MaxNumPages <- MCMaxNumPages
    WithRollback = FALSE
SPECIFICATION Spec
PROPERTY NewPageOnlyWhenFull
CHECK_DEADLOCK FALSE

CONSTANTS
    RecordsPerPage <- MCRecordsPerPage
    MaxNumPages = 3
    WithRollback = TRUE
SPECIFICATION ScanSpec
INVARIANT ScanTypeOK
INVARIANT ScanSeesSurvivors
 

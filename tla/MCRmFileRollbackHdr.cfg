CONSTANTS
    RecordsPerPage <- MCRecordsPerPage
    MaxNumPages <- MCMaxNumPages
    WithRollback = TRUE
SPECIFICATION Spec
INVARIANT PageHdrMatchesBitmap
\* The file stops growing at MaxNumPages (a bound of the model).
CHECK_DEADLOCK FALSE

\* One slot a page and no rollback: the only setting in which insert and
\* delete alone put pages on the free list and take them off again;
\* five data pages let the free list grow five long.
CONSTANTS
    RecordsPerPage = 1
    MaxNumPages = 6
    WithRollback = FALSE
SPECIFICATION Spec
INVARIANT TypeOK
INVARIANT FreeListSound

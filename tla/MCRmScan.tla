------------------------------ MODULE MCRmScan ------------------------------
(* Model-checking instance of a scan interleaved with record operations.  *)
EXTENDS RmScan

\* Two slots a page: a page can hold a record behind and one ahead of the
\* cursor.
MCRecordsPerPage == 2

\* Up to four pages (three data pages); MCRmScan.cfg narrows this to three
\* pages (two data pages), where the rollback insert still lets pages fill
\* and the cursor still crosses a page boundary.
MCMaxNumPages == 4
=============================================================================

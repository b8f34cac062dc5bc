-------------------------- MODULE MCRmFileHandle --------------------------
(* Model-checking instance of the record file handle.                     *)
EXTENDS RmFileHandle

\* Two slots a page: a page is full after two records and has room again
\* after one delete.  (With one slot a page every insert fills a page.)
MCRecordsPerPage == 2

\* A header page and three data pages: a free list up to three pages long.
MCMaxNumPages == 4
=============================================================================

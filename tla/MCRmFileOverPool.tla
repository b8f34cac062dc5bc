--------------------------- MODULE MCRmFileOverPool ---------------------------
(* Model-checking instance of the record file handle on the buffer pool.  *)
EXTENDS RmFileOverPool

\* One frame: every page either thread needs that is not cached evicts the
\* other's page, and while the other thread holds the frame a record
\* operation finds no victim.  (Two frames exceed the state budget.)
MCPoolSize == 1

\* Two slots a page: a page is full, half full or empty.
MCRecordsPerPage == 2

\* Header page plus two data pages for the record file, so that the free
\* list can hold two pages; the other file shares the frame.
MCMaxNumPages == 3

\* With header writes failing, a leaked pin never comes back and the
\* record thread can leak another on the same frame: the count has no
\* bound.  Two pins a frame (one leaked plus one holder) is enough to see
\* the pool and the record file carry on after one failed write.
MCMaxPins == 2
MCPinBound == \A f \in Pool!Frames : pinCount[f] <= MCMaxPins
=============================================================================

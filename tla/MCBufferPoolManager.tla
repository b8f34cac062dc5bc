------------------------ MODULE MCBufferPoolManager ------------------------
(* Model-checking instance of the buffer pool with its threads.           *)
EXTENDS BufferPoolManager

\* Two frames: the pool fills with two pages and a third forces eviction.
MCPoolSize == 2

\* Two files, so that flush_all_pages(fd) leaves the other file's pages.
MCFds == {"fdA", "fdB"}

\* Each file starts with one page and may grow to two by new_page.
MCMaxPageNo == 2
MCInitNumPages == 1

\* Two threads: both may pin the same frame, or pin both frames.
MCClients == {"t1", "t2"}

\* Two contents: a write is told apart from the reset / on-disk content.
MCVals == {0, 1}
MCZero == 0
=============================================================================

----------------------------- MODULE PageStore -----------------------------
(***************************************************************************)
(* What the buffer pool promises its callers: a store of page contents,   *)
(* per file, that grows one page at a time.  A thread opens a session on   *)
(* one existing page (fetch_page) or on a page it creates (new_page),      *)
(* writes that page while the session lasts, and closes it (unpin_page).   *)
(* Caching, eviction, write-back and flushing are invisible: the content   *)
(* of a page is always the last value a thread wrote into it.              *)
(***************************************************************************)
EXTENDS Naturals

CONSTANTS Fds, MaxPageNo, InitNumPages, Clients, Vals, Zero, NoPage

PageIds == Fds \X (0..(MaxPageNo - 1))

VARIABLES
    mem,       \* the content of every page
    numPages,  \* pages existing per file
    holdPage   \* the page a thread has a session on, or NoPage

vars == <<mem, numPages, holdPage>>

Init ==
    /\ mem = [p \in PageIds |-> Zero]
    /\ numPages = [fd \in Fds |-> InitNumPages]
    /\ holdPage = [c \in Clients |-> NoPage]

Open(c, p) ==
    /\ holdPage[c] = NoPage
    /\ p[2] < numPages[p[1]]
    /\ holdPage' = [holdPage EXCEPT ![c] = p]
    /\ UNCHANGED <<mem, numPages>>

Create(c, fd) ==
    /\ holdPage[c] = NoPage
    /\ numPages[fd] < MaxPageNo
    /\ holdPage' = [holdPage EXCEPT ![c] = <<fd, numPages[fd]>>]
    /\ numPages' = [numPages EXCEPT ![fd] = @ + 1]
    /\ UNCHANGED mem

Write(c, v) ==
    /\ holdPage[c] # NoPage
    /\ mem' = [mem EXCEPT ![holdPage[c]] = v]
    /\ UNCHANGED <<numPages, holdPage>>

Close(c) ==
    /\ holdPage[c] # NoPage
    /\ holdPage' = [holdPage EXCEPT ![c] = NoPage]
    /\ UNCHANGED <<mem, numPages>>

Next ==
    \E c \in Clients :
        \/ \E p \in PageIds : Open(c, p)
        \/ \E fd \in Fds : Create(c, fd)
        \/ \E v \in Vals : Write(c, v)
        \/ Close(c)

Spec == Init /\ [][Next]_vars

=============================================================================

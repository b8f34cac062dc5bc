------------------------- MODULE BufferPoolManager -------------------------
(***************************************************************************)
(* The buffer pool of src/storage/buffer_pool_manager.cpp, composed with   *)
(* the LRU replacer and with the threads that use it.                      *)
(*                                                                         *)
(* Every public method takes the single latch_ for its whole body, so each *)
(* method is one atomic action, including the disk I/O it does under the  *)
(* latch.  Threads (the record layer, a scan, an index) interleave between *)
(* calls: a thread fetches or creates a page, keeps the Page* it got,      *)
(* writes into the frame while it holds the pin, and unpins by the page id *)
(* it reads back from that frame (ph.page->get_page_id(), as every call    *)
(* site in src/record does).  flush_page, flush_all_pages and delete_page  *)
(* may be called by anyone at any time.                                    *)
(*                                                                         *)
(* Page contents are abstracted to a small set of values; a frame's        *)
(* reset_memory() sets it to Zero, and a freshly allocated disk page also  *)
(* reads as Zero.  The Disk Manager (not in src/) is a function from page  *)
(* ids to values and a per-file page counter.                              *)
(***************************************************************************)
EXTENDS Naturals, Sequences, SequencesExt

CONSTANTS
    PoolSize,      \* number of frames (pool_size_)
    Fds,           \* open files
    MaxPageNo,     \* bound: a file never grows past this many pages
    InitNumPages,  \* pages each file already has when the pool starts
    Clients,       \* threads calling the pool
    Vals,          \* page contents
    Zero,          \* contents of a reset frame / a new disk page
    NoPage,        \* INVALID_PAGE_ID: an unbound frame, an idle thread
    AllocCanFail   \* whether DiskManager::allocate_page may fail

ASSUME Zero \in Vals /\ InitNumPages <= MaxPageNo /\ AllocCanFail \in BOOLEAN

Frames == 0..(PoolSize - 1)

PageIds == Fds \X (0..(MaxPageNo - 1))

VARIABLES
    pageId,     \* pages_[f].id_
    pinCount,   \* pages_[f].pin_count_
    isDirty,    \* pages_[f].is_dirty_
    data,       \* pages_[f].data_ (abstracted)
    pageTable,  \* page_table_ : PageId -> frame id
    freeList,   \* free_list_
    replacer,   \* replacer_ (LRUReplacer)
    disk,       \* Disk Manager: page contents on disk
    numPages,   \* Disk Manager: pages allocated per file
    holdPage,   \* thread c holds a pin on this page (NoPage: none)
    holdFrame,  \* the frame (Page*) thread c got back for it
    wrote       \* thread c wrote the frame since it pinned it

R == INSTANCE LRUReplacer WITH MaxCalls <- 0, clock <- 0, stamp <- 0,
                               victimOut <- {}

poolVars == <<pageId, pinCount, isDirty, data, pageTable, freeList, replacer>>
diskVars == <<disk, numPages>>
threadVars == <<holdPage, holdFrame, wrote>>
vars == <<poolVars, diskVars, threadVars>>

Allocated(p) == p[2] < numPages[p[1]]

Init ==
    /\ pageId = [f \in Frames |-> NoPage]
    /\ pinCount = [f \in Frames |-> 0]
    /\ isDirty = [f \in Frames |-> FALSE]
    /\ data = [f \in Frames |-> Zero]
    /\ pageTable = << >>
    /\ freeList = [i \in 1..PoolSize |-> i - 1]
    /\ replacer = R!EmptyReplacer
    /\ disk = [p \in PageIds |-> Zero]
    /\ numPages = [fd \in Fds |-> InitNumPages]
    /\ holdPage = [c \in Clients |-> NoPage]
    /\ holdFrame = [c \in Clients |-> NoPage]
    /\ wrote = [c \in Clients |-> FALSE]

-----------------------------------------------------------------------------
(***************************************************************************)
(* find_victim_page: the free list first, then the replacer's victim.     *)
(***************************************************************************)
HasVictim == freeList # << >> \/ R!CanVictim(replacer)

VictimFrame ==
    IF freeList # << >> THEN Head(freeList) ELSE R!VictimOf(replacer)

FreeListAfterVictim ==
    IF freeList # << >> THEN Tail(freeList) ELSE freeList

ReplacerAfterVictim ==
    IF freeList # << >> THEN replacer ELSE R!AfterVictim(replacer)

(* page_table_ with the entry for p erased.                                *)
Erase(pt, p) == [q \in DOMAIN pt \ {p} |-> pt[q]]

(* Mutant: the dirty victim is not written back.                          *)
DiskAfterWriteBackNone(f) == disk

(* update_page: a bound, dirty frame is written back under its old id     *)
(* (lines 47-52).                                                          *)
DiskAfterWriteBack(f) ==
    IF pageId[f] # NoPage /\ isDirty[f]
    THEN [disk EXCEPT ![pageId[f]] = data[f]] ELSE disk

(* Mutant: the new entry is keyed by the frame's id before id_ is set.     *)
NewKeyOld(f, p) == pageId[f]

(* update_page: the key of the new page-table entry (line 59).             *)
NewKey(f, p) == p

(***************************************************************************)
(* update_page(page, new_page_id, frame): write the old page back if the  *)
(* frame is bound and dirty, erase its page-table entry, and bind the      *)
(* frame to the new page.  The caller sets data, pin count and dirty flag  *)
(* (reset_memory and the clearing of is_dirty_ are overwritten by it).     *)
(***************************************************************************)
UpdatePage(f, p) ==
    /\ disk' = DiskAfterWriteBack(f)
    /\ pageTable' = (NewKey(f, p) :> f) @@
                    (IF pageId[f] # NoPage THEN Erase(pageTable, pageId[f])
                                          ELSE pageTable)
    /\ pageId' = [pageId EXCEPT ![f] = p]

(* The calling thread now holds a pin on page p in frame f.                *)
Acquire(c, p, f) ==
    /\ holdPage' = [holdPage EXCEPT ![c] = p]
    /\ holdFrame' = [holdFrame EXCEPT ![c] = f]
    /\ UNCHANGED wrote

(* fetch_page and new_page on a victim frame f for page p: update_page,   *)
(* the frame's contents become v, pin_count_ = 1, is_dirty_ = false, and  *)
(* replacer_->pin(f).                                                      *)
TakeVictim(c, f, p, v) ==
    /\ freeList' = FreeListAfterVictim
    /\ UpdatePage(f, p)
    /\ data' = [data EXCEPT ![f] = v]
    /\ pinCount' = [pinCount EXCEPT ![f] = 1]
    /\ isDirty' = [isDirty EXCEPT ![f] = FALSE]
    /\ replacer' = R!Pin(ReplacerAfterVictim, f)
    /\ Acquire(c, p, f)

-----------------------------------------------------------------------------
(* Mutant: a cache hit does not take the frame out of the replacer.       *)
ReplacerAfterHitNoPin(f) == replacer

(* fetch_page, cache hit: replacer_->pin(frame_id) (line 101).             *)
ReplacerAfterHit(f) == R!Pin(replacer, f)

(***************************************************************************)
(* fetch_page(page_id), the page is in the page table: pin it.            *)
(***************************************************************************)
FetchPageHit(c, p) ==
    /\ holdPage[c] = NoPage
    /\ Allocated(p)
    /\ p \in DOMAIN pageTable
    /\ LET f == pageTable[p] IN
       /\ pinCount' = [pinCount EXCEPT ![f] = @ + 1]
       /\ replacer' = ReplacerAfterHit(f)
       /\ Acquire(c, p, f)
    /\ UNCHANGED <<pageId, isDirty, data, pageTable, freeList, diskVars>>

(***************************************************************************)
(* fetch_page(page_id), the page is not cached: take a victim frame,      *)
(* update_page, read the page from disk, pin it.  With no victim the call *)
(* returns nullptr and changes nothing (a stuttering step).                *)
(***************************************************************************)
FetchPageMiss(c, p) ==
    /\ holdPage[c] = NoPage
    /\ Allocated(p)
    /\ p \notin DOMAIN pageTable
    /\ HasVictim
    /\ TakeVictim(c, VictimFrame, p, disk'[p])
    /\ UNCHANGED numPages

(***************************************************************************)
(* new_page(&page_id): take a victim frame, allocate a page in the file,  *)
(* update_page, pin.  When allocate_page fails the call returns nullptr    *)
(* after the victim has already left the free list or the replacer.       *)
(***************************************************************************)
NewPage(c, fd) ==
    /\ holdPage[c] = NoPage
    /\ HasVictim
    /\ numPages[fd] < MaxPageNo
    /\ numPages' = [numPages EXCEPT ![fd] = @ + 1]
    /\ TakeVictim(c, VictimFrame, <<fd, numPages[fd]>>, Zero)

NewPageAllocFails(c, fd) ==
    /\ AllocCanFail
    /\ holdPage[c] = NoPage
    /\ HasVictim
    /\ freeList' = FreeListAfterVictim
    /\ replacer' = ReplacerAfterVictim
    /\ UNCHANGED <<pageId, pinCount, isDirty, data, pageTable,
                   diskVars, threadVars>>

(***************************************************************************)
(* A thread writes the frame it holds and marks it to be unpinned dirty   *)
(* (the memcpy and mark_dirty of the record layer).                        *)
(***************************************************************************)
WriteFrame(c, v) ==
    /\ holdPage[c] # NoPage
    /\ data' = [data EXCEPT ![holdFrame[c]] = v]
    /\ wrote' = [wrote EXCEPT ![c] = TRUE]
    /\ UNCHANGED <<pageId, pinCount, isDirty, pageTable, freeList, replacer,
                   diskVars, holdPage, holdFrame>>

(* Mutant: unpin_page assigns is_dirty_ = is_dirty, so a clean unpin      *)
(* clears the flag an earlier dirty unpin set.                             *)
DirtyAfterUnpinAssign(old, is_dirty) == is_dirty

(* unpin_page sets is_dirty_ only when is_dirty (lines 171-173).           *)
DirtyAfterUnpin(old, is_dirty) == old \/ is_dirty

(***************************************************************************)
(* unpin_page(page->get_page_id(), is_dirty) by the thread holding the    *)
(* pin.  Absent page or a pin count already at zero: return false.         *)
(* Otherwise decrement, OR in the dirty flag, and hand the frame to the    *)
(* replacer when the count reaches zero.                                   *)
(***************************************************************************)
UnpinPageAs(c, is_dirty) ==
    LET p == pageId[holdFrame[c]]
        f == pageTable[p]
    IN
    /\ holdPage[c] # NoPage
    /\ holdPage' = [holdPage EXCEPT ![c] = NoPage]
    /\ holdFrame' = [holdFrame EXCEPT ![c] = NoPage]
    /\ wrote' = [wrote EXCEPT ![c] = FALSE]
    /\ IF p \in DOMAIN pageTable /\ pinCount[f] > 0
       THEN /\ pinCount' = [pinCount EXCEPT ![f] = @ - 1]
            /\ isDirty' = [isDirty EXCEPT ![f] = DirtyAfterUnpin(@, is_dirty)]
            /\ replacer' = IF pinCount[f] - 1 = 0 THEN R!Unpin(replacer, f)
                                                  ELSE replacer
       ELSE UNCHANGED <<pinCount, isDirty, replacer>>
    /\ UNCHANGED <<pageId, data, pageTable, freeList, diskVars>>

(* The holder unpins dirty exactly when it wrote the frame.                *)
UnpinPage(c) == UnpinPageAs(c, wrote[c])

(***************************************************************************)
(* flush_page(page_id): write a cached page back whether dirty or not.    *)
(***************************************************************************)
FlushPage(p) ==
    /\ p \in DOMAIN pageTable
    /\ LET f == pageTable[p] IN
       /\ disk' = [disk EXCEPT ![p] = data[f]]
       /\ isDirty' = [isDirty EXCEPT ![f] = FALSE]
    /\ UNCHANGED <<pageId, pinCount, data, pageTable, freeList, replacer,
                   numPages, threadVars>>

(***************************************************************************)
(* flush_all_pages(fd): write back every dirty cached page of the file.   *)
(***************************************************************************)
FlushAllPages(fd) ==
    LET Flushed == {p \in DOMAIN pageTable :
                        p[1] = fd /\ isDirty[pageTable[p]]}
    IN
    /\ Flushed # {}
    /\ disk' = [p \in PageIds |->
                   IF p \in Flushed THEN data[pageTable[p]] ELSE disk[p]]
    /\ isDirty' = [f \in Frames |->
                      IF pageId[f] \in Flushed THEN FALSE ELSE isDirty[f]]
    /\ UNCHANGED <<pageId, pinCount, data, pageTable, freeList, replacer,
                   numPages, threadVars>>

(* Mutant: the deleted page's frame is not returned to the free list.     *)
FreeListAfterDeleteDropped(f) == freeList

(* delete_page: free_list_.push_back(frame_id) (line 312).                 *)
FreeListAfterDelete(f) == Append(freeList, f)

(***************************************************************************)
(* delete_page(page_id): an uncached page is already deleted; a pinned    *)
(* one cannot be.  Otherwise write it back if dirty, erase it, reset the   *)
(* frame, take it out of the replacer and append it to the free list.      *)
(***************************************************************************)
DeletePage(p) ==
    /\ p \in DOMAIN pageTable
    /\ LET f == pageTable[p] IN
       /\ pinCount[f] = 0
       /\ disk' = IF isDirty[f] THEN [disk EXCEPT ![p] = data[f]] ELSE disk
       /\ pageTable' = Erase(pageTable, p)
       /\ pageId' = [pageId EXCEPT ![f] = NoPage]
       /\ isDirty' = [isDirty EXCEPT ![f] = FALSE]
       /\ data' = [data EXCEPT ![f] = Zero]
       /\ replacer' = R!Pin(replacer, f)
       /\ freeList' = FreeListAfterDelete(f)
    /\ UNCHANGED <<pinCount, numPages, threadVars>>

Next ==
    \/ \E c \in Clients, p \in PageIds :
          FetchPageHit(c, p) \/ FetchPageMiss(c, p)
    \/ \E c \in Clients, fd \in Fds : NewPage(c, fd) \/ NewPageAllocFails(c, fd)
    \/ \E c \in Clients, v \in Vals : WriteFrame(c, v)
    \/ \E c \in Clients : UnpinPage(c)
    \/ \E p \in PageIds : FlushPage(p) \/ DeletePage(p)
    \/ \E fd \in Fds : FlushAllPages(fd)

Spec == Init /\ [][Next]_vars


-----------------------------------------------------------------------------
(***************************************************************************)
(* Properties                                                              *)
(***************************************************************************)
TypeOK ==
    /\ pageId \in [Frames -> PageIds \cup {NoPage}]
    /\ pinCount \in [Frames -> Nat]
    /\ isDirty \in [Frames -> BOOLEAN]
    /\ data \in [Frames -> Vals]
    /\ DOMAIN pageTable \subseteq PageIds
    /\ Range(pageTable) \subseteq Frames
    /\ freeList \in Seq(Frames)
    /\ replacer \in R!ReplacerType
    /\ disk \in [PageIds -> Vals]
    /\ numPages \in [Fds -> 0..MaxPageNo]
    /\ holdPage \in [Clients -> PageIds \cup {NoPage}]
    /\ holdFrame \in [Clients -> Frames \cup {NoPage}]
    /\ wrote \in [Clients -> BOOLEAN]

(***************************************************************************)
(* Frame accounting (find_victim_page, update_page, unpin_page,           *)
(* delete_page): every frame is on the free list or bound in the page      *)
(* table, never both and never neither; the page table and the frames'     *)
(* page ids are inverse; the replacer holds, once each, exactly the bound  *)
(* frames whose pin count is zero; the free list has no repeats.  A frame  *)
(* that drops out of this accounting is lost to the pool for good.         *)
(***************************************************************************)
FrameAccounting ==
    /\ \A f \in Frames : (f \in ToSet(freeList)) # (f \in Range(pageTable))
    /\ \A p \in DOMAIN pageTable : pageId[pageTable[p]] = p
    /\ \A f \in Frames :
          f \in replacer.hash <=> f \in Range(pageTable) /\ pinCount[f] = 0
    /\ ToSet(replacer.list) = replacer.hash
    /\ Len(replacer.list) = Cardinality(replacer.hash)
    /\ Len(freeList) = Cardinality(ToSet(freeList))

(***************************************************************************)
(* Pins belong to their holders (fetch_page, new_page, unpin_page and the *)
(* replacer): a frame's pin count is the number of threads holding a       *)
(* Page* to it, and a frame a thread holds is still bound to the page the  *)
(* thread asked for, so no victim is ever taken from under a thread.       *)
(***************************************************************************)
PinsMatchHolders ==
    /\ \A f \in Frames :
          pinCount[f] = Cardinality({c \in Clients :
                                        holdPage[c] # NoPage /\ holdFrame[c] = f})
    /\ \A c \in Clients :
          holdPage[c] # NoPage => pageId[holdFrame[c]] = holdPage[c]

(***************************************************************************)
(* The pool is a transparent cache (fetch_page, new_page, update_page,    *)
(* unpin_page, flush_page, flush_all_pages, delete_page): seen through the *)
(* mapping "a cached page's content is its frame's, any other page's is   *)
(* the disk's", the pool implements PageStore.  An eviction that drops a   *)
(* dirty page, a dirty flag lost at unpin, or a write into a frame that    *)
(* was re-bound changes some page without a thread writing it.            *)
(***************************************************************************)
CachedView ==
    [p \in PageIds |-> IF p \in DOMAIN pageTable THEN data[pageTable[p]]
                                                 ELSE disk[p]]

Store == INSTANCE PageStore WITH mem <- CachedView

ImplementsPageStore == Store!Spec


=============================================================================

--------------------------- MODULE RmFileOverPool ---------------------------
(***************************************************************************)
(* The record file handle of src/record/rm_file_handle.cpp running on the  *)
(* buffer pool of src/storage/buffer_pool_manager.cpp, next to another    *)
(* thread that uses the same pool for another file.                       *)
(*                                                                         *)
(* The record thread Rec owns the file handle (file_hdr_ is in memory and *)
(* unlocked, so one thread at a time).  Each record operation is three    *)
(* steps, because the pool is shared and other threads run between its    *)
(* calls:                                                                  *)
(*   "idle" -> fetch_page_handle / create_page_handle (one pool call,     *)
(*             fetch_page or new_page; a nullptr or a range violation     *)
(*             throws before anything changed, which is no step)           *)
(*   "body" -> the work on the pinned page, ending on one of the exits    *)
(*             (an error path or success), each with its own is_dirty      *)
(*   "unpin"-> unpin_page(ph.page->get_page_id(), is_dirty) -> "idle".    *)
(* The page header and bitmap live in the frame (data) and on disk; the   *)
(* record bytes are not modelled.  mark_dirty (not in src/) sets the      *)
(* frame's dirty flag.  RmManager (not in src/) closes the file by        *)
(* writing file_hdr_ to page 0 and flushing the file's pages, and opens   *)
(* it by reading file_hdr_ back from page 0.                               *)
(***************************************************************************)
EXTENDS Integers, FiniteSets

CONSTANTS
    PoolSize,        \* frames in the pool
    FdR,             \* the record file
    FdO,             \* another file used through the same pool
    RecordsPerPage,  \* file_hdr_.num_records_per_page
    MaxNumPages,     \* bound on the pages of each file
    Rec,             \* the thread owning the record file handle
    Other,           \* a thread working on file FdO
    HdrWriteCanFail, \* disk_manager_->write_page of file_hdr_ may throw
    NoPage           \* INVALID_PAGE_ID / no pin held

VARIABLES
    pageId, pinCount, isDirty, data, pageTable, freeList, replacer,
    disk, numPages, holdPage, holdFrame, wrote,
    num_pages,           \* file_hdr_.num_pages of FdR
    first_free_page_no,  \* file_hdr_.first_free_page_no of FdR
    pc,                  \* control point of Rec
    op,                  \* the record operation Rec is running
    unpinDirty,          \* the is_dirty the exit taken passes to unpin_page
    fileOpen,            \* a RmFileHandle for FdR exists
    diskHdr              \* the RmFileHdr in page 0 of FdR on disk

poolVars == <<pageId, pinCount, isDirty, data, pageTable, freeList, replacer,
              disk, numPages, holdPage, holdFrame, wrote>>
hdrVars == <<num_pages, first_free_page_no>>
recVars == <<pc, op, unpinDirty>>
fileVars == <<fileOpen, diskHdr>>
vars == <<poolVars, hdrVars, recVars, fileVars>>

(* A page read from a freshly allocated, zero-filled disk page or a frame *)
(* after reset_memory(): every header field and bit is 0.                  *)
ZeroedPage == [num_records |-> 0, next_free_page_no |-> 0, bitmap |-> {}]

Pool == INSTANCE BufferPoolManager
          WITH Fds <- {FdR, FdO}, MaxPageNo <- MaxNumPages, InitNumPages <- 1,
               Clients <- {Rec, Other}, Vals <- {ZeroedPage},
               Zero <- ZeroedPage, AllocCanFail <- FALSE

(* The header create_new_page_handle writes into a new page.               *)
InitPageHdr == [num_records |-> 0, next_free_page_no |-> -1, bitmap |-> {}]

(***************************************************************************)
(* The record file as its user sees it: a page below num_pages has the    *)
(* header and bitmap the pool shows for it (its frame if cached, else the *)
(* disk); a page not yet created is an empty page.                         *)
(***************************************************************************)
PageView ==
    [p \in 1..(MaxNumPages - 1) |->
        IF p < num_pages THEN Pool!CachedView[<<FdR, p>>] ELSE InitPageHdr]

File == INSTANCE RmFileHandle WITH WithRollback <- TRUE, page <- PageView

NoOp == [kind |-> "none", slot_no |-> 0]

Init ==
    /\ Pool!Init
    /\ num_pages = 1
    /\ first_free_page_no = File!RM_NO_PAGE
    /\ pc = "idle"
    /\ op = NoOp
    /\ unpinDirty = FALSE
    /\ fileOpen = TRUE
    /\ diskHdr = [num_pages |-> 1, first_free_page_no |-> File!RM_NO_PAGE]

-----------------------------------------------------------------------------
(***************************************************************************)
(* The fetch step.                                                         *)
(***************************************************************************)
StartOp(kind, s) ==
    /\ pc = "idle"
    /\ pc' = "body"
    /\ op' = [kind |-> kind, slot_no |-> s]
    /\ UNCHANGED <<hdrVars, unpinDirty>>

(* Mutant: fetch_page_handle without the nullptr check: with no victim    *)
(* frame, fetch_page returns nullptr and the caller goes on with it.       *)
FetchPageHandleNoNullCheck(p) ==
    /\ File!RM_FILE_HDR_PAGE < p /\ p < num_pages
    /\ \/ Pool!FetchPageHit(Rec, <<FdR, p>>)
       \/ Pool!FetchPageMiss(Rec, <<FdR, p>>)
       \/ <<FdR, p>> \notin DOMAIN pageTable /\ ~Pool!HasVictim
          /\ UNCHANGED poolVars

(* fetch_page_handle(page_no): range check, then fetch_page.               *)
FetchPageHandle(p) ==
    /\ File!RM_FILE_HDR_PAGE < p /\ p < num_pages
    /\ Pool!FetchPageHit(Rec, <<FdR, p>>) \/ Pool!FetchPageMiss(Rec, <<FdR, p>>)

(* create_page_handle: the free-list head, else create_new_page_handle's  *)
(* new_page; the header initialisation follows in the body step.           *)
BeginInsertRecord ==
    IF first_free_page_no # File!RM_NO_PAGE
    THEN FetchPageHandle(first_free_page_no) /\ StartOp("insert", -1)
    ELSE Pool!NewPage(Rec, FdR) /\ StartOp("insertNew", -1)

(* get_record, insert_record(rid), delete_record, update_record: fetch    *)
(* the page of the rid.                                                    *)
BeginRidOp(kind, p, s) == FetchPageHandle(p) /\ StartOp(kind, s)

-----------------------------------------------------------------------------
(***************************************************************************)
(* The body step, on the page Rec holds pinned.                            *)
(***************************************************************************)
Held == holdFrame[Rec]
PageNo == pageId[Held][2]
Ph == data[Held]
ValidSlot == op.slot_no \in File!Slots

(* Leave the body by an exit that unpins with is_dirty.                    *)
Exit(is_dirty) ==
    /\ pc' = "unpin"
    /\ unpinDirty' = is_dirty
    /\ UNCHANGED op

(* Write the frame's header and bitmap and mark_dirty(ph.page).            *)
WritePage(ph) ==
    /\ data' = [data EXCEPT ![Held] = ph]
    /\ isDirty' = [isDirty EXCEPT ![Held] = TRUE]
    /\ UNCHANGED <<pageId, pinCount, pageTable, freeList, replacer,
                   disk, numPages, holdPage, holdFrame, wrote>>

(* get_record: every exit (InvalidSlot, RecordNotFound, the copy out)     *)
(* unpins clean; nothing is written.                                       *)
GetRecordBody ==
    /\ pc = "body" /\ op.kind = "get"
    /\ Exit(FALSE)
    /\ UNCHANGED <<poolVars, hdrVars>>

(* update_record: an invalid or clear slot exits clean; otherwise the     *)
(* bytes are copied in, the page is marked dirty and unpinned dirty.      *)
UpdateRecordBody ==
    /\ pc = "body" /\ op.kind = "update"
    /\ \/ /\ ValidSlot /\ op.slot_no \in Ph.bitmap
          /\ WritePage(Ph) /\ Exit(TRUE)
       \/ /\ ~ValidSlot \/ op.slot_no \notin Ph.bitmap
          /\ Exit(FALSE) /\ UNCHANGED poolVars
    /\ UNCHANGED hdrVars

(* insert_record(rid, buf): an invalid slot exits clean; otherwise set    *)
(* and count a clear bit, mark dirty, unpin dirty.                         *)
InsertRecordAtBody ==
    /\ pc = "body" /\ op.kind = "insertAt"
    /\ \/ /\ ValidSlot
          /\ WritePage(IF op.slot_no \in Ph.bitmap THEN Ph
                       ELSE [Ph EXCEPT !.bitmap = @ \cup {op.slot_no},
                                       !.num_records = @ + 1])
          /\ Exit(TRUE)
       \/ ~ValidSlot /\ Exit(FALSE) /\ UNCHANGED poolVars
    /\ UNCHANGED hdrVars

(* delete_record: an invalid or clear slot exits clean; otherwise clear   *)
(* and uncount the bit, and release_page_handle a page that was full      *)
(* (its next_free_page_no takes the old head, the head becomes this       *)
(* page number read from the frame); mark dirty, unpin dirty.              *)
DeleteRecordBody ==
    LET was_full == Ph.num_records = RecordsPerPage
        ph2 == [Ph EXCEPT !.bitmap = @ \ {op.slot_no},
                          !.num_records = @ - 1]
        release == was_full /\ ph2.num_records < RecordsPerPage
    IN
    /\ pc = "body" /\ op.kind = "delete"
    /\ \/ /\ ValidSlot /\ op.slot_no \in Ph.bitmap
          /\ WritePage(IF release
                       THEN [ph2 EXCEPT !.next_free_page_no = first_free_page_no]
                       ELSE ph2)
          /\ first_free_page_no' = IF release THEN PageNo
                                   ELSE first_free_page_no
          /\ UNCHANGED num_pages
          /\ Exit(TRUE)
       \/ /\ ~ValidSlot \/ op.slot_no \notin Ph.bitmap
          /\ Exit(FALSE) /\ UNCHANGED <<poolVars, hdrVars>>

(* Mutant: create_new_page_handle advances num_pages only past the end   *)
(* (> instead of >=).                                                      *)
NumPagesAfterNewPastEnd(pno) ==
    IF pno > num_pages THEN pno + 1 ELSE num_pages

(* create_new_page_handle: num_pages covers the page new_page allocated.  *)
NumPagesAfterNew(pno) ==
    IF pno >= num_pages THEN pno + 1 ELSE num_pages

(***************************************************************************)
(* write_page(fd_, RM_FILE_HDR_PAGE, ...) at line 94 throws: the page is  *)
(* already written and marked dirty and file_hdr_ updated in memory, page *)
(* 0 on disk keeps the old header, and the exception leaves insert_record  *)
(* past its unpin_page (line 103): the handle is gone, its pin is not.     *)
(***************************************************************************)
HdrWriteThrows(ph) ==
    /\ HdrWriteCanFail
    /\ data' = [data EXCEPT ![Held] = ph]
    /\ isDirty' = [isDirty EXCEPT ![Held] = TRUE]
    /\ holdPage' = [holdPage EXCEPT ![Rec] = NoPage]
    /\ holdFrame' = [holdFrame EXCEPT ![Rec] = NoPage]
    /\ UNCHANGED <<pageId, pinCount, pageTable, freeList, replacer, disk,
                   numPages, wrote, diskHdr>>
    /\ pc' = "idle" /\ op' = NoOp /\ unpinDirty' = FALSE

(***************************************************************************)
(* insert_record(buf) on the page create_page_handle pinned.  A page from *)
(* create_new_page_handle first gets its header initialised and num_pages *)
(* advanced.  The sanity check (no clear bit, or num_records at capacity) *)
(* exits clean.  Otherwise the first clear slot is set and counted, the   *)
(* page is marked dirty, and a page now full that is the list head (by    *)
(* the page number read from the frame) is unlinked, and the whole      *)
(* file_hdr_ is then written to page 0 on disk, past the pool; that write *)
(* may throw (HdrWriteThrows).                                             *)
(***************************************************************************)
InsertRecordBody ==
    LET new == op.kind = "insertNew"
        ph == IF new THEN InitPageHdr ELSE Ph
        slot == File!FirstUnset(ph.bitmap)
        ph2 == [ph EXCEPT !.bitmap = @ \cup {slot}, !.num_records = @ + 1]
        unlink == ph2.num_records = RecordsPerPage /\ first_free_page_no = PageNo
    IN
    /\ pc = "body" /\ op.kind \in {"insert", "insertNew"}
    /\ num_pages' = IF new THEN NumPagesAfterNew(PageNo) ELSE num_pages
    /\ \/ /\ slot # RecordsPerPage /\ ph.num_records < RecordsPerPage
          /\ first_free_page_no' = IF unlink THEN ph.next_free_page_no
                                             ELSE first_free_page_no
          /\ \/ /\ WritePage(ph2)
                /\ diskHdr' = IF unlink
                              THEN [num_pages |-> num_pages',
                                    first_free_page_no |-> ph.next_free_page_no]
                              ELSE diskHdr
                /\ Exit(TRUE)
             \/ unlink /\ HdrWriteThrows(ph2)
       \/ /\ slot = RecordsPerPage \/ ph.num_records >= RecordsPerPage
          /\ ~new   \* a page create_new_page_handle made has every bit clear
          /\ Exit(FALSE)
          /\ UNCHANGED <<poolVars, first_free_page_no, diskHdr>>

(* The unpin step: unpin_page(ph.page->get_page_id(), is_dirty).           *)
UnpinRecordPage ==
    /\ pc = "unpin"
    /\ Pool!UnpinPageAs(Rec, unpinDirty)
    /\ pc' = "idle"
    /\ op' = NoOp
    /\ unpinDirty' = FALSE
    /\ UNCHANGED hdrVars

-----------------------------------------------------------------------------
(***************************************************************************)
(* The other thread pins, creates and unpins pages of FdO; anyone may     *)
(* flush any page or delete an unpinned page of FdO.  These are the calls *)
(* that take Rec's pages out of the pool between its operations.           *)
(***************************************************************************)
OtherPages == {FdO} \X (0..(MaxNumPages - 1))

OtherStep ==
    /\ \/ \E q \in OtherPages :
             Pool!FetchPageHit(Other, q) \/ Pool!FetchPageMiss(Other, q)
       \/ Pool!UnpinPage(Other)
       \/ \E q \in Pool!PageIds : Pool!FlushPage(q)
       \/ \E fd \in {FdR, FdO} : Pool!FlushAllPages(fd)
       \/ \E q \in OtherPages : Pool!DeletePage(q)
    /\ UNCHANGED <<hdrVars, recVars, fileVars>>

-----------------------------------------------------------------------------
(***************************************************************************)
(* RmManager::close_file, between record operations: write file_hdr_ to   *)
(* page 0, then flush_all_pages(fd), which writes back the file's dirty   *)
(* cached pages (a call with none dirty changes nothing).                  *)
(***************************************************************************)
CloseFile ==
    /\ fileOpen /\ pc = "idle"
    /\ diskHdr' = [num_pages |-> num_pages,
                   first_free_page_no |-> first_free_page_no]
    /\ IF \E q \in DOMAIN pageTable : q[1] = FdR /\ isDirty[pageTable[q]]
       THEN Pool!FlushAllPages(FdR) ELSE UNCHANGED poolVars
    /\ fileOpen' = FALSE
    /\ UNCHANGED <<hdrVars, recVars>>

(* RmManager::open_file: the new handle reads file_hdr_ from page 0.        *)
OpenFile ==
    /\ ~fileOpen
    /\ num_pages' = diskHdr.num_pages
    /\ first_free_page_no' = diskHdr.first_free_page_no
    /\ fileOpen' = TRUE
    /\ UNCHANGED <<poolVars, recVars, diskHdr>>

Slot == 0..RecordsPerPage   \* the valid slots and one out of range

RecStep ==
    /\ fileOpen
    /\ \/ InsertRecordBody
       \/ /\ \/ BeginInsertRecord
             \/ \E k \in {"get", "update", "insertAt", "delete"},
                  p \in File!DataPages, s \in Slot : BeginRidOp(k, p, s)
             \/ GetRecordBody \/ UpdateRecordBody \/ InsertRecordAtBody
             \/ DeleteRecordBody \/ UnpinRecordPage
          /\ UNCHANGED diskHdr
    /\ UNCHANGED fileOpen

Next == RecStep \/ OtherStep \/ CloseFile \/ OpenFile

Spec == Init /\ [][Next]_vars

-----------------------------------------------------------------------------
TypeOK ==
    /\ pc \in {"idle", "body", "unpin"}
    /\ num_pages \in 1..MaxNumPages
    /\ first_free_page_no \in File!DataPages \cup {File!RM_NO_PAGE}
    /\ unpinDirty \in BOOLEAN
    /\ fileOpen \in BOOLEAN
    /\ diskHdr \in [num_pages : 1..MaxNumPages,
                    first_free_page_no : File!DataPages \cup {File!RM_NO_PAGE}]
    /\ pc # "idle" => holdPage[Rec] # NoPage

(***************************************************************************)
(* Ownership rule (spec 4.3, 7): every record operation that pins a page  *)
(* unpins it on every exit, error paths included, and a failed header     *)
(* write (line 94) is surfaced with the pin released.  Between operations *)
(* no frame of the record file is pinned (only Rec pins them), so a pin   *)
(* that leaks keeps the frame out of the replacer for good.               *)
(***************************************************************************)
NoPinLeak ==
    pc = "idle" =>
        \A f \in Pool!Frames :
            pageId[f] # NoPage /\ pageId[f][1] = FdR => pinCount[f] = 0

(***************************************************************************)
(* Durability at close (spec 7, 8 scenario 5): once close_file returned,  *)
(* the disk alone holds the file: every data page on disk equals the page *)
(* the last handle saw, so a reader that bypasses this pool (or a pool    *)
(* started afresh) reads the file as it was.  flush_all_pages writes only *)
(* pages flagged dirty, so this needs every change made through any       *)
(* earlier pin, possibly evicted and re-read since, to keep its flag set  *)
(* until it reaches the disk.                                              *)
(***************************************************************************)
ClosedFileOnDisk ==
    ~fileOpen =>
        \A p \in File!DataPages :
            p < num_pages => disk[<<FdR, p>>] = PageView[p]

(***************************************************************************)
(* The record file survives the pool and a close and reopen: its header in memory and its pages  *)
(* as read through the pool (frame if cached, else disk) behave exactly    *)
(* like RmFileHandle with rollback, whatever the other thread evicts,     *)
(* flushes or deletes between and during record operations, and a reopen *)
(* reads back from page 0 the header the handle had (the free-list head   *)
(* set by release_page_handle is written only by close_file).  A header or *)
(* bitmap change not marked dirty, a write into a frame after its unpin,  *)
(* a new page not initialised or not counted in num_pages, or a free-list *)
(* head that disagrees with the page's link shows up as a step             *)
(* RmFileHandle does not allow.                                            *)
(***************************************************************************)
ImplementsRmFile == File!Spec

=============================================================================

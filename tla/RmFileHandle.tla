---------------------------- MODULE RmFileHandle ----------------------------
(***************************************************************************)
(* The record file handle of src/record/rm_file_handle.cpp: the file      *)
(* header's page count and free-page list, and each data page's record    *)
(* count, free-list link and slot bitmap.                                  *)
(*                                                                         *)
(* A file handle is used by one thread at a time (file_hdr_ has no lock),  *)
(* and every operation pins one page, works on it and unpins it before it *)
(* returns, so each operation is one atomic step.  Pages are read through  *)
(* the buffer pool; a fetch that fails throws before anything is changed,  *)
(* which is a stuttering step here.  Record bytes are not modelled: only  *)
(* which slots are occupied.                                               *)
(***************************************************************************)
EXTENDS Integers, FiniteSets

CONSTANTS
    RecordsPerPage,  \* file_hdr_.num_records_per_page
    MaxNumPages,     \* bound: the file never grows past this many pages
    WithRollback     \* whether the positional insert_record(rid, buf) of
                     \* transaction rollback is called

ASSUME RecordsPerPage \in Nat \ {0} /\ MaxNumPages \in Nat \ {0, 1}
ASSUME WithRollback \in BOOLEAN

RM_FILE_HDR_PAGE == 0
RM_FIRST_RECORD_PAGE == 1
RM_NO_PAGE == -1

Slots == 0..(RecordsPerPage - 1)
DataPages == RM_FIRST_RECORD_PAGE..(MaxNumPages - 1)
PageHdr == [num_records : 0..RecordsPerPage,
            next_free_page_no : DataPages \cup {RM_NO_PAGE},
            bitmap : SUBSET Slots]

VARIABLES
    num_pages,           \* file_hdr_.num_pages
    first_free_page_no,  \* file_hdr_.first_free_page_no
    page                 \* page[p]: RmPageHdr and bitmap of data page p

fileVars == <<num_pages, first_free_page_no, page>>

EmptyPage == [num_records |-> 0, next_free_page_no |-> RM_NO_PAGE,
              bitmap |-> {}]

(* A file as RmManager::create_file leaves it: only the header page.       *)
Init ==
    /\ num_pages = 1
    /\ first_free_page_no = RM_NO_PAGE
    /\ page = [p \in DataPages |-> EmptyPage]

(* fetch_page_handle's range check: data pages that exist.                 *)
Existing == {p \in DataPages : RM_FILE_HDR_PAGE < p /\ p < num_pages}

(* Bitmap::first_bit(false, bitmap, n): lowest clear bit, n if none.       *)
FirstUnset(bm) ==
    IF Slots \subseteq bm THEN RecordsPerPage
    ELSE CHOOSE s \in Slots \ bm : \A t \in Slots \ bm : s <= t

(* create_page_handle: the head of the free list, else the page that      *)
(* create_new_page_handle allocates at the end of the file.                *)
CreatePageHandle ==
    IF first_free_page_no # RM_NO_PAGE THEN first_free_page_no ELSE num_pages

(* Mutant: a page that fills up at the head of the free list stays there. *)
InsertRecordNoUnlink ==
    LET p == CreatePageHandle
        ph == IF p < num_pages THEN page[p] ELSE EmptyPage
        slot == FirstUnset(ph.bitmap)
    IN
    /\ first_free_page_no # RM_NO_PAGE \/ num_pages < MaxNumPages
    /\ slot # RecordsPerPage /\ ph.num_records < RecordsPerPage
    /\ page' = [page EXCEPT ![p] = [ph EXCEPT !.bitmap = @ \cup {slot},
                                             !.num_records = @ + 1]]
    /\ num_pages' = IF p >= num_pages THEN p + 1 ELSE num_pages
    /\ UNCHANGED first_free_page_no

(***************************************************************************)
(* insert_record(buf): create_page_handle takes the head of the free list *)
(* without looking at it, or, with an empty list, create_new_page_handle   *)
(* appends an empty page that is not put on the list.  The sanity check    *)
(* throws when that page has no clear bit (no change).  Otherwise the      *)
(* first clear slot is taken; a page that fills up while it is the list    *)
(* head is unlinked (and the header is written to disk).                   *)
(***************************************************************************)
InsertRecord ==
    LET fromList == first_free_page_no # RM_NO_PAGE
        p == CreatePageHandle
        ph == IF fromList THEN page[p] ELSE EmptyPage
        slot == FirstUnset(ph.bitmap)
        ph2 == [ph EXCEPT !.bitmap = @ \cup {slot},
                          !.num_records = @ + 1]
    IN
    /\ fromList \/ num_pages < MaxNumPages
    /\ slot # RecordsPerPage /\ ph.num_records < RecordsPerPage
    /\ page' = [page EXCEPT ![p] = ph2]
    /\ num_pages' = IF p >= num_pages THEN p + 1 ELSE num_pages
    /\ first_free_page_no' =
          IF ph2.num_records = RecordsPerPage /\ first_free_page_no = p
          THEN ph.next_free_page_no ELSE first_free_page_no

(* Mutant: the positional insert counts a slot that was already set.     *)
InsertRecordAtAlwaysCount(p, s) ==
    /\ WithRollback
    /\ p \in Existing
    /\ s \in Slots
    /\ page' = [page EXCEPT ![p].bitmap = @ \cup {s},
                            ![p].num_records = @ + 1]
    /\ UNCHANGED <<num_pages, first_free_page_no>>

(***************************************************************************)
(* insert_record(rid, buf), the rollback path: an existing page and a     *)
(* valid slot; a clear bit is set and counted.  The free list is left as  *)
(* it is, even when the page is now full.                                  *)
(***************************************************************************)
InsertRecordAt(p, s) ==
    /\ WithRollback
    /\ p \in Existing
    /\ s \in Slots
    /\ page' = IF s \in page[p].bitmap THEN page
               ELSE [page EXCEPT ![p].bitmap = @ \cup {s},
                                 ![p].num_records = @ + 1]
    /\ UNCHANGED <<num_pages, first_free_page_no>>

(***************************************************************************)
(* release_page_handle: push the page on the head of the free list.       *)
(***************************************************************************)
ReleasePage(p, ph) ==
    /\ page' = [page EXCEPT ![p] = [ph EXCEPT !.next_free_page_no =
                                                 first_free_page_no]]
    /\ first_free_page_no' = p

(* Mutant: delete_record without the RecordNotFound check.                *)
DeleteRecordNoBitCheck(p, s) ==
    /\ p \in Existing
    /\ s \in Slots
    /\ page' = [page EXCEPT ![p].bitmap = @ \ {s},
                            ![p].num_records = @ - 1]
    /\ UNCHANGED <<num_pages, first_free_page_no>>

(***************************************************************************)
(* delete_record(rid): an existing page, a valid slot whose bit is set    *)
(* (otherwise RecordNotFound, no change).  Clear and uncount it; a page   *)
(* that was full is released onto the free list.                           *)
(***************************************************************************)
DeleteRecord(p, s) ==
    LET was_full == page[p].num_records = RecordsPerPage
        ph == [page[p] EXCEPT !.bitmap = @ \ {s},
                              !.num_records = @ - 1]
    IN
    /\ p \in Existing
    /\ s \in Slots
    /\ s \in page[p].bitmap
    /\ IF was_full /\ ph.num_records < RecordsPerPage
       THEN ReleasePage(p, ph)
       ELSE /\ page' = [page EXCEPT ![p] = ph]
            /\ UNCHANGED first_free_page_no
    /\ UNCHANGED num_pages

(***************************************************************************)
(* get_record(rid) and update_record(rid, buf): an existing page and a    *)
(* valid, set slot (otherwise InvalidSlot / RecordNotFound); the record's *)
(* bytes are copied out or overwritten, which leaves the slot map as it is. *)
(***************************************************************************)
GetRecord(p, s) ==
    /\ p \in Existing
    /\ s \in Slots
    /\ s \in page[p].bitmap
    /\ UNCHANGED fileVars

UpdateRecord(p, s) ==
    /\ p \in Existing
    /\ s \in Slots
    /\ s \in page[p].bitmap
    /\ UNCHANGED fileVars

FileNext ==
    \/ InsertRecord
    \/ \E p \in DataPages, s \in Slots : GetRecord(p, s) \/ UpdateRecord(p, s)
    \/ \E p \in DataPages, s \in Slots : InsertRecordAt(p, s) \/ DeleteRecord(p, s)

Spec == Init /\ [][FileNext]_fileVars

-----------------------------------------------------------------------------
TypeOK ==
    /\ num_pages \in 1..MaxNumPages
    /\ first_free_page_no \in DataPages \cup {RM_NO_PAGE}
    /\ page \in [DataPages -> PageHdr]

(***************************************************************************)
(* Page header agrees with the bitmap (spec section 3): on every data     *)
(* page num_records is the number of set bits.  insert_record,             *)
(* insert_record(rid) and delete_record each update both, on different     *)
(* paths; a slot chosen twice or a count moved without its bit breaks it.  *)
(***************************************************************************)
PageHdrMatchesBitmap ==
    \A p \in Existing : page[p].num_records = Cardinality(page[p].bitmap)

(***************************************************************************)
(* The free-page list is sound (create_page_handle, insert_record,         *)
(* release_page_handle): following first_free_page_no and then each        *)
(* next_free_page_no visits existing pages, each at most once, each with a *)
(* free slot, and ends at RM_NO_PAGE.  insert_record trusts the head to    *)
(* have room; a full head makes every later insert throw.                  *)
(***************************************************************************)
(* FreeChain[i]: the page reached after following i links from the head. *)
FreeChain[i \in 0..Cardinality(DataPages)] ==
    IF i = 0 THEN first_free_page_no
    ELSE IF FreeChain[i - 1] = RM_NO_PAGE THEN RM_NO_PAGE
    ELSE page[FreeChain[i - 1]].next_free_page_no

FreeListSound ==
    \E n \in 0..Cardinality(DataPages) :
        /\ FreeChain[n] = RM_NO_PAGE
        /\ \A i \in 0..(n - 1) :
              /\ FreeChain[i] \in Existing
              /\ page[FreeChain[i]].num_records < RecordsPerPage
              /\ \A j \in 0..(i - 1) : FreeChain[j] # FreeChain[i]

(***************************************************************************)
(* Space reuse (spec section 8, scenario 3: with four slots a page, five   *)
(* inserts make a second page): insert_record appends a new page only when *)
(* every existing data page is full.                                       *)
(***************************************************************************)
NewPageOnlyWhenFull ==
    [][num_pages' > num_pages =>
          \A p \in Existing : page[p].num_records = RecordsPerPage]_fileVars

=============================================================================

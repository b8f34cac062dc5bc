------------------------------- MODULE RmScan -------------------------------
(***************************************************************************)
(* The record scan of src/record/rm_scan.cpp over the file handle of       *)
(* RmFileHandle.  The thread that owns the handle opens a scan, advances   *)
(* it with next() and, between two calls, may insert and delete records   *)
(* (a DELETE or UPDATE executor does exactly this).  next() runs its whole *)
(* page loop inside one call, pinning and unpinning one page at a time,    *)
(* so it is one step.                                                      *)
(*                                                                         *)
(* Two history variables record what the scan returned and which records  *)
(* were live when it was opened and have stayed live since.               *)
(***************************************************************************)
EXTENDS RmFileHandle

VARIABLES
    rid_,     \* the scan's current Rid [page_no, slot_no]
    scanOn,   \* an RmScan object exists
    seen,     \* history: Rids the scan has stopped at
    kept      \* history: Rids live at construction and not deleted since

scanVars == <<rid_, scanOn, seen, kept>>
vars == <<fileVars, scanVars>>

Rid(p, s) == [page_no |-> p, slot_no |-> s]
EndRid == Rid(RM_NO_PAGE, -1)

RidsIn(pg, pages) ==
    {r \in {Rid(p, s) : p \in pages, s \in Slots} :
        r.slot_no \in pg[r.page_no].bitmap}

LiveRids == RidsIn(page, Existing)

(***************************************************************************)
(* next(): from rid_, the first set bit strictly after slot_no on the      *)
(* current page (Bitmap::next_bit), otherwise on the following pages below *)
(* num_pages starting again from slot -1; RM_NO_PAGE when none is left.    *)
(***************************************************************************)
Later(r, p, s) == p > r.page_no \/ (p = r.page_no /\ s > r.slot_no)

(* The occupied Rids on the pages from r.page_no below num_pages.          *)
RidsFrom(r) == RidsIn(page, {q \in Existing : q >= r.page_no})

(* The first of a set of Rids in page then slot order; end if it is empty. *)
FirstRidOf(Cand, end) ==
    IF Cand = {} THEN end
    ELSE CHOOSE c \in Cand : \A d \in Cand : c = d \/ Later(c, d.page_no, d.slot_no)

(* Mutant: moving to the next page without resetting slot_no to -1.      *)
NextRidNoSlotReset(r) ==
    FirstRidOf({c \in RidsFrom(r) : c.slot_no > r.slot_no}, EndRid)

NextRidNoEndMark(r) ==
    FirstRidOf({c \in RidsFrom(r) : Later(r, c.page_no, c.slot_no)},
               Rid(num_pages, -1))

NextRid(r) ==
    FirstRidOf({c \in RidsFrom(r) : Later(r, c.page_no, c.slot_no)}, EndRid)

is_end == rid_.page_no = RM_NO_PAGE

ScanInit ==
    /\ Init
    /\ rid_ = EndRid
    /\ scanOn = FALSE
    /\ seen = {}
    /\ kept = {}

(* RmScan(file_handle): start before the first slot of the first data page *)
(* and call next().                                                        *)
ScanOpen ==
    /\ ~scanOn
    /\ scanOn' = TRUE
    /\ rid_' = NextRid(Rid(RM_FIRST_RECORD_PAGE, -1))
    /\ seen' = IF rid_' = EndRid THEN {} ELSE {rid_'}
    /\ kept' = LiveRids
    /\ UNCHANGED fileVars

(* next() on a scan that is not at its end.                                *)
ScanNext ==
    /\ scanOn
    /\ ~is_end
    /\ rid_' = NextRid(rid_)
    /\ seen' = IF rid_' = EndRid THEN seen ELSE seen \cup {rid_'}
    /\ UNCHANGED <<scanOn, kept, fileVars>>

(* The executor drops a finished scan; a later one may be opened.          *)
ScanClose ==
    /\ scanOn
    /\ is_end
    /\ scanOn' = FALSE
    /\ UNCHANGED <<rid_, seen, kept, fileVars>>

(* A record operation between two calls of next().                         *)
FileStep ==
    /\ FileNext
    /\ kept' = kept \cap RidsIn(page', DataPages)
    /\ UNCHANGED <<rid_, scanOn, seen>>

Next == FileStep \/ ScanOpen \/ ScanNext \/ ScanClose

ScanSpec == ScanInit /\ [][Next]_vars

-----------------------------------------------------------------------------
ScanTypeOK ==
    /\ rid_ \in {Rid(p, s) : p \in DataPages, s \in Slots} \cup {EndRid}
    /\ scanOn \in BOOLEAN

(***************************************************************************)
(* A finished scan returned every record that was live when it was opened *)
(* and was not deleted while it ran (spec 4.4: deletes ahead are visible,  *)
(* inserts behind are not; nothing that stays put is skipped).             *)
(***************************************************************************)
ScanSeesSurvivors == scanOn /\ is_end => kept \subseteq seen

=============================================================================

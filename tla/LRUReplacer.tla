---------------------------- MODULE LRUReplacer ----------------------------
(***************************************************************************)
(* The LRU replacer of src/replacer/lru_replacer.cpp.                      *)
(*                                                                         *)
(* The replacer keeps a std::list LRUlist_ of frame ids, most recently     *)
(* unpinned at the head, and a hash map LRUhash_ from frame id to the      *)
(* list iterator of its entry.  The iterator is abstracted to the key set  *)
(* of the map: an erase through the iterator removes the entry the map     *)
(* points to, which is the occurrence nearest the head (the latest         *)
(* push_front of that frame).                                              *)
(*                                                                         *)
(* The operations are written as pure operators on the replacer record     *)
(* [list |-> LRUlist_, hash |-> LRUhash_] so that the buffer pool, which   *)
(* calls several of them inside one critical section, can compose them.   *)
(* The module also has a stand-alone specification in which an arbitrary  *)
(* caller invokes the three operations, used to check the LRU order.      *)
(***************************************************************************)
EXTENDS Naturals, Sequences, SequencesExt

CONSTANTS
    Frames,     \* frame ids handed to the replacer
    MaxCalls    \* bound on the number of calls in the stand-alone model

VARIABLES
    replacer,   \* [list |-> LRUlist_, hash |-> DOMAIN LRUhash_]
    clock,      \* history: number of calls made so far
    stamp,      \* history: clock value of the call that made f eligible
    victimOut   \* *frame_id as the last call left it: {f} after victim()

EmptyReplacer == [list |-> <<>>, hash |-> {}]

ReplacerType == [list : Seq(Frames), hash : SUBSET Frames]

(* victim(): the replacer has an entry to give up (lines 27-33).           *)
CanVictim(r) == r.list # <<>>

(* victim(): the frame returned, LRUlist_.back() (line 36).                *)
VictimOf(r) == Last(r.list)

(* victim(): erase the key from LRUhash_, pop the tail (lines 39-42).      *)
AfterVictim(r) ==
    [list |-> Front(r.list), hash |-> r.hash \ {Last(r.list)}]

(* pin(f): if f has an entry, erase it from the list and the map           *)
(* (lines 55-60); otherwise nothing.                                       *)
Pin(r, f) ==
    IF f \in r.hash
    THEN [list |-> RemoveFirst(r.list, f), hash |-> r.hash \ {f}]
    ELSE r

(* Mutant: unpin() without the LRUhash_.count check.                      *)
UnpinNoCheck(r, f) ==
    [list |-> Cons(f, r.list), hash |-> r.hash \cup {f}]

(* Mutant: unpin() pushing at the LRU end instead of the MRU end.          *)
UnpinAtTail(r, f) ==
    IF f \in r.hash
    THEN r
    ELSE [list |-> Append(r.list, f), hash |-> r.hash \cup {f}]

(* unpin(f): a frame with an entry is left where it is (lines 71-73);      *)
(* otherwise it is pushed at the MRU end and recorded (lines 93-95).       *)
Unpin(r, f) ==
    IF f \in r.hash
    THEN r
    ELSE [list |-> Cons(f, r.list), hash |-> r.hash \cup {f}]

-----------------------------------------------------------------------------
(***************************************************************************)
(* Stand-alone specification: any caller calls any operation.             *)
(***************************************************************************)
vars == <<replacer, clock, stamp, victimOut>>

Init ==
    /\ replacer = EmptyReplacer
    /\ clock = 0
    /\ stamp = [f \in Frames |-> 0]
    /\ victimOut = {}

Tick == clock < MaxCalls /\ clock' = clock + 1

CallVictim ==
    /\ Tick
    /\ CanVictim(replacer)
    /\ replacer' = AfterVictim(replacer)
    /\ victimOut' = {VictimOf(replacer)}
    /\ UNCHANGED stamp

CallPin(f) ==
    /\ Tick
    /\ replacer' = Pin(replacer, f)
    /\ victimOut' = {}
    /\ UNCHANGED stamp

CallUnpin(f) ==
    /\ Tick
    /\ replacer' = Unpin(replacer, f)
    /\ victimOut' = {}
    /\ stamp' = IF f \in replacer.hash THEN stamp
                ELSE [stamp EXCEPT ![f] = clock]

Next ==
    \/ CallVictim
    \/ \E f \in Frames : CallPin(f) \/ CallUnpin(f)

Spec == Init /\ [][Next]_vars

-----------------------------------------------------------------------------
(***************************************************************************)
(* List and map agree (spec 4.1): LRUlist_ holds each frame at most once  *)
(* and exactly the keys of LRUhash_.  unpin() relies on the map lookup to  *)
(* avoid a second push_front; pin() erases only the entry the map points  *)
(* to, so a duplicate would survive a pin and later be handed out as a    *)
(* victim although pinned.                                                 *)
(***************************************************************************)
ReplacerConsistent ==
    /\ replacer \in ReplacerType
    /\ ToSet(replacer.list) = replacer.hash
    /\ Len(replacer.list) = Cardinality(replacer.hash)

(***************************************************************************)
(* LRU order (victim(), lines 35-42, with unpin() pushing at the head and *)
(* pin() erasing through the map): the replacer implements ReplacerPolicy *)
(* with the frames of LRUhash_ as the evictable set.  So victim() hands   *)
(* out, of all frames currently eligible, one that became eligible        *)
(* earliest and leaves it ineligible; pin() leaves the frame ineligible;  *)
(* a repeated unpin() of an eligible frame does not make it younger.      *)
(***************************************************************************)
Policy == INSTANCE ReplacerPolicy
              WITH evictable <- replacer.hash, since <- stamp, now <- clock,
                   returned <- victimOut

ImplementsReplacerPolicy == Policy!Spec

=============================================================================

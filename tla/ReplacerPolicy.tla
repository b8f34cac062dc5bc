--------------------------- MODULE ReplacerPolicy ---------------------------
(***************************************************************************)
(* What a least-recently-used replacer promises its caller, with no list  *)
(* and no map: a set of evictable frames, and for each the time at which  *)
(* it last became evictable.  victim() hands out, and forgets, one of the *)
(* evictable frames that has been evictable longest; pin() forgets a      *)
(* frame; unpin() makes a frame evictable from now on, and does nothing   *)
(* to a frame that already is.  LRUReplacer is checked to implement this. *)
(***************************************************************************)
EXTENDS Naturals

CONSTANTS Frames, MaxCalls

VARIABLES
    evictable,  \* frames victim() may hand out
    since,      \* since[f]: the call at which f last became evictable
    now,        \* number of calls made so far
    returned    \* the frame the last call handed out: {f} after victim()

vars == <<evictable, since, now, returned>>

Init ==
    /\ evictable = {}
    /\ since = [f \in Frames |-> 0]
    /\ now = 0
    /\ returned = {}

Call == now < MaxCalls /\ now' = now + 1

Oldest == {f \in evictable : \A g \in evictable : since[f] <= since[g]}

Victim ==
    /\ Call
    /\ \E f \in Oldest : /\ evictable' = evictable \ {f}
                         /\ returned' = {f}
    /\ UNCHANGED since

PinFrame(f) ==
    /\ Call
    /\ evictable' = evictable \ {f}
    /\ returned' = {}
    /\ UNCHANGED since

UnpinFrame(f) ==
    /\ Call
    /\ returned' = {}
    /\ IF f \in evictable
       THEN UNCHANGED <<evictable, since>>
       ELSE /\ evictable' = evictable \cup {f}
            /\ since' = [since EXCEPT ![f] = now]

Next == Victim \/ \E f \in Frames : PinFrame(f) \/ UnpinFrame(f)

Spec == Init /\ [][Next]_vars

=============================================================================

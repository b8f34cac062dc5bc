--------------------------- MODULE MCLRUReplacer ---------------------------
(* Model-checking instance of the stand-alone LRU replacer.                *)
EXTENDS LRUReplacer

\* Three frames: enough for a victim to be chosen among more than two.
MCFrames == {"f1", "f2", "f3"}

\* Seven calls: fill three frames, pin/re-unpin one, and take victims.
MCMaxCalls == 7
=============================================================================

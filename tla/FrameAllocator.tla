--------------------------- MODULE FrameAllocator ---------------------------
(***************************************************************************)
(* What a physical frame allocator promises its callers, with no word on   *)
(* bitmaps, addresses or search order: a frame of the pool has at most one *)
(* holder, every frame given back can be given out again, and a request is *)
(* refused only when the whole pool is held.                               *)
(***************************************************************************)
EXTENDS Naturals

VARIABLES
    pool,    \* the frames the allocator manages
    held,    \* the frames given out and not given back
    answer   \* what the last request was answered: a frame, or NoFrame

vars == <<pool, held, answer>>

\* Frame 0 cannot be told from the null pointer, so it stands for "no frame".
NoFrame == 0

Init == pool = {} /\ held = {} /\ answer = NoFrame

\* The pool is fixed once, before any request.
Boot ==
    /\ pool = {} /\ held = {}
    /\ pool' \in SUBSET (Nat \ {NoFrame})
    /\ UNCHANGED <<held, answer>>

Grant ==
    \E f \in pool \ held :
        /\ held' = held \cup {f}
        /\ answer' = f
        /\ UNCHANGED pool

Refuse ==
    /\ pool \subseteq held
    /\ answer' = NoFrame
    /\ UNCHANGED <<pool, held>>

GiveBack ==
    \E f \in held :
        /\ held' = held \ {f}
        /\ UNCHANGED <<pool, answer>>

Next == Boot \/ Grant \/ Refuse \/ GiveBack

Spec == Init /\ [][Next]_vars
=============================================================================

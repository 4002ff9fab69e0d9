--------------------------- MODULE PageAllocator ---------------------------
(***************************************************************************)
(* What the physical memory manager promises its callers: once booted, a   *)
(* request is answered with the lowest free page, and is refused exactly   *)
(* when no page is free; a page given back can be given out again.         *)
(***************************************************************************)
EXTENDS Integers

CONSTANTS Pages,    \* the pages that may be handed out
          Null      \* the answer of a refused request

VARIABLES ready,    \* whether boot is over
          free,     \* the pages that can be handed out
          result    \* the last call and its answer

vars == <<ready, free, result>>

Init == ready = FALSE /\ free = {} /\ result = [call |-> "none", block |-> Null]

\* Boot decides once which pages are free.
Boot ==
    /\ ~ready /\ ready'
    /\ free' \in SUBSET Pages
    /\ UNCHANGED result

Alloc ==
    /\ ready
    /\ \E p \in free : /\ \A q \in free : p <= q
                       /\ free' = free \ {p}
                       /\ result' = [call |-> "alloc", block |-> p]
    /\ UNCHANGED ready

Refuse ==
    /\ ready /\ free = {}
    /\ result' = [call |-> "alloc", block |-> Null]
    /\ UNCHANGED <<ready, free>>

Free(p) ==
    /\ ready /\ p \notin free
    /\ free' = free \cup {p}
    /\ result' = [call |-> "free", block |-> p]
    /\ UNCHANGED ready

Next == Boot \/ Alloc \/ Refuse \/ \E p \in Pages : Free(p)

Spec == Init /\ [][Next]_vars

=============================================================================

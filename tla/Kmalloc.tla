------------------------------ MODULE Kmalloc ------------------------------
(***************************************************************************)
(* The kernel heap, src/src/mm/kmalloc.c: a singly linked list of block    *)
(* headers that lie in the heap itself.  Addresses are offsets from        *)
(* HEAP_START in bytes.  `heap' is the part of memory that holds headers:  *)
(* it maps the address of each header on the list to its fields, so        *)
(* following a pointer to anything else has no value.                      *)
(*                                                                         *)
(* The list walks of kmalloc and kfree are stepped iteration by iteration. *)
(***************************************************************************)
EXTENDS Integers

CONSTANTS
    HeapSize,       \* dynamic_heap_size after kmalloc_init has mapped the heap
    Requests,       \* sizes callers ask for
    SizeModulus,    \* 2^64: kmalloc's size_t arithmetic
    FieldModulus    \* 2^32: the width of a header's size field

NULL == -1
HeaderSize == 16     \* sizeof(block_header_t)
MinSplit   == 16     \* payload a split must leave

ASSUME HeapAssumption ==
    /\ HeapSize \in Nat /\ HeapSize > HeaderSize
    /\ Requests \subseteq Nat
    /\ SizeModulus \in Nat \ {0} /\ FieldModulus \in Nat \ {0}

VARIABLES
    heap,   \* the headers on the list: address -> [size, is_free, next]
    hpc,    \* "idle", "search" (in kmalloc's loop), "prev" (in kfree's loop)
    current,\* the loop cursor of either
    size,   \* kmalloc's aligned size
    block,  \* kfree's block
    asked,  \* history: the size the caller gave to the call in progress
    live    \* history: payload address -> size the caller asked for

heapVars == <<heap, hpc, current, size, block, asked, live>>

Addresses == 0 .. HeapSize - 1
Header == [size : Nat, is_free : BOOLEAN, next : Addresses \cup {NULL}]

End(a) == a + HeaderSize + heap[a].size
Payload(a) == a + HeaderSize

\* The end of kmalloc_init: one free block that fills the heap.
HeapInit ==
    /\ heap = [a \in {0} |-> [size |-> (HeapSize - HeaderSize) % FieldModulus,
                              is_free |-> TRUE, next |-> NULL]]
    /\ hpc = "idle" /\ current = NULL /\ size = 0 /\ block = NULL /\ asked = 0
    /\ live = [p \in {} |-> 0]

-----------------------------------------------------------------------------
\* Mutant: the size is rounded down.
Align4_Down(n) == 4 * ((n % SizeModulus) \div 4)

\* (size + 3) & ~3 in size_t arithmetic.
Align4(n) == 4 * (((n + 3) % SizeModulus) \div 4)

\* kmalloc, up to its loop.  A request for nothing returns NULL at once.
kmalloc(n) ==
    /\ hpc = "idle" /\ n # 0
    /\ hpc' = "search" /\ asked' = n
    /\ size' = Align4(n)
    /\ current' = 0
    /\ UNCHANGED <<heap, block, live>>

\* Mutant: a block that fits exactly is passed over.
Fits_Strict(a) == heap[a].is_free /\ heap[a].size > size

Fits(a) == heap[a].is_free /\ heap[a].size >= size

\* Mutant: an allocated block is skipped without moving the cursor.
SearchMiss_Continue ==
    /\ hpc = "search" /\ current # NULL /\ ~Fits(current)
    /\ current' = IF heap[current].is_free THEN heap[current].next ELSE current
    /\ UNCHANGED <<heap, hpc, size, block, asked, live>>

SearchMiss ==
    /\ hpc = "search" /\ current # NULL /\ ~Fits(current)
    /\ current' = heap[current].next
    /\ UNCHANGED <<heap, hpc, size, block, asked, live>>

\* Mutant: the new header is not taken off the rest.
Split_NoHeader(a) ==
    LET rest == a + HeaderSize + size
    IN  [x \in DOMAIN heap \cup {rest} |->
            CASE x = rest -> [size |-> heap[a].size - size,
                              is_free |-> TRUE, next |-> heap[a].next]
              [] x = a -> [size |-> size, is_free |-> FALSE, next |-> rest]
              [] OTHER -> heap[x]]

\* The list after block a is cut to `size' bytes; the rest becomes a free block.
Split(a) ==
    LET rest == a + HeaderSize + size
    IN  [x \in DOMAIN heap \cup {rest} |->
            CASE x = rest -> [size |-> heap[a].size - size - HeaderSize,
                              is_free |-> TRUE, next |-> heap[a].next]
              [] x = a -> [size |-> size, is_free |-> FALSE, next |-> rest]
              [] OTHER -> heap[x]]

Take(a) == [heap EXCEPT ![a].is_free = FALSE]

CanSplit(a) == heap[a].size >= size + HeaderSize + MinSplit

\* The first block that fits is split if enough remains, and returned.
SearchHit ==
    /\ hpc = "search" /\ current # NULL /\ Fits(current)
    /\ heap' = IF CanSplit(current) THEN Split(current) ELSE Take(current)
    /\ live' = [p \in DOMAIN live \cup {Payload(current)} |->
                    IF p = Payload(current) THEN asked ELSE live[p]]
    /\ hpc' = "idle" /\ current' = NULL /\ size' = 0 /\ asked' = 0
    /\ UNCHANGED block

\* Out of memory: kmalloc returns NULL.
SearchEnd ==
    /\ hpc = "search" /\ current = NULL
    /\ hpc' = "idle" /\ size' = 0 /\ asked' = 0
    /\ UNCHANGED <<heap, current, block, live>>

-----------------------------------------------------------------------------
\* Block a swallows the next block n on the list.
Merge(a, n) ==
    [x \in DOMAIN heap \ {n} |->
        IF x = a THEN [size |-> heap[a].size + HeaderSize + heap[n].size,
                       is_free |-> TRUE, next |-> heap[n].next]
                 ELSE heap[x]]

\* Mutant: kfree does not join the block with its successor.
kfree_NoForwardMerge(p) ==
    /\ hpc = "idle" /\ p \in DOMAIN live
    /\ heap' = [heap EXCEPT ![p - HeaderSize].is_free = TRUE]
    /\ block' = p - HeaderSize
    /\ live' = [q \in DOMAIN live \ {p} |-> live[q]]
    /\ hpc' = "prev" /\ current' = 0
    /\ UNCHANGED <<size, asked>>

\* kfree, up to its loop: the block is freed and joined with a free successor.
\* Callers free what kmalloc gave them, once.
kfree(p) ==
    /\ hpc = "idle" /\ p \in DOMAIN live
    /\ LET b == p - HeaderSize
           n == heap[b].next
       IN  /\ heap' = IF n # NULL /\ heap[n].is_free
                      THEN Merge(b, n)
                      ELSE [heap EXCEPT ![b].is_free = TRUE]
           /\ block' = b
    /\ live' = [q \in DOMAIN live \ {p} |-> live[q]]
    /\ hpc' = "prev" /\ current' = 0
    /\ UNCHANGED <<size, asked>>

PrevWalk ==
    /\ hpc = "prev" /\ current \notin {NULL, block} /\ heap[current].next # block
    /\ current' = heap[current].next
    /\ UNCHANGED <<heap, hpc, size, block, asked, live>>

\* The predecessor swallows the block if it is free.
PrevFound ==
    /\ hpc = "prev" /\ current \notin {NULL, block} /\ heap[current].next = block
    /\ heap' = IF heap[current].is_free THEN Merge(current, block) ELSE heap
    /\ hpc' = "idle" /\ current' = NULL /\ block' = NULL
    /\ UNCHANGED <<size, asked, live>>

\* The block is the first of the list (or the walk ran off its end).
PrevNone ==
    /\ hpc = "prev" /\ current \in {NULL, block}
    /\ hpc' = "idle" /\ current' = NULL /\ block' = NULL
    /\ UNCHANGED <<heap, size, asked, live>>

Step == SearchMiss \/ SearchHit \/ SearchEnd \/ PrevWalk \/ PrevFound \/ PrevNone

HeapNext ==
    \/ \E n \in Requests : kmalloc(n)
    \/ \E p \in DOMAIN live : kfree(p)
    \/ Step

\* A call that has begun goes on: the heap is used from one thread of control
\* and its loops contain no wait.
HeapFairness == WF_heapVars(Step)

HeapSpec == HeapInit /\ [][HeapNext]_heapVars
HeapFairSpec == HeapSpec /\ HeapFairness

-----------------------------------------------------------------------------
(* Properties.                                                             *)

\* Types; the list starts at HEAP_START and every link leads to a header.
HeapTypeOK ==
    /\ hpc \in {"idle", "search", "prev"}
    /\ 0 \in DOMAIN heap /\ DOMAIN heap \subseteq Addresses
    /\ heap \in [DOMAIN heap -> Header]
    /\ \A a \in DOMAIN heap : heap[a].next \in DOMAIN heap \cup {NULL}
    /\ current \in DOMAIN heap \cup {NULL}
    /\ hpc = "prev" => block \in DOMAIN heap
    /\ size \in Nat /\ asked \in Nat
    /\ DOMAIN live \subseteq Nat
    /\ \A p \in DOMAIN live : p - HeaderSize \in DOMAIN heap /\ live[p] \in Nat

\* The blocks tile the heap in list order: each link leads to the byte where the
\* block ends, only the last block ends the heap, and no two blocks overlap.
\* kmalloc's split and both merges of kfree must get four fields right for this.
Tiled ==
    /\ \A a \in DOMAIN heap :
          heap[a].next = IF End(a) = HeapSize THEN NULL ELSE End(a)
    /\ \A a, b \in DOMAIN heap : a < b => End(a) <= b

\* What callers hold never overlaps: the bytes asked for lie inside the heap,
\* inside one allocated block, and clear of every header and of each other.
PayloadsDisjoint ==
    \A p \in DOMAIN live :
        /\ p + live[p] <= HeapSize
        /\ \A a \in DOMAIN heap : a + HeaderSize <= p \/ p + live[p] <= a
        /\ \A q \in DOMAIN live : p < q => p + live[p] <= q - HeaderSize

\* Between calls no two neighbours are both free: kfree leaves no seam in either
\* direction, so free memory is never more fragmented than the live blocks make it.
Coalesced ==
    hpc = "idle" => \A a \in DOMAIN heap :
        heap[a].is_free /\ heap[a].next # NULL => ~heap[heap[a].next].is_free

\* After everything has been freed, in whatever order, the heap is one block again.
AllFreedIsWhole ==
    hpc = "idle" /\ live = [p \in {} |-> 0] =>
        DOMAIN heap = {0} /\ heap[0].size = HeapSize - HeaderSize

\* kmalloc gives up only when no free block is large enough, and what it returns
\* is the first block of the list that is.
FirstFit ==
    [][/\ SearchEnd => \A a \in DOMAIN heap : heap[a].is_free => heap[a].size < size
       /\ SearchHit => \A a \in DOMAIN heap :
                          a < current /\ heap[a].is_free => heap[a].size < size]_heapVars

\* Every call returns: neither walk runs round a cycle.
CallsReturn == hpc # "idle" ~> hpc = "idle"

=============================================================================

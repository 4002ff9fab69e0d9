--------------------------- MODULE KmallocProofs ---------------------------
(***************************************************************************)
(* Proofs about the kernel heap for every heap size and every set of       *)
(* requests.  The walks are loops, so the inductive invariant says what a  *)
(* walk has established about the blocks behind its cursor: kmalloc has    *)
(* seen that they do not fit, kfree that none is the freed block's         *)
(* predecessor.  The only seam a call may leave open while it runs is the  *)
(* one between the freed block and its predecessor.                        *)
(***************************************************************************)
EXTENDS Kmalloc, TLAPS

\* The heap's size fits a header's size field, and no request is so close to the
\* largest size_t that rounding it up wraps.
RequestsFit ==
    /\ HeapSize - HeaderSize < FieldModulus
    /\ \A n \in Requests : n + 3 < SizeModulus

\* Allocated blocks are the live ones and hold what was asked for.
LiveInv ==
    /\ \A p \in DOMAIN live : /\ ~heap[p - HeaderSize].is_free
                              /\ live[p] <= heap[p - HeaderSize].size
    /\ \A a \in DOMAIN heap : ~heap[a].is_free => Payload(a) \in DOMAIN live

\* What kmalloc's loop has found out so far.
SearchInv ==
    hpc = "search" =>
        /\ asked <= size
        /\ \A a \in DOMAIN heap : current = NULL \/ a < current =>
               (heap[a].is_free => heap[a].size < size)

\* Where kfree's loop stands.
PrevInv ==
    hpc = "prev" =>
        /\ heap[block].is_free
        /\ current \in DOMAIN heap /\ current <= block
        /\ current = block => block = 0

\* Seams between free blocks: none, or the one kfree is about to close.
Seamless ==
    \A a \in DOMAIN heap :
        heap[a].is_free /\ heap[a].next # NULL /\ heap[heap[a].next].is_free =>
            hpc = "prev" /\ heap[a].next = block

KInv == HeapTypeOK /\ Tiled /\ LiveInv /\ SearchInv /\ PrevInv /\ Seamless

-----------------------------------------------------------------------------
\* The types of one block, in the form the provers use.
LEMMA BlockFacts ==
    ASSUME HeapTypeOK, Tiled, NEW a \in DOMAIN heap
    PROVE  /\ a \in Nat /\ a < HeapSize /\ HeapSize \in Nat
           /\ heap[a].size \in Nat /\ heap[a].is_free \in BOOLEAN
           /\ End(a) \in Nat /\ End(a) <= HeapSize
           /\ heap[a].next # NULL =>
                 heap[a].next \in DOMAIN heap /\ heap[a].next = End(a) /\ End(a) < HeapSize
           /\ heap[a].next = NULL => End(a) = HeapSize
<1>1. a \in Nat /\ a < HeapSize /\ HeapSize \in Nat
  BY HeapAssumption DEF HeapTypeOK, Addresses
<1>2. heap[a] \in Header  BY DEF HeapTypeOK
<1>3. heap[a].size \in Nat /\ heap[a].is_free \in BOOLEAN  BY <1>2 DEF Header
<1>4. End(a) \in Nat  BY <1>1, <1>3 DEF End, HeaderSize
<1>5. heap[a].next \in DOMAIN heap \cup {NULL}  BY DEF HeapTypeOK
<1>6. heap[a].next = IF End(a) = HeapSize THEN NULL ELSE End(a)  BY DEF Tiled
<1>7. \A x \in DOMAIN heap : x \in Nat /\ x < HeapSize
  BY HeapAssumption DEF HeapTypeOK, Addresses
<1> QED  BY <1>1, <1>3, <1>4, <1>5, <1>6, <1>7 DEF NULL

LEMMA LiveInt ==
    ASSUME KInv, NEW p \in DOMAIN live
    PROVE  p \in Int
BY DEF KInv, HeapTypeOK

\* A step that leaves the list alone preserves what is said of the list alone.
LEMMA SameHeap ==
    ASSUME KInv, heap' = heap, live' = live
    PROVE  Tiled' /\ LiveInv'
BY DEF KInv, Tiled, End, LiveInv, Payload

LEMMA InitKInv == RequestsFit /\ HeapInit => KInv
<1> SUFFICES ASSUME RequestsFit, HeapInit PROVE KInv  OBVIOUS
<1>1. (HeapSize - HeaderSize) % FieldModulus = HeapSize - HeaderSize
  BY HeapAssumption DEF RequestsFit, HeaderSize
<1>2. /\ DOMAIN heap = {0}
      /\ heap[0] = [size |-> HeapSize - HeaderSize, is_free |-> TRUE, next |-> NULL]
      /\ heap = [a \in {0} |-> heap[0]]
  BY <1>1 DEF HeapInit
<1>3. heap[0] \in Header
  BY <1>2, HeapAssumption DEF Header, HeaderSize, Addresses
<1>4. HeapTypeOK
  <2>1. DOMAIN live = {}  BY DEF HeapInit
  <2> QED  BY <1>2, <1>3, <2>1, HeapAssumption DEF HeapTypeOK, HeapInit, Addresses, HeaderSize
<1>5. Tiled  BY <1>2, HeapAssumption DEF Tiled, End, HeaderSize
<1>6. LiveInv /\ SearchInv /\ PrevInv /\ Seamless
  BY <1>2 DEF HeapInit, LiveInv, SearchInv, PrevInv, Seamless
<1> QED  BY <1>4, <1>5, <1>6 DEF KInv

LEMMA KmallocKInv ==
    ASSUME RequestsFit, KInv, NEW n \in Requests, kmalloc(n)
    PROVE  KInv'
<1> USE DEF kmalloc
<1>1. n \in Nat /\ n + 3 < SizeModulus /\ SizeModulus \in Nat
  BY HeapAssumption DEF RequestsFit
<1>2. (n + 3) % SizeModulus = n + 3  BY <1>1
<1>3. size' \in Nat /\ n <= size'  BY <1>1, <1>2 DEF Align4
<1>4. HeapTypeOK'  BY <1>1, <1>3 DEF KInv, HeapTypeOK
<1>5. Tiled' /\ LiveInv'  BY SameHeap
<1>6. SearchInv'
  <2>1. \A a \in DOMAIN heap : ~(a < 0) /\ 0 # NULL  BY BlockFacts DEF KInv, NULL
  <2> QED  BY <1>3, <2>1 DEF SearchInv
<1>7. PrevInv' /\ Seamless'  BY DEF KInv, PrevInv, Seamless
<1> QED  BY <1>4, <1>5, <1>6, <1>7 DEF KInv

\* kmalloc's cursor passes a block that does not fit.
LEMMA SearchMissKInv == KInv /\ SearchMiss => KInv'
<1> SUFFICES ASSUME KInv, SearchMiss PROVE KInv'  OBVIOUS
<1> USE DEF SearchMiss
<1>0. current \in DOMAIN heap /\ hpc' = "search"  BY DEF KInv, HeapTypeOK
<1>1. HeapTypeOK'  BY <1>0 DEF KInv, HeapTypeOK
<1>2. Tiled' /\ LiveInv'  BY SameHeap
<1>3. SearchInv'
  <2> SUFFICES ASSUME NEW a \in DOMAIN heap, current' = NULL \/ a < current',
                      heap[a].is_free
               PROVE  heap[a].size < size
    BY DEF KInv, SearchInv
  <2>1. a \in Nat /\ current \in Nat /\ current # NULL /\ size \in Nat
        /\ heap[a].size \in Nat
    BY <1>0, BlockFacts DEF KInv, NULL, HeapTypeOK
  <2>2. ~(current < a)
    <3>1. SUFFICES ASSUME current < a PROVE FALSE  OBVIOUS
    <3>2. End(current) <= a  BY <1>0, <3>1 DEF KInv, Tiled
    <3>3. a < HeapSize /\ End(current) \in Nat  BY <1>0, BlockFacts DEF KInv
    <3>4. current' = NULL \/ current' = End(current)
      BY <1>0, BlockFacts DEF KInv
    <3>5. current' = NULL => End(current) = HeapSize
      BY <1>0, BlockFacts DEF KInv
    <3>6. HeapSize \in Nat  BY HeapAssumption
    <3> QED  BY <2>1, <3>2, <3>3, <3>4, <3>5, <3>6
  <2>3. CASE a = current
    BY <2>1, <2>3 DEF Fits
  <2>4. CASE a < current
    BY <2>4, <1>0 DEF KInv, SearchInv
  <2> QED  BY <2>1, <2>2, <2>3, <2>4
<1>4. PrevInv' /\ Seamless'  BY DEF KInv, PrevInv, Seamless
<1> QED  BY <1>1, <1>2, <1>3, <1>4 DEF KInv

LEMMA SearchEndKInv == KInv /\ SearchEnd => KInv'
<1> SUFFICES ASSUME KInv, SearchEnd PROVE KInv'  OBVIOUS
<1> USE DEF SearchEnd
<1>1. HeapTypeOK'  BY DEF KInv, HeapTypeOK
<1>2. Tiled' /\ LiveInv'  BY SameHeap
<1>3. SearchInv' /\ PrevInv' /\ Seamless'
  BY DEF KInv, SearchInv, PrevInv, Seamless
<1> QED  BY <1>1, <1>2, <1>3 DEF KInv

-----------------------------------------------------------------------------
\* kmalloc returns the block at its cursor: the bookkeeping common to both cases.
LEMMA TakenLive ==
    ASSUME KInv, SearchHit, DOMAIN heap \subseteq DOMAIN heap',
           NEW a, a = current,
           heap'[a].size \in Nat, size <= heap'[a].size, ~heap'[a].is_free,
           \A x \in DOMAIN heap \ {a} : heap'[x] = heap[x],
           \A x \in DOMAIN heap' \ DOMAIN heap : heap'[x].is_free
    PROVE  LiveInv'
<1> DEFINE q == Payload(a)
<1>1. a \in DOMAIN heap /\ a \in Nat /\ q = a + HeaderSize /\ q - HeaderSize = a
  BY BlockFacts DEF SearchHit, KInv, HeapTypeOK, Payload, HeaderSize
<1>2. asked <= size /\ size \in Nat /\ asked \in Nat
  BY DEF KInv, SearchInv, HeapTypeOK, SearchHit
<1>3. /\ DOMAIN live' = DOMAIN live \cup {q}
      /\ live'[q] = asked
      /\ \A p \in DOMAIN live : p # q => live'[p] = live[p]
  BY DEF SearchHit
<1>4. ASSUME NEW p \in DOMAIN live'
      PROVE  ~heap'[p - HeaderSize].is_free /\ live'[p] <= heap'[p - HeaderSize].size
  <2>1. CASE p = q  BY <1>1, <1>2, <1>3, <2>1
  <2>2. CASE p # q
    <3>1. p \in DOMAIN live /\ p - HeaderSize \in DOMAIN heap
      BY <1>3, <2>2 DEF KInv, HeapTypeOK
    <3>2. p - HeaderSize # a
      <4>1. ~heap[p - HeaderSize].is_free  BY <3>1 DEF KInv, LiveInv
      <4>2. heap[a].is_free  BY DEF SearchHit, Fits
      <4> QED  BY <4>1, <4>2
    <3> QED  BY <1>3, <2>2, <3>1, <3>2 DEF KInv, LiveInv
  <2> QED  BY <2>1, <2>2
<1>5. ASSUME NEW x \in DOMAIN heap', ~heap'[x].is_free
      PROVE  x + HeaderSize \in DOMAIN live'
  <2>1. CASE x = a  BY <1>1, <1>3, <2>1
  <2>2. CASE x # a
    <3>1. x \in DOMAIN heap /\ heap'[x] = heap[x]  BY <1>5, <2>2
    <3>2. Payload(x) \in DOMAIN live  BY <1>5, <3>1 DEF KInv, LiveInv
    <3> QED  BY <1>3, <3>2 DEF Payload
  <2> QED  BY <2>1, <2>2
<1> QED  BY <1>4, <1>5 DEF LiveInv, Payload

LEMMA SearchHitKInv == KInv /\ SearchHit => KInv'
<1> SUFFICES ASSUME KInv, SearchHit PROVE KInv'  OBVIOUS
<1>a. PICK a, rest : a = current /\ rest = a + HeaderSize + size  OBVIOUS
<1>0. /\ a = current /\ rest = a + HeaderSize + size /\ hpc = "search" /\ a \in DOMAIN heap /\ heap[a].is_free /\ heap[a].size >= size
      /\ hpc' = "idle" /\ current' = NULL /\ size' = 0 /\ asked' = 0 /\ block' = block
      /\ size \in Nat
  BY <1>a DEF SearchHit, Fits, KInv, HeapTypeOK
<1>1. /\ a \in Nat /\ a < HeapSize /\ HeapSize \in Nat /\ heap[a].size \in Nat
      /\ End(a) = a + HeaderSize + heap[a].size /\ End(a) <= HeapSize
  BY <1>0, BlockFacts DEF KInv, End
<1>2. SearchInv' /\ PrevInv'  BY <1>0 DEF SearchInv, PrevInv
<1>3. \A p \in DOMAIN live' : p \in Nat /\ p - HeaderSize \in DOMAIN heap /\ live'[p] \in Nat
  BY <1>0, <1>1 DEF SearchHit, KInv, HeapTypeOK, Payload, HeaderSize
<1>4. CASE CanSplit(a)
  <2>0. heap' = Split(a)  BY <1>0, <1>4 DEF SearchHit
  <2>1. rest \in Nat /\ a < rest /\ rest + HeaderSize < End(a) /\ rest < HeapSize
    BY <1>0, <1>1, <1>4 DEF CanSplit, HeaderSize, MinSplit
  <2>2. rest \notin DOMAIN heap
    BY <1>0, <1>1, <2>1 DEF KInv, Tiled, HeaderSize
  <2>3. /\ DOMAIN heap' = DOMAIN heap \cup {rest}
        /\ heap'[rest] = [size |-> heap[a].size - size - HeaderSize,
                          is_free |-> TRUE, next |-> heap[a].next]
        /\ heap'[a] = [size |-> size, is_free |-> FALSE, next |-> rest]
        /\ \A x \in DOMAIN heap \ {a} : heap'[x] = heap[x]
        /\ heap' = [x \in DOMAIN heap' |-> heap'[x]]
    BY <1>0, <2>0, <2>1, <2>2 DEF Split
  <2>4. heap'[rest].size \in Nat
    BY <1>0, <1>1, <1>4, <2>3 DEF CanSplit, HeaderSize, MinSplit
  <2>5. HeapTypeOK'
    <3>1. 0 \in DOMAIN heap' /\ DOMAIN heap' \subseteq Addresses
      BY <1>1, <2>1, <2>3 DEF KInv, HeapTypeOK, Addresses
    <3>2. ASSUME NEW x \in DOMAIN heap'
          PROVE  heap'[x] \in Header /\ heap'[x].next \in DOMAIN heap' \cup {NULL}
      <4>1. CASE x = rest
        <5>1. heap[a] \in Header /\ heap[a].next \in DOMAIN heap \cup {NULL}
          BY <1>0 DEF KInv, HeapTypeOK
        <5>2. heap[a].next \in Addresses \cup {NULL}  BY <5>1 DEF Header
        <5>3. heap'[rest].size \in Nat /\ heap[a].size - size - HeaderSize \in Nat
          BY <2>3, <2>4
        <5>4. heap'[rest] \in Header  BY <2>3, <5>2, <5>3 DEF Header
        <5>5. heap'[rest].next = heap[a].next /\ DOMAIN heap' = DOMAIN heap \cup {rest}
          BY <2>3
        <5>6. heap'[rest].next \in DOMAIN heap' \cup {NULL}  BY <5>1, <5>5
        <5> QED  BY <4>1, <5>4, <5>6
      <4>2. CASE x = a
        <5>1. rest \in Addresses  BY <1>1, <2>1 DEF Addresses
        <5>2. heap'[a] \in Header  BY <1>0, <2>3, <5>1 DEF Header
        <5> QED  BY <2>3, <4>2, <5>2
      <4>3. CASE x # a /\ x # rest
        BY <2>3, <4>3 DEF KInv, HeapTypeOK
      <4> QED  BY <4>1, <4>2, <4>3
    <3>3. heap' \in [DOMAIN heap' -> Header]  BY <2>3, <3>2
    <3> QED  BY <1>0, <1>3, <2>3, <3>1, <3>2, <3>3 DEF HeapTypeOK
  <2>6. /\ End(rest)' = End(a) /\ End(a)' = rest
        /\ \A x \in DOMAIN heap \ {a} : End(x)' = End(x)
    BY <1>0, <1>1, <2>1, <2>3 DEF End, HeaderSize
  <2>7. Tiled'
    <3>1. ASSUME NEW x \in DOMAIN heap'
          PROVE  heap'[x].next = IF End(x)' = HeapSize THEN NULL ELSE End(x)'
      <4>1. CASE x = rest
        BY <1>0, <2>3, <2>6, <4>1 DEF KInv, Tiled
      <4>2. CASE x = a
        BY <1>1, <2>1, <2>3, <2>6, <4>2
      <4>3. CASE x # a /\ x # rest
        BY <2>3, <2>6, <4>3 DEF KInv, Tiled
      <4> QED  BY <4>1, <4>2, <4>3
    <3>2. ASSUME NEW x \in DOMAIN heap', NEW y \in DOMAIN heap', x < y
          PROVE  End(x)' <= y
      <4>0. ASSUME NEW z \in DOMAIN heap PROVE z \in Nat /\ End(z) \in Nat
        BY <4>0, BlockFacts DEF KInv
      <4>1. CASE x = rest
        <5>1. y \in DOMAIN heap /\ a < y  BY <1>1, <2>1, <2>3, <3>2, <4>0, <4>1
        <5> QED  BY <1>0, <2>6, <4>1, <5>1 DEF KInv, Tiled
      <4>2. CASE x = a /\ y = rest  BY <2>1, <2>6, <4>2
      <4>3. CASE x = a /\ y # rest
        <5>1. y \in DOMAIN heap /\ End(a) <= y
          BY <1>0, <2>3, <3>2, <4>3 DEF KInv, Tiled
        <5> QED  BY <1>1, <2>1, <2>6, <4>0, <4>3, <5>1 DEF HeaderSize
      <4>4. CASE x # a /\ x # rest /\ y = rest
        <5>1. x \in DOMAIN heap /\ x \in Nat /\ End(x) \in Nat  BY <2>3, <4>0, <4>4
        <5>2. x < a
          <6>1. SUFFICES ASSUME a < x PROVE FALSE  BY <1>1, <4>4, <5>1
          <6>2. End(a) <= x  BY <1>0, <5>1, <6>1 DEF KInv, Tiled
          <6> QED  BY <1>1, <2>1, <3>2, <4>4, <5>1, <6>2 DEF HeaderSize
        <5>3. End(x) <= a  BY <1>0, <5>1, <5>2 DEF KInv, Tiled
        <5> QED  BY <1>1, <2>1, <2>6, <4>4, <5>1, <5>3
      <4>5. CASE x # a /\ x # rest /\ y # rest
        BY <2>3, <2>6, <3>2, <4>5 DEF KInv, Tiled
      <4> QED  BY <4>1, <4>2, <4>3, <4>4, <4>5
    <3> QED  BY <3>1, <3>2 DEF Tiled
  <2>8. LiveInv'
    <3>1. heap'[a].size = size  BY <2>3
    <3> QED  BY <1>0, <2>3, <3>1, TakenLive
  <2>9. Seamless'
    <3> SUFFICES ASSUME NEW x \in DOMAIN heap', heap'[x].is_free,
                        heap'[x].next # NULL, heap'[heap'[x].next].is_free
                 PROVE  FALSE
      BY DEF Seamless
    <3>1. CASE x = rest
      <4>1. heap[a].next # NULL /\ heap'[rest].next = heap[a].next  BY <2>3, <3>1
      <4>2. heap[a].next \in DOMAIN heap /\ heap[a].next = End(a)
        BY <1>0, <4>1, BlockFacts DEF KInv
      <4>3. heap[a].next # a  BY <1>1, <4>2 DEF HeaderSize
      <4>4. heap[heap[a].next].is_free  BY <2>3, <3>1, <4>1, <4>2, <4>3
      <4> QED  BY <1>0, <4>1, <4>4 DEF KInv, Seamless
    <3>2. CASE x = a  BY <2>3, <3>2
    <3>3. CASE x # a /\ x # rest
      <4>1. x \in DOMAIN heap /\ heap'[x] = heap[x]  BY <2>3, <3>3
      <4>2. heap[x].next \in DOMAIN heap  BY <4>1 DEF KInv, HeapTypeOK
      <4>3. heap[x].next # a  BY <2>3, <4>1
      <4> QED  BY <1>0, <2>3, <4>1, <4>2, <4>3 DEF KInv, Seamless
    <3> QED  BY <3>1, <3>2, <3>3
  <2> QED  BY <1>2, <2>5, <2>7, <2>8, <2>9 DEF KInv
<1>5. CASE ~CanSplit(a)
  <2>1. /\ DOMAIN heap' = DOMAIN heap /\ heap' = [x \in DOMAIN heap |-> heap'[x]]
        /\ heap'[a] = [heap[a] EXCEPT !.is_free = FALSE]
        /\ \A x \in DOMAIN heap \ {a} : heap'[x] = heap[x]
    BY <1>0, <1>5 DEF SearchHit, Take, KInv, HeapTypeOK
  <2>2. heap[a] \in Header  BY <1>0 DEF KInv, HeapTypeOK
  <2>3. /\ heap'[a] \in Header /\ heap'[a].size = heap[a].size
        /\ heap'[a].next = heap[a].next /\ ~heap'[a].is_free
    BY <2>1, <2>2 DEF Header
  <2>4. HeapTypeOK'
    <3>1. \A x \in DOMAIN heap : heap'[x] \in Header /\ heap'[x].next = heap[x].next
      BY <2>1, <2>3 DEF KInv, HeapTypeOK
    <3> QED  BY <1>0, <1>3, <2>1, <3>1 DEF KInv, HeapTypeOK
  <2>5. Tiled'
    <3>1. \A x \in DOMAIN heap : End(x)' = End(x) /\ heap'[x].next = heap[x].next
      BY <2>1, <2>3 DEF End
    <3> QED  BY <2>1, <3>1 DEF KInv, Tiled
  <2>6. LiveInv'
    <3>1. heap'[a].size \in Nat /\ size <= heap'[a].size  BY <1>0, <1>1, <2>3
    <3> QED  BY <1>0, <2>1, <2>3, <3>1, TakenLive
  <2>7. Seamless'
    <3> SUFFICES ASSUME NEW x \in DOMAIN heap, heap'[x].is_free,
                        heap'[x].next # NULL, heap'[heap'[x].next].is_free
                 PROVE  FALSE
      BY <2>1 DEF Seamless
    <3>1. x # a /\ heap'[x] = heap[x]  BY <2>1, <2>3
    <3>2. heap[x].next \in DOMAIN heap  BY <3>1 DEF KInv, HeapTypeOK
    <3>3. heap[x].next # a  BY <2>3, <3>1
    <3> QED  BY <1>0, <2>1, <3>1, <3>2, <3>3 DEF KInv, Seamless
  <2> QED  BY <1>2, <2>4, <2>5, <2>6, <2>7 DEF KInv
<1> QED  BY <1>4, <1>5

-----------------------------------------------------------------------------
\* Joining two neighbours keeps the tiling: the list after Merge(a, n).
LEMMA MergeTiles ==
    ASSUME KInv, NEW a \in DOMAIN heap, NEW n \in DOMAIN heap,
           heap[a].next = n, heap' = Merge(a, n)
    PROVE  /\ DOMAIN heap' = DOMAIN heap \ {n} /\ a < n /\ n # 0
           /\ heap'[a].is_free /\ heap'[a].next = heap[n].next
           /\ \A x \in DOMAIN heap \ {a, n} : heap'[x] = heap[x]
           /\ Tiled'
           /\ heap' \in [DOMAIN heap' -> Header]
           /\ \A x \in DOMAIN heap' : heap'[x].next \in DOMAIN heap' \cup {NULL}
<1>0. ASSUME NEW x \in DOMAIN heap
      PROVE  /\ x \in Nat /\ x < HeapSize /\ heap[x].size \in Nat
             /\ End(x) \in Nat /\ End(x) = x + HeaderSize + heap[x].size
             /\ End(x) <= HeapSize /\ HeapSize \in Nat /\ x < End(x)
             /\ heap[x] \in Header
  BY <1>0, BlockFacts DEF KInv, HeapTypeOK, End, HeaderSize
<1>1. n = End(a) /\ a < n /\ n # NULL
  <2>1. n # NULL  BY <1>0 DEF NULL
  <2> QED  BY <1>0, <2>1, BlockFacts DEF KInv
<1>2. n # 0  BY <1>0, <1>1
<1>3. /\ DOMAIN heap' = DOMAIN heap \ {n}
      /\ heap'[a] = [size |-> heap[a].size + HeaderSize + heap[n].size,
                     is_free |-> TRUE, next |-> heap[n].next]
      /\ \A x \in DOMAIN heap \ {a, n} : heap'[x] = heap[x]
      /\ heap' = [x \in DOMAIN heap' |-> heap'[x]]
  BY <1>0, <1>1 DEF Merge
<1>4. /\ End(a)' = End(n)
      /\ \A x \in DOMAIN heap \ {a, n} : End(x)' = End(x)
  BY <1>0, <1>1, <1>3 DEF End, HeaderSize
<1>5. ASSUME NEW x \in DOMAIN heap, x # a
      PROVE  heap[x].next # n
  <2>1. SUFFICES ASSUME heap[x].next = n PROVE FALSE  OBVIOUS
  <2>2. End(x) = n  BY <1>1, <2>1, BlockFacts DEF KInv
  <2>3. CASE x < a  BY <1>0, <1>1, <2>2, <2>3 DEF KInv, Tiled
  <2>4. CASE a < x  BY <1>0, <1>1, <2>2, <2>4 DEF KInv, Tiled
  <2> QED  BY <1>0, <1>5, <2>3, <2>4
<1>6. heap[n].next # n
  <2>1. CASE heap[n].next = NULL  BY <1>1, <2>1
  <2>2. CASE heap[n].next # NULL
    BY <1>0, <2>2, BlockFacts DEF KInv
  <2> QED  BY <2>1, <2>2
<1>7. Tiled'
  <2>1. ASSUME NEW x \in DOMAIN heap'
        PROVE  heap'[x].next = IF End(x)' = HeapSize THEN NULL ELSE End(x)'
    <3>1. CASE x = a  BY <1>3, <1>4, <3>1 DEF KInv, Tiled
    <3>2. CASE x # a  BY <1>3, <1>4, <3>2 DEF KInv, Tiled
    <3> QED  BY <3>1, <3>2
  <2>2. ASSUME NEW x \in DOMAIN heap', NEW y \in DOMAIN heap', x < y
        PROVE  End(x)' <= y
    <3>0. x \in DOMAIN heap /\ y \in DOMAIN heap /\ x # n /\ y # n  BY <1>3
    <3>1. CASE x = a
      <4>1. End(a) <= y  BY <2>2, <3>0, <3>1 DEF KInv, Tiled
      <4>2. n < y  BY <1>0, <1>1, <3>0, <4>1
      <4>3. End(n) <= y  BY <3>0, <4>2 DEF KInv, Tiled
      <4> QED  BY <1>4, <3>1, <4>3
    <3>2. CASE x # a  BY <1>4, <2>2, <3>0, <3>2 DEF KInv, Tiled
    <3> QED  BY <3>1, <3>2
  <2> QED  BY <2>1, <2>2 DEF Tiled
<1>8. ASSUME NEW x \in DOMAIN heap'
      PROVE  heap'[x] \in Header /\ heap'[x].next \in DOMAIN heap' \cup {NULL}
  <2>1. CASE x = a
    <3>1. heap[n].next \in DOMAIN heap \cup {NULL} /\ heap[n].next \in Addresses \cup {NULL}
      BY DEF KInv, HeapTypeOK
    <3>2. heap[a].size + HeaderSize + heap[n].size \in Nat  BY <1>0 DEF HeaderSize
    <3>3. heap'[a] \in Header  BY <1>3, <3>1, <3>2 DEF Header
    <3>4. heap'[a].next = heap[n].next /\ DOMAIN heap' = DOMAIN heap \ {n}  BY <1>3
    <3>5. heap'[a].next \in DOMAIN heap' \cup {NULL}  BY <1>6, <3>1, <3>4
    <3> QED  BY <2>1, <3>3, <3>5
  <2>2. CASE x # a
    <3>1. x \in DOMAIN heap /\ heap'[x] = heap[x]  BY <1>3, <2>2
    <3> QED  BY <1>0, <1>3, <1>5, <2>2, <3>1 DEF KInv, HeapTypeOK
  <2> QED  BY <2>1, <2>2
<1>9. heap' \in [DOMAIN heap' -> Header]  BY <1>3, <1>8
<1> QED  BY <1>1, <1>2, <1>3, <1>7, <1>8, <1>9

\* kfree marks its block free and joins it with a free successor.
LEMMA KfreeKInv ==
    ASSUME KInv, NEW p \in DOMAIN live, kfree(p)
    PROVE  KInv'
<1> DEFINE b == p - HeaderSize
           n == heap[b].next
<1>a. PICK c, m : c = b /\ m = n  OBVIOUS
<1>0. /\ hpc = "idle" /\ hpc' = "prev" /\ current' = 0 /\ block' = c
      /\ size' = size /\ asked' = asked
      /\ live' = [q \in DOMAIN live \ {p} |-> live[q]]
      /\ c = p - HeaderSize /\ m = heap[c].next
      /\ heap' = IF m # NULL /\ heap[m].is_free THEN Merge(c, m)
                 ELSE [heap EXCEPT ![c].is_free = TRUE]
  BY <1>a DEF kfree
<1>1. c \in DOMAIN heap /\ ~heap[c].is_free /\ 0 \in DOMAIN heap
  BY <1>0 DEF KInv, HeapTypeOK, LiveInv
<1>2. ASSUME NEW x \in DOMAIN heap
      PROVE  x \in Nat /\ End(x) \in Nat /\ x < End(x) /\ heap[x] \in Header
  BY <1>2, BlockFacts DEF KInv, HeapTypeOK, End, HeaderSize
<1>3. /\ DOMAIN heap' \subseteq DOMAIN heap /\ c \in DOMAIN heap' /\ 0 \in DOMAIN heap'
      /\ heap'[c].is_free
      /\ \A x \in DOMAIN heap' \ {c} : heap'[x] = heap[x]
      /\ \A x \in DOMAIN heap \ DOMAIN heap' : heap[x].is_free
      /\ heap' \in [DOMAIN heap' -> Header]
      /\ \A x \in DOMAIN heap' : heap'[x].next \in DOMAIN heap' \cup {NULL}
      /\ Tiled'
      /\ heap'[c].next # NULL => ~heap'[heap'[c].next].is_free
  <2>1. CASE m # NULL /\ heap[m].is_free
    <3>1. m \in DOMAIN heap /\ heap' = Merge(c, m) /\ heap[c].next = m
      BY <1>0, <1>1, <2>1 DEF KInv, HeapTypeOK
    <3>2. /\ DOMAIN heap' = DOMAIN heap \ {m} /\ c < m /\ m # 0
          /\ heap'[c].is_free /\ heap'[c].next = heap[m].next
          /\ \A x \in DOMAIN heap \ {c, m} : heap'[x] = heap[x]
          /\ Tiled'
          /\ heap' \in [DOMAIN heap' -> Header]
          /\ \A x \in DOMAIN heap' : heap'[x].next \in DOMAIN heap' \cup {NULL}
      BY <1>1, <3>1, MergeTiles
    <3>3. c # m  BY <1>2, <1>1, <3>2
    <3>4. ASSUME heap'[c].next # NULL PROVE ~heap'[heap'[c].next].is_free
      <4>1. PICK y : y = heap[m].next  OBVIOUS
      <4>2. y \in DOMAIN heap /\ y = End(m)
        BY <3>1, <3>2, <3>4, <4>1, BlockFacts DEF KInv
      <4>3. y # c /\ y # m  BY <1>1, <1>2, <3>1, <3>2, <4>2
      <4>4. ~heap[y].is_free
        BY <1>0, <2>1, <3>1, <3>2, <3>4, <4>1 DEF KInv, Seamless
      <4> QED  BY <3>2, <4>1, <4>2, <4>3, <4>4
    <3> QED  BY <1>1, <2>1, <3>2, <3>3, <3>4
  <2>2. CASE ~(m # NULL /\ heap[m].is_free)
    <3>1. /\ DOMAIN heap' = DOMAIN heap /\ heap' = [x \in DOMAIN heap |-> heap'[x]]
          /\ heap'[c] = [heap[c] EXCEPT !.is_free = TRUE]
          /\ \A x \in DOMAIN heap \ {c} : heap'[x] = heap[x]
      BY <1>0, <1>1, <2>2 DEF KInv, HeapTypeOK
    <3>2. /\ heap'[c] \in Header /\ heap'[c].size = heap[c].size
          /\ heap'[c].next = heap[c].next /\ heap'[c].is_free
      BY <1>1, <1>2, <3>1 DEF Header
    <3>3. \A x \in DOMAIN heap : heap'[x] \in Header /\ heap'[x].next = heap[x].next
      BY <1>2, <3>1, <3>2
    <3>4. Tiled'
      <4>1. \A x \in DOMAIN heap : End(x)' = End(x)  BY <3>1, <3>2 DEF End
      <4> QED  BY <3>1, <3>3, <4>1 DEF KInv, Tiled
    <3>5. heap'[c].next # NULL => ~heap'[heap'[c].next].is_free
      <4>1. SUFFICES ASSUME m # NULL PROVE ~heap'[m].is_free  BY <1>0, <3>2
      <4>2. m \in DOMAIN heap /\ m = End(c)
        BY <1>0, <1>1, <4>1, BlockFacts DEF KInv
      <4>3. m # c  BY <1>1, <1>2, <4>2
      <4> QED  BY <2>2, <3>1, <4>1, <4>2, <4>3
    <3> QED  BY <1>1, <3>1, <3>2, <3>3, <3>4, <3>5 DEF KInv, HeapTypeOK
  <2> QED  BY <2>1, <2>2
<1>4. LiveInv' /\ \A q \in DOMAIN live' : q - HeaderSize \in DOMAIN heap' /\ live'[q] \in Nat
  <2>1. ASSUME NEW q \in DOMAIN live'
        PROVE  /\ q - HeaderSize \in DOMAIN heap' /\ live'[q] \in Nat
               /\ ~heap'[q - HeaderSize].is_free
               /\ live'[q] <= heap'[q - HeaderSize].size
    <3>1. q \in DOMAIN live /\ q # p /\ live'[q] = live[q]  BY <1>0
    <3>2. /\ q - HeaderSize \in DOMAIN heap /\ ~heap[q - HeaderSize].is_free
          /\ live[q] <= heap[q - HeaderSize].size /\ live[q] \in Nat
      BY <3>1 DEF KInv, HeapTypeOK, LiveInv
    <3>3. q \in Int /\ p \in Int
      BY LiveInt, <3>1
    <3>4. q - HeaderSize # c  BY <1>0, <3>1, <3>3 DEF HeaderSize
    <3>5. q - HeaderSize \in DOMAIN heap'  BY <1>3, <3>2
    <3> QED  BY <1>3, <3>1, <3>2, <3>4, <3>5
  <2>2. ASSUME NEW x \in DOMAIN heap', ~heap'[x].is_free
        PROVE  x + HeaderSize \in DOMAIN live'
    <3>1. x # c /\ x \in DOMAIN heap /\ heap'[x] = heap[x]  BY <1>3, <2>2
    <3>2. Payload(x) \in DOMAIN live  BY <2>2, <3>1 DEF KInv, LiveInv
    <3>3. p \in Int /\ x \in Nat  BY LiveInt, <1>2, <3>1
    <3>4. x + HeaderSize # p  BY <1>0, <3>1, <3>3 DEF HeaderSize
    <3> QED  BY <1>0, <3>2, <3>4 DEF Payload
  <2> QED  BY <2>1, <2>2 DEF LiveInv, Payload
<1>5. HeapTypeOK'
  <2>1. DOMAIN heap' \subseteq Addresses /\ DOMAIN live' \subseteq Nat
    BY <1>0, <1>3 DEF KInv, HeapTypeOK
  <2> QED  BY <1>0, <1>3, <1>4, <2>1 DEF KInv, HeapTypeOK
<1>6. SearchInv'  BY <1>0 DEF SearchInv
<1>7. PrevInv'
  <2>1. 0 <= c  BY <1>1, <1>2
  <2> QED  BY <1>0, <1>3, <2>1 DEF PrevInv
<1>8. Seamless'
  <2> SUFFICES ASSUME NEW x \in DOMAIN heap', heap'[x].is_free, heap'[x].next # NULL,
                      heap'[heap'[x].next].is_free
               PROVE  heap'[x].next = c
    BY <1>0 DEF Seamless
  <2>1. x # c  BY <1>3
  <2>2. x \in DOMAIN heap /\ heap'[x] = heap[x]  BY <1>3, <2>1
  <2>3. ASSUME heap[x].next # c PROVE FALSE
    <3>1. heap'[heap[x].next] = heap[heap[x].next]  BY <1>3, <2>2, <2>3
    <3> QED  BY <1>0, <2>2, <2>3, <3>1 DEF KInv, Seamless
  <2> QED  BY <2>2, <2>3
<1> QED  BY <1>3, <1>4, <1>5, <1>6, <1>7, <1>8 DEF KInv

\* kfree's cursor moves towards the block and never past it.
LEMMA PrevWalkKInv == KInv /\ PrevWalk => KInv'
<1> SUFFICES ASSUME KInv, PrevWalk PROVE KInv'  OBVIOUS
<1> USE DEF PrevWalk
<1>0. /\ hpc = "prev" /\ hpc' = "prev" /\ block' = block
      /\ current \in DOMAIN heap /\ block \in DOMAIN heap
      /\ current <= block /\ current # block /\ heap[current].next # block
  BY DEF KInv, PrevInv, HeapTypeOK
<1>1. current \in Nat /\ block \in Nat /\ HeapSize \in Nat /\ block < HeapSize
  BY <1>0, BlockFacts DEF KInv
<1>2. End(current) <= block /\ End(current) \in Nat
  BY <1>0, <1>1, BlockFacts DEF KInv, Tiled
<1>3. /\ heap[current].next \in DOMAIN heap /\ heap[current].next = End(current)
  BY <1>0, <1>1, <1>2, BlockFacts DEF KInv
<1>4. HeapTypeOK'  BY <1>3 DEF KInv, HeapTypeOK
<1>5. Tiled' /\ LiveInv'  BY SameHeap
<1>6. SearchInv' /\ Seamless'  BY <1>0 DEF KInv, SearchInv, Seamless
<1>7. PrevInv'
  BY <1>0, <1>2, <1>3 DEF KInv, PrevInv
<1> QED  BY <1>4, <1>5, <1>6, <1>7 DEF KInv

\* kfree finds the predecessor and closes the seam, if there is one.
LEMMA PrevFoundKInv == KInv /\ PrevFound => KInv'
<1> SUFFICES ASSUME KInv, PrevFound PROVE KInv'  OBVIOUS
<1>a. PICK a, b : a = current /\ b = block  OBVIOUS
<1>0. /\ hpc = "prev" /\ hpc' = "idle" /\ current' = NULL /\ block' = NULL
      /\ size' = size /\ asked' = asked /\ live' = live
      /\ a \in DOMAIN heap /\ b \in DOMAIN heap /\ heap[a].next = b
      /\ heap' = IF heap[a].is_free THEN Merge(a, b) ELSE heap
      /\ heap[b].is_free /\ 0 \in DOMAIN heap /\ b = block
  BY <1>a DEF PrevFound, KInv, HeapTypeOK, PrevInv
<1>1. SearchInv' /\ PrevInv'  BY <1>0 DEF SearchInv, PrevInv
<1>2. CASE heap[a].is_free
  <2>1. /\ DOMAIN heap' = DOMAIN heap \ {b} /\ a < b /\ b # 0
        /\ heap'[a].is_free /\ heap'[a].next = heap[b].next
        /\ \A x \in DOMAIN heap \ {a, b} : heap'[x] = heap[x]
        /\ Tiled'
        /\ heap' \in [DOMAIN heap' -> Header]
        /\ \A x \in DOMAIN heap' : heap'[x].next \in DOMAIN heap' \cup {NULL}
    BY <1>0, <1>2, MergeTiles
  <2>2. a # b  BY <1>0, <2>1, BlockFacts DEF KInv
  <2>3. ASSUME NEW p \in DOMAIN live
        PROVE  /\ p - HeaderSize \in DOMAIN heap'
               /\ heap'[p - HeaderSize] = heap[p - HeaderSize]
    BY <1>0, <1>2, <2>1 DEF KInv, HeapTypeOK, LiveInv
  <2>4. HeapTypeOK'
    <3>1. DOMAIN heap' \subseteq Addresses /\ 0 \in DOMAIN heap'
      BY <1>0, <2>1 DEF KInv, HeapTypeOK
    <3> QED  BY <1>0, <2>1, <2>3, <3>1 DEF KInv, HeapTypeOK
  <2>5. LiveInv'
    <3>1. ASSUME NEW x \in DOMAIN heap', ~heap'[x].is_free PROVE Payload(x) \in DOMAIN live
      BY <2>1, <3>1 DEF KInv, LiveInv
    <3> QED  BY <1>0, <2>3, <3>1 DEF KInv, LiveInv, Payload
  <2>6. Seamless'
    <3> SUFFICES ASSUME NEW x \in DOMAIN heap', heap'[x].is_free, heap'[x].next # NULL,
                        heap'[heap'[x].next].is_free
                 PROVE  FALSE
      BY DEF Seamless
    <3>1. PICK y : y = heap'[x].next  OBVIOUS
    <3>2. y \in DOMAIN heap' /\ y # NULL /\ y # b  BY <2>1, <3>1
    <3>3. heap[y].is_free  BY <1>2, <2>1, <3>1, <3>2
    <3>4. CASE x = a
      <4>1. heap[b].next = y  BY <2>1, <3>1, <3>4
      <4> QED  BY <1>0, <3>2, <3>3, <4>1 DEF KInv, Seamless
    <3>5. CASE x # a
      <4>1. x \in DOMAIN heap /\ heap'[x] = heap[x]  BY <2>1, <3>5
      <4> QED  BY <1>0, <3>1, <3>2, <3>3, <4>1 DEF KInv, Seamless
    <3> QED  BY <3>4, <3>5
  <2> QED  BY <1>1, <2>1, <2>4, <2>5, <2>6 DEF KInv
<1>3. CASE ~heap[a].is_free
  <2>1. heap' = heap  BY <1>0, <1>3
  <2>2. HeapTypeOK'  BY <1>0, <2>1 DEF KInv, HeapTypeOK
  <2>3. Tiled' /\ LiveInv'  BY <1>0, <2>1, SameHeap
  <2>4. Seamless'
    <3> SUFFICES ASSUME NEW x \in DOMAIN heap, heap[x].is_free, heap[x].next = b
                 PROVE  FALSE
      BY <1>0, <2>1 DEF KInv, Seamless
    <3>1. x # a  BY <1>3
    <3>2. /\ b # NULL /\ End(x) = b /\ End(a) = b
          /\ x \in Nat /\ a \in Nat /\ b \in Nat /\ x < End(x) /\ a < End(a)
      <4>1. b # NULL  BY <1>0, BlockFacts DEF KInv, NULL
      <4> QED  BY <1>0, <4>1, BlockFacts DEF KInv, End, HeaderSize
    <3>3. CASE x < a  BY <1>0, <3>2, <3>3 DEF KInv, Tiled
    <3>4. CASE a < x  BY <1>0, <3>2, <3>4 DEF KInv, Tiled
    <3> QED  BY <3>1, <3>2, <3>3, <3>4
  <2> QED  BY <1>1, <2>2, <2>3, <2>4 DEF KInv
<1> QED  BY <1>2, <1>3

LEMMA PrevNoneKInv == KInv /\ PrevNone => KInv'
<1> SUFFICES ASSUME KInv, PrevNone PROVE KInv'  OBVIOUS
<1> USE DEF PrevNone
<1>0. hpc = "prev" /\ current \in DOMAIN heap /\ current \in Nat /\ current = block /\ block = 0
  BY BlockFacts DEF KInv, PrevInv, NULL
<1>1. HeapTypeOK'  BY DEF KInv, HeapTypeOK
<1>2. Tiled' /\ LiveInv'  BY SameHeap
<1>3. SearchInv' /\ PrevInv'  BY DEF SearchInv, PrevInv
<1>4. Seamless'
  <2>1. ASSUME NEW x \in DOMAIN heap, heap[x].next = 0 PROVE FALSE
    <3>1. 0 # NULL  BY DEF NULL
    <3>2. End(x) = 0 /\ x \in Nat /\ heap[x].size \in Nat  BY <2>1, <3>1, BlockFacts DEF KInv
    <3> QED  BY <3>2 DEF End, HeaderSize
  <2> QED  BY <1>0, <2>1 DEF KInv, Seamless
<1> QED  BY <1>1, <1>2, <1>3, <1>4 DEF KInv

-----------------------------------------------------------------------------
LEMMA Inductive == RequestsFit => (HeapSpec => []KInv)
<1> SUFFICES ASSUME RequestsFit PROVE HeapSpec => []KInv  OBVIOUS
<1>1. HeapInit => KInv  BY InitKInv
<1>2. KInv /\ [HeapNext]_heapVars => KInv'
  <2> SUFFICES ASSUME KInv, [HeapNext]_heapVars PROVE KInv'  OBVIOUS
  <2>1. ASSUME NEW n \in Requests, kmalloc(n) PROVE KInv'  BY <2>1, KmallocKInv
  <2>2. ASSUME NEW p \in DOMAIN live, kfree(p) PROVE KInv'  BY <2>2, KfreeKInv
  <2>3. CASE SearchMiss  BY <2>3, SearchMissKInv
  <2>4. CASE SearchHit  BY <2>4, SearchHitKInv
  <2>5. CASE SearchEnd  BY <2>5, SearchEndKInv
  <2>6. CASE PrevWalk  BY <2>6, PrevWalkKInv
  <2>7. CASE PrevFound  BY <2>7, PrevFoundKInv
  <2>8. CASE PrevNone  BY <2>8, PrevNoneKInv
  <2>9. CASE UNCHANGED heapVars
    <3>1. HeapTypeOK' /\ SearchInv' /\ PrevInv' /\ Seamless'
      BY <2>9 DEF heapVars, KInv, HeapTypeOK, SearchInv, PrevInv, Seamless
    <3>2. Tiled' /\ LiveInv'  BY <2>9, SameHeap DEF heapVars
    <3> QED  BY <3>1, <3>2 DEF KInv
  <2> QED
    BY <2>1, <2>2, <2>3, <2>4, <2>5, <2>6, <2>7, <2>8, <2>9 DEF HeapNext, Step
<1> QED  BY <1>1, <1>2, PTL DEF HeapSpec

\* Every link leads to a header, every cursor stands on one.
THEOREM TypeCorrect == RequestsFit => (HeapSpec => []HeapTypeOK)
<1> SUFFICES ASSUME RequestsFit PROVE HeapSpec => []HeapTypeOK  OBVIOUS
<1>1. KInv => HeapTypeOK  BY DEF KInv
<1> QED  BY <1>1, Inductive, PTL

\* The list tiles the heap whatever is allocated and freed in whatever order.
THEOREM HeapTiled == RequestsFit => (HeapSpec => []Tiled)
<1> SUFFICES ASSUME RequestsFit PROVE HeapSpec => []Tiled  OBVIOUS
<1>1. KInv => Tiled  BY DEF KInv
<1> QED  BY <1>1, Inductive, PTL

\* No two callers share a byte, and no caller's bytes hold a header.
THEOREM NoOverlap == RequestsFit => (HeapSpec => []PayloadsDisjoint)
<1> SUFFICES ASSUME RequestsFit PROVE HeapSpec => []PayloadsDisjoint  OBVIOUS
<1>1. KInv => PayloadsDisjoint
  <2> SUFFICES ASSUME KInv, NEW p \in DOMAIN live
               PROVE  /\ p + live[p] <= HeapSize
                      /\ \A a \in DOMAIN heap : a + HeaderSize <= p \/ p + live[p] <= a
                      /\ \A q \in DOMAIN live : p < q => p + live[p] <= q - HeaderSize
    BY DEF PayloadsDisjoint
  <2>1. PICK c : c = p - HeaderSize  OBVIOUS
  <2>2. /\ p \in Int /\ c \in DOMAIN heap /\ live[p] \in Nat /\ live[p] <= heap[c].size
    BY <2>1 DEF KInv, HeapTypeOK, LiveInv
  <2>3. /\ c \in Nat /\ heap[c].size \in Nat /\ HeapSize \in Nat
        /\ End(c) = c + HeaderSize + heap[c].size /\ End(c) <= HeapSize
    BY <2>2, BlockFacts DEF KInv, End
  <2>4. p + live[p] <= End(c) /\ c + HeaderSize = p
    BY <2>1, <2>2, <2>3 DEF HeaderSize
  <2>5. ASSUME NEW a \in DOMAIN heap PROVE a + HeaderSize <= p \/ p + live[p] <= a
    <3>1. a \in Nat /\ heap[a].size \in Nat /\ End(a) = a + HeaderSize + heap[a].size
      BY BlockFacts DEF KInv, End
    <3>2. CASE a < c
      <4>1. End(a) <= c  BY <2>2, <3>2 DEF KInv, Tiled
      <4> QED  BY <2>3, <2>4, <3>1, <4>1 DEF HeaderSize
    <3>3. CASE a = c  BY <2>4, <3>3, <2>3 DEF HeaderSize
    <3>4. CASE c < a
      <4>1. End(c) <= a  BY <2>2, <3>4 DEF KInv, Tiled
      <4> QED  BY <2>2, <2>3, <2>4, <3>1, <4>1 DEF HeaderSize
    <3> QED  BY <2>3, <3>1, <3>2, <3>3, <3>4
  <2>6. ASSUME NEW q \in DOMAIN live, p < q PROVE p + live[p] <= q - HeaderSize
    <3>1. PICK d : d = q - HeaderSize  OBVIOUS
    <3>2. q \in Int /\ d \in DOMAIN heap  BY <3>1 DEF KInv, HeapTypeOK
    <3>3. d \in Nat  BY <3>2, BlockFacts DEF KInv
    <3>4. c < d  BY <2>1, <2>2, <2>6, <3>1, <3>2 DEF HeaderSize
    <3>5. End(c) <= d  BY <2>2, <3>2, <3>4 DEF KInv, Tiled
    <3> QED  BY <2>2, <2>3, <2>4, <3>1, <3>3, <3>5
  <2> QED  BY <2>2, <2>3, <2>4, <2>5, <2>6
<1> QED  BY <1>1, Inductive, PTL

\* kfree leaves no seam between free blocks.
THEOREM NoSeam == RequestsFit => (HeapSpec => []Coalesced)
<1> SUFFICES ASSUME RequestsFit PROVE HeapSpec => []Coalesced  OBVIOUS
<1>1. KInv => Coalesced  BY DEF KInv, Seamless, Coalesced
<1> QED  BY <1>1, Inductive, PTL

\* Freeing everything restores the heap to one block.
THEOREM WholeAgain == RequestsFit => (HeapSpec => []AllFreedIsWhole)
<1> SUFFICES ASSUME RequestsFit PROVE HeapSpec => []AllFreedIsWhole  OBVIOUS
<1>1. KInv => AllFreedIsWhole
  <2> SUFFICES ASSUME KInv, hpc = "idle", live = [p \in {} |-> 0]
               PROVE  DOMAIN heap = {0} /\ heap[0].size = HeapSize - HeaderSize
    BY DEF AllFreedIsWhole
  <2>1. \A a \in DOMAIN heap : heap[a].is_free
    <3>1. DOMAIN live = {}  OBVIOUS
    <3> QED  BY <3>1 DEF KInv, LiveInv
  <2>2. 0 \in DOMAIN heap  BY DEF KInv, HeapTypeOK
  <2>3. heap[0].next = NULL
    <3>1. SUFFICES ASSUME heap[0].next # NULL PROVE FALSE  OBVIOUS
    <3>2. heap[0].next \in DOMAIN heap  BY <2>2, <3>1 DEF KInv, HeapTypeOK
    <3> QED  BY <2>1, <2>2, <3>1, <3>2 DEF KInv, Seamless
  <2>4. End(0) = HeapSize /\ heap[0].size \in Nat /\ HeapSize \in Nat
    BY <2>2, <2>3, BlockFacts DEF KInv
  <2>5. heap[0].size = HeapSize - HeaderSize  BY <2>4 DEF End, HeaderSize
  <2>6. ASSUME NEW x \in DOMAIN heap PROVE x = 0
    <3>1. x \in Nat /\ x < HeapSize  BY BlockFacts DEF KInv
    <3>2. 0 < x => End(0) <= x  BY <2>2 DEF KInv, Tiled
    <3> QED  BY <2>4, <3>1, <3>2
  <2> QED  BY <2>2, <2>5, <2>6
<1> QED  BY <1>1, Inductive, PTL

\* kmalloc is a first-fit search and fails only when no block fits.
THEOREM FirstFitSearch == RequestsFit => (HeapSpec => FirstFit)
<1> SUFFICES ASSUME RequestsFit PROVE HeapSpec => FirstFit  OBVIOUS
<1>1. KInv => /\ SearchEnd => \A a \in DOMAIN heap : heap[a].is_free => heap[a].size < size
              /\ SearchHit => \A a \in DOMAIN heap :
                                 a < current /\ heap[a].is_free => heap[a].size < size
  BY DEF KInv, SearchInv, SearchEnd, SearchHit
<1> QED  BY <1>1, Inductive, PTL DEF FirstFit

=============================================================================

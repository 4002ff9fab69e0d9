------------------------------ MODULE MCMemory -----------------------------
(***************************************************************************)
(* The two allocators for TLC: Pmm, of physical blocks, and Kmalloc, of    *)
(* the kernel heap.  They share no variable (the heap's pages are mapped   *)
(* once, by Vmm), so a behaviour exercises one of them and leaves the      *)
(* other at its start.                                                     *)
(***************************************************************************)
EXTENDS Pmm, Kmalloc

-----------------------------------------------------------------------------
(* 24 tracked blocks, the upper 16 of which may be handed out, and boot    *)
(* information of the shapes the loaders produce.                          *)

Page(n) == n * PMM_BLOCK_SIZE
Ram(from, to) == [type |-> 1, addr |-> Page(from), len |-> Page(to - from)]
Rom(from, to) == [type |-> 2, addr |-> Page(from), len |-> Page(to - from)]
Mod(kind, from, to) == [kind |-> kind, start |-> Page(from), end |-> Page(to)]

\* Low RAM, a hole, high RAM up to the last block but one; the kernel starts at
\* the line and ends inside a page; the disk image overlaps the kernel's page.
PcMap(magic, mods) ==
    [magic |-> magic, mods |-> mods,
     mmap |-> <<Ram(0, 6), Rom(6, 8), Ram(8, 22)>>,
     kernel_start |-> Page(8), kernel_end |-> Page(10) + 100]

\* Map entries that overlap and touch, in no order, and one beyond the bitmap.
OverlapMap ==
    [magic |-> MB2, mods |-> <<Mod("ai", 14, 15), Mod("disk", 16, 17)>>,
     mmap |-> <<Ram(12, 23), Ram(8, 14), Ram(1, 4), Ram(23, 23), Rom(24, 30), Ram(26, 28)>>,
     kernel_start |-> Page(8), kernel_end |-> Page(11)]

\* Sizes that are no multiple of a page, as Multiboot 2 rounds them down.
RaggedMap ==
    [magic |-> MB2, mods |-> <<Mod("disk", 12, 13),
        [kind |-> "disk", start |-> Page(15) + 12, end |-> Page(16) + 700]>>,
     mmap |-> <<[type |-> 1, addr |-> 0, len |-> Page(4) + 3072],
                [type |-> 1, addr |-> Page(8), len |-> Page(12) + 8]>>,
     kernel_start |-> Page(8), kernel_end |-> Page(9) + 1]

AlignedBoots ==
    {PcMap(MB1, <<Mod("disk", 10, 12)>>), PcMap(MB2, <<Mod("disk", 10, 12), Mod("ai", 13, 14)>>),
     PcMap(MB2, <<>>), OverlapMap, RaggedMap}

AnyNeighbour == {{}, Slack, {N, N + 7}}

-----------------------------------------------------------------------------
(* Requests: one byte, a size to be rounded, sizes that split a block,     *)
(* that leave too little to split, that fill the heap, and one that can    *)
(* never be met.                                                           *)

Sizes == {1, 18, 30, 60, 112, 200}

-----------------------------------------------------------------------------
VARIABLE on        \* the allocator that the behaviour exercises

all == <<vars, heapVars, on>>

MemInit ==
    /\ Init /\ HeapInit
    /\ \/ on = "blocks"
       \/ on = "heap" /\ boot = RaggedMap /\ used = {}

MemNext ==
    \/ on = "blocks" /\ Next /\ UNCHANGED <<heapVars, on>>
    \/ on = "heap" /\ HeapNext /\ UNCHANGED <<vars, on>>

\* The fairness of HeapFairSpec.
MemSpec == MemInit /\ [][MemNext]_all /\ WF_heapVars(on = "heap" /\ Step)

=============================================================================

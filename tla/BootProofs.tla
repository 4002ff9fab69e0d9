----------------------------- MODULE BootProofs -----------------------------
(***************************************************************************)
(* The start of kmain, for every machine, every set of drives and every    *)
(* size of the page tables: mappings are never changed, no frame serves    *)
(* twice, the heap is backed; what is mounted is a FAT32 volume and a      *)
(* transfer that succeeds moved its sector.  Before them, the physical     *)
(* memory manager, for every bitmap and every memory map.                  *)
(***************************************************************************)
EXTENDS Boot, Pmm, FiniteSetTheorems, WellFoundedInduction, TLAPS

-----------------------------------------------------------------------------
(* The physical memory manager.                                            *)

\* The last tracked block is not RAM the loader reports: the machine has less
\* than the 16 GiB the bitmap covers.  Without this the second scan of
\* pmm_alloc_block leaves the bitmap.
TopNotAvailable == \A b \in BootInfos : N - 1 \notin Available(b)

Free == Blocks \ used

\* Blocks of memory map entry i before the loop counter reaches n.
EntryPrefix(b, i, n) ==
    {k \in Blocks : /\ EntryFirst(b.mmap[i]) <= k
                    /\ k < EntryFirst(b.mmap[i]) + n}

\* During boot: what the parser has passed is clear, nothing else is.
MapInv ==
    /\ pc # "reset" => Free \subseteq Available(boot)
    /\ pc = "mmap" =>
        /\ \A i \in 1 .. Len(boot.mmap) : i < step =>
               EntryPrefix(boot, i, EntryBlocks(boot.magic, boot.mmap[i])) \subseteq Free
        /\ step \in 1 .. Len(boot.mmap) => EntryPrefix(boot, step, cur) \subseteq Free
    /\ pc \in {"protect", "ready"} => total_blocks = Cardinality(Available(boot))

\* What has been protected stays set.
ProtectInv ==
    /\ pc \in {"protect", "ready"} =>
           \A s \in 1 .. 4 : s < step => RangeBlocks(boot, s) \subseteq used
    /\ pc = "protect" =>
           /\ step <= 4
           /\ \A r \in Ranges(boot, step) : \A k \in Int :
                  r.first <= k /\ k < r.first + cur => k \in used
    /\ pc = "ready" => step = 5

\* Who holds what, and where the hint is.
OwnerInv ==
    /\ pc # "ready" => owned = {} /\ last_free_bit = LowBlock
    /\ owned \subseteq used /\ owned \subseteq Available(boot)
    /\ owned \cap Protected(boot) = {}
    /\ owned \subseteq LowBlock .. N - 2
    /\ last_free_bit \in LowBlock .. N - 1

\* Both cursors start at the beginning.
StartInv == pc = "reset" => step = 1 /\ cur = 0

IInv == /\ TypeOK /\ FreeCountExact /\ StartInv /\ MapInv
        /\ ProtectInv /\ OwnerInv /\ HintTight

-----------------------------------------------------------------------------
\* The bitmap is finite, and so is every set of blocks.
LEMMA BlocksFinite ==
    /\ N \in Nat /\ IsFiniteSet(Blocks)
    /\ \A S \in SUBSET Blocks : IsFiniteSet(S) /\ Cardinality(S) \in Nat
<1>1. N \in Nat  BY SizeAssumption DEF N
<1>2. IsFiniteSet(Blocks)  BY <1>1, FS_Interval DEF Blocks
<1>3. ASSUME NEW S \in SUBSET Blocks
      PROVE  IsFiniteSet(S) /\ Cardinality(S) \in Nat
  BY <1>2, FS_Subset, FS_CardinalityType
<1> QED  BY <1>1, <1>2, <1>3

\* Setting a clear bit takes one from the number of clear bits.
LEMMA SetBitCount ==
    ASSUME NEW U, NEW bit \in Blocks
    PROVE  LET c == Cardinality(Blocks \ U) IN
           /\ c \in Nat
           /\ bit \in U => Cardinality(Blocks \ (U \cup {bit})) = c
           /\ bit \notin U => c > 0 /\ Cardinality(Blocks \ (U \cup {bit})) = c - 1
<1> DEFINE F == Blocks \ U
           G == Blocks \ (U \cup {bit})
<1>1. IsFiniteSet(F) /\ IsFiniteSet(G) /\ Cardinality(F) \in Nat /\ Cardinality(G) \in Nat
  BY BlocksFinite
<1>2. G = F \ {bit}  OBVIOUS
<1>4. bit \in F <=> bit \notin U  OBVIOUS
<1> HIDE DEF F, G
<1>3. Cardinality(G) = IF bit \in F THEN Cardinality(F) - 1 ELSE Cardinality(F)
  BY <1>1, <1>2, FS_RemoveElement
<1>5. /\ bit \in U => Cardinality(G) = Cardinality(F)
      /\ bit \notin U => Cardinality(F) > 0 /\ Cardinality(G) = Cardinality(F) - 1
  BY <1>1, <1>3, <1>4
<1> QED  BY <1>1, <1>5 DEF F, G

\* Clearing a set bit adds one.
LEMMA ClearBitCount ==
    ASSUME NEW U, NEW bit \in Blocks
    PROVE  LET c == Cardinality(Blocks \ U) IN
           /\ c \in Nat
           /\ bit \notin U => Cardinality(Blocks \ (U \ {bit})) = c
           /\ bit \in U => Cardinality(Blocks \ (U \ {bit})) = c + 1
<1> DEFINE F == Blocks \ U
           G == Blocks \ (U \ {bit})
<1>1. IsFiniteSet(F) /\ Cardinality(F) \in Nat
  BY BlocksFinite
<1>2. G = F \cup {bit}  OBVIOUS
<1>4. bit \in F <=> bit \notin U  OBVIOUS
<1> HIDE DEF F, G
<1>3. Cardinality(G) = IF bit \in F THEN Cardinality(F) ELSE Cardinality(F) + 1
  BY <1>1, <1>2, FS_AddElement
<1>5. /\ bit \notin U => Cardinality(G) = Cardinality(F)
      /\ bit \in U => Cardinality(G) = Cardinality(F) + 1
  BY <1>1, <1>3, <1>4
<1> QED  BY <1>1, <1>5 DEF F, G

\* What the boot information denotes.
LEMMA BootFacts ==
    ASSUME NEW b \in BootInfos
    PROVE  /\ b \in BootInfo
           /\ Protected(b) \subseteq Blocks
           /\ Available(b) \subseteq Blocks
           /\ \A s \in 1 .. 4 : RangeBlocks(b, s) \subseteq Protected(b)
           /\ \A i \in 1 .. Len(b.mmap) :
                 /\ b.mmap[i] \in MmapEntry
                 /\ EntryFirst(b.mmap[i]) \in Nat
                 /\ EntryBlocks(b.magic, b.mmap[i]) \in Nat
           /\ \A s \in 1 .. 4 : \A r \in Ranges(b, s) : r.first \in Nat /\ r.last \in Nat
<1>1. b \in BootInfo /\ Protected(b) \subseteq Blocks
  BY BootAssumption
<1>2. \A s \in 1 .. 4 : RangeBlocks(b, s) \subseteq Protected(b)
  BY DEF Protected
<1>3. ASSUME NEW i \in 1 .. Len(b.mmap)
      PROVE  /\ b.mmap[i] \in MmapEntry
             /\ EntryFirst(b.mmap[i]) \in Nat
             /\ EntryBlocks(b.magic, b.mmap[i]) \in Nat
  <2>1. b.mmap[i] \in MmapEntry
    <3>1. b.mmap \in Seq(MmapEntry)  BY <1>1 DEF BootInfo
    <3> QED  BY <3>1
  <2>2. EntryFirst(b.mmap[i]) \in Nat
    BY <2>1 DEF MmapEntry, EntryFirst, PMM_BLOCK_SIZE
  <2>3. EntryBlocks(b.magic, b.mmap[i]) \in Nat
    BY <2>1 DEF MmapEntry, EntryBlocks, PMM_BLOCK_SIZE
  <2> QED  BY <2>1, <2>2, <2>3
<1>4. ASSUME NEW s \in 1 .. 4, NEW r \in Ranges(b, s)
      PROVE  r.first \in Nat /\ r.last \in Nat
  <2>1. \A m \in 1 .. Len(b.mods) : b.mods[m].start \in Nat /\ b.mods[m].end \in Nat
    <3>1. b.mods \in Seq(Module)  BY <1>1 DEF BootInfo
    <3>2. \A m \in 1 .. Len(b.mods) : b.mods[m] \in Module  BY <3>1
    <3> QED  BY <3>2 DEF Module
  <2>2. b.kernel_start \in Nat /\ b.kernel_end \in Nat
    BY <1>1 DEF BootInfo
  <2>3. ASSUME NEW kind, r \in ModuleRange(b, kind)
        PROVE  r.first \in Nat /\ r.last \in Nat
    BY <2>1, <2>3 DEF ModuleRange, Loaded, PMM_BLOCK_SIZE
  <2>4. CASE s = 1  BY <2>2, <2>4 DEF Ranges, KernelRange, PMM_BLOCK_SIZE
  <2>5. CASE s = 2  BY <2>5 DEF Ranges, PageZero
  <2>6. CASE s = 3  BY <2>3, <2>6 DEF Ranges
  <2>7. CASE s = 4  BY <2>3, <2>7 DEF Ranges
  <2> QED  BY <2>4, <2>5, <2>6, <2>7
<1> QED  BY <1>1, <1>2, <1>3, <1>4 DEF Available

\* The ranges pmm_init computes from byte addresses cover every byte.
LEMMA PreciousProtected ==
    ASSUME NEW b \in BootInfos
    PROVE  Precious(b) \subseteq Protected(b)
<1>0. b \in BootInfo /\ N \in Nat  BY BootFacts, BlocksFinite
<1> SUFFICES ASSUME NEW k \in Precious(b) PROVE \E s \in 1 .. 4 : k \in RangeBlocks(b, s)
  BY DEF Protected
<1>1. k \in Nat  BY <1>0 DEF Precious, Blocks
<1>2. CASE k = 0
  BY <1>2 DEF RangeBlocks, Ranges, PageZero
<1>3. CASE b.kernel_start < (k + 1) * 4096 /\ k * 4096 < b.kernel_end
  <2>1. b.kernel_start \in Nat /\ b.kernel_end \in Nat  BY <1>0 DEF BootInfo
  <2>2. b.kernel_start \div 4096 <= k /\ k <= b.kernel_end \div 4096
    BY <1>1, <1>3, <2>1
  <2>3. k \in RangeBlocks(b, 1)
    BY <1>1, <2>1, <2>2 DEF RangeBlocks, Ranges, KernelRange, PMM_BLOCK_SIZE
  <2> QED  BY <2>3
<1>4. ASSUME NEW kind \in {"ai", "disk"}, NEW m \in Loaded(b, kind),
             b.mods[m].start < (k + 1) * 4096, k * 4096 < b.mods[m].end
      PROVE  \E s \in 1 .. 4 : k \in RangeBlocks(b, s)
  <2>1. b.mods[m].start \in Nat /\ b.mods[m].end \in Nat
    <3>1. b.mods \in Seq(Module) /\ m \in 1 .. Len(b.mods)
      BY <1>0 DEF BootInfo, Loaded
    <3>2. b.mods[m] \in Module  BY <3>1
    <3> QED  BY <3>2 DEF Module
  <2>2. b.mods[m].start \div 4096 <= k /\ k <= (b.mods[m].end + 4096 - 1) \div 4096
    BY <1>1, <1>4, <2>1
  <2>3. \E r \in ModuleRange(b, kind) : k \in r.first .. r.last
    <3> DEFINE r == [first |-> b.mods[m].start \div PMM_BLOCK_SIZE,
                     last  |-> (b.mods[m].end + PMM_BLOCK_SIZE - 1) \div PMM_BLOCK_SIZE]
    <3>1. r \in ModuleRange(b, kind)  BY DEF ModuleRange
    <3>2. r.first \in Nat /\ r.last \in Nat /\ r.first <= k /\ k <= r.last
      BY <2>1, <2>2 DEF PMM_BLOCK_SIZE
    <3>3. k \in r.first .. r.last  BY <1>1, <3>2
    <3> QED  BY <3>1, <3>3
  <2>4. CASE kind = "ai"
    <3>1. k \in RangeBlocks(b, 3)  BY <2>3, <2>4 DEF RangeBlocks, Ranges
    <3> QED  BY <3>1
  <2>5. CASE kind = "disk"
    <3>1. k \in RangeBlocks(b, 4)  BY <2>3, <2>5 DEF RangeBlocks, Ranges
    <3> QED  BY <3>1
  <2> QED  BY <2>4, <2>5
<1> QED  BY <1>2, <1>3, <1>4 DEF Precious, PMM_BLOCK_SIZE

-----------------------------------------------------------------------------
LEMMA InitIInv == Init => IInv
<1> SUFFICES ASSUME Init PROVE IInv  OBVIOUS
<1> USE DEF Init
<1>0. N \in Nat /\ LowBlock \in Nat /\ 0 < LowBlock /\ LowBlock < N
  BY BlocksFinite, SizeAssumption
<1>1. TypeOK
  <2>1. used \in SUBSET Bits
    BY <1>0, NeighbourAssumption DEF Bits, Slack
  <2>2. ret \in Calls  BY <1>0 DEF Calls, Bits, NoBlock
  <2> QED  BY <1>0, <2>1, <2>2 DEF TypeOK
<1>2. FreeCountExact  BY DEF FreeCountExact
<1>3. MapInv  BY DEF MapInv
<1>4. ProtectInv  BY DEF ProtectInv
<1>5. OwnerInv  BY <1>0 DEF OwnerInv
<1>6. HintTight /\ StartInv  BY DEF HintTight, StartInv
<1> QED  BY <1>1, <1>2, <1>3, <1>4, <1>5, <1>6 DEF IInv

\* pmm_init marks everything reserved.
LEMMA ReserveAllIInv == IInv /\ ReserveAll => IInv'
<1> SUFFICES ASSUME IInv, ReserveAll PROVE IInv'  OBVIOUS
<1> USE DEF ReserveAll
<1>0. N \in Nat /\ LowBlock \in Nat /\ 0 < LowBlock /\ LowBlock < N
  BY BlocksFinite, SizeAssumption
<1>1. TypeOK'
  <2>1. used' \in SUBSET Bits  BY <1>0 DEF IInv, TypeOK, Bits, Blocks
  <2> QED  BY <2>1 DEF IInv, TypeOK
<1>2. Free' = {}  BY DEF Free
<1>3. FreeCountExact'
  <2>1. Cardinality({}) = 0  BY FS_EmptySet
  <2> QED  BY <1>2, <2>1 DEF FreeCountExact, Free
<1>4. MapInv'
  <2>1. step' = 1 /\ cur' = 0
    BY DEF IInv, StartInv
  <2>2. ASSUME 1 \in 1 .. Len(boot.mmap) PROVE EntryPrefix(boot, 1, 0) = {}
    BY <1>0, <2>2, BootFacts DEF EntryPrefix, Blocks, IInv, TypeOK
  <2>3. \A i \in 1 .. Len(boot.mmap) : ~(i < 1)  OBVIOUS
  <2> QED  BY <1>2, <2>1, <2>2, <2>3 DEF MapInv
<1>5. ProtectInv'  BY DEF ProtectInv
<1>6. OwnerInv' /\ StartInv' /\ HintTight'
  BY DEF IInv, OwnerInv, StartInv, HintTight
<1> QED  BY <1>1, <1>3, <1>4, <1>5, <1>6 DEF IInv

\* One block of the memory map: a bit is cleared that the map makes available.
LEMMA ClearRamIInv == IInv /\ ClearRam => IInv'
<1> SUFFICES ASSUME IInv, ClearRam PROVE IInv'  OBVIOUS
<1> DEFINE block == EntryFirst(boot.mmap[step]) + cur
<1>0. /\ N \in Nat /\ boot \in BootInfos /\ cur \in Nat /\ block \in Nat
      /\ EntryFirst(boot.mmap[step]) \in Nat
      /\ EntryBlocks(boot.magic, boot.mmap[step]) \in Nat
      /\ pc = "mmap" /\ step \in 1 .. Len(boot.mmap)
      /\ cur < EntryBlocks(boot.magic, boot.mmap[step])
  BY BlocksFinite, BootFacts DEF ClearRam, IInv, TypeOK
<1>f. UNCHANGED <<pc, boot, step, total_blocks, last_free_bit, owned, ret>> /\ cur' = cur + 1
  BY DEF ClearRam
<1>1. CASE block >= N
  <2>1. UNCHANGED <<used, free_blocks>>  BY <1>1, <1>0 DEF ClearRam
  <2>2. EntryPrefix(boot, step, cur + 1) = EntryPrefix(boot, step, cur)
    BY <1>0, <1>1 DEF EntryPrefix, Blocks
  <2>3. MapInv'  BY <1>f, <2>1, <2>2 DEF IInv, MapInv, Free
  <2>4. TypeOK' /\ FreeCountExact'
    BY <1>0, <1>f, <2>1 DEF IInv, TypeOK, FreeCountExact
  <2>5. ProtectInv' /\ OwnerInv' /\ StartInv' /\ HintTight'
    BY <1>0, <1>f, <2>1 DEF IInv, ProtectInv, OwnerInv, StartInv, HintTight
  <2> QED  BY <2>3, <2>4, <2>5 DEF IInv
<1>2. CASE block < N
  <2>0. block \in Blocks /\ block \in Bits  BY <1>0, <1>2 DEF Blocks, Bits
  <2>1. pmm_clear_bit(block)  BY <1>0, <1>2 DEF ClearRam
  <2>2. block \in Available(boot)
    BY <1>0, <2>0 DEF Available
  <2>3. TypeOK'
    BY <1>0, <1>f, <2>0, <2>1 DEF IInv, TypeOK, pmm_clear_bit
  <2>4. FreeCountExact'
    BY <1>0, <1>f, <2>0, <2>1, ClearBitCount DEF IInv, FreeCountExact, pmm_clear_bit
  <2>5. Free' = Free \cup {block}
    BY <2>0, <2>1 DEF Free, pmm_clear_bit
  <2>6. EntryPrefix(boot, step, cur + 1) \subseteq EntryPrefix(boot, step, cur) \cup {block}
    BY <1>0, BlocksFinite DEF EntryPrefix, Blocks
  <2>7. MapInv'
    BY <1>0, <1>f, <2>2, <2>5, <2>6 DEF IInv, MapInv
  <2>8. ProtectInv' /\ OwnerInv' /\ StartInv' /\ HintTight'
    BY <1>0, <1>f DEF IInv, ProtectInv, OwnerInv, StartInv, HintTight
  <2> QED  BY <2>3, <2>4, <2>7, <2>8 DEF IInv
<1> QED  BY <1>0, <1>1, <1>2

\* The parser moves to the next entry of the map.
LEMMA NextEntryIInv == IInv /\ NextEntry => IInv'
<1> SUFFICES ASSUME IInv, NextEntry PROVE IInv'  OBVIOUS
<1> USE DEF NextEntry
<1>0. /\ boot \in BootInfos /\ cur \in Nat /\ step \in 1 .. Len(boot.mmap)
      /\ boot \in BootInfo
  BY BootFacts DEF IInv, TypeOK
<1>1. TypeOK'  BY <1>0 DEF IInv, TypeOK
<1>2. FreeCountExact'  BY DEF IInv, FreeCountExact
<1>3. MapInv'
  <2>1. EntryPrefix(boot, step, EntryBlocks(boot.magic, boot.mmap[step]))
            \subseteq EntryPrefix(boot, step, cur)
    BY <1>0, BootFacts, BlocksFinite DEF EntryPrefix, Blocks
  <2>2. step + 1 \in 1 .. Len(boot.mmap) => EntryPrefix(boot, step + 1, 0) = {}
    BY <1>0, BootFacts, BlocksFinite DEF EntryPrefix, Blocks
  <2>3. \A i \in 1 .. Len(boot.mmap) : i < step + 1 => i < step \/ i = step
    BY <1>0 DEF BootInfo
  <2> QED  BY <1>0, <2>1, <2>2, <2>3 DEF IInv, MapInv, Free
<1>4. ProtectInv' /\ OwnerInv' /\ StartInv' /\ HintTight'
  BY DEF IInv, ProtectInv, OwnerInv, StartInv, HintTight
<1> QED  BY <1>1, <1>2, <1>3, <1>4 DEF IInv

\* At the end of the map the clear bits are exactly the available blocks.
LEMMA CaptureTotalIInv == IInv /\ CaptureTotal => IInv'
<1> SUFFICES ASSUME IInv, CaptureTotal PROVE IInv'  OBVIOUS
<1> USE DEF CaptureTotal
<1>0. boot \in BootInfos /\ boot \in BootInfo /\ step \in Nat
  BY BootFacts DEF IInv, TypeOK
<1>1. TypeOK'  BY DEF IInv, TypeOK
<1>2. FreeCountExact'  BY DEF IInv, FreeCountExact
<1>3. Free = Available(boot)
  <2>1. \A i \in 1 .. Len(boot.mmap) : i < step  BY <1>0 DEF BootInfo
  <2>2. Available(boot) \subseteq Free
    BY <2>1 DEF IInv, MapInv, EntryPrefix, Available
  <2> QED  BY <2>2 DEF IInv, MapInv
<1>4. MapInv'  BY <1>3 DEF IInv, MapInv, FreeCountExact, Free
<1>5. ProtectInv'
  <2>1. \A r \in Ranges(boot, 1) : r.first \in Nat  BY <1>0, BootFacts
  <2>2. \A s \in 1 .. 4 : ~(s < 1)  OBVIOUS
  <2>3. ~ \E k \in Int, r \in Ranges(boot, 1) : r.first <= k /\ k < r.first + 0
    BY <2>1
  <2> QED  BY <2>2, <2>3 DEF ProtectInv
<1>6. OwnerInv' /\ StartInv' /\ HintTight'
  BY DEF IInv, OwnerInv, StartInv, HintTight
<1> QED  BY <1>1, <1>2, <1>4, <1>5, <1>6 DEF IInv

\* One block of a protected range.
LEMMA ProtectIInv == IInv /\ Protect => IInv'
<1> SUFFICES ASSUME IInv, Protect PROVE IInv'  OBVIOUS
<1>f. /\ pc = "protect" /\ step <= 4 /\ cur' = cur + 1
      /\ UNCHANGED <<pc, boot, step, total_blocks, last_free_bit, owned, ret>>
  BY DEF Protect
<1>0. /\ N \in Nat /\ boot \in BootInfos /\ step \in 1 .. 4 /\ cur \in Nat
  BY <1>f, BlocksFinite DEF IInv, TypeOK
<1>1. PICK r \in Ranges(boot, step) : r.first + cur <= r.last /\ pmm_set_bit(r.first + cur)
  BY DEF Protect
<1> DEFINE bit == r.first + cur
<1>2. r.first \in Nat /\ r.last \in Nat  BY <1>0, BootFacts
<1>3. bit \in RangeBlocks(boot, step)  BY <1>0, <1>1, <1>2 DEF RangeBlocks
<1>4. bit \in Blocks /\ bit \in Bits  BY <1>0, <1>3, BootFacts DEF Blocks, Bits
<1>5. used' = used \cup {bit}  BY <1>1 DEF pmm_set_bit
<1>6. FreeCountExact'
  <2>1. free_blocks = Cardinality(Blocks \ used)
    BY <1>f DEF IInv, FreeCountExact
  <2>2. free_blocks' = Cardinality(Blocks \ (used \cup {bit}))
    BY <1>1, <1>4, <2>1, SetBitCount DEF pmm_set_bit
  <2> QED  BY <1>5, <2>2 DEF FreeCountExact
<1>7. TypeOK'
  <2>1. free_blocks' \in Nat
    BY <1>1 DEF IInv, TypeOK, pmm_set_bit
  <2> QED  BY <1>0, <1>f, <1>4, <1>5, <2>1 DEF IInv, TypeOK
<1>8. MapInv'  BY <1>f, <1>5 DEF IInv, MapInv, Free
<1>9. ProtectInv'
  <2>1. ASSUME NEW q \in Ranges(boot, step)  PROVE q = r
    BY <1>0 DEF Ranges, KernelRange, PageZero, ModuleRange, Loaded, BootInfo
  <2>2. ASSUME NEW k \in Int, r.first <= k, k < r.first + (cur + 1)
        PROVE  k \in used'
    <3>1. k = bit \/ k < r.first + cur  BY <1>0, <1>2, <2>2
    <3>2. CASE k < r.first + cur  BY <1>f, <1>5, <2>2, <3>2 DEF IInv, ProtectInv
    <3> QED  BY <1>5, <3>1, <3>2
  <2> QED  BY <1>f, <1>5, <2>1, <2>2 DEF IInv, ProtectInv
<1>10. OwnerInv' /\ StartInv' /\ HintTight'
  BY <1>f, <1>5 DEF IInv, OwnerInv, StartInv, HintTight
<1> QED  BY <1>6, <1>7, <1>8, <1>9, <1>10 DEF IInv

\* A range is finished; after the fourth the allocator is ready.
LEMMA NextRangeIInv == IInv /\ NextRange => IInv'
<1> SUFFICES ASSUME IInv, NextRange PROVE IInv'  OBVIOUS
<1> USE DEF NextRange
<1>0. boot \in BootInfos /\ step \in 1 .. 4 /\ cur \in Nat /\ N \in Nat
  BY BlocksFinite DEF IInv, TypeOK
<1>1. TypeOK'  BY <1>0 DEF IInv, TypeOK
<1>2. FreeCountExact'  BY DEF IInv, FreeCountExact
<1>3. MapInv'  BY <1>0 DEF IInv, MapInv, Free
<1>4. RangeBlocks(boot, step) \subseteq used
  BY <1>0, BootFacts DEF IInv, ProtectInv, RangeBlocks
<1>5. ProtectInv'
  <2>1. \A s \in 1 .. 4 : s < step + 1 => RangeBlocks(boot, s) \subseteq used
    BY <1>0, <1>4 DEF IInv, ProtectInv
  <2>2. CASE step = 4
    BY <1>0, <2>1, <2>2 DEF ProtectInv
  <2>3. CASE step # 4
    <3>1. step + 1 \in 1 .. 4  BY <1>0, <2>3
    <3>2. \A r \in Ranges(boot, step + 1) : r.first \in Nat
      BY <1>0, <3>1, BootFacts
    <3>3. \A r \in Ranges(boot, step + 1) : \A k \in Int : ~(r.first <= k /\ k < r.first + 0)
      BY <3>2
    <3> QED  BY <1>0, <2>1, <2>3, <3>1, <3>3 DEF ProtectInv
  <2> QED  BY <2>2, <2>3
<1>6. OwnerInv'  BY <1>0 DEF IInv, OwnerInv
<1>7. StartInv'  BY <1>0 DEF StartInv
<1>8. HintTight'
  <2>1. last_free_bit' = LowBlock  BY <1>0 DEF IInv, OwnerInv
  <2>2. LowBlock .. LowBlock - 1 = {}  BY SizeAssumption
  <2> QED  BY <2>1, <2>2 DEF HintTight
<1> QED  BY <1>1, <1>2, <1>3, <1>5, <1>6, <1>7, <1>8 DEF IInv

\* A block above the 1 MiB line is found by one of the passes: it is a free
\* block below the last one, and no clear bit lies between the line and it.
LEMMA CandidatesLowest ==
    ASSUME TopNotAvailable, IInv, pc = "ready"
    PROVE  /\ Candidates = LowBlock .. N - 1 \ used
           /\ Candidates \subseteq LowBlock .. N - 2
           /\ Candidates \cap Protected(boot) = {}
           /\ ScanInBitmap
<1>0. /\ N \in Nat /\ LowBlock \in Nat /\ 0 < LowBlock /\ LowBlock < N
      /\ last_free_bit \in LowBlock .. N - 1 /\ boot \in BootInfos
      /\ PMM_BITMAP_SIZE \in Nat /\ N = 8 * PMM_BITMAP_SIZE
  BY BlocksFinite, SizeAssumption DEF IInv, OwnerInv, TypeOK, N
<1>1. FirstPass = LowBlock .. N - 1 \ used
  BY <1>0 DEF FirstPass, Bits, IInv, HintTight
<1>2. last_free_bit \div 8 < PMM_BITMAP_SIZE
  BY <1>0
<1>3. SecondPass \subseteq LowBlock .. N - 1 \ used
  BY <1>0, <1>2 DEF SecondPass, Bits
<1>4. Candidates = LowBlock .. N - 1 \ used
  BY <1>1, <1>3 DEF Candidates
<1>5. N - 1 \notin Candidates
  <2>1. N - 1 \notin Available(boot)  BY <1>0 DEF TopNotAvailable
  <2>2. N - 1 \in Blocks  BY <1>0 DEF Blocks
  <2> QED  BY <1>4, <2>1, <2>2 DEF IInv, MapInv, Free
<1>6. Protected(boot) \subseteq used
  BY <1>0 DEF IInv, ProtectInv, Protected
<1> QED  BY <1>0, <1>2, <1>4, <1>5, <1>6 DEF ScanInBitmap

LEMMA AllocIInv == TopNotAvailable /\ IInv /\ pmm_alloc_block => IInv'
<1> SUFFICES ASSUME TopNotAvailable, IInv, pmm_alloc_block PROVE IInv'  OBVIOUS
<1>1. PICK block \in Candidates :
        /\ \A b \in Candidates : block <= b
        /\ pmm_set_bit(block)
        /\ last_free_bit' = block + 1
        /\ owned' = owned \cup {block}
        /\ ret' = [call |-> "alloc", block |-> block]
  BY DEF pmm_alloc_block
<1>2. pc = "ready" /\ UNCHANGED <<pc, boot, step, cur, total_blocks>>
  BY DEF pmm_alloc_block, initVars
<1>3. /\ Candidates = LowBlock .. N - 1 \ used
      /\ Candidates \subseteq LowBlock .. N - 2
      /\ Candidates \cap Protected(boot) = {}
  BY <1>2, CandidatesLowest
<1>4. N \in Nat /\ LowBlock \in Nat /\ 0 < LowBlock /\ LowBlock < N
  BY BlocksFinite, SizeAssumption
<1>5. block \in Blocks /\ block \in Bits /\ block \in LowBlock .. N - 2 /\ block \notin used
  BY <1>1, <1>3, <1>4 DEF Blocks, Bits
<1>6. used' = used \cup {block}  BY <1>1 DEF pmm_set_bit
<1>7. FreeCountExact'
  <2>1. free_blocks = Cardinality(Blocks \ used)
    BY <1>2 DEF IInv, FreeCountExact
  <2>2. free_blocks' = Cardinality(Blocks \ (used \cup {block}))
    BY <1>1, <1>5, <2>1, SetBitCount DEF pmm_set_bit
  <2> QED  BY <1>6, <2>2 DEF FreeCountExact
<1>8. TypeOK'
  <2>1. free_blocks' \in Nat  BY <1>1 DEF IInv, TypeOK, pmm_set_bit
  <2>2. last_free_bit' \in LowBlock .. N + 8  BY <1>1, <1>4, <1>5
  <2>3. ret' \in Calls  BY <1>1, <1>5 DEF Calls
  <2> QED  BY <1>1, <1>2, <1>5, <1>6, <2>1, <2>2, <2>3 DEF IInv, TypeOK
<1>9. MapInv'  BY <1>2, <1>6 DEF IInv, MapInv, Free
<1>10. ProtectInv'  BY <1>2, <1>6 DEF IInv, ProtectInv
<1>11. OwnerInv'
  <2>1. last_free_bit' \in LowBlock .. N - 1  BY <1>1, <1>4, <1>5
  <2>2. block \in Available(boot)  BY <1>2, <1>5 DEF IInv, MapInv, Free
  <2> QED  BY <1>1, <1>2, <1>3, <1>5, <1>6, <2>1, <2>2 DEF IInv, OwnerInv
<1>12. HintTight'
  BY <1>1, <1>3, <1>4, <1>5, <1>6 DEF HintTight
<1>13. StartInv'  BY <1>2 DEF StartInv
<1> QED  BY <1>7, <1>8, <1>9, <1>10, <1>11, <1>12, <1>13 DEF IInv

LEMMA AllocFailsIInv == IInv /\ pmm_alloc_block_fails => IInv'
<1> SUFFICES ASSUME IInv, pmm_alloc_block_fails PROVE IInv'  OBVIOUS
<1>1. /\ ret' = [call |-> "alloc", block |-> NoBlock]
      /\ UNCHANGED <<pc, boot, step, cur, total_blocks, used, free_blocks,
                     last_free_bit, owned>>
  BY DEF pmm_alloc_block_fails, initVars
<1>2. ret' \in Calls  BY <1>1, BlocksFinite DEF Calls, Bits, NoBlock
<1>3. TypeOK' /\ FreeCountExact' /\ StartInv'
  BY <1>1, <1>2 DEF IInv, TypeOK, FreeCountExact, StartInv
<1>4. MapInv' /\ ProtectInv' /\ OwnerInv' /\ HintTight'
  BY <1>1 DEF IInv, MapInv, Free, ProtectInv, OwnerInv, HintTight
<1> QED  BY <1>3, <1>4 DEF IInv

\* A block given back becomes allocatable again, and the hint drops to it.
LEMMA FreeIInv ==
    ASSUME IInv, NEW block \in owned, pmm_free_block(block)
    PROVE  IInv'
<1>1. /\ pc = "ready" /\ pmm_clear_bit(block)
      /\ last_free_bit' = IF block < last_free_bit THEN block ELSE last_free_bit
      /\ owned' = owned \ {block}
      /\ ret' = [call |-> "free", block |-> block]
      /\ UNCHANGED <<pc, boot, step, cur, total_blocks>>
  BY DEF pmm_free_block, initVars
<1>2. N \in Nat /\ LowBlock \in Nat /\ 0 < LowBlock /\ LowBlock < N
  BY BlocksFinite, SizeAssumption
<1>3. /\ block \in Blocks /\ block \in Bits /\ block \in LowBlock .. N - 2
      /\ block \in used /\ block \notin Protected(boot) /\ boot \in BootInfos
      /\ last_free_bit \in LowBlock .. N - 1
  BY <1>2 DEF IInv, OwnerInv, TypeOK, Blocks, Bits
<1>4. used' = used \ {block}  BY <1>1 DEF pmm_clear_bit
<1>5. FreeCountExact'
  <2>1. free_blocks = Cardinality(Blocks \ used)
    BY <1>1 DEF IInv, FreeCountExact
  <2>2. free_blocks' = Cardinality(Blocks \ (used \ {block}))
    BY <1>1, <1>3, <2>1, ClearBitCount DEF pmm_clear_bit
  <2> QED  BY <1>4, <2>2 DEF FreeCountExact
<1>6. last_free_bit' \in LowBlock .. N - 1 /\ last_free_bit' <= last_free_bit
      /\ last_free_bit' <= block
  BY <1>1, <1>2, <1>3
<1>7. TypeOK'
  <2>1. free_blocks' \in Nat  BY <1>1 DEF IInv, TypeOK, pmm_clear_bit
  <2>2. last_free_bit' \in LowBlock .. N + 8  BY <1>2, <1>6
  <2>3. ret' \in Calls  BY <1>1, <1>3 DEF Calls
  <2> QED  BY <1>1, <1>4, <2>1, <2>2, <2>3 DEF IInv, TypeOK
<1>8. MapInv'  BY <1>1, <1>4 DEF IInv, MapInv, Free, OwnerInv
<1>9. ProtectInv'
  <2>1. \A s \in 1 .. 4 : block \notin RangeBlocks(boot, s)
    BY <1>3, BootFacts
  <2> QED  BY <1>1, <1>4, <2>1 DEF IInv, ProtectInv
<1>10. OwnerInv'  BY <1>1, <1>4, <1>6 DEF IInv, OwnerInv
<1>11. HintTight'
  BY <1>1, <1>2, <1>3, <1>4, <1>6 DEF IInv, HintTight
<1>12. StartInv'  BY <1>1 DEF StartInv
<1> QED  BY <1>5, <1>7, <1>8, <1>9, <1>10, <1>11, <1>12 DEF IInv

-----------------------------------------------------------------------------
\* IInv is an invariant of the allocator on every machine whose last tracked
\* block is not RAM.
LEMMA Inductive == TopNotAvailable => (Spec => []IInv)
<1> SUFFICES ASSUME TopNotAvailable PROVE Spec => []IInv  OBVIOUS
<1>1. Init => IInv  BY InitIInv
<1>2. IInv /\ [Next]_vars => IInv'
  <2> SUFFICES ASSUME IInv, [Next]_vars PROVE IInv'  OBVIOUS
  <2>1. CASE ReserveAll  BY <2>1, ReserveAllIInv
  <2>2. CASE ClearRam  BY <2>2, ClearRamIInv
  <2>3. CASE NextEntry  BY <2>3, NextEntryIInv
  <2>4. CASE CaptureTotal  BY <2>4, CaptureTotalIInv
  <2>5. CASE Protect  BY <2>5, ProtectIInv
  <2>6. CASE NextRange  BY <2>6, NextRangeIInv
  <2>7. CASE pmm_alloc_block  BY <2>7, AllocIInv
  <2>8. CASE pmm_alloc_block_fails  BY <2>8, AllocFailsIInv
  <2>9. ASSUME NEW block \in owned, pmm_free_block(block) PROVE IInv'
    BY <2>9, FreeIInv
  <2>10. CASE UNCHANGED vars
    <3>1. TypeOK' /\ FreeCountExact' /\ StartInv' /\ HintTight'
      BY <2>10 DEF vars, IInv, TypeOK, FreeCountExact, StartInv, HintTight
    <3>2. MapInv' /\ ProtectInv' /\ OwnerInv'
      BY <2>10 DEF vars, IInv, MapInv, Free, ProtectInv, OwnerInv
    <3> QED  BY <3>1, <3>2 DEF IInv
  <2> QED
    BY <2>1, <2>2, <2>3, <2>4, <2>5, <2>6, <2>7, <2>8, <2>9, <2>10 DEF Next
<1> QED  BY <1>1, <1>2, PTL DEF Spec

\* Types, for pmm.c as a whole.
THEOREM TypeCorrect == TopNotAvailable => (Spec => []TypeOK)
<1> SUFFICES ASSUME TopNotAvailable PROVE Spec => []TypeOK  OBVIOUS
<1>1. IInv => TypeOK  BY DEF IInv
<1> QED  BY <1>1, Inductive, PTL

\* free_blocks counts the clear bits, through boot and every alloc and free.
THEOREM FreeCount == TopNotAvailable => (Spec => []FreeCountExact)
<1> SUFFICES ASSUME TopNotAvailable PROVE Spec => []FreeCountExact  OBVIOUS
<1>1. IInv => FreeCountExact  BY DEF IInv
<1> QED  BY <1>1, Inductive, PTL

\* pmm_get_used_blocks, computed as a difference of two counters that were taken
\* at different times, is the number of available blocks in use.
THEOREM UsedCount == TopNotAvailable => (Spec => []UsedCountExact)
<1> SUFFICES ASSUME TopNotAvailable PROVE Spec => []UsedCountExact  OBVIOUS
<1>1. IInv => UsedCountExact
  <2> SUFFICES ASSUME IInv, pc = "ready"
               PROVE  pmm_get_used_blocks = Cardinality(Available(boot) \cap used)
    BY DEF UsedCountExact
  <2> DEFINE A == Available(boot)
  <2>1. A \subseteq Blocks /\ Free \subseteq A
    BY BootFacts DEF IInv, TypeOK, MapInv
  <2>2. total_blocks = Cardinality(A) /\ free_blocks = Cardinality(Free)
    BY DEF IInv, MapInv, FreeCountExact, Free
  <2>3. IsFiniteSet(A) /\ IsFiniteSet(Free)  BY <2>1, BlocksFinite DEF Free
  <2>4. A \cap used = A \ Free  BY <2>1 DEF Free
  <2>5. A \cap Free = Free  BY <2>1
  <2> HIDE DEF A
  <2>6. Cardinality(A \ Free) = Cardinality(A) - Cardinality(A \cap Free)
    BY <2>3, FS_Difference
  <2>7. Cardinality(Free) <= Cardinality(A) /\ Cardinality(A) \in Nat /\ Cardinality(Free) \in Nat
    BY <2>1, <2>3, FS_Subset, FS_CardinalityType
  <2>8. pmm_get_used_blocks = Cardinality(A) - Cardinality(Free)
    BY <2>2, <2>7 DEF pmm_get_used_blocks
  <2> QED  BY <2>4, <2>5, <2>6, <2>8 DEF A
<1> QED  BY <1>1, Inductive, PTL

\* Nothing that boot protects is ever in a caller's hands.
THEOREM ProtectedStaysProtected == TopNotAvailable => (Spec => []OwnedOutsideProtected)
<1> SUFFICES ASSUME TopNotAvailable PROVE Spec => []OwnedOutsideProtected  OBVIOUS
<1>1. IInv => OwnedOutsideProtected
  BY PreciousProtected, BlocksFinite, SizeAssumption
  DEF IInv, TypeOK, OwnerInv, OwnedOutsideProtected
<1> QED  BY <1>1, Inductive, PTL

\* The scan never reads past the bitmap.
THEOREM ScanStaysInBitmap == TopNotAvailable => (Spec => []ScanInBitmap)
<1> SUFFICES ASSUME TopNotAvailable PROVE Spec => []ScanInBitmap  OBVIOUS
<1>1. IInv => ScanInBitmap
  <2>1. CASE pc = "ready"  BY <2>1, CandidatesLowest
  <2>2. CASE pc # "ready"  BY <2>2 DEF ScanInBitmap
  <2> QED  BY <2>1, <2>2
<1> QED  BY <1>1, Inductive, PTL

\* pmm.c implements the lowest-first page allocator.
THEOREM Refinement == TopNotAvailable => (Spec => AbstractSpec)
<1> SUFFICES ASSUME TopNotAvailable PROVE Spec => AbstractSpec  OBVIOUS
<1>1. Init => Abstract!Init
  BY DEF Init, Abstract!Init, Allocatable
<1>2. IInv /\ [Next]_vars => [Abstract!Next]_Abstract!vars
  <2> SUFFICES ASSUME IInv, [Next]_vars PROVE [Abstract!Next]_Abstract!vars
    OBVIOUS
  <2>0. N \in Nat /\ LowBlock \in Nat /\ 0 < LowBlock /\ LowBlock < N
    BY BlocksFinite, SizeAssumption
  <2>1. CASE ReserveAll \/ ClearRam \/ NextEntry \/ CaptureTotal \/ Protect
    BY <2>1 DEF ReserveAll, ClearRam, NextEntry, CaptureTotal, Protect,
                Allocatable, Abstract!vars
  <2>2. CASE NextRange
    <3>1. CASE step = 4
      BY <2>2, <3>1 DEF NextRange, Allocatable, Abstract!Next, Abstract!Boot
    <3>2. CASE step # 4
      BY <2>2, <3>2 DEF NextRange, Allocatable, Abstract!vars
    <3> QED  BY <3>1, <3>2
  <2>3. CASE pmm_alloc_block
    <3>1. pc = "ready" /\ pc' = pc  BY <2>3 DEF pmm_alloc_block, initVars
    <3>2. Allocatable = Candidates  BY <3>1, CandidatesLowest DEF Allocatable
    <3>3. PICK block \in Candidates :
            /\ \A b \in Candidates : block <= b
            /\ used' = used \cup {block}
            /\ ret' = [call |-> "alloc", block |-> block]
      BY <2>3 DEF pmm_alloc_block, pmm_set_bit
    <3>4. Allocatable' = Allocatable \ {block}
      BY <3>1, <3>3 DEF Allocatable
    <3>5. Abstract!Alloc  BY <3>1, <3>2, <3>3, <3>4 DEF Abstract!Alloc
    <3> QED  BY <3>5 DEF Abstract!Next
  <2>4. CASE pmm_alloc_block_fails
    <3>1. pc = "ready" /\ pc' = pc /\ used' = used /\ Candidates = {}
      BY <2>4 DEF pmm_alloc_block_fails, initVars
    <3>2. Allocatable = {} /\ Allocatable' = {}
      BY <3>1, CandidatesLowest DEF Allocatable
    <3>3. Abstract!Refuse
      BY <2>4, <3>1, <3>2 DEF Abstract!Refuse, pmm_alloc_block_fails
    <3> QED  BY <3>3 DEF Abstract!Next
  <2>5. ASSUME NEW block \in owned, pmm_free_block(block)
        PROVE  Abstract!Next
    <3>1. pc = "ready" /\ pc' = pc /\ used' = used \ {block}
          /\ ret' = [call |-> "free", block |-> block]
      BY <2>5 DEF pmm_free_block, initVars, pmm_clear_bit
    <3>2. block \in used /\ block \in LowBlock .. N - 1
      BY <2>0 DEF IInv, OwnerInv
    <3>3. Allocatable' = Allocatable \cup {block} /\ block \notin Allocatable
      BY <3>1, <3>2 DEF Allocatable
    <3>4. Abstract!Free(block)  BY <3>1, <3>3 DEF Abstract!Free
    <3> QED  BY <3>2, <3>4 DEF Abstract!Next
  <2>6. CASE UNCHANGED vars
    BY <2>6 DEF vars, Allocatable, Abstract!vars
  <2> QED  BY <2>1, <2>2, <2>3, <2>4, <2>5, <2>6 DEF Next
<1> QED  BY <1>1, <1>2, Inductive, PTL DEF Spec, AbstractSpec, Abstract!Spec


-----------------------------------------------------------------------------
(* The disk.                                                               *)

Parts == Seq([fat : BOOLEAN, start : LBAs])
Contents == [kind : {"volume", "plain", "mbr", "garbage"}, parts : Parts]
ApcStates == {"select", "bsy", "err", "drq", "identify", "boot_sector", "partition", "fallback",
              "ready", "none"}

AtaType ==
    /\ bay \in [Slots -> Drive] /\ ramdisk_size \in Nat
    /\ apc \in ApcStates /\ slot \in Slots /\ sector \in Contents
    /\ drive_present \in BOOLEAN /\ ramdisk_mode \in BOOLEAN
    /\ partition_offset \in LBAs /\ active \in Slots /\ part \in Nat \ {0}

\* The slot being probed holds a drive, and past the error check one that is
\* not ATAPI; so does the slot in use.
ProbedDrive ==
    /\ apc \in {"bsy", "err", "drq", "identify"} => bay[slot].status # "absent"
    /\ apc \in {"drq", "identify"} => bay[slot].status # "atapi"
    /\ drive_present /\ ~ramdisk_mode => bay[active].status \notin {"absent", "atapi"}

\* Until the search is over no offset is set and nothing was transferred.
SearchFirst ==
    /\ apc # "ready" => partition_offset = 0
    /\ apc \notin {"ready", "none"} => io.ret # 0

AtaInv == AtaType /\ ProbedDrive /\ SearchFirst /\ MountedIsFat32 /\ ReadGivesSector

AtaNext == Detect \/ Search \/ ReadSector \/ WriteSector

\* A slot's drive: what its record holds.
LEMMA DriveFields ==
    ASSUME AtaInv, NEW s \in Slots
    PROVE  /\ bay[s] \in Drive
           /\ bay[s].status \in {"absent", "atapi", "hung", "slow", "live"}
           /\ \A l \in LBAs : /\ bay[s].sector[l] \in Contents
                              /\ bay[s].sector[l].kind # "garbage"
<1>1. bay[s] \in Drive
  BY DEF AtaInv, AtaType
<1>2. bay[s].status \in {"absent", "atapi", "hung", "slow", "live"}
  BY <1>1 DEF Drive
<1>3. bay[s].sector \in [LBAs -> [kind : {"volume", "plain", "mbr"}, parts : Parts]]
  BY <1>1 DEF Drive, Parts
<1>4. ASSUME NEW l \in LBAs
      PROVE  bay[s].sector[l] \in Contents /\ bay[s].sector[l].kind # "garbage"
  <2>1. bay[s].sector[l] \in [kind : {"volume", "plain", "mbr"}, parts : Parts]
    BY <1>3
  <2>2. QED
    BY <2>1 DEF Contents
<1>5. QED
  BY <1>1, <1>2, <1>4

\* What reading a sector can give: a volume only from the drive in use, and
\* garbage with a success only from a drive that may not answer.
LEMMA ReadOutcome ==
    ASSUME AtaInv, NEW lba \in LBAs, NEW r \in ata_read_sectors(lba)
    PROVE  /\ r.data \in Contents
           /\ r.data.kind \in {"volume", "mbr"} =>
                 drive_present /\ ~ramdisk_mode /\ r.data = bay[active].sector[lba]
           /\ r.ret = 0 => \/ r.data.kind # "garbage"
                           \/ ~ramdisk_mode /\ bay[active].status \in {"hung", "slow"}
<1>1. /\ Garbage \in Contents /\ Plain \in Contents
      /\ Garbage.kind = "garbage" /\ Plain.kind = "plain"
  BY DEF Garbage, Plain, Contents, Parts
<1>2. /\ active \in Slots /\ ramdisk_size \in Nat /\ LBAs \subseteq Nat
      /\ drive_present \in BOOLEAN /\ ramdisk_mode \in BOOLEAN
  BY AtaAssumption DEF AtaInv, AtaType
<1>3. CASE ~drive_present
  <2>1. r = [lba |-> lba, ret |-> -1, data |-> Garbage]
    BY <1>3 DEF ata_read_sectors
  <2>2. QED
    BY <1>1, <2>1
<1>4. CASE drive_present /\ ramdisk_mode
  <2>1. r = IF InRamdisk(lba)
             THEN [lba |-> lba, ret |-> 0,
                   data |-> IF lba < ramdisk_size THEN Plain ELSE Garbage]
             ELSE [lba |-> lba, ret |-> -1, data |-> Garbage]
    BY <1>4 DEF ata_read_sectors
  <2>2. InRamdisk(lba) => lba < ramdisk_size
    BY <1>2 DEF InRamdisk
  <2>3. QED
    BY <1>1, <2>1, <2>2
<1>5. CASE drive_present /\ ~ramdisk_mode
  <2>1. PICK ready \in Answers(active) :
           r = [lba |-> lba, ret |-> 0, data |-> IF ready THEN bay[active].sector[lba] ELSE Garbage]
    BY <1>5 DEF ata_read_sectors
  <2>2. bay[active].sector[lba] \in Contents /\ bay[active].sector[lba].kind # "garbage"
    BY <1>2, DriveFields
  <2>3. CASE ready
    BY <1>5, <2>1, <2>2, <2>3
  <2>4. CASE ~ready
    <3>1. bay[active].status # "live"
      BY <2>1, <2>4 DEF Answers
    <3>2. bay[active].status \in {"hung", "slow"}
      BY <1>2, <1>5, <3>1, DriveFields DEF AtaInv, ProbedDrive
    <3>3. QED
      BY <1>1, <1>5, <2>1, <2>4, <3>2
  <2>5. QED
    BY <2>3, <2>4
<1>6. QED
  BY <1>2, <1>3, <1>4, <1>5

\* An element of a sequence.
LEMMA Element ==
    ASSUME NEW S, NEW q \in Seq(S), NEW i \in 1 .. Len(q)
    PROVE  q[i] \in S
OBVIOUS

LEMMA AtaStart == AtaInit => AtaInv
<1> SUFFICES ASSUME AtaInit PROVE AtaInv
  OBVIOUS
<1>1. /\ bay \in [Slots -> Drive] /\ ramdisk_size \in Nat /\ 0 \in LBAs
      /\ apc = "select" /\ slot = 0 /\ sector = Garbage /\ part = 1
      /\ drive_present = FALSE /\ ramdisk_mode = FALSE /\ partition_offset = 0
      /\ active = 0 /\ io = NoTransfer
  BY AtaAssumption DEF AtaInit
<1>2. Garbage \in Contents /\ 0 \in Slots /\ io.ret = -1
  BY <1>1 DEF Garbage, Contents, Parts, Slots, NoTransfer
<1>3. AtaType
  <2>1. drive_present \in BOOLEAN /\ ramdisk_mode \in BOOLEAN
    BY <1>1
  <2>2. QED
    BY <1>1, <1>2, <2>1 DEF AtaType, ApcStates
<1>4. ProbedDrive /\ SearchFirst
  BY <1>1, <1>2 DEF ProbedDrive, SearchFirst
<1>5. MountedIsFat32 /\ ReadGivesSector
  BY <1>1, <1>2 DEF MountedIsFat32, ReadGivesSector
<1>6. QED
  BY <1>3, <1>4, <1>5 DEF AtaInv

\* A probe step: it looks at one slot after the other and changes nothing else.
LEMMA ProbeStep ==
    ASSUME AtaInv, apc \notin {"ready", "none"}, apc' \in ApcStates \ {"ready", "none"}, slot' \in Slots,
           UNCHANGED <<hardware, sector, part, globals, io>>,
           apc' \in {"bsy", "err", "drq", "identify"} => slot' = slot /\ bay[slot].status # "absent",
           apc' \in {"drq", "identify"} => bay[slot].status # "atapi"
    PROVE  AtaInv'
BY DEF AtaInv, AtaType, ProbedDrive, SearchFirst, MountedIsFat32, ReadGivesSector, hardware, globals

LEMMA NextSlotStep ==
    ASSUME AtaInv, NextSlot
    PROVE  slot' \in Slots /\ apc' \in {"fallback", "select"}
BY DEF AtaInv, AtaType, NextSlot, Slots

LEMMA DetectInv == ASSUME AtaInv, Detect PROVE AtaInv'
<1>0. slot \in Slots /\ apc \in ApcStates
  BY DEF AtaInv, AtaType
<1>1. CASE Select
  <2>1. CASE bay[slot].status = "absent"
    BY <1>1, <2>1, ProbeStep, NextSlotStep DEF Select, ApcStates
  <2>2. CASE bay[slot].status # "absent"
    BY <1>0, <1>1, <2>2, ProbeStep DEF Select, ApcStates
  <2>3. QED
    BY <2>1, <2>2
<1>2. ASSUME NEW here, NEW then, Wait(here, then),
             <<here, then>> \in {<<"bsy", "err">>, <<"drq", "identify">>}
      PROVE  AtaInv'
  <2>1. /\ apc = here /\ UNCHANGED <<hardware, sector, part, globals, io>>
        /\ \/ UNCHANGED <<apc, slot>>
           \/ apc' = then /\ UNCHANGED slot
           \/ NextSlot
    BY <1>2 DEF Wait
  <2>2. (here = "bsy" /\ then = "err") \/ (here = "drq" /\ then = "identify")
    BY <1>2
  <2>3. /\ bay[slot].status # "absent"
        /\ here = "drq" => bay[slot].status # "atapi"
    BY <2>1, <2>2 DEF AtaInv, ProbedDrive
  <2>4. CASE NextSlot
    BY <2>1, <2>2, <2>4, ProbeStep, NextSlotStep DEF ApcStates
  <2>5. CASE UNCHANGED <<apc, slot>> \/ (apc' = then /\ UNCHANGED slot)
    <3>1. apc \in {here, then} /\ apc' \in {here, then} /\ slot' = slot
      BY <2>1, <2>5
    <3>2. QED
      BY <1>0, <2>1, <2>2, <2>3, <3>1, ProbeStep DEF ApcStates
  <2>6. QED
    BY <2>1, <2>4, <2>5
<1>3. CASE WaitBusy
  <2>1. CASE bay[slot].status = "atapi"
    BY <1>0, <1>3, <2>1, ProbeStep DEF WaitBusy, ApcStates
  <2>2. CASE bay[slot].status # "atapi"
    BY <1>2, <1>3, <2>2 DEF WaitBusy
  <2>3. QED
    BY <2>1, <2>2
<1>4. CASE CheckError
  <2>1. /\ apc = "err" /\ UNCHANGED <<hardware, sector, part, globals, io>>
        /\ \/ NextSlot
           \/ apc' = "drq" /\ slot' = slot /\ bay[slot].status # "atapi"
    <3>1. /\ apc = "err" /\ UNCHANGED <<hardware, sector, part, globals, io>>
          /\ NextSlot \/ (apc' = "drq" /\ slot' = slot)
      BY <1>4 DEF CheckError
    <3>2. CASE bay[slot].status = "atapi"
      <4>1. \E error \in {TRUE} : IF error THEN NextSlot ELSE apc' = "drq" /\ slot' = slot
        BY <1>4, <3>2 DEF CheckError
      <4>2. QED
        BY <3>1, <4>1
    <3>3. CASE bay[slot].status # "atapi"
      BY <3>1, <3>3
    <3>4. QED
      BY <3>2, <3>3
  <2>2. CASE NextSlot
    BY <2>1, <2>2, ProbeStep, NextSlotStep DEF ApcStates
  <2>3. CASE apc' = "drq" /\ slot' = slot /\ bay[slot].status # "atapi"
    <3>1. bay[slot].status # "absent"
      BY <2>1 DEF AtaInv, ProbedDrive
    <3>2. QED
      BY <1>0, <2>1, <2>3, <3>1, ProbeStep DEF ApcStates
  <2>4. QED
    BY <2>1, <2>2, <2>3
<1>5. CASE WaitData
  BY <1>2, <1>5 DEF WaitData
<1>6. CASE Identify
  <2>1. /\ apc = "identify"
        /\ UNCHANGED <<hardware, timeout, sector, part, ramdisk_mode, partition_offset, io>>
        /\ \/ active' = slot /\ apc' = "boot_sector" /\ drive_present' = TRUE /\ UNCHANGED slot
           \/ NextSlot /\ UNCHANGED <<active, drive_present>>
    BY <1>6 DEF Identify
  <2>2. CASE NextSlot /\ UNCHANGED <<active, drive_present>>
    BY <2>1, <2>2, ProbeStep, NextSlotStep DEF ApcStates, globals
  <2>3. CASE active' = slot /\ apc' = "boot_sector" /\ drive_present' = TRUE /\ UNCHANGED slot
    <3>1. bay[slot].status \notin {"absent", "atapi"}
      BY <2>1 DEF AtaInv, ProbedDrive
    <3>2. io.ret # 0
      BY <2>1 DEF AtaInv, SearchFirst
    <3>3. QED
      BY <1>0, <2>1, <2>3, <3>1, <3>2
      DEF AtaInv, AtaType, ApcStates, ProbedDrive, SearchFirst, MountedIsFat32, ReadGivesSector, hardware
  <2>4. QED
    BY <2>1, <2>2, <2>3
<1>7. QED
  BY <1>1, <1>3, <1>4, <1>5, <1>6 DEF Detect

\* The sector that ends the search is read from the drive in use.
LEMMA SearchInv == ASSUME AtaInv, Search PROVE AtaInv'
<1>0. /\ 0 \in LBAs /\ active \in Slots /\ sector \in Contents /\ slot \in Slots
      /\ drive_present \in BOOLEAN /\ ramdisk_mode \in BOOLEAN /\ partition_offset \in LBAs
  BY AtaAssumption DEF AtaInv, AtaType
<1>1. CASE ReadBootSector
  <2>1. PICK r \in ata_read_sectors(0) :
          /\ sector' = r.data
          /\ IF is_fat32_bpb(r.data)
             THEN apc' = "ready" /\ UNCHANGED <<part, drive_present>>
             ELSE IF r.data.kind = "mbr" THEN apc' = "partition" /\ part' = 1 /\ UNCHANGED drive_present
             ELSE apc' = "fallback" /\ drive_present' = FALSE /\ UNCHANGED part
    BY <1>1 DEF ReadBootSector
  <2>2. /\ r.data \in Contents
        /\ r.data.kind \in {"volume", "mbr"} =>
              drive_present /\ ~ramdisk_mode /\ r.data = bay[active].sector[0]
    BY <1>0, <2>1, ReadOutcome
  <2>3. /\ apc = "boot_sector" /\ partition_offset = 0 /\ io.ret # 0
        /\ UNCHANGED <<hardware, slot, timeout, ramdisk_mode, partition_offset, active, io>>
    BY <1>1 DEF ReadBootSector, AtaInv, SearchFirst
  <2>4. /\ apc' \in {"ready", "partition", "fallback"} /\ part' \in {part, 1}
        /\ apc' = "ready" => r.data.kind = "volume"
        /\ drive_present' \in BOOLEAN /\ (drive_present' => drive_present)
    BY <1>0, <2>1 DEF is_fat32_bpb
  <2>5. AtaType'
    BY <1>0, <2>1, <2>2, <2>3, <2>4 DEF AtaInv, AtaType, ApcStates, hardware
  <2>6. MountedIsFat32'
    BY <2>2, <2>3, <2>4 DEF MountedIsFat32, hardware
  <2>7. QED
    BY <2>3, <2>4, <2>5, <2>6 DEF AtaInv, ProbedDrive, SearchFirst, ReadGivesSector, hardware
<1>2. CASE ReadPartition
  <2> DEFINE p == sector.parts[part]
  <2>1. PICK r \in IF p.fat THEN ata_read_sectors(p.start) ELSE {NoTransfer} :
              IF is_fat32_bpb(r.data)
              THEN apc' = "ready" /\ partition_offset' = p.start /\ UNCHANGED part
              ELSE part' = part + 1 /\ UNCHANGED <<apc, partition_offset>>
    BY <1>2 DEF ReadPartition
  <2>2. /\ apc = "partition" /\ partition_offset = 0 /\ io.ret # 0
        /\ UNCHANGED <<hardware, slot, timeout, sector, drive_present, ramdisk_mode, active, io>>
    BY <1>2 DEF ReadPartition, AtaInv, SearchFirst
  <2>3. CASE UNCHANGED <<apc, partition_offset>>
    <3>1. part' \in Nat \ {0}
      BY <2>1 DEF AtaInv, AtaType
    <3>2. QED
      BY <2>2, <2>3, <3>1
      DEF AtaInv, AtaType, ProbedDrive, SearchFirst, MountedIsFat32, ReadGivesSector, hardware
  <2>4. CASE apc' = "ready" /\ partition_offset' = p.start /\ r.data.kind = "volume" /\ part' = part
    <3>1. part \in 1 .. Len(sector.parts) /\ sector.parts \in Parts
      BY <1>0, <1>2 DEF ReadPartition, Contents, AtaInv, AtaType
    <3>2. p \in [fat : BOOLEAN, start : LBAs]
      BY <3>1, Element DEF Parts
    <3>3. p.start \in LBAs
      BY <3>2
    <3>4. p.fat
      BY <2>1, <2>4 DEF NoTransfer, Garbage
    <3>5. r \in ata_read_sectors(p.start)
      BY <2>1, <3>4
    <3>6. r.data = bay[active].sector[p.start]
      BY <2>4, <3>3, <3>5, ReadOutcome
    <3>7. AtaType'
      BY <2>2, <2>4, <3>3 DEF AtaInv, AtaType, ApcStates, hardware
    <3>8. MountedIsFat32'
      BY <2>2, <2>4, <3>6 DEF MountedIsFat32, hardware
    <3>9. QED
      BY <2>2, <2>4, <3>7, <3>8 DEF AtaInv, ProbedDrive, SearchFirst, ReadGivesSector, hardware
  <2>5. QED
    BY <2>1, <2>3, <2>4 DEF is_fat32_bpb
<1>3. CASE NoPartition
  BY <1>3 DEF NoPartition, AtaInv, AtaType, ApcStates, ProbedDrive, SearchFirst, MountedIsFat32,
              ReadGivesSector, hardware
<1>4. CASE Fallback
  BY <1>4 DEF Fallback, AtaInv, AtaType, ApcStates, ProbedDrive, SearchFirst, MountedIsFat32,
              ReadGivesSector, hardware
<1>5. QED
  BY <1>1, <1>2, <1>3, <1>4 DEF Search

\* The file system's transfers leave the boot record where it is.
LEMMA TransferInv == ASSUME AtaInv, ReadSector \/ WriteSector PROVE AtaInv'
<1>0. active \in Slots /\ bay \in [Slots -> Drive] /\ partition_offset \in LBAs
  BY DEF AtaInv, AtaType
<1>1. CASE ReadSector
  <2>1. /\ \E lba \in LBAs : io' \in ata_read_sectors(lba)
        /\ apc \in {"ready", "none"}
        /\ UNCHANGED <<hardware, apc, slot, timeout, sector, part, globals>>
    BY <1>1 DEF ReadSector
  <2>2. ReadGivesSector'
    BY <2>1, ReadOutcome DEF ReadGivesSector, hardware, globals
  <2>3. QED
    BY <2>1, <2>2 DEF AtaInv, AtaType, ProbedDrive, SearchFirst, MountedIsFat32, hardware, globals
<1>2. CASE WriteSector
  <2>1. PICK lba \in LBAs \ {0, partition_offset} : ata_write_sectors(lba)
    BY <1>2 DEF WriteSector
  <2>2. /\ apc = "ready" /\ drive_present
        /\ UNCHANGED <<ramdisk_size, apc, slot, timeout, sector, part, globals>>
    BY <1>2, <2>1 DEF WriteSector, ata_write_sectors
  <2>3. Plain.kind = "plain" /\ Garbage.kind = "garbage"
    BY DEF Plain, Garbage
  <2>4. CASE ramdisk_mode
    <3>1. io'.data = Plain /\ bay' = bay
      BY <2>1, <2>4 DEF ata_write_sectors
    <3>2. ReadGivesSector'
      BY <2>3, <3>1 DEF ReadGivesSector
    <3>3. QED
      BY <2>2, <3>1, <3>2 DEF AtaInv, AtaType, ProbedDrive, SearchFirst, MountedIsFat32, globals
  <2>5. CASE ~ramdisk_mode
    <3>1. PICK ready \in Answers(active) :
               /\ bay' = IF ready THEN [bay EXCEPT ![active].sector[lba] = Plain] ELSE bay
               /\ io' = [lba |-> lba, ret |-> 0, data |-> IF ready THEN Plain ELSE Garbage]
      BY <2>1, <2>5 DEF ata_write_sectors
    <3>2. /\ bay' \in [Slots -> Drive]
          /\ \A s \in Slots : bay'[s].status = bay[s].status
          /\ bay'[active].sector[partition_offset] = bay[active].sector[partition_offset]
      <4>1. CASE ~ready
        BY <1>0, <3>1, <4>1
      <4>2. CASE ready
        <5>1. bay' = [bay EXCEPT ![active].sector[lba] = Plain]
          BY <3>1, <4>2
        <5>2. Plain \in [kind : {"volume", "plain", "mbr"}, parts : Parts]
          BY DEF Plain, Parts
        <5>3. bay[active] \in Drive
          BY <1>0
        <5>4. bay[active].sector \in [LBAs -> [kind : {"volume", "plain", "mbr"}, parts : Parts]]
          BY <5>3 DEF Drive, Parts
        <5>5. bay' = [bay EXCEPT ![active] =
                         [bay[active] EXCEPT !.sector = [bay[active].sector EXCEPT ![lba] = Plain]]]
          BY <5>1
        <5>6. [bay[active].sector EXCEPT ![lba] = Plain]
                 \in [LBAs -> [kind : {"volume", "plain", "mbr"}, parts : Parts]]
          BY <5>2, <5>4
        <5> DEFINE new == [bay[active].sector EXCEPT ![lba] = Plain]
        <5>7. new[partition_offset] = bay[active].sector[partition_offset]
          BY <1>0, <2>1, <5>4
        <5>8. new \in [LBAs -> [kind : {"volume", "plain", "mbr"}, parts : Parts]]
          BY <5>6
        <5>9. bay' = [bay EXCEPT ![active] = [bay[active] EXCEPT !.sector = new]]
          BY <5>5
        <5> HIDE DEF new
        <5>10. [bay[active] EXCEPT !.sector = new] \in Drive
          BY <5>3, <5>8 DEF Drive, Parts
        <5>11. bay'[active].sector = new /\ bay'[active].status = bay[active].status
          BY <1>0, <5>3, <5>9 DEF Drive
        <5>12. bay' \in [Slots -> Drive] /\ \A s \in Slots : s # active => bay'[s] = bay[s]
          BY <1>0, <5>9, <5>10
        <5>13. QED
          BY <5>7, <5>11, <5>12
      <4>3. QED
        BY <4>1, <4>2
    <3>3. AtaType'
      BY <2>2, <3>2 DEF AtaInv, AtaType, globals
    <3>4. ReadGivesSector'
      <4>1. CASE ready
        BY <2>3, <3>1, <4>1 DEF ReadGivesSector
      <4>2. CASE ~ready
        <5>1. bay[active].status # "live"
          BY <3>1, <4>2 DEF Answers
        <5>2. bay[active].status \in {"hung", "slow"}
          BY <1>0, <2>2, <2>5, <5>1, DriveFields DEF AtaInv, ProbedDrive
        <5>3. QED
          BY <1>0, <2>2, <2>5, <3>2, <5>2 DEF ReadGivesSector, globals
      <4>3. QED
        BY <4>1, <4>2
    <3>5. MountedIsFat32' /\ ProbedDrive' /\ SearchFirst'
      BY <1>0, <2>2, <2>5, <3>2 DEF AtaInv, ProbedDrive, SearchFirst, MountedIsFat32, globals
    <3>6. QED
      BY <3>3, <3>4, <3>5 DEF AtaInv
  <2>6. QED
    BY <2>4, <2>5
<1>3. QED
  BY <1>1, <1>2

\* The driver's state is sound in every state of the boot and after it.
THEOREM AtaInvariant == BootSpec => []AtaInv
<1>1. BootInit => AtaInv
  BY AtaStart DEF BootInit
<1>2. AtaInv /\ [BootNext]_bootVars => AtaInv'
  <2> SUFFICES ASSUME AtaInv, [BootNext]_bootVars PROVE AtaInv'
    OBVIOUS
  <2>1. CASE UNCHANGED ataVars
    BY <2>1 DEF ataVars, AtaInv, AtaType, ProbedDrive, SearchFirst, MountedIsFat32, ReadGivesSector
  <2>2. QED
    BY <2>1, DetectInv, SearchInv, TransferInv DEF BootNext, bootVars, Memory, ata_init, Transfers
<1>3. QED
  BY <1>1, <1>2, PTL DEF BootSpec

\* ata_init ends with a FAT32 volume or on the ramdisk, however the drives
\* answer, and no later write destroys the boot record it found.
THEOREM OnlyVolumesMounted == BootSpec => []MountedIsFat32
<1>1. AtaInv => MountedIsFat32
  BY DEF AtaInv
<1>2. QED
  BY <1>1, AtaInvariant, PTL

\* ata_read_sectors and ata_write_sectors report success without having moved
\* the sector only for a drive that does not answer in time.
THEOREM TransfersHonest == BootSpec => []ReadGivesSector
<1>1. AtaInv => ReadGivesSector
  BY DEF AtaInv
<1>2. QED
  BY <1>1, AtaInvariant, PTL

-----------------------------------------------------------------------------
(* The page tables: pages and their indices.                               *)

\* Division with remainder.
LEMMA DivMod ==
    ASSUME NEW a \in Nat, NEW b \in Nat, b > 0
    PROVE  a = (b * (a \div b)) + (a % b) /\ a % b \in 0 .. b - 1 /\ a \div b \in Nat
OBVIOUS

\* Quotient and remainder are the only ones.
LEMMA DivModUnique ==
    ASSUME NEW a \in Nat, NEW b \in Nat, b > 0, NEW q \in Int, NEW s \in 0 .. b - 1,
           a = b * q + s
    PROVE  q = a \div b /\ s = a % b
OBVIOUS

\* Dividing by a product is dividing twice.
LEMMA DivTwice ==
    ASSUME NEW a \in Nat, NEW b \in Nat, b > 0, NEW c \in Nat, c > 0
    PROVE  a \div (b * c) = (a \div b) \div c
<1> DEFINE q == a \div b
           t == q \div c
           x == a % b
           y == q % c
<1>1. a = b * q + x /\ x \in 0 .. b - 1 /\ q \in Nat
  BY DivMod
<1>2. q = c * t + y /\ y \in 0 .. c - 1 /\ t \in Nat
  BY DivMod, <1>1
<1> HIDE DEF q, t, x, y
<1>3. b * c \in Nat /\ b * c > 0
  OBVIOUS
<1>4. a = (b * c) * t + (b * y + x)
  BY <1>1, <1>2
<1>5. b * y + x \in 0 .. b * c - 1
  BY <1>1, <1>2
<1>6. ASSUME NEW n \in Nat, n > 0, NEW s \in 0 .. n - 1, a = n * t + s PROVE t = a \div n
  BY <1>6, <1>2, DivModUnique
<1>7. t = a \div (b * c)
  BY <1>6, <1>3, <1>4, <1>5
<1>8. QED
  BY <1>7 DEF t, q

\* pmm_alloc_block's choice exists: a set of frames has a lowest one.
LEMMA LowestOf ==
    ASSUME NEW S, S \subseteq Nat, S # {}
    PROVE  Lowest(S) \in S /\ \A g \in S : Lowest(S) <= g
<1> DEFINE R == OpToRel(<, Nat)
<1>1. IsWellFoundedOn(R, Nat)
  BY NatLessThanWellFounded
<1>2. R = {ss \in Nat \X Nat : ss[1] < ss[2]}
  BY DEF OpToRel
<1> HIDE DEF R
<1>3. PICK x \in S : \A y \in S : ~(<<y, x>> \in R)
  BY <1>1, WFMin
<1>4. ASSUME NEW g \in S PROVE x <= g
  <2>1. <<g, x>> \in Nat \X Nat /\ g \in Nat /\ x \in Nat
    OBVIOUS
  <2>2. ~(g < x)
    BY <1>2, <1>3, <2>1
  <2>3. QED
    BY <2>1, <2>2
<1>5. \E f \in S : \A g \in S : f <= g
  BY <1>4
<1>6. QED
  BY <1>5 DEF Lowest

\* A page number is read off its four indices, lowest digit first.
LEMMA Digits ==
    ASSUME NEW v \in Pages
    PROVE  \E q0 \in Nat, q1 \in Nat :
              /\ v = Fanout * q0 + Index(v, 0)
              /\ q0 = Fanout * q1 + Index(v, 1)
              /\ q1 = Fanout * Index(v, 3) + Index(v, 2)
              /\ \A l \in 0 .. 3 : Index(v, l) \in 0 .. Fanout - 1
<1> DEFINE F == Fanout
           q0 == v \div F
           q1 == q0 \div F
           q2 == q1 \div F
<1>0. F \in Nat /\ F > 1 /\ v \in Nat /\ v < F * F * F * F
  BY VmmAssumption DEF Pages
<1>1. v = F * q0 + (v % F) /\ v % F \in 0 .. F - 1 /\ q0 \in Nat
  BY <1>0, DivMod
<1>2. q0 = F * q1 + (q0 % F) /\ q0 % F \in 0 .. F - 1 /\ q1 \in Nat
  BY <1>0, <1>1, DivMod
<1>3. q1 = F * q2 + (q1 % F) /\ q1 % F \in 0 .. F - 1 /\ q2 \in Nat
  BY <1>0, <1>2, DivMod
<1>4. v \div (F * F) = q1
  BY <1>0, DivTwice
<1>5. v \div (F * F * F) = q2
  <2>1. F * F \in Nat /\ F * F > 0
    BY <1>0
  <2>2. v \div ((F * F) * F) = (v \div (F * F)) \div F
    BY <1>0, <2>1, DivTwice
  <2>3. QED
    BY <2>2, <1>4
<1> HIDE DEF q0, q1, q2
<1>6. q2 < F
  <2>1. F * q0 < F * F * F * F
    BY <1>0, <1>1
  <2>2. q0 < F * F * F
    BY <2>1, <1>0, <1>1
  <2>3. F * q1 < F * F * F
    BY <2>2, <1>0, <1>2
  <2>4. q1 < F * F
    BY <2>3, <1>0, <1>2
  <2>5. F * q2 < F * F
    BY <2>4, <1>0, <1>3
  <2>6. QED
    BY <2>5, <1>0, <1>3
<1>7. Index(v, 0) = v % F /\ Index(v, 1) = q0 % F /\ Index(v, 2) = q1 % F /\ Index(v, 3) = q2 % F
  BY <1>4, <1>5 DEF Index, q0
<1>8. q2 % F = q2
  BY <1>6, <1>3, <1>0
<1>9. \A l \in 0 .. 3 : l = 0 \/ l = 1 \/ l = 2 \/ l = 3
  OBVIOUS
<1>10. ASSUME NEW l \in 0 .. 3 PROVE Index(v, l) \in 0 .. F - 1
  <2>1. v % F \in 0 .. F - 1 /\ q0 % F \in 0 .. F - 1 /\ q1 % F \in 0 .. F - 1
    BY <1>1, <1>2, <1>3
  <2>2. q2 \in 0 .. F - 1
    BY <1>0, <1>3, <1>6
  <2>3. Index(v, 3) \in 0 .. F - 1
    BY <2>2, <1>7, <1>8, Zenon
  <2>4. Index(v, 0) \in 0 .. F - 1 /\ Index(v, 1) \in 0 .. F - 1 /\ Index(v, 2) \in 0 .. F - 1
    BY <2>1, <1>7, Zenon
  <2>5. QED
    BY <2>3, <2>4, <1>9, Zenon
<1>11. QED
  BY <1>1, <1>2, <1>3, <1>7, <1>8, <1>10

\* Two pages with the same indices are the same.
LEMMA IndicesIdentify ==
    ASSUME NEW u \in Pages, NEW v \in Pages, \A l \in 0 .. 3 : Index(u, l) = Index(v, l)
    PROVE  u = v
<1>1. Index(u, 0) = Index(v, 0) /\ Index(u, 1) = Index(v, 1)
      /\ Index(u, 2) = Index(v, 2) /\ Index(u, 3) = Index(v, 3)
  OBVIOUS
<1>2. QED
  BY <1>1, Digits

\* The pages the loader maps are those below its directories.
LEMMA LoaderPages ==
    ASSUME NEW v \in Pages
    PROVE  v < Reach <=> Index(v, 3) = 0 /\ Index(v, 2) \in Directories
<1> DEFINE F == Fanout
           D == Reach \div (F * F)
<1>1. PICK q0 \in Nat, q1 \in Nat :
              /\ v = F * q0 + Index(v, 0)
              /\ q0 = F * q1 + Index(v, 1)
              /\ q1 = F * Index(v, 3) + Index(v, 2)
              /\ \A l \in 0 .. 3 : Index(v, l) \in 0 .. F - 1
  BY Digits
<1>2. F \in Nat /\ F > 1 /\ Reach \in Nat /\ Reach < F * F * F
  BY VmmAssumption
<1>3. D \in Nat /\ Reach = (F * F) * D
  <2>1. F * F \in Nat /\ F * F > 0
    BY <1>2
  <2>2. Reach % (F * F) = 0
    BY VmmAssumption
  <2>3. QED
    BY <1>2, <2>1, <2>2, DivMod
<1> DEFINE i0 == Index(v, 0)  i1 == Index(v, 1)  i2 == Index(v, 2)  i3 == Index(v, 3)
<1>4. i0 \in 0 .. F - 1 /\ i1 \in 0 .. F - 1 /\ i2 \in 0 .. F - 1 /\ i3 \in 0 .. F - 1
  BY <1>1
<1>5. v = F * q0 + i0 /\ q0 = F * q1 + i1 /\ q1 = F * i3 + i2
  BY <1>1
<1>6. Directories = 0 .. D - 1
  BY DEF Directories
<1> HIDE DEF D, i0, i1, i2, i3
<1>7. D < F
  <2>1. (F * F) * D < (F * F) * F
    BY <1>2, <1>3
  <2>2. QED
    BY <2>1, <1>2, <1>3
<1>8. v < (F * F) * D <=> q1 < D
  <2>1. v < F * (F * D) <=> q0 < F * D
    BY <1>2, <1>3, <1>4, <1>5
  <2>2. q0 < F * D <=> q1 < D
    BY <1>2, <1>3, <1>4, <1>5
  <2>3. (F * F) * D = F * (F * D)
    BY <1>2, <1>3
  <2>4. QED
    BY <2>1, <2>2, <2>3
<1>9. q1 < D <=> i3 = 0 /\ i2 < D
  <2>1. CASE i3 = 0
    BY <2>1, <1>2, <1>4, <1>5
  <2>2. CASE i3 > 0
    <3>1. F * i3 >= F
      BY <2>2, <1>2, <1>4
    <3>2. QED
      BY <3>1, <2>2, <1>2, <1>3, <1>4, <1>5, <1>7
  <2>3. QED
    BY <2>1, <2>2, <1>4
<1>10. QED
  BY <1>3, <1>4, <1>6, <1>8, <1>9 DEF i2, i3

-----------------------------------------------------------------------------
(* The tables as a tree, and the frames.                                  *)

\* The entries of a table.
Places == 0 .. Fanout - 1

\* The tables form a tree below the PML4: lv gives the level of a table, cov the
\* pages whose walk goes through it.  Huge pages map what the loader mapped, and
\* the pages of a table agree on the indices above it.
Tree(T, lv, cov) ==
    /\ lv \in [DOMAIN T -> 0 .. 3] /\ cov \in [DOMAIN T -> SUBSET Pages]
    /\ T = [t \in DOMAIN T |-> T[t]]
    /\ \A t \in DOMAIN T : DOMAIN T[t] = Places /\ T[t] = [i \in Places |-> T[t][i]]
    /\ PML4 \in DOMAIN T /\ lv[PML4] = 3 /\ cov[PML4] = Pages
    /\ \A t \in DOMAIN T, i \in Places :
          T[t][i].huge => lv[t] = 1 /\ \A v \in cov[t] : v < Reach
    /\ \A t \in DOMAIN T, i \in Places :
          lv[t] > 0 /\ T[t][i].present /\ ~T[t][i].huge
          => /\ T[t][i].to \in DOMAIN T
             /\ lv[T[t][i].to] = lv[t] - 1
             /\ cov[T[t][i].to] = {v \in cov[t] : Index(v, lv[t]) = i}
    /\ \A t \in DOMAIN T : \A u, v \in cov[t] : \A l \in (lv[t] + 1) .. 3 : Index(u, l) = Index(v, l)

\* The frames: R records which page was given which frame.  A is what the memory
\* manager has left.
Owned(T, lv, cov, A, R) ==
    /\ A \subseteq Nat /\ A \cap DOMAIN T = {}
    /\ \A m \in R : m[1] \in Pages /\ m[2] \notin A /\ m[2] \notin DOMAIN T
    /\ \A t \in DOMAIN T, i \in Places :
          lv[t] = 0 /\ T[t][i].present
          => \E m \in R : m[1] \in cov[t] /\ Index(m[1], 0) = i /\ m[2] = T[t][i].to
    /\ \A t, s \in DOMAIN T, i, j \in Places :
          /\ T[t][i].present /\ ~T[t][i].huge /\ T[s][j].present /\ ~T[s][j].huge
          /\ T[t][i].to = T[s][j].to
          => t = s /\ i = j

\* What mapping may do: fill empty entries and make tables of free frames.
Kept(T, T2) ==
    /\ DOMAIN T \subseteq DOMAIN T2
    /\ \A t \in DOMAIN T, i \in Places : T[t][i].present => T2[t][i] = T[t][i]

Grown(T, A, T2, A2) == Kept(T, T2) /\ A2 \subseteq A /\ DOMAIN T2 \subseteq DOMAIN T \cup A

\* A walk is a record.
Walker(w) == w = [free |-> w.free, tables |-> w.tables, at |-> w.at, ok |-> w.ok, fault |-> w.fault]

\* A walk for v that has come to a table of level l.
Arrived(w, v, l, lv, cov, R) ==
    /\ Walker(w) /\ Tree(w.tables, lv, cov) /\ Owned(w.tables, lv, cov, w.free, R)
    /\ w.ok => w.at \in DOMAIN w.tables /\ lv[w.at] = l /\ v \in cov[w.at] /\ w.fault = FALSE
    /\ ~w.ok /\ w.fault => \A f \in w.free : f >= Reach
    /\ ~w.ok /\ ~w.fault => w.free = {}

\* A new table keeps the tree.
LEMMA NewTableTree ==
    ASSUME NEW T, NEW A, NEW R, NEW lv, NEW cov, Tree(T, lv, cov), Owned(T, lv, cov, A, R),
           NEW t \in DOMAIN T, lv[t] > 0, NEW i \in Places, ~T[t][i].present, NEW f \in A
    PROVE  \E lv2, cov2 :
              /\ Tree(Linked(T, t, i, f), lv2, cov2) /\ Owned(Linked(T, t, i, f), lv2, cov2, A \ {f}, R)
              /\ lv2[f] = lv[t] - 1 /\ cov2[f] = {v \in cov[t] : Index(v, lv[t]) = i}
              /\ \A s \in DOMAIN T : lv2[s] = lv[s] /\ cov2[s] = cov[s]
              /\ Grown(T, A, Linked(T, t, i, f), A \ {f})
              /\ Linked(T, t, i, f)[t][i] = Present(f) /\ f \in DOMAIN Linked(T, t, i, f)
<1> DEFINE T2 == Linked(T, t, i, f)
           C == {v \in cov[t] : Index(v, lv[t]) = i}
           lv2 == [s \in DOMAIN T \cup {f} |-> IF s = f THEN lv[t] - 1 ELSE lv[s]]
           cov2 == [s \in DOMAIN T \cup {f} |-> IF s = f THEN C ELSE cov[s]]
<1>1. f \notin DOMAIN T /\ f # t /\ f \in Nat
  BY DEF Owned
<1>2. DOMAIN T2 = DOMAIN T \cup {f} /\ T2 = [s \in DOMAIN T2 |-> T2[s]]
  BY DEF Linked
<1>3. T2[f] = [j \in Places |-> NotPresent]
  BY DEF Linked, EmptyTable, Places
<1>4. T2[t] = [T[t] EXCEPT ![i] = Present(f)]
  BY <1>1 DEF Linked
<1>5. \A s \in DOMAIN T : s # t => T2[s] = T[s]
  BY <1>1 DEF Linked
<1>6. DOMAIN T[t] = Places /\ T[t] = [j \in Places |-> T[t][j]]
  BY DEF Tree
<1>7. T2[t][i] = Present(f) /\ (\A j \in Places : j # i => T2[t][j] = T[t][j])
      /\ DOMAIN T2[t] = Places /\ T2[t] = [j \in Places |-> T2[t][j]]
  BY <1>4, <1>6
<1>8. \A s \in DOMAIN T, j \in Places : T2[s][j] = T[s][j] \/ (s = t /\ j = i)
  BY <1>5, <1>7
<1>9. \A j \in Places : T2[f][j] = NotPresent
  BY <1>3
<1>10. ~NotPresent.present /\ ~NotPresent.huge /\ Present(f).present /\ ~Present(f).huge /\ Present(f).to = f
  BY DEF NotPresent, Present
<1>11. lv \in [DOMAIN T -> 0 .. 3] /\ cov \in [DOMAIN T -> SUBSET Pages]
  BY DEF Tree
<1>12. lv2 \in [DOMAIN T2 -> 0 .. 3] /\ cov2 \in [DOMAIN T2 -> SUBSET Pages]
  BY <1>2, <1>11
<1>13. lv2[f] = lv[t] - 1 /\ cov2[f] = C /\ \A s \in DOMAIN T : lv2[s] = lv[s] /\ cov2[s] = cov[s]
  BY <1>1
<1> HIDE DEF T2, lv2, cov2
<1>14. Tree(T2, lv2, cov2)
  <2>1. \A s \in DOMAIN T2 : DOMAIN T2[s] = Places /\ T2[s] = [j \in Places |-> T2[s][j]]
    BY <1>2, <1>3, <1>5, <1>7 DEF Tree
  <2>2. PML4 \in DOMAIN T2 /\ lv2[PML4] = 3 /\ cov2[PML4] = Pages
    BY <1>2, <1>13 DEF Tree
  <2>3. ASSUME NEW s \in DOMAIN T2, NEW j \in Places, T2[s][j].huge
        PROVE  lv2[s] = 1 /\ \A v \in cov2[s] : v < Reach
    <3>1. s # f
      BY <2>3, <1>9, <1>10
    <3>2. s \in DOMAIN T /\ ~(s = t /\ j = i)
      BY <3>1, <2>3, <1>2, <1>7, <1>10
    <3>3. QED
      BY <3>2, <2>3, <1>8, <1>13 DEF Tree
  <2>4. ASSUME NEW s \in DOMAIN T2, NEW j \in Places, lv2[s] > 0, T2[s][j].present, ~T2[s][j].huge
        PROVE  /\ T2[s][j].to \in DOMAIN T2
               /\ lv2[T2[s][j].to] = lv2[s] - 1
               /\ cov2[T2[s][j].to] = {v \in cov2[s] : Index(v, lv2[s]) = j}
    <3>1. s \in DOMAIN T
      BY <2>4, <1>2, <1>9, <1>10
    <3>2. CASE s = t /\ j = i
      BY <3>2, <1>2, <1>7, <1>10, <1>13
    <3>3. CASE ~(s = t /\ j = i)
      <4>1. T2[s][j] = T[s][j]
        BY <3>1, <3>3, <1>8
      <4>2. lv[s] > 0 /\ T[s][j].present /\ ~T[s][j].huge
        BY <4>1, <2>4, <3>1, <1>13
      <4>3. /\ T[s][j].to \in DOMAIN T
            /\ lv[T[s][j].to] = lv[s] - 1
            /\ cov[T[s][j].to] = {v \in cov[s] : Index(v, lv[s]) = j}
        BY <4>2, <3>1 DEF Tree
      <4>4. QED
        BY <4>1, <4>3, <3>1, <1>2, <1>13
    <3>4. QED
      BY <3>2, <3>3
  <2>5. ASSUME NEW s \in DOMAIN T2, NEW u \in cov2[s], NEW v \in cov2[s], NEW l \in (lv2[s] + 1) .. 3
        PROVE  Index(u, l) = Index(v, l)
    <3>1. CASE s = f
      <4>1. u \in cov[t] /\ v \in cov[t] /\ Index(u, lv[t]) = Index(v, lv[t])
        BY <3>1, <1>13
      <4>2. l = lv[t] \/ l \in (lv[t] + 1) .. 3
        BY <3>1, <1>13, <1>11
      <4>3. QED
        BY <4>1, <4>2 DEF Tree
    <3>2. CASE s # f
      BY <3>2, <1>2, <1>13 DEF Tree
    <3>3. QED
      BY <3>1, <3>2
  <2>6. QED
    BY <1>2, <1>12, <2>1, <2>2, <2>3, <2>4, <2>5 DEF Tree
<1>15. Owned(T2, lv2, cov2, A \ {f}, R)
  <2>1. A \ {f} \subseteq Nat /\ (A \ {f}) \cap DOMAIN T2 = {}
    BY <1>2 DEF Owned
  <2>2. \A m \in R : m[1] \in Pages /\ m[2] \notin A \ {f} /\ m[2] \notin DOMAIN T2
    BY <1>2 DEF Owned
  <2>3. ASSUME NEW s \in DOMAIN T2, NEW j \in Places, lv2[s] = 0, T2[s][j].present
        PROVE  \E m \in R : m[1] \in cov2[s] /\ Index(m[1], 0) = j /\ m[2] = T2[s][j].to
    <3>1. s \in DOMAIN T /\ s # t
      BY <2>3, <1>2, <1>9, <1>10, <1>13
    <3>2. T2[s] = T[s] /\ lv[s] = 0 /\ cov2[s] = cov[s]
      BY <3>1, <2>3, <1>5, <1>13
    <3>3. QED
      BY <3>1, <3>2, <2>3 DEF Owned
  <2>4. ASSUME NEW s \in DOMAIN T, NEW j \in Places, T[s][j].present, ~T[s][j].huge
        PROVE  T[s][j].to # f
    <3>1. CASE lv[s] > 0
      BY <3>1, <2>4, <1>1 DEF Tree
    <3>2. CASE lv[s] = 0
      <4>1. PICK m \in R : m[2] = T[s][j].to
        BY <3>2, <2>4 DEF Owned
      <4>2. QED
        BY <4>1 DEF Owned
    <3>3. QED
      BY <3>1, <3>2, <1>11
  <2>5. ASSUME NEW r \in DOMAIN T2, NEW s \in DOMAIN T2, NEW j \in Places, NEW k \in Places,
               T2[r][j].present, ~T2[r][j].huge, T2[s][k].present, ~T2[s][k].huge,
               T2[r][j].to = T2[s][k].to
        PROVE  r = s /\ j = k
    <3>1. r \in DOMAIN T /\ s \in DOMAIN T
      BY <2>5, <1>2, <1>9, <1>10
    <3>2. CASE r = t /\ j = i
      <4>1. T2[s][k].to = f
        BY <3>2, <2>5, <1>7, <1>10
      <4>2. QED
        BY <4>1, <3>1, <3>2, <2>4, <2>5, <1>8
    <3>3. CASE s = t /\ k = i
      <4>1. T2[r][j].to = f
        BY <3>3, <2>5, <1>7, <1>10
      <4>2. QED
        BY <4>1, <3>1, <3>3, <2>4, <2>5, <1>8
    <3>4. CASE ~(r = t /\ j = i) /\ ~(s = t /\ k = i)
      <4>1. T2[r][j] = T[r][j] /\ T2[s][k] = T[s][k]
        BY <3>1, <3>4, <1>8
      <4>2. QED
        BY <4>1, <3>1, <2>5 DEF Owned
    <3>5. QED
      BY <3>2, <3>3, <3>4
  <2>6. QED
    BY <2>1, <2>2, <2>3, <2>5 DEF Owned
<1>16. Grown(T, A, T2, A \ {f})
  <2>1. ASSUME NEW s \in DOMAIN T, NEW j \in Places, T[s][j].present PROVE T2[s][j] = T[s][j]
    BY <2>1, <1>8
  <2>2. QED
    BY <2>1, <1>2 DEF Grown, Kept
<1>17. QED
  BY <1>2, <1>7, <1>13, <1>14, <1>15, <1>16 DEF T2

\* Two such steps are one.
LEMMA GrownTwice ==
    ASSUME NEW T, NEW A, NEW T2, NEW A2, NEW T3, NEW A3, Grown(T, A, T2, A2), Grown(T2, A2, T3, A3)
    PROVE  Grown(T, A, T3, A3)
BY DEF Grown, Kept

\* One level down.
LEMMA DescendArrives ==
    ASSUME NEW w, NEW v \in Pages, NEW l \in 1 .. 3, NEW lv, NEW cov, NEW R,
           Arrived(w, v, l, lv, cov, R),
           w.ok => ~w.tables[w.at][Index(v, l)].huge
    PROVE  LET w2 == Descend(w, Index(v, l))
           IN  /\ \E lv2, cov2 : Arrived(w2, v, l - 1, lv2, cov2, R)
               /\ Grown(w.tables, w.free, w2.tables, w2.free)
               /\ w2.ok => /\ w.ok /\ w.at \in DOMAIN w.tables
                           /\ w2.tables[w.at][Index(v, l)].present
                           /\ ~w2.tables[w.at][Index(v, l)].huge
                           /\ w2.tables[w.at][Index(v, l)].to = w2.at
               /\ w.ok /\ ~w2.ok => w2.tables = w.tables /\ ~w.tables[w.at][Index(v, l)].present
               /\ ~w.ok => w2 = w
<1> DEFINE i == Index(v, l)
           w2 == Descend(w, i)
           e == w.tables[w.at][i]
<1>0. i \in Places
  BY Digits DEF Places
<1>1. Walker(w) /\ Tree(w.tables, lv, cov) /\ Owned(w.tables, lv, cov, w.free, R)
  BY DEF Arrived
<1>2. CASE ~w.ok
  <2>1. w2 = w
    BY <1>2 DEF Descend
  <2>2. Arrived(w, v, l - 1, lv, cov, R)
    BY <1>2 DEF Arrived
  <2>3. Grown(w.tables, w.free, w.tables, w.free)
    BY DEF Grown, Kept
  <2>4. QED
    BY <2>1, <2>2, <2>3, <1>2
<1>3. CASE w.ok
  <2>1. w.at \in DOMAIN w.tables /\ lv[w.at] = l /\ v \in cov[w.at] /\ w.fault = FALSE /\ ~e.huge
    BY <1>3 DEF Arrived
  <2>2. CASE e.present
    <3>1. w2 = [w EXCEPT !.at = e.to]
      BY <1>3, <2>2 DEF Descend
    <3>2. w2 = [free |-> w.free, tables |-> w.tables, at |-> e.to, ok |-> w.ok, fault |-> w.fault]
      BY <3>1, <1>1 DEF Walker
    <3>3. /\ e.to \in DOMAIN w.tables /\ lv[e.to] = l - 1
          /\ cov[e.to] = {u \in cov[w.at] : Index(u, l) = i}
      BY <2>1, <2>2, <1>0, <1>1 DEF Tree
    <3>4. v \in cov[e.to]
      BY <3>3, <2>1
    <3>5. Walker(w2)
      BY <3>2 DEF Walker
    <3>6. Arrived(w2, v, l - 1, lv, cov, R)
      BY <3>2, <3>3, <3>4, <3>5, <2>1, <1>1, <1>3 DEF Arrived
    <3>7. Grown(w.tables, w.free, w.tables, w.free)
      BY DEF Grown, Kept
    <3>8. QED
      BY <3>2, <3>6, <3>7, <2>1, <2>2, <1>3
  <2>3. CASE ~e.present /\ w.free = {}
    <3>1. w2 = [w EXCEPT !.ok = FALSE]
      BY <1>3, <2>3 DEF Descend
    <3>2. w2 = [free |-> w.free, tables |-> w.tables, at |-> w.at, ok |-> FALSE, fault |-> w.fault]
      BY <3>1, <1>1 DEF Walker
    <3>3. Walker(w2)
      BY <3>2 DEF Walker
    <3>4. Arrived(w2, v, l - 1, lv, cov, R)
      BY <3>2, <3>3, <2>1, <2>3, <1>1 DEF Arrived
    <3>5. Grown(w.tables, w.free, w.tables, w.free)
      BY DEF Grown, Kept
    <3>6. QED
      BY <3>2, <3>4, <3>5, <2>1, <2>3, <1>3
  <2>4. CASE ~e.present /\ w.free # {}
    <3> DEFINE f == Lowest(w.free)
    <3>1. f \in w.free /\ \A g \in w.free : f <= g
      BY <2>4, <1>1, LowestOf DEF Owned
    <3>2. w2 = NewTable(w, i)
      BY <1>3, <2>4 DEF Descend
    <3>3. w.free \subseteq Nat /\ Reach \in Nat
      BY <1>1, VmmAssumption DEF Owned
    <3> HIDE DEF f
    <3>4. CASE f >= Reach
      <4>1. w2 = [w EXCEPT !.free = @ \ {f}, !.ok = FALSE, !.fault = TRUE]
        BY <3>2, <3>4 DEF NewTable, f
      <4>2. w2 = [free |-> w.free \ {f}, tables |-> w.tables, at |-> w.at, ok |-> FALSE, fault |-> TRUE]
        BY <4>1, <1>1 DEF Walker
      <4>3. Walker(w2)
        BY <4>2 DEF Walker
      <4>4. Owned(w2.tables, lv, cov, w2.free, R)
        BY <4>2, <1>1 DEF Owned
      <4>5. \A g \in w2.free : g >= Reach
        BY <4>2, <3>1, <3>3, <3>4
      <4>6. Arrived(w2, v, l - 1, lv, cov, R)
        BY <4>2, <4>3, <4>4, <4>5, <1>1 DEF Arrived
      <4>7. Grown(w.tables, w.free, w.tables, w.free \ {f})
        BY DEF Grown, Kept
      <4>8. QED
        BY <4>2, <4>6, <4>7, <2>4, <1>3
    <3>5. CASE ~(f >= Reach)
      <4> DEFINE T2 == Linked(w.tables, w.at, i, f)
      <4>1. w2 = [w EXCEPT !.free = @ \ {f}, !.tables = Linked(@, w.at, i, f), !.at = f]
        BY <3>2, <3>5 DEF NewTable, f
      <4>2. w2 = [free |-> w.free \ {f}, tables |-> T2, at |-> f, ok |-> w.ok, fault |-> w.fault]
        BY <4>1, <1>1 DEF Walker
      <4>3. Walker(w2)
        BY <4>2 DEF Walker
      <4>4. PICK lv2, cov2 :
              /\ Tree(T2, lv2, cov2) /\ Owned(T2, lv2, cov2, w.free \ {f}, R)
              /\ lv2[f] = l - 1 /\ cov2[f] = {u \in cov[w.at] : Index(u, l) = i}
              /\ Grown(w.tables, w.free, T2, w.free \ {f})
              /\ T2[w.at][i] = Present(f) /\ f \in DOMAIN T2
        <5>1. lv[w.at] > 0 /\ ~w.tables[w.at][i].present
          BY <2>1, <2>4
        <5>2. \E lv2, cov2 :
                /\ Tree(T2, lv2, cov2) /\ Owned(T2, lv2, cov2, w.free \ {f}, R)
                /\ lv2[f] = lv[w.at] - 1 /\ cov2[f] = {u \in cov[w.at] : Index(u, lv[w.at]) = i}
                /\ \A s \in DOMAIN w.tables : lv2[s] = lv[s] /\ cov2[s] = cov[s]
                /\ Grown(w.tables, w.free, T2, w.free \ {f})
                /\ T2[w.at][i] = Present(f) /\ f \in DOMAIN T2
          <6> HIDE DEF i
          <6>1. QED
            BY NewTableTree, <5>1, <1>0, <1>1, <2>1, <3>1
        <5>3. QED
          BY <5>2, <2>1
      <4> HIDE DEF T2
      <4>5. v \in cov2[f]
        BY <4>4, <2>1
      <4>6. Arrived(w2, v, l - 1, lv2, cov2, R)
        BY <4>2, <4>3, <4>4, <4>5, <2>1, <1>3 DEF Arrived
      <4>7. Present(f).present /\ ~Present(f).huge /\ Present(f).to = f
        BY DEF Present
      <4>8. QED
        BY <4>2, <4>4, <4>6, <4>7, <2>1, <1>3
    <3>6. QED
      BY <3>4, <3>5
  <2>5. QED
    BY <2>2, <2>3, <2>4
<1>4. QED
  BY <1>2, <1>3

\* The walk of the processor, level by level.
Walked(T, v) ==
    LET e3 == T[PML4][Index(v, 3)]
        e2 == T[e3.to][Index(v, 2)]
        e1 == T[e2.to][Index(v, 1)]
        e0 == T[e1.to][Index(v, 0)]
    IN  IF e3.present /\ e2.present /\ e1.present
        THEN IF e1.huge THEN e1.to + Index(v, 0) ELSE IF e0.present THEN e0.to ELSE -1
        ELSE -1

\* Translate is that walk, in this state and in the next.
LEMMA TranslateWalked ==
    ASSUME NEW CONSTANT v
    PROVE  Translate(v) = Walked(tables, v) /\ Translate(v)' = Walked(tables', v)
<1> DEFINE D(T, e, l) == IF e.present THEN T[e.to][Index(v, l)] ELSE NotPresent
           Tr(T, entry) == CASE ~entry.present -> -1
                            [] entry.present /\ entry.huge -> entry.to + Index(v, 0)
                            [] OTHER -> IF T[entry.to][Index(v, 0)].present
                                        THEN T[entry.to][Index(v, 0)].to ELSE -1
           Pde(T) == D(T, D(T, Present(PML4), 3), 2)
           En(T) == IF ~Pde(T).present THEN NotPresent ELSE T[Pde(T).to][Index(v, 1)]
<1>1. ~NotPresent.present /\ Present(PML4).present /\ Present(PML4).to = PML4
  BY DEF NotPresent, Present
<1>2. ASSUME NEW T PROVE Tr(T, En(T)) = Walked(T, v)
  <2> DEFINE e3 == T[PML4][Index(v, 3)]
             e2 == T[e3.to][Index(v, 2)]
             e1 == T[e2.to][Index(v, 1)]
  <2>1. D(T, Present(PML4), 3) = e3
    BY <1>1
  <2>2. Pde(T) = IF e3.present THEN e2 ELSE NotPresent
    BY <2>1
  <2>3. En(T) = IF e3.present /\ e2.present THEN e1 ELSE NotPresent
    BY <2>2, <1>1
  <2>4. Tr(T, e1) = IF e1.present
                    THEN IF e1.huge THEN e1.to + Index(v, 0)
                         ELSE IF T[e1.to][Index(v, 0)].present THEN T[e1.to][Index(v, 0)].to ELSE -1
                    ELSE -1
    OBVIOUS
  <2>5. Tr(T, NotPresent) = -1
    BY <1>1
  <2>6. QED
    BY <2>3, <2>4, <2>5 DEF Walked
<1>3. Translate(v) = Tr(tables, En(tables)) /\ Translate(v)' = Tr(tables', En(tables'))
  BY DEF Translate
<1>4. QED
  BY <1>2, <1>3

\* What a page is mapped to survives the filling of empty entries.
LEMMA KeptWalks ==
    ASSUME NEW T, NEW lv, NEW cov, Tree(T, lv, cov), NEW T2, Kept(T, T2),
           NEW v \in Pages, Walked(T, v) # -1
    PROVE  Walked(T2, v) = Walked(T, v)
<1> DEFINE i3 == Index(v, 3)  i2 == Index(v, 2)  i1 == Index(v, 1)  i0 == Index(v, 0)
           e3 == T[PML4][i3]
           e2 == T[e3.to][i2]
           e1 == T[e2.to][i1]
           e0 == T[e1.to][i0]
<1>0. i3 \in Places /\ i2 \in Places /\ i1 \in Places /\ i0 \in Places
  BY Digits DEF Places
<1>1. e3.present /\ e2.present /\ e1.present
  BY DEF Walked
<1>2. e1.huge \/ e0.present
  BY DEF Walked
<1>3. Walked(T, v) = IF e1.huge THEN e1.to + i0 ELSE e0.to
  BY <1>1, <1>2 DEF Walked
<1>4. PML4 \in DOMAIN T /\ lv[PML4] = 3
  BY DEF Tree
<1> HIDE DEF i3, i2, i1, i0
<1>5. e3.to \in DOMAIN T /\ lv[e3.to] = 2
  <2>1. ~e3.huge
    BY <1>0, <1>4 DEF Tree
  <2>2. QED
    BY <2>1, <1>0, <1>1, <1>4 DEF Tree
<1>6. e2.to \in DOMAIN T /\ lv[e2.to] = 1
  <2>1. ~e2.huge
    BY <1>0, <1>5 DEF Tree
  <2>2. QED
    BY <2>1, <1>0, <1>1, <1>5 DEF Tree
<1>7. ~e1.huge => e1.to \in DOMAIN T
  BY <1>0, <1>1, <1>6 DEF Tree
<1>8. T2[PML4][i3] = e3 /\ T2[e3.to][i2] = e2 /\ T2[e2.to][i1] = e1
  BY <1>0, <1>1, <1>4, <1>5, <1>6 DEF Kept
<1>9. ~e1.huge => T2[e1.to][i0] = e0
  BY <1>0, <1>2, <1>7 DEF Kept
<1>10. QED
  BY <1>1, <1>2, <1>3, <1>8, <1>9 DEF Walked, i3, i2, i1, i0

\* What vmm_map_page does at the end of its walk.
WithLeaf(T, t, i, frame) == [T EXCEPT ![t][i] = Present(frame)]

\* Setting the entry of a page table that no page uses yet.
LEMMA LeafTree ==
    ASSUME NEW T, NEW A, NEW R, NEW lv, NEW cov, Tree(T, lv, cov), Owned(T, lv, cov, A, R),
           NEW t \in DOMAIN T, lv[t] = 0, NEW v \in cov[t], \A m \in R : m[1] # v,
           NEW frame, frame \notin A, frame \notin DOMAIN T, \A m \in R : m[2] # frame,
           NEW T2, T2 = WithLeaf(T, t, Index(v, 0), frame)
    PROVE  /\ Tree(T2, lv, cov) /\ Owned(T2, lv, cov, A, R \cup {<<v, frame>>})
           /\ Grown(T, A, T2, A) /\ T2[t][Index(v, 0)] = Present(frame)
<1> DEFINE i == Index(v, 0)
<1>0. v \in Pages /\ lv \in [DOMAIN T -> 0 .. 3]
  BY DEF Tree
<1>1. i \in Places
  BY <1>0, Digits DEF Places
<1>2. T = [s \in DOMAIN T |-> T[s]] /\ DOMAIN T[t] = Places /\ T[t] = [j \in Places |-> T[t][j]]
  BY DEF Tree
<1>3. DOMAIN T2 = DOMAIN T /\ T2 = [s \in DOMAIN T2 |-> T2[s]]
      /\ (\A s \in DOMAIN T : s # t => T2[s] = T[s])
      /\ T2[t] = [T[t] EXCEPT ![i] = Present(frame)]
  BY <1>2 DEF WithLeaf
<1>4. DOMAIN T2[t] = Places /\ T2[t] = [j \in Places |-> T2[t][j]] /\ T2[t][i] = Present(frame)
      /\ (\A j \in Places : j # i => T2[t][j] = T[t][j])
  <2> HIDE DEF i
  <2>1. QED
    BY <1>1, <1>2, <1>3
<1>5. \A s \in DOMAIN T, j \in Places : T2[s][j] = T[s][j] \/ (s = t /\ j = i)
  BY <1>3, <1>4
<1>6. Present(frame).present /\ ~Present(frame).huge /\ Present(frame).to = frame
  BY DEF Present
<1>7. ~T[t][i].present
  <2>1. SUFFICES ASSUME T[t][i].present PROVE FALSE
    OBVIOUS
  <2>2. PICK m \in R : m[1] \in cov[t] /\ Index(m[1], 0) = i
    BY <2>1, <1>1 DEF Owned
  <2>3. m[1] \in Pages
    BY <2>2 DEF Owned
  <2>4. \A l \in 1 .. 3 : Index(m[1], l) = Index(v, l)
    <3>1. \A a, b \in cov[t] : \A l \in (lv[t] + 1) .. 3 : Index(a, l) = Index(b, l)
      BY DEF Tree
    <3>2. \A l \in (lv[t] + 1) .. 3 : Index(m[1], l) = Index(v, l)
      BY <3>1, <2>2, Zenon
    <3>3. QED
      BY <3>2
  <2>5. \A l \in 0 .. 3 : Index(m[1], l) = Index(v, l)
    <3>1. \A l \in 0 .. 3 : l = 0 \/ l \in 1 .. 3
      OBVIOUS
    <3>2. QED
      BY <3>1, <2>2, <2>4
  <2>6. m[1] = v
    BY <2>3, <2>5, <1>0, IndicesIdentify
  <2>7. QED
    BY <2>6
<1>8. Tree(T2, lv, cov)
  <2>1. \A s \in DOMAIN T2 : DOMAIN T2[s] = Places /\ T2[s] = [j \in Places |-> T2[s][j]]
    BY <1>3, <1>4 DEF Tree
  <2>2. \A s \in DOMAIN T2, j \in Places : T2[s][j].huge => lv[s] = 1 /\ \A u \in cov[s] : u < Reach
    BY <1>3, <1>4, <1>5, <1>6 DEF Tree
  <2>3. ASSUME NEW s \in DOMAIN T2, NEW j \in Places, lv[s] > 0, T2[s][j].present, ~T2[s][j].huge
        PROVE  /\ T2[s][j].to \in DOMAIN T2
               /\ lv[T2[s][j].to] = lv[s] - 1
               /\ cov[T2[s][j].to] = {u \in cov[s] : Index(u, lv[s]) = j}
    <3>1. T2[s][j] = T[s][j]
      BY <2>3, <1>3
    <3>2. QED
      BY <3>1, <2>3, <1>3 DEF Tree
  <2>4. QED
    BY <1>3, <2>1, <2>2, <2>3 DEF Tree
<1>9. Owned(T2, lv, cov, A, R \cup {<<v, frame>>})
  <2>1. A \subseteq Nat /\ A \cap DOMAIN T2 = {}
    BY <1>3 DEF Owned
  <2>2. \A m \in R \cup {<<v, frame>>} : m[1] \in Pages /\ m[2] \notin A /\ m[2] \notin DOMAIN T2
    BY <1>0, <1>3 DEF Owned
  <2>3. ASSUME NEW s \in DOMAIN T2, NEW j \in Places, lv[s] = 0, T2[s][j].present
        PROVE  \E m \in R \cup {<<v, frame>>} :
                  m[1] \in cov[s] /\ Index(m[1], 0) = j /\ m[2] = T2[s][j].to
    <3>1. CASE s = t /\ j = i
      <4>1. <<v, frame>>[1] = v /\ <<v, frame>>[2] = T2[s][j].to
        BY <3>1, <1>4, <1>6
      <4>2. QED
        BY <4>1, <3>1
    <3>2. CASE ~(s = t /\ j = i)
      <4>1. T2[s][j] = T[s][j]
        BY <3>2, <1>3, <1>5
      <4>2. QED
        BY <4>1, <2>3, <1>3 DEF Owned
    <3>3. QED
      BY <3>1, <3>2
  <2>4. ASSUME NEW s \in DOMAIN T, NEW j \in Places, T[s][j].present, ~T[s][j].huge
        PROVE  T[s][j].to # frame
    <3>1. CASE lv[s] > 0
      BY <3>1, <2>4 DEF Tree
    <3>2. CASE lv[s] = 0
      BY <3>2, <2>4 DEF Owned
    <3>3. QED
      BY <3>1, <3>2, <1>0
  <2>5. ASSUME NEW r \in DOMAIN T2, NEW s \in DOMAIN T2, NEW j \in Places, NEW k \in Places,
               T2[r][j].present, ~T2[r][j].huge, T2[s][k].present, ~T2[s][k].huge,
               T2[r][j].to = T2[s][k].to
        PROVE  r = s /\ j = k
    <3>1. r \in DOMAIN T /\ s \in DOMAIN T
      BY <1>3
    <3>2. CASE r = t /\ j = i
      <4>1. T2[s][k].to = frame
        BY <3>2, <2>5, <1>4, <1>6
      <4>2. QED
        BY <4>1, <3>1, <3>2, <2>4, <2>5, <1>5
    <3>3. CASE s = t /\ k = i
      <4>1. T2[r][j].to = frame
        BY <3>3, <2>5, <1>4, <1>6
      <4>2. QED
        BY <4>1, <3>1, <3>3, <2>4, <2>5, <1>5
    <3>4. CASE ~(r = t /\ j = i) /\ ~(s = t /\ k = i)
      <4>1. T2[r][j] = T[r][j] /\ T2[s][k] = T[s][k]
        BY <3>1, <3>4, <1>5
      <4>2. QED
        BY <4>1, <3>1, <2>5 DEF Owned
    <3>5. QED
      BY <3>2, <3>3, <3>4
  <2>6. QED
    BY <2>1, <2>2, <2>3, <2>5 DEF Owned
<1>10. Grown(T, A, T2, A)
  <2>1. ASSUME NEW s \in DOMAIN T, NEW j \in Places, T[s][j].present PROVE T2[s][j] = T[s][j]
    BY <2>1, <1>5, <1>7
  <2>2. QED
    BY <2>1, <1>3 DEF Grown, Kept
<1>11. QED
  BY <1>4, <1>8, <1>9, <1>10

\* More may be recorded than is mapped.
LEMMA OwnedMore ==
    ASSUME NEW T, NEW A, NEW R, NEW lv, NEW cov, Owned(T, lv, cov, A, R),
           NEW v \in Pages, NEW frame, frame \notin A, frame \notin DOMAIN T
    PROVE  Owned(T, lv, cov, A, R \cup {<<v, frame>>})
<1>1. \A m \in R \cup {<<v, frame>>} : m[1] \in Pages /\ m[2] \notin A /\ m[2] \notin DOMAIN T
  BY DEF Owned
<1>2. QED
  BY <1>1 DEF Owned

\* vmm_map_page above the loader's map: a page without a frame gets the one it
\* is given, or else the memory has run out, and nothing that was mapped changes.
LEMMA MapHigh ==
    ASSUME NEW v \in Pages, v >= Reach, NEW frame, NEW A, NEW R, NEW lv, NEW cov,
           Tree(tables, lv, cov), Owned(tables, lv, cov, A, R),
           frame \notin A, frame \notin DOMAIN tables,
           \A m \in R : m[1] # v /\ m[2] # frame
    PROVE  LET w == vmm_map_page(v, frame, A)
           IN  /\ \E lv2, cov2 : /\ Tree(w.tables, lv2, cov2)
                                 /\ Owned(w.tables, lv2, cov2, w.free, R \cup {<<v, frame>>})
               /\ Grown(tables, A, w.tables, w.free)
               /\ Walked(w.tables, v) = frame \/ (Walked(w.tables, v) = -1 /\ (~w.fault => w.free = {}))
               /\ w.fault => \A f \in w.free : f >= Reach
<1> DEFINE w0 == [free |-> A, tables |-> tables, at |-> PML4, ok |-> TRUE, fault |-> FALSE]
           i3 == Index(v, 3)
           i2 == Index(v, 2)
           i1 == Index(v, 1)
           i0 == Index(v, 0)
           w1 == Descend(w0, i3)
           w2 == Descend(w1, i2)
           w3 == Descend(w2, i1)
           w == vmm_map_page(v, frame, A)
<1>1. Arrived(w0, v, 3, lv, cov, R)
  <2>1. Walker(w0)
    BY DEF Walker
  <2>2. PML4 \in DOMAIN tables /\ lv[PML4] = 3 /\ v \in cov[PML4]
    BY DEF Tree
  <2>3. QED
    BY <2>1, <2>2 DEF Arrived
<1>2. i3 \in Places /\ i2 \in Places /\ i1 \in Places /\ i0 \in Places
  BY Digits DEF Places
<1>3. ASSUME NEW x, NEW l \in 1 .. 3, NEW lx, NEW cx, Arrived(x, v, l, lx, cx, R)
      PROVE  x.ok => ~x.tables[x.at][Index(v, l)].huge
  <2>1. SUFFICES ASSUME x.ok, x.tables[x.at][Index(v, l)].huge PROVE FALSE
    OBVIOUS
  <2>2. Tree(x.tables, lx, cx) /\ x.at \in DOMAIN x.tables /\ v \in cx[x.at]
    BY <1>3, <2>1 DEF Arrived
  <2>3. Index(v, l) \in Places
    BY Digits DEF Places
  <2>4. v < Reach
    BY <2>1, <2>2, <2>3 DEF Tree
  <2>5. QED
    BY <2>4, VmmAssumption DEF Pages
<1> HIDE DEF w0
<1>4. /\ \E lv2, cov2 : Arrived(w1, v, 2, lv2, cov2, R)
      /\ Grown(w0.tables, w0.free, w1.tables, w1.free)
      /\ w1.ok => /\ w0.ok /\ w0.at \in DOMAIN w0.tables /\ w1.tables[w0.at][i3].present
                  /\ ~w1.tables[w0.at][i3].huge /\ w1.tables[w0.at][i3].to = w1.at
      /\ w0.ok /\ ~w1.ok => w1.tables = w0.tables /\ ~w0.tables[w0.at][i3].present
  <2>1. w0.ok => ~w0.tables[w0.at][Index(v, 3)].huge
    BY <1>1, <1>3
  <2>2. 3 \in 1 .. 3 /\ 3 - 1 = 2
    OBVIOUS
  <2>3. QED
    BY <1>1, <2>1, <2>2, DescendArrives
<1> HIDE DEF w1
<1>5. PICK lv1, cov1 : Arrived(w1, v, 2, lv1, cov1, R)
  BY <1>4
<1>6. /\ \E lv2, cov2 : Arrived(w2, v, 1, lv2, cov2, R)
      /\ Grown(w1.tables, w1.free, w2.tables, w2.free)
      /\ w2.ok => /\ w1.ok /\ w1.at \in DOMAIN w1.tables /\ w2.tables[w1.at][i2].present
                  /\ ~w2.tables[w1.at][i2].huge /\ w2.tables[w1.at][i2].to = w2.at
      /\ w1.ok /\ ~w2.ok => w2.tables = w1.tables /\ ~w1.tables[w1.at][i2].present
      /\ ~w1.ok => w2 = w1
  <2>1. w1.ok => ~w1.tables[w1.at][Index(v, 2)].huge
    BY <1>5, <1>3
  <2>2. 2 \in 1 .. 3 /\ 2 - 1 = 1
    OBVIOUS
  <2>3. QED
    BY <1>5, <2>1, <2>2, DescendArrives
<1> HIDE DEF w2
<1>7. PICK lv2, cov2 : Arrived(w2, v, 1, lv2, cov2, R)
  BY <1>6
<1>8. w2.ok => ~w2.tables[w2.at][i1].huge
  BY <1>7, <1>3
<1>9. /\ \E lv4, cov4 : Arrived(w3, v, 0, lv4, cov4, R)
      /\ Grown(w2.tables, w2.free, w3.tables, w3.free)
      /\ w3.ok => /\ w2.ok /\ w2.at \in DOMAIN w2.tables /\ w3.tables[w2.at][i1].present
                  /\ ~w3.tables[w2.at][i1].huge /\ w3.tables[w2.at][i1].to = w3.at
      /\ w2.ok /\ ~w3.ok => w3.tables = w2.tables /\ ~w2.tables[w2.at][i1].present
      /\ ~w2.ok => w3 = w2
  <2>1. 1 \in 1 .. 3 /\ 1 - 1 = 0
    OBVIOUS
  <2>2. QED
    BY <1>7, <1>8, <2>1, DescendArrives
<1>10. DescendPastHuge(w2, i1) = w3
  BY <1>8 DEF DescendPastHuge
<1>11. w = IF w3.ok THEN [w3 EXCEPT !.tables[w3.at][i0] = Present(frame)] ELSE w3
  BY <1>10 DEF vmm_map_page, w0, w1, w2
<1> HIDE DEF w3, w
<1>12. PICK lv3, cov3 : Arrived(w3, v, 0, lv3, cov3, R)
  BY <1>9
<1>13. w0.tables = tables /\ w0.free = A /\ w0.ok /\ w0.at = PML4
  BY DEF w0
<1>14. Grown(tables, A, w3.tables, w3.free)
  BY <1>4, <1>6, <1>9, <1>13, GrownTwice
<1>15. frame \notin w3.free /\ frame \notin DOMAIN w3.tables
  BY <1>14 DEF Grown
<1>16. Walker(w3) /\ Tree(w3.tables, lv3, cov3) /\ Owned(w3.tables, lv3, cov3, w3.free, R)
  BY <1>12 DEF Arrived
<1>17. CASE w3.ok
  <2> DEFINE T2 == [w3.tables EXCEPT ![w3.at][i0] = Present(frame)]
  <2>1. w = [free |-> w3.free, tables |-> T2, at |-> w3.at, ok |-> w3.ok, fault |-> w3.fault]
    BY <1>11, <1>16, <1>17 DEF Walker
  <2>2. w3.at \in DOMAIN w3.tables /\ lv3[w3.at] = 0 /\ v \in cov3[w3.at] /\ ~w3.fault
    BY <1>12, <1>17 DEF Arrived
  <2>3. /\ Tree(T2, lv3, cov3) /\ Owned(T2, lv3, cov3, w3.free, R \cup {<<v, frame>>})
        /\ Grown(w3.tables, w3.free, T2, w3.free) /\ T2[w3.at][i0] = Present(frame)
    <3>1. (\A m \in R : m[1] # v) /\ (\A m \in R : m[2] # frame)
      OBVIOUS
    <3>2. T2 = WithLeaf(w3.tables, w3.at, Index(v, 0), frame)
      BY DEF WithLeaf
    <3> HIDE DEF T2
    <3>3. QED
      BY <2>2, <3>1, <3>2, <1>15, <1>16, LeafTree
  <2> HIDE DEF T2
  <2>4. Grown(tables, A, T2, w3.free)
    BY <2>3, <1>14, GrownTwice
  <2>5. T2[w2.at][i1] = w3.tables[w2.at][i1] /\ w2.ok /\ w2.at \in DOMAIN w2.tables
    BY <1>2, <1>9, <1>17, <2>3 DEF Grown, Kept
  <2>6. T2[w1.at][i2] = w2.tables[w1.at][i2] /\ w1.ok /\ w1.at \in DOMAIN w1.tables
    <3>1. Grown(w2.tables, w2.free, T2, w3.free)
      BY <1>9, <2>3, GrownTwice
    <3>2. w2.tables[w1.at][i2].present /\ w1.ok /\ w1.at \in DOMAIN w1.tables
          /\ w1.at \in DOMAIN w2.tables
      BY <1>6, <2>5 DEF Grown, Kept
    <3>3. QED
      BY <3>1, <3>2, <1>2 DEF Grown, Kept
  <2>7. T2[PML4][i3] = w1.tables[PML4][i3]
    <3>1. Grown(w1.tables, w1.free, T2, w3.free)
      BY <1>6, <1>9, <2>3, GrownTwice
    <3>2. w1.tables[PML4][i3].present /\ PML4 \in DOMAIN w1.tables
      BY <1>4, <1>13, <2>6 DEF Grown, Kept
    <3>3. QED
      BY <3>1, <3>2, <1>2 DEF Grown, Kept
  <2>8. Present(frame).present /\ Present(frame).to = frame
    BY DEF Present
  <2>9. Walked(T2, v) = frame
    <3>1. T2[PML4][i3].present /\ T2[PML4][i3].to = w1.at
      BY <2>7, <2>6, <1>4, <1>13
    <3>2. T2[w1.at][i2].present /\ T2[w1.at][i2].to = w2.at
      BY <2>6, <2>5, <1>6
    <3>3. T2[w2.at][i1].present /\ T2[w2.at][i1].to = w3.at /\ ~T2[w2.at][i1].huge
      BY <2>5, <1>9, <1>17
    <3>4. QED
      BY <3>1, <3>2, <3>3, <2>3, <2>8 DEF Walked
  <2>10. QED
    BY <2>1, <2>2, <2>3, <2>4, <2>9 DEF w
<1>18. CASE ~w3.ok
  <2>1. w = w3
    BY <1>11, <1>18
  <2>2. Owned(w3.tables, lv3, cov3, w3.free, R \cup {<<v, frame>>})
    BY <1>15, <1>16, OwnedMore
  <2>3. Walked(w3.tables, v) = -1
    <3>1. CASE ~w1.ok
      <4>1. w3.tables = tables /\ ~tables[PML4][i3].present
        BY <3>1, <1>4, <1>6, <1>9, <1>13
      <4>2. QED
        BY <4>1 DEF Walked
    <3>2. CASE w1.ok /\ ~w2.ok
      <4>1. w3.tables = w1.tables /\ ~w1.tables[w1.at][i2].present /\ w1.tables[PML4][i3].to = w1.at
        BY <3>2, <1>4, <1>6, <1>9, <1>13
      <4>2. QED
        BY <4>1 DEF Walked
    <3>3. CASE w2.ok
      <4>1. w3.tables = w2.tables /\ ~w2.tables[w2.at][i1].present /\ w2.tables[w1.at][i2].to = w2.at
        BY <3>3, <1>6, <1>9, <1>18
      <4>2. w2.tables[PML4][i3] = w1.tables[PML4][i3] /\ w1.tables[PML4][i3].to = w1.at
        <5>1. w1.ok
          BY <3>3, <1>6
        <5>2. w1.tables[PML4][i3].present /\ PML4 \in DOMAIN w1.tables /\ w1.tables[PML4][i3].to = w1.at
          BY <5>1, <1>4, <1>13 DEF Grown, Kept
        <5>3. QED
          BY <5>2, <1>2, <1>6 DEF Grown, Kept
      <4>3. QED
        BY <4>1, <4>2 DEF Walked
    <3>4. QED
      BY <3>1, <3>2, <3>3
  <2>4. (w3.fault => \A f \in w3.free : f >= Reach) /\ (~w3.fault => w3.free = {})
    BY <1>12, <1>18 DEF Arrived
  <2>5. QED
    BY <2>1, <2>2, <2>3, <2>4, <1>14, <1>16 DEF w
<1>19. QED
  BY <1>17, <1>18 DEF w

-----------------------------------------------------------------------------
(* The loader's tables.                                                    *)

\* What the loader's tables hold.
LEMMA LoaderEntries ==
    /\ DOMAIN LoaderTables = {PML4, PDPT} \cup {PD(d) : d \in Directories}
    /\ LoaderTables = [t \in DOMAIN LoaderTables |-> LoaderTables[t]]
    /\ \A t \in DOMAIN LoaderTables :
          DOMAIN LoaderTables[t] = Places /\ LoaderTables[t] = [j \in Places |-> LoaderTables[t][j]]
    /\ \A j \in Places :
          /\ LoaderTables[PML4][j] = IF j = 0 THEN Present(PDPT) ELSE NotPresent
          /\ LoaderTables[PDPT][j] = IF j \in Directories THEN Present(PD(j)) ELSE NotPresent
          /\ \A d \in Directories : LoaderTables[PD(d)][j].present /\ LoaderTables[PD(d)][j].huge
<1>1. PML4 = -1 /\ PDPT = -2
  BY DEF PML4, PDPT
<1>2. Directories \subseteq Nat
  BY DEF Directories
<1>3. \A d \in Directories : PD(d) # PML4 /\ PD(d) # PDPT
  BY <1>1, <1>2 DEF PD
<1>4. PML4 # PDPT
  BY <1>1
<1> DEFINE Tabs == {PML4, PDPT} \cup {PD(d) : d \in Directories}
           e(t, j) == CASE t = PML4 -> IF j = 0 THEN Present(PDPT) ELSE NotPresent
                        [] t = PDPT -> IF j \in Directories THEN Present(PD(j)) ELSE NotPresent
                        [] OTHER -> Huge(((-3 - t) * Fanout + j) * Fanout)
<1>5. LoaderTables = [t \in Tabs |-> [j \in Places |-> e(t, j)]]
  BY DEF LoaderTables, Places
<1>6. \A j : /\ e(PML4, j) = IF j = 0 THEN Present(PDPT) ELSE NotPresent
             /\ e(PDPT, j) = IF j \in Directories THEN Present(PD(j)) ELSE NotPresent
  BY <1>4
<1>7. \A f : Huge(f).present /\ Huge(f).huge
  BY DEF Huge
<1>8. \A j : \A d \in Directories : e(PD(d), j).present /\ e(PD(d), j).huge
  BY <1>3, <1>7
<1> HIDE DEF e
<1>9. PML4 \in Tabs /\ PDPT \in Tabs /\ \A d \in Directories : PD(d) \in Tabs
  OBVIOUS
<1> HIDE DEF Tabs
<1>10. DOMAIN LoaderTables = Tabs /\ \A t \in Tabs : LoaderTables[t] = [j \in Places |-> e(t, j)]
  BY <1>5
<1>11. \A t \in Tabs, j \in Places : LoaderTables[t][j] = e(t, j)
  BY <1>10
<1>12. LoaderTables = [t \in DOMAIN LoaderTables |-> LoaderTables[t]]
  BY <1>5
<1>13. \A t \in DOMAIN LoaderTables :
          DOMAIN LoaderTables[t] = Places /\ LoaderTables[t] = [j \in Places |-> LoaderTables[t][j]]
  BY <1>10
<1>14. ASSUME NEW j \in Places
       PROVE  /\ LoaderTables[PML4][j] = IF j = 0 THEN Present(PDPT) ELSE NotPresent
              /\ LoaderTables[PDPT][j] = IF j \in Directories THEN Present(PD(j)) ELSE NotPresent
              /\ \A d \in Directories : LoaderTables[PD(d)][j].present /\ LoaderTables[PD(d)][j].huge
  BY <1>6, <1>8, <1>9, <1>11
<1>15. QED
  BY <1>10, <1>12, <1>13, <1>14 DEF Tabs

\* The loader's tables are a tree, and no frame of the memory manager's.
LEMMA LoaderTree ==
    ASSUME NEW A, A \subseteq Nat
    PROVE  \E lv, cov : Tree(LoaderTables, lv, cov) /\ Owned(LoaderTables, lv, cov, A, {})
<1> DEFINE L == LoaderTables
           lv == [t \in DOMAIN L |-> IF t = PML4 THEN 3 ELSE IF t = PDPT THEN 2 ELSE 1]
           low == {v \in Pages : Index(v, 3) = 0}
           cov == [t \in DOMAIN L |-> IF t = PML4 THEN Pages ELSE IF t = PDPT THEN low
                                       ELSE {v \in low : Index(v, 2) = -3 - t}]
<1>1. PML4 = -1 /\ PDPT = -2 /\ Directories \subseteq Nat
  BY DEF PML4, PDPT, Directories
<1>2. \A d \in Directories : PD(d) \in DOMAIN L /\ PD(d) # PML4 /\ PD(d) # PDPT /\ PD(d) \notin Nat /\ -3 - PD(d) = d
  <2>1. \A d \in Directories : PD(d) \in DOMAIN L
    BY LoaderEntries
  <2>2. QED
    BY <2>1, <1>1 DEF PD
<1>3. PML4 \in DOMAIN L /\ PDPT \in DOMAIN L /\ PML4 # PDPT /\ PML4 \notin Nat /\ PDPT \notin Nat
  <2>1. PML4 \in DOMAIN L /\ PDPT \in DOMAIN L
    BY LoaderEntries
  <2>2. QED
    BY <1>1, <2>1
<1>4. \A t \in DOMAIN L : t = PML4 \/ t = PDPT \/ \E d \in Directories : t = PD(d)
  BY LoaderEntries
<1>5. lv[PML4] = 3 /\ cov[PML4] = Pages /\ lv[PDPT] = 2 /\ cov[PDPT] = low
      /\ \A d \in Directories : lv[PD(d)] = 1 /\ cov[PD(d)] = {v \in low : Index(v, 2) = d}
  BY <1>2, <1>3
<1>6. lv \in [DOMAIN L -> 0 .. 3] /\ cov \in [DOMAIN L -> SUBSET Pages]
  BY <1>1
<1> HIDE DEF lv, cov
<1>7. \A f : /\ Present(f).present /\ ~Present(f).huge /\ Present(f).to = f
             /\ Huge(f).present /\ Huge(f).huge
  BY DEF Present, Huge
<1>8. ~NotPresent.present /\ ~NotPresent.huge
  BY DEF NotPresent
<1>9. \A j \in Places : L[PML4][j] = IF j = 0 THEN Present(PDPT) ELSE NotPresent
  BY LoaderEntries
<1>10. \A j \in Places : L[PDPT][j] = IF j \in Directories THEN Present(PD(j)) ELSE NotPresent
  BY LoaderEntries
<1>11. \A d \in Directories, j \in Places : L[PD(d)][j].huge
  BY LoaderEntries
<1>12. \A t \in DOMAIN L : DOMAIN L[t] = Places /\ L[t] = [i \in Places |-> L[t][i]]
  BY LoaderEntries
<1>13. ASSUME NEW t \in DOMAIN L, NEW i \in Places, L[t][i].huge
       PROVE  lv[t] = 1 /\ \A v \in cov[t] : v < Reach
  <2>1. t # PML4 /\ t # PDPT
    BY <1>13, <1>7, <1>8, <1>9, <1>10
  <2>2. PICK d \in Directories : t = PD(d)
    BY <2>1, <1>4
  <2>3. ASSUME NEW v \in cov[t] PROVE v < Reach
    <3>1. v \in Pages /\ Index(v, 3) = 0 /\ Index(v, 2) \in Directories
      BY <2>2, <1>5
    <3>2. QED
      BY <3>1, LoaderPages
  <2>4. QED
    BY <2>2, <2>3, <1>5
<1>14. ASSUME NEW t \in DOMAIN L, NEW i \in Places, L[t][i].present, ~L[t][i].huge
       PROVE  \/ t = PML4 /\ i = 0 /\ L[t][i].to = PDPT
              \/ t = PDPT /\ i \in Directories /\ L[t][i].to = PD(i)
  BY <1>14, <1>4, <1>7, <1>8, <1>9, <1>10, <1>11
<1>15. ASSUME NEW t \in DOMAIN L, NEW i \in Places, L[t][i].present, ~L[t][i].huge
       PROVE  /\ L[t][i].to \in DOMAIN L /\ lv[L[t][i].to] = lv[t] - 1
              /\ cov[L[t][i].to] = {v \in cov[t] : Index(v, lv[t]) = i}
  <2>1. CASE t = PML4 /\ i = 0 /\ L[t][i].to = PDPT
    BY <2>1, <1>3, <1>5
  <2>2. CASE t = PDPT /\ i \in Directories /\ L[t][i].to = PD(i)
    BY <2>2, <1>2, <1>5
  <2>3. QED
    BY <2>1, <2>2, <1>14, <1>15
<1>16. ASSUME NEW t \in DOMAIN L, NEW u \in cov[t], NEW v \in cov[t], NEW l \in (lv[t] + 1) .. 3
       PROVE  Index(u, l) = Index(v, l)
  <2>1. CASE t = PML4
    BY <2>1, <1>5
  <2>2. CASE t = PDPT
    <3>1. l = 3
      BY <2>2, <1>5
    <3>2. QED
      BY <3>1, <2>2, <1>5
  <2>3. CASE \E d \in Directories : t = PD(d)
    <3>1. l = 3 \/ l = 2
      BY <2>3, <1>5
    <3>2. QED
      BY <3>1, <2>3, <1>5
  <2>4. QED
    BY <2>1, <2>2, <2>3, <1>4
<1>17. Tree(L, lv, cov)
  <2>1. L = [t \in DOMAIN L |-> L[t]]
    BY LoaderEntries
  <2> HIDE DEF L
  <2>2. QED
    BY <2>1, <1>3, <1>5, <1>6, <1>12, <1>13, <1>15, <1>16 DEF Tree
<1>18. Owned(L, lv, cov, A, {})
  <2>1. A \cap DOMAIN L = {}
    BY <1>2, <1>3, <1>4
  <2>2. \A t \in DOMAIN L : lv[t] # 0
    BY <1>4, <1>5
  <2>3. ASSUME NEW t \in DOMAIN L, NEW s \in DOMAIN L, NEW i \in Places, NEW j \in Places,
               L[t][i].present, ~L[t][i].huge, L[s][j].present, ~L[s][j].huge, L[t][i].to = L[s][j].to
        PROVE  t = s /\ i = j
    <3>1. /\ (t = PML4 /\ i = 0 /\ L[t][i].to = PDPT) \/ (t = PDPT /\ i \in Directories /\ L[t][i].to = PD(i))
          /\ (s = PML4 /\ j = 0 /\ L[s][j].to = PDPT) \/ (s = PDPT /\ j \in Directories /\ L[s][j].to = PD(j))
      BY <2>3, <1>14
    <3>2. \A d, e \in Directories : PD(d) = PD(e) => d = e
      BY <1>2
    <3>3. QED
      BY <3>1, <3>2, <2>3, <1>2
  <2>4. QED
    BY <2>1, <2>2, <2>3 DEF Owned
<1>19. QED
  BY <1>17, <1>18

\* vmm_map_page in the loader's map changes nothing.
LEMMA MapLowNothing ==
    ASSUME NEW v \in Pages, v < Reach, NEW frame, NEW A, Kept(LoaderTables, tables)
    PROVE  LET w == vmm_map_page(v, frame, A)
           IN  w.tables = tables /\ w.free = A /\ w.fault = FALSE
<1> DEFINE w0 == [free |-> A, tables |-> tables, at |-> PML4, ok |-> TRUE, fault |-> FALSE]
           W(a, ok) == [free |-> A, tables |-> tables, at |-> a, ok |-> ok, fault |-> FALSE]
           d == Index(v, 2)
           i1 == Index(v, 1)
<1>1. Index(v, 3) = 0 /\ d \in Directories
  BY LoaderPages
<1>2. Index(v, 3) \in Places /\ d \in Places /\ i1 \in Places
  BY Digits DEF Places
<1>3. LoaderTables[PML4][0] = Present(PDPT) /\ PML4 \in DOMAIN LoaderTables
  BY <1>1, <1>2, LoaderEntries
<1>4. LoaderTables[PDPT][d] = Present(PD(d)) /\ PDPT \in DOMAIN LoaderTables
  BY <1>1, <1>2, LoaderEntries
<1>5. PD(d) \in DOMAIN LoaderTables /\ LoaderTables[PD(d)][i1].present /\ LoaderTables[PD(d)][i1].huge
  BY <1>1, <1>2, LoaderEntries
<1>6. \A f : /\ Present(f).present /\ Present(f).to = f /\ Huge(f).present /\ Huge(f).huge
  BY DEF Present, Huge
<1>7. tables[PML4][0] = Present(PDPT) /\ tables[PDPT][d] = Present(PD(d)) /\ tables[PD(d)][i1].huge
  BY <1>1, <1>2, <1>3, <1>4, <1>5, <1>6 DEF Kept
<1> HIDE DEF d, i1
<1>8. Descend(W(PML4, TRUE), 0) = W(PDPT, TRUE)
  BY <1>6, <1>7 DEF Descend
<1>9. Descend(W(PDPT, TRUE), d) = W(PD(d), TRUE)
  BY <1>6, <1>7 DEF Descend
<1>10. DescendPastHuge(W(PD(d), TRUE), i1) = W(PD(d), FALSE)
  BY <1>7 DEF DescendPastHuge
<1>11. vmm_map_page(v, frame, A) = W(PD(d), FALSE)
  <2> DEFINE pt == DescendPastHuge(Descend(Descend(w0, Index(v, 3)), d), i1)
  <2>1. pt = W(PD(d), FALSE)
    BY <1>1, <1>8, <1>9, <1>10
  <2>2. vmm_map_page(v, frame, A) =
          IF pt.ok THEN [pt EXCEPT !.tables[pt.at][Index(v, 0)] = Present(frame)] ELSE pt
    BY DEF vmm_map_page, d, i1
  <2> HIDE DEF pt
  <2>3. QED
    BY <2>1, <2>2
<1>12. QED
  BY <1>11

-----------------------------------------------------------------------------
(* vmm_init and kmalloc_init.                                              *)

\* The heap kmalloc_init wants on machine m.
HeapSize(m) == IF m.total > HEAP_START + SafetyPages
               THEN m.total - HEAP_START - SafetyPages ELSE FallbackPages

\* The framebuffer lies outside the range the heap is mapped to, and off the two
\* pages of the interrupt controllers.
FramebufferApart ==
    \A m \in Machines : \A n \in 0 .. m.fb.pages - 1 :
       /\ \A k \in 0 .. HeapSize(m) - 1 : m.fb.start + n # HEAP_START + k
       /\ m.fb.start + n \notin {LapicPage, IoapicPage}

\* The pages given a frame so far.
FbDone == IF vpc \in {"lapic", "ioapic", "fb"} THEN next ELSE machine.fb.pages
DevicesDone == CASE vpc = "lapic" -> {}
                 [] vpc = "ioapic" -> {<<LapicPage, LapicFrame>>}
                 [] OTHER -> {<<LapicPage, LapicFrame>>, <<IoapicPage, IoapicFrame>>}
Record == DevicesDone
          \cup {<<machine.fb.start + n, machine.fb.start + n>> : n \in 0 .. FbDone - 1}
          \cup {<<HEAP_START + k, backing[k]>> : k \in DOMAIN backing}

\* Types; tables are made of frames that were free.
VmmType ==
    /\ machine \in Machines
    /\ vpc \in {"lapic", "ioapic", "fb", "ramdisk", "low", "size", "heap", "header", "done", "panic",
               "halted"}
    /\ next \in Nat /\ dynamic_heap_size \in Nat
    /\ free \subseteq machine.free /\ (DOMAIN tables) \cap Nat \subseteq machine.free
    /\ vpc \in {"lapic", "ioapic"} => next = 0
    /\ vpc = "fb" => next <= machine.fb.pages

\* The loader's entries are all there, and what was added is a tree of its own
\* frames, whose leaves are on record.
TablesTree ==
    /\ Kept(LoaderTables, tables)
    /\ \E lv, cov : Tree(tables, lv, cov) /\ Owned(tables, lv, cov, free, Record)

HeapPhase == vpc \in {"heap", "header", "done"}

\* Page by page the heap has a frame of its own; only the last page mapped may
\* lack it, and then the memory is used up.
HeapSoFar ==
    /\ vpc \in {"lapic", "ioapic", "fb", "ramdisk", "low", "size"} => DOMAIN backing = {}
    /\ vpc = "size" => next = 0
    /\ HeapPhase => DOMAIN backing = 0 .. next - 1 /\ next <= dynamic_heap_size
    /\ vpc = "heap" => dynamic_heap_size = HeapSize(machine)
    /\ vpc \in {"header", "done"} => next = dynamic_heap_size /\ (next = 0 => free = {})
    /\ \A k \in DOMAIN backing : backing[k] \in Nat
    /\ \A j, k \in DOMAIN backing : backing[j] = backing[k] => j = k
    /\ HeapPhase => \A k \in 0 .. next - 1 :
          \/ Walked(tables, HEAP_START + k) = backing[k]
          \/ k = next - 1 /\ free = {} /\ Walked(tables, HEAP_START + k) = -1

VmmInv == VmmType /\ TablesTree /\ HeapSoFar /\ PanicOnlyWhenExhausted

\* So may a whole set of pages.
LEMMA OwnedSame ==
    ASSUME NEW T, NEW A, NEW R, NEW lv, NEW cov, Owned(T, lv, cov, A, R), NEW R2, R \subseteq R2,
           \A m \in R2 \ R : m[1] \in Pages /\ m[2] \notin A /\ m[2] \notin DOMAIN T
    PROVE  Owned(T, lv, cov, A, R2)
<1>1. \A m \in R2 : m[1] \in Pages /\ m[2] \notin A /\ m[2] \notin DOMAIN T
  BY DEF Owned
<1>2. QED
  BY <1>1 DEF Owned

\* The machine at hand.
LEMMA MachineFacts ==
    ASSUME NEW m \in Machines
    PROVE  /\ m.fb.start \in Nat /\ m.fb.pages \in Nat
           /\ m.ramdisk.start \in Nat /\ m.ramdisk.pages \in Nat
           /\ m.free \subseteq Nat /\ m.total \in Nat
           /\ m.ramdisk.start + m.ramdisk.pages <= Reach
           /\ \A n \in 0 .. m.fb.pages - 1 : m.fb.start + n \in Pages /\ m.fb.start + n \notin m.free
           /\ HeapSize(m) \in Nat \ {0}
           /\ \A k \in 0 .. HeapSize(m) - 1 : /\ HEAP_START + k \in Pages /\ HEAP_START + k >= Reach
                                              /\ HEAP_START + k < LapicPage
           /\ LapicPage \in Pages /\ IoapicPage \in Pages /\ LapicPage >= Reach /\ IoapicPage > LapicPage
           /\ LapicFrame \in Nat /\ IoapicFrame \in Nat /\ LapicFrame # IoapicFrame
           /\ \A f \in {LapicFrame, IoapicFrame} :
                 f \notin m.free /\ \A n \in 0 .. m.fb.pages - 1 : m.fb.start + n # f
           /\ \A v \in Nat : v < Reach => v \in Pages
<1>1. m \in Machine
  BY VmmAssumption
<1>2. /\ m.fb.start \in Nat /\ m.fb.pages \in Nat
      /\ m.ramdisk.start \in Nat /\ m.ramdisk.pages \in Nat
      /\ m.free \subseteq Nat /\ m.total \in Nat
  BY <1>1 DEF Machine
<1> DEFINE top == Fanout * Fanout * Fanout * Fanout
<1>3. top \in Nat /\ Pages = 0 .. top - 1
  <2>1. Fanout \in Nat
    BY VmmAssumption
  <2>2. QED
    BY <2>1 DEF Pages
<1> HIDE DEF top
<1>4. /\ HEAP_START \in Nat /\ HEAP_START < top /\ HEAP_START >= Reach /\ Reach \in Nat
      /\ SafetyPages \in Nat /\ FallbackPages \in Nat \ {0} /\ HEAP_START + FallbackPages <= LapicPage
      /\ LapicPage \in Nat /\ IoapicPage = LapicPage + 1 /\ LapicPage + 1 < top
      /\ LapicFrame \in Nat /\ IoapicFrame \in Nat /\ LapicFrame # IoapicFrame
  BY <1>3, VmmAssumption DEF IoapicPage
<1>5. /\ m.ramdisk.start + m.ramdisk.pages <= Reach
      /\ m.fb.start < top /\ m.fb.start + m.fb.pages - 1 < top
      /\ m.total <= LapicPage
      /\ \A n \in 0 .. m.fb.pages - 1 : m.fb.start + n \notin m.free
      /\ \A f \in {LapicFrame, IoapicFrame} :
            f \notin m.free /\ f \notin m.fb.start .. m.fb.start + m.fb.pages - 1
  <2>1. /\ m.ramdisk.start + m.ramdisk.pages <= Reach
        /\ m.fb.start \in Pages /\ m.fb.start + m.fb.pages - 1 \in Pages \cup {-1}
        /\ m.total <= LapicPage
        /\ \A n \in 0 .. m.fb.pages - 1 : m.fb.start + n \notin m.free
        /\ \A f \in {LapicFrame, IoapicFrame} :
              f \notin m.free /\ f \notin m.fb.start .. m.fb.start + m.fb.pages - 1
    BY VmmAssumption
  <2>2. QED
    BY <2>1, <1>2, <1>3
<1>6. \A n \in 0 .. m.fb.pages - 1 : m.fb.start + n \in Pages
  BY <1>2, <1>3, <1>5
<1>7. HeapSize(m) \in Nat \ {0}
  BY <1>2, <1>4 DEF HeapSize
<1>8. \A k \in 0 .. HeapSize(m) - 1 : /\ HEAP_START + k \in Pages /\ HEAP_START + k >= Reach
                                      /\ HEAP_START + k < LapicPage
  <2>1. CASE m.total > HEAP_START + SafetyPages
    <3>1. HeapSize(m) = m.total - HEAP_START - SafetyPages
      BY <2>1 DEF HeapSize
    <3>2. ASSUME NEW k \in 0 .. HeapSize(m) - 1
          PROVE  HEAP_START + k \in Pages /\ HEAP_START + k >= Reach /\ HEAP_START + k < LapicPage
      <4>1. k \in Nat /\ k <= m.total - HEAP_START - SafetyPages - 1
        BY <3>1, <1>2, <1>4
      <4>2. HEAP_START + k < LapicPage
        BY <4>1, <1>2, <1>3, <1>4, <1>5
      <4>3. QED
        BY <4>1, <4>2, <1>3, <1>4
    <3>3. QED
      BY <3>2
  <2>2. CASE ~(m.total > HEAP_START + SafetyPages)
    <3>1. HeapSize(m) = FallbackPages
      BY <2>2 DEF HeapSize
    <3>2. QED
      BY <3>1, <1>3, <1>4
  <2>3. QED
    BY <2>1, <2>2
<1>9. \A v \in Nat : v < Reach => v \in Pages
  BY <1>3, <1>4
<1>10. LapicPage \in Pages /\ IoapicPage \in Pages /\ LapicPage >= Reach /\ IoapicPage > LapicPage
  BY <1>3, <1>4
<1>11. ASSUME NEW f \in {LapicFrame, IoapicFrame}, NEW n \in 0 .. m.fb.pages - 1
       PROVE  m.fb.start + n # f
  <2>1. f \notin m.fb.start .. m.fb.start + m.fb.pages - 1
    BY <1>5
  <2>2. m.fb.start + n \in m.fb.start .. m.fb.start + m.fb.pages - 1
    BY <1>2
  <2>3. QED
    BY <2>1, <2>2
<1>12. \A f \in {LapicFrame, IoapicFrame} : f \notin m.free
  BY <1>5
<1>13. QED
  BY <1>2, <1>4, <1>5, <1>6, <1>7, <1>8, <1>9, <1>10, <1>11, <1>12

\* It holds when the loader is done.
LEMMA VmmInitInv == VmmInit => VmmInv
<1> SUFFICES ASSUME VmmInit PROVE VmmInv
  OBVIOUS
<1>1. /\ machine \in Machines /\ vpc = "lapic" /\ next = 0 /\ free = machine.free /\ tables = LoaderTables
      /\ dynamic_heap_size = 0 /\ backing = << >>
  BY DEF VmmInit
<1>2. DOMAIN backing = {}
  BY <1>1
<1>3. machine.fb.pages \in Nat /\ free \subseteq Nat
  BY <1>1, MachineFacts
<1>4. Record = {}
  BY <1>1, <1>2 DEF Record, FbDone, DevicesDone
<1>5. PICK lv, cov : Tree(LoaderTables, lv, cov) /\ Owned(LoaderTables, lv, cov, free, {})
  BY <1>3, LoaderTree
<1>6. TablesTree
  BY <1>1, <1>4, <1>5 DEF TablesTree, Kept
<1>7. (DOMAIN tables) \cap Nat = {}
  <2>1. \E l, c : Tree(LoaderTables, l, c) /\ Owned(LoaderTables, l, c, Nat, {})
    BY LoaderTree
  <2>2. QED
    BY <2>1, <1>1 DEF Owned
<1>8. QED
  BY <1>1, <1>2, <1>3, <1>6, <1>7 DEF VmmInv, VmmType, HeapSoFar, HeapPhase, PanicOnlyWhenExhausted

\* A step that leaves the tables and the frames alone and ends the loop of the
\* framebuffer at most.
LEMMA SameTables ==
    ASSUME VmmInv, UNCHANGED <<machine, free, tables, backing>>,
           vpc \notin {"lapic", "ioapic"}, vpc' \notin {"lapic", "ioapic"},
           vpc = "fb" => (vpc' = "fb" /\ next' = next) \/ vpc' # "fb", vpc # "fb" => vpc' # "fb"
    PROVE  TablesTree' /\ Kept(tables, tables')
<1> USE DEF VmmInv, VmmType
<1>1. PICK lv, cov : Tree(tables, lv, cov) /\ Owned(tables, lv, cov, free, Record)
  BY DEF TablesTree
<1>2. machine.fb.pages \in Nat /\ \A n \in 0 .. machine.fb.pages - 1 :
         machine.fb.start + n \in Pages /\ machine.fb.start + n \notin machine.free
  BY MachineFacts
<1>3. /\ FbDone' \in {FbDone, machine.fb.pages} /\ FbDone \in Nat /\ FbDone <= machine.fb.pages
      /\ FbDone' \in Nat /\ FbDone' <= machine.fb.pages
  BY <1>2 DEF FbDone
<1>0. DevicesDone' = DevicesDone
  BY DEF DevicesDone
<1>4. Record \subseteq Record'
  <2>1. \A a, b \in Nat : a <= b => 0 .. a - 1 \subseteq 0 .. b - 1
    OBVIOUS
  <2>2. FbDone <= FbDone'
    BY <1>2, <1>3
  <2>3. 0 .. FbDone - 1 \subseteq 0 .. FbDone' - 1
    BY <2>1, <2>2, <1>3
  <2>4. QED
    BY <2>3, <1>0 DEF Record
<1>5. ASSUME NEW m \in Record' \ Record
      PROVE  m[1] \in Pages /\ m[2] \notin free /\ m[2] \notin DOMAIN tables
  <2>1. PICK n \in 0 .. FbDone' - 1 : m = <<machine.fb.start + n, machine.fb.start + n>>
    BY <1>5, <1>0 DEF Record
  <2>2. n \in 0 .. machine.fb.pages - 1
    <3>1. \A a, b \in Nat : a <= b => \A x \in 0 .. a - 1 : x \in 0 .. b - 1
      OBVIOUS
    <3>2. QED
      BY <2>1, <1>2, <1>3, <3>1
  <2>3. machine.fb.start + n \in Pages /\ machine.fb.start + n \notin machine.free
    BY <2>2, <1>2
  <2>4. Pages \subseteq Nat
    BY DEF Pages
  <2>5. machine.fb.start + n \notin free /\ machine.fb.start + n \notin DOMAIN tables
    BY <2>3, <2>4
  <2>6. QED
    BY <2>1, <2>3, <2>5
<1>6. Owned(tables, lv, cov, free, Record')
  BY <1>1, <1>4, <1>5, OwnedSame
<1>7. Kept(LoaderTables, tables) /\ Kept(tables, tables)
  BY DEF TablesTree, Kept
<1>8. QED
  BY <1>1, <1>6, <1>7 DEF TablesTree

\* The framebuffer's loop: below the loader's reach nothing happens, above it a page
\* gets its frame.
LEMMA FramebufferStep ==
    ASSUME FramebufferApart, VmmInv, MapFramebuffer
    PROVE  VmmInv' /\ Kept(tables, tables')
<1> USE DEF VmmInv
<1> DEFINE p == machine.fb.start + next
<1>1. vpc = "fb" /\ UNCHANGED <<machine, dynamic_heap_size, backing>> /\ machine' = machine
  BY DEF MapFramebuffer, MapLoop
<1>2. machine \in Machines /\ next \in Nat /\ free \subseteq machine.free
      /\ (DOMAIN tables) \cap Nat \subseteq machine.free /\ DOMAIN backing = {}
      /\ next <= machine.fb.pages /\ dynamic_heap_size \in Nat
  BY <1>1 DEF VmmType, HeapSoFar
<1>3. machine.fb.start \in Nat /\ machine.fb.pages \in Nat /\ \A n \in 0 .. machine.fb.pages - 1 :
         machine.fb.start + n \in Pages /\ machine.fb.start + n \notin machine.free
  BY <1>2, MachineFacts
<1>4. CASE ~(next < machine.fb.pages)
  <2>1. vpc' = "ramdisk" /\ next' = 0 /\ UNCHANGED <<free, tables>>
    BY <1>4 DEF MapFramebuffer, MapLoop
  <2>2. TablesTree' /\ Kept(tables, tables')
    BY <2>1, <1>1, SameTables
  <2>3. VmmType'
    BY <2>1, <1>1, <1>2 DEF VmmType
  <2>4. HeapSoFar'
    BY <2>1, <1>1, <1>2 DEF HeapSoFar, HeapPhase
  <2>5. PanicOnlyWhenExhausted'
    BY <2>1 DEF PanicOnlyWhenExhausted
  <2>6. QED
    BY <2>2, <2>3, <2>4, <2>5
<1>5. CASE next < machine.fb.pages
  <2>1. MapPage(p, p, free, "fb") /\ next' = next + 1
    BY <1>5 DEF MapFramebuffer, MapLoop
  <2> DEFINE w == vmm_map_page(p, p, free)
  <2>2. free' = w.free /\ tables' = w.tables /\ (IF w.fault THEN vpc' = "panic" ELSE vpc' = "fb")
    BY <2>1 DEF MapPage
  <2>3. p \in Pages /\ p \notin free /\ p \notin DOMAIN tables
    <3>1. next \in 0 .. machine.fb.pages - 1 /\ Pages \subseteq Nat
      BY <1>2, <1>3, <1>5 DEF Pages
    <3>2. p \in Pages /\ p \notin machine.free
      BY <3>1, <1>3
    <3>3. QED
      BY <3>1, <3>2, <1>2
  <2>4. PICK lv, cov : Tree(tables, lv, cov) /\ Owned(tables, lv, cov, free, Record)
    BY DEF TablesTree
  <2>0. DevicesDone = {<<LapicPage, LapicFrame>>, <<IoapicPage, IoapicFrame>>}
    BY <1>1 DEF DevicesDone
  <2>5. \A m \in Record : m[1] # p /\ m[2] # p
    <3>1. Record = DevicesDone \cup {<<machine.fb.start + n, machine.fb.start + n>> : n \in 0 .. next - 1}
      BY <1>1, <1>2 DEF Record, FbDone
    <3>2. \A n \in 0 .. next - 1 : machine.fb.start + n # p
      BY <1>2, <1>3
    <3>3. next \in 0 .. machine.fb.pages - 1
      BY <1>2, <1>3, <1>5
    <3>4. p # LapicPage /\ p # IoapicPage
      BY <3>3, <1>2 DEF FramebufferApart
    <3>5. p # LapicFrame /\ p # IoapicFrame
      BY <3>3, <1>2, MachineFacts
    <3> HIDE DEF p
    <3>6. QED
      BY <3>1, <3>2, <3>4, <3>5, <2>0
  <2>6. /\ \E lv2, cov2 : /\ Tree(w.tables, lv2, cov2)
                          /\ Owned(w.tables, lv2, cov2, w.free, Record \cup {<<p, p>>})
        /\ Grown(tables, free, w.tables, w.free)
        /\ w.fault => \A f \in w.free : f >= Reach
    <3>1. CASE p >= Reach
      <4> HIDE DEF p
      <4>1. QED
        BY <3>1, <2>3, <2>4, <2>5, MapHigh
    <3>2. CASE ~(p >= Reach)
      <4>1. Kept(LoaderTables, tables) /\ p < Reach
        BY <3>2, <1>2, <1>3, VmmAssumption DEF TablesTree
      <4>2. Owned(tables, lv, cov, free, Record \cup {<<p, p>>})
        BY <2>3, <2>4, OwnedMore
      <4> HIDE DEF p
      <4>3. w.tables = tables /\ w.free = free /\ w.fault = FALSE
        BY <2>3, <4>1, MapLowNothing
      <4>4. Grown(tables, free, tables, free)
        BY DEF Grown, Kept
      <4>5. QED
        BY <2>4, <4>2, <4>3, <4>4
    <3>3. QED
      BY <3>1, <3>2
  <2> HIDE DEF w
  <2>7. Record \cup {<<p, p>>} \subseteq Record'
    <3>1. 0 .. next - 1 \subseteq 0 .. FbDone' - 1 /\ next \in 0 .. FbDone' - 1
      BY <2>1, <2>2, <1>1, <1>2, <1>3, <1>5 DEF FbDone
    <3>2. FbDone = next
      BY <1>1 DEF FbDone
    <3>3. DevicesDone' = DevicesDone
      BY <2>0, <2>2 DEF DevicesDone
    <3>4. QED
      BY <3>1, <3>2, <3>3, <1>1, <1>2 DEF Record
  <2>8. Kept(tables, tables') /\ free' \subseteq free /\ DOMAIN tables' \subseteq DOMAIN tables \cup free
    BY <2>2, <2>6 DEF Grown
  <2>9. VmmType'
    <3>1. free' \subseteq machine'.free /\ (DOMAIN tables') \cap Nat \subseteq machine'.free
      BY <2>8, <1>1, <1>2
    <3>2. next' \in Nat /\ next' <= machine'.fb.pages
      BY <2>1, <1>1, <1>2, <1>3, <1>5
    <3>3. QED
      BY <3>1, <3>2, <2>2, <1>1, <1>2 DEF VmmType
  <2>10. ASSUME NEW m \in Record' \ (Record \cup {<<p, p>>})
         PROVE  m[1] \in Pages /\ m[2] \notin free' /\ m[2] \notin DOMAIN tables'
    <3>1. PICK n \in 0 .. FbDone' - 1 : m = <<machine.fb.start + n, machine.fb.start + n>>
      <4>1. DevicesDone' = DevicesDone
        BY <2>0, <2>2 DEF DevicesDone
      <4>2. QED
        BY <4>1, <2>10, <1>1, <1>2 DEF Record
    <3>2. n \in 0 .. machine.fb.pages - 1
      BY <3>1, <2>1, <1>1, <1>2, <1>3, <1>5 DEF FbDone
    <3>3. machine.fb.start + n \in Pages /\ machine.fb.start + n \notin machine.free
      BY <3>2, <1>3
    <3>4. Pages \subseteq Nat
      BY DEF Pages
    <3>5. machine.fb.start + n \notin free' /\ machine.fb.start + n \notin DOMAIN tables'
      BY <3>3, <3>4, <2>8, <1>2
    <3>6. QED
      BY <3>1, <3>3, <3>5
  <2>11. PICK lv2, cov2 : /\ Tree(tables', lv2, cov2)
                          /\ Owned(tables', lv2, cov2, free', Record \cup {<<p, p>>})
    BY <2>2, <2>6
  <2>12. Owned(tables', lv2, cov2, free', Record')
    BY <2>7, <2>10, <2>11, OwnedSame
  <2>13. Kept(LoaderTables, tables')
    BY <2>8 DEF Kept, TablesTree
  <2>14. TablesTree'
    BY <2>11, <2>12, <2>13 DEF TablesTree
  <2>15. HeapSoFar'
    BY <2>2, <1>1, <1>2 DEF HeapSoFar, HeapPhase
  <2>16. PanicOnlyWhenExhausted'
    BY <2>2, <2>6 DEF PanicOnlyWhenExhausted
  <2>17. QED
    BY <2>8, <2>9, <2>14, <2>15, <2>16
<1>6. QED
  BY <1>4, <1>5

\* The ramdisk and the low pages lie in the loader's map.
LEMMA LowLoopStep ==
    ASSUME VmmInv, NEW CONSTANT here, NEW CONSTANT then, NEW start \in Nat, NEW pages \in Nat,
           start + pages <= Reach, MapLoop(here, start, pages, then),
           <<here, then>> \in {<<"ramdisk", "low">>, <<"low", "size">>}
    PROVE  VmmInv' /\ Kept(tables, tables')
<1> USE DEF VmmInv
<1>1. /\ vpc = here /\ UNCHANGED <<machine, dynamic_heap_size, backing>>
      /\ here \in {"ramdisk", "low"} /\ then \in {"low", "size"}
  BY DEF MapLoop
<1>2. next \in Nat /\ DOMAIN backing = {}
  BY <1>1 DEF VmmType, HeapSoFar
<1>3. /\ UNCHANGED <<free, tables>> /\ next' \in Nat /\ vpc' \in {here, then}
      /\ vpc' = then => next' = 0
  <2>1. CASE ~(next < pages)
    BY <2>1 DEF MapLoop
  <2>2. CASE next < pages
    <3> DEFINE v == start + next
               w == vmm_map_page(v, v, free)
    <3>1. MapPage(v, v, free, here) /\ next' = next + 1
      BY <2>2 DEF MapLoop
    <3>2. v \in Nat /\ v < Reach
      BY <2>2, <1>2, VmmAssumption
    <3>3. v \in Pages
      BY <3>2, MachineFacts DEF VmmType
    <3>4. Kept(LoaderTables, tables)
      BY DEF TablesTree
    <3> HIDE DEF v
    <3>5. w.tables = tables /\ w.free = free /\ w.fault = FALSE
      BY <3>2, <3>3, <3>4, MapLowNothing
    <3>6. free' = w.free /\ tables' = w.tables /\ (IF w.fault THEN vpc' = "panic" ELSE vpc' = here)
      BY <3>1 DEF MapPage
    <3> HIDE DEF w
    <3>7. here # then
      OBVIOUS
    <3>8. QED
      BY <3>1, <3>5, <3>6, <3>7, <1>2
  <2>3. QED
    BY <2>1, <2>2
<1>4. TablesTree' /\ Kept(tables, tables')
  BY <1>1, <1>3, SameTables
<1>5. VmmType'
  BY <1>1, <1>3 DEF VmmType
<1>6. HeapSoFar'
  <2>1. vpc' \in {"ramdisk", "low", "size"} /\ DOMAIN backing' = {}
    BY <1>1, <1>2, <1>3
  <2>2. vpc' = "size" => next' = 0
    BY <1>1, <1>3
  <2>3. QED
    BY <2>1, <2>2 DEF HeapSoFar, HeapPhase
<1>7. PanicOnlyWhenExhausted'
  BY <1>1, <1>3 DEF PanicOnlyWhenExhausted
<1>8. QED
  BY <1>4, <1>5, <1>6, <1>7

\* The size of the heap is chosen before its first page is mapped.
LEMMA SizeHeapStep ==
    ASSUME VmmInv, SizeHeap
    PROVE  VmmInv' /\ Kept(tables, tables')
<1> USE DEF VmmInv
<1>1. /\ vpc = "size" /\ vpc' = "heap" /\ dynamic_heap_size' = HeapSize(machine)
      /\ UNCHANGED <<machine, next, free, tables, backing>>
  BY DEF SizeHeap, HeapSize
<1>2. HeapSize(machine) \in Nat \ {0} /\ next = 0 /\ DOMAIN backing = {}
  BY <1>1, MachineFacts DEF VmmType, HeapSoFar
<1>3. TablesTree' /\ Kept(tables, tables')
  BY <1>1, SameTables
<1>4. VmmType'
  BY <1>1, <1>2 DEF VmmType
<1>5. HeapSize(machine)' = HeapSize(machine)
  BY <1>1 DEF HeapSize
<1>6. HeapSoFar'
  <2>1. DOMAIN backing' = 0 .. next' - 1 /\ next' <= dynamic_heap_size' /\ 0 .. next' - 1 = {}
    BY <1>1, <1>2
  <2>2. QED
    BY <2>1, <1>1, <1>2, <1>5 DEF HeapSoFar, HeapPhase
<1>7. PanicOnlyWhenExhausted'
  BY <1>1 DEF PanicOnlyWhenExhausted
<1>8. QED
  BY <1>3, <1>4, <1>6, <1>7

\* The end of the heap's loop, with memory left or without.
LEMMA HeapEndStep ==
    ASSUME VmmInv, CapHeap \/ HeapMapped
    PROVE  VmmInv' /\ Kept(tables, tables')
<1> USE DEF VmmInv
<1>1. vpc = "heap" /\ vpc' = "header" /\ UNCHANGED <<machine, next, free, tables, backing>>
  BY DEF CapHeap, HeapMapped
<1>2. /\ HeapSize(machine) \in Nat \ {0} /\ next \in Nat /\ DOMAIN backing = 0 .. next - 1
      /\ next <= dynamic_heap_size /\ dynamic_heap_size = HeapSize(machine)
  BY <1>1, MachineFacts DEF VmmType, HeapSoFar, HeapPhase
<1>3. next' = dynamic_heap_size' /\ (next' = 0 => free' = {}) /\ dynamic_heap_size' \in Nat
  BY <1>1, <1>2 DEF CapHeap, HeapMapped
<1>4. TablesTree' /\ Kept(tables, tables')
  BY <1>1, SameTables
<1>5. VmmType'
  BY <1>1, <1>2, <1>3 DEF VmmType
<1>6. HeapSoFar'
  <2>1. /\ \A k \in DOMAIN backing : backing[k] \in Nat
        /\ \A j, k \in DOMAIN backing : backing[j] = backing[k] => j = k
        /\ \A k \in 0 .. next - 1 :
              \/ Walked(tables, HEAP_START + k) = backing[k]
              \/ k = next - 1 /\ free = {} /\ Walked(tables, HEAP_START + k) = -1
    BY <1>1 DEF HeapSoFar, HeapPhase
  <2>2. next' <= dynamic_heap_size'
    BY <1>1, <1>2, <1>3
  <2>3. QED
    BY <2>1, <2>2, <1>1, <1>2, <1>3 DEF HeapSoFar, HeapPhase
<1>7. PanicOnlyWhenExhausted'
  BY <1>1 DEF PanicOnlyWhenExhausted
<1>8. QED
  BY <1>4, <1>5, <1>6, <1>7

\* The first header faults only on an empty heap or an only page without a table.
LEMMA WriteHeaderStep ==
    ASSUME VmmInv, WriteHeader
    PROVE  VmmInv' /\ Kept(tables, tables')
<1> USE DEF VmmInv
<1>1. /\ vpc = "header" /\ UNCHANGED <<machine, next, free, tables, dynamic_heap_size, backing>>
      /\ vpc' \in {"done", "panic"} /\ (vpc' = "panic" => ~Mapped(HEAP_START))
  BY DEF WriteHeader
<1>2. TablesTree' /\ Kept(tables, tables')
  BY <1>1, SameTables
<1>3. VmmType'
  BY <1>1 DEF VmmType
<1>4. HeapSoFar'
  <2>1. /\ DOMAIN backing = 0 .. next - 1 /\ next <= dynamic_heap_size
        /\ next = dynamic_heap_size /\ (next = 0 => free = {})
        /\ \A k \in DOMAIN backing : backing[k] \in Nat
        /\ \A j, k \in DOMAIN backing : backing[j] = backing[k] => j = k
        /\ \A k \in 0 .. next - 1 :
              \/ Walked(tables, HEAP_START + k) = backing[k]
              \/ k = next - 1 /\ free = {} /\ Walked(tables, HEAP_START + k) = -1
    BY <1>1 DEF HeapSoFar, HeapPhase
  <2>2. QED
    BY <2>1, <1>1 DEF HeapSoFar, HeapPhase
<1>5. PanicOnlyWhenExhausted'
  <2>1. SUFFICES ASSUME vpc' = "panic" PROVE free = {}
    BY <1>1 DEF PanicOnlyWhenExhausted
  <2>2. Walked(tables, HEAP_START) = -1
    BY <2>1, <1>1, TranslateWalked DEF Mapped
  <2>3. CASE next = 0
    BY <2>3, <1>1 DEF HeapSoFar
  <2>4. CASE next # 0
    <3>1. 0 \in 0 .. next - 1 /\ DOMAIN backing = 0 .. next - 1 /\ HEAP_START + 0 = HEAP_START
      BY <2>4, <1>1, VmmAssumption DEF VmmType, HeapSoFar, HeapPhase, Pages
    <3>2. backing[0] \in Nat
      BY <3>1 DEF HeapSoFar
    <3>3. \/ Walked(tables, HEAP_START + 0) = backing[0]
          \/ free = {}
      BY <3>1, <1>1 DEF HeapSoFar, HeapPhase
    <3>4. QED
      BY <3>1, <3>2, <3>3, <2>2
  <2>5. QED
    BY <2>3, <2>4
<1>6. QED
  BY <1>2, <1>3, <1>4, <1>5

\* A page of the heap is new, for the framebuffer lies elsewhere.
LEMMA HeapPageStep ==
    ASSUME FramebufferApart, VmmInv, MapHeapPage
    PROVE  VmmInv' /\ Kept(tables, tables')
<1> USE DEF VmmInv
<1> DEFINE v == HEAP_START + next
           f == Lowest(free)
           A == free \ {f}
           w == vmm_map_page(v, f, A)
<1>1. /\ vpc = "heap" /\ next < dynamic_heap_size /\ free # {} /\ MapPage(v, f, A, "heap")
      /\ backing' = [k \in 0 .. next |-> IF k = next THEN f ELSE backing[k]]
      /\ next' = next + 1 /\ UNCHANGED <<machine, dynamic_heap_size>>
  BY DEF MapHeapPage
<1>2. /\ machine \in Machines /\ next \in Nat /\ free \subseteq machine.free /\ dynamic_heap_size \in Nat
      /\ (DOMAIN tables) \cap Nat \subseteq machine.free /\ DOMAIN backing = 0 .. next - 1
      /\ dynamic_heap_size = HeapSize(machine) /\ next \in 0 .. HeapSize(machine) - 1
  BY <1>1 DEF VmmType, HeapSoFar, HeapPhase
<1>3. free \subseteq Nat /\ v \in Pages /\ v >= Reach /\ machine.fb.start \in Nat /\ machine.fb.pages \in Nat
  BY <1>2, MachineFacts
<1>4. f \in free
  BY <1>1, <1>3, LowestOf
<1>5. free' = w.free /\ tables' = w.tables /\ (IF w.fault THEN vpc' = "panic" ELSE vpc' = "heap")
  BY <1>1 DEF MapPage
<1> HIDE DEF f
<1>6. PICK lv, cov : Tree(tables, lv, cov) /\ Owned(tables, lv, cov, free, Record)
  BY DEF TablesTree
<1>7. f \notin A /\ f \notin DOMAIN tables /\ f \in Nat
  BY <1>3, <1>4, <1>6 DEF Owned
<1>8. Owned(tables, lv, cov, A, Record)
  BY <1>6 DEF Owned
<1>9. ASSUME NEW m \in Record PROVE m[1] # v /\ m[2] # f
  <2>1. m[2] # f
    BY <1>4, <1>6 DEF Owned
  <2>2. CASE \E n \in 0 .. FbDone - 1 : m = <<machine.fb.start + n, machine.fb.start + n>>
    <3>1. PICK n \in 0 .. machine.fb.pages - 1 : m = <<machine.fb.start + n, machine.fb.start + n>>
      BY <2>2, <1>1 DEF FbDone
    <3>2. machine.fb.start + n # v
      BY <1>2 DEF FramebufferApart
    <3>3. QED
      BY <2>1, <3>1, <3>2
  <2>3. CASE \E k \in DOMAIN backing : m = <<HEAP_START + k, backing[k]>>
    <3>1. PICK k \in 0 .. next - 1 : m = <<HEAP_START + k, backing[k]>>
      BY <2>3, <1>2
    <3>2. HEAP_START + k # v
      BY <1>2, VmmAssumption DEF Pages
    <3>3. QED
      BY <2>1, <3>1, <3>2
  <2>4. CASE m \in DevicesDone
    <3>1. m[1] \in {LapicPage, IoapicPage}
      BY <2>4 DEF DevicesDone
    <3>2. v < LapicPage /\ IoapicPage > LapicPage /\ LapicPage \in Pages /\ IoapicPage \in Pages
      BY <1>2, MachineFacts
    <3>3. v # LapicPage /\ v # IoapicPage
      BY <3>2, <1>3 DEF Pages
    <3>4. QED
      BY <2>1, <3>1, <3>3
  <2>5. QED
    BY <2>2, <2>3, <2>4, <1>9 DEF Record
<1> HIDE DEF v, A
<1>10. /\ \E lv2, cov2 : /\ Tree(w.tables, lv2, cov2)
                         /\ Owned(w.tables, lv2, cov2, w.free, Record \cup {<<v, f>>})
       /\ Grown(tables, A, w.tables, w.free)
       /\ Walked(w.tables, v) = f \/ (Walked(w.tables, v) = -1 /\ (~w.fault => w.free = {}))
       /\ w.fault => \A g \in w.free : g >= Reach
  BY <1>3, <1>6, <1>7, <1>8, <1>9, MapHigh
<1> HIDE DEF w
<1>11. Kept(tables, tables') /\ free' \subseteq A /\ DOMAIN tables' \subseteq DOMAIN tables \cup A /\ A \subseteq free
  BY <1>5, <1>10 DEF Grown, A
<1>12. VmmType'
  <2>1. free' \subseteq machine'.free /\ (DOMAIN tables') \cap Nat \subseteq machine'.free
    BY <1>1, <1>2, <1>11
  <2>2. QED
    BY <2>1, <1>1, <1>2, <1>5 DEF VmmType
<1>13. DOMAIN backing' = 0 .. next /\ backing'[next] = f /\ \A k \in 0 .. next - 1 : backing'[k] = backing[k]
  BY <1>1, <1>2
<1>14. Record' = Record \cup {<<v, f>>}
  <2>1. FbDone' = FbDone
    BY <1>1, <1>5 DEF FbDone
  <2>2. {<<HEAP_START + k, backing'[k]>> : k \in DOMAIN backing'}
          = {<<HEAP_START + k, backing[k]>> : k \in DOMAIN backing} \cup {<<v, f>>}
    <3>1. 0 .. next = (0 .. next - 1) \cup {next}
      BY <1>2
    <3>2. QED
      BY <3>1, <1>2, <1>13 DEF v
  <2>3. DevicesDone' = DevicesDone
    BY <1>1, <1>5 DEF DevicesDone
  <2>4. QED
    BY <2>1, <2>2, <2>3, <1>1 DEF Record
<1>15. TablesTree'
  <2>1. Kept(LoaderTables, tables')
    BY <1>11 DEF Kept, TablesTree
  <2>2. QED
    BY <2>1, <1>5, <1>10, <1>14 DEF TablesTree
<1>16. HeapSoFar'
  <2>1. \A k \in DOMAIN backing' : backing'[k] \in Nat
    <3>1. \A k \in DOMAIN backing : backing[k] \in Nat
      BY DEF HeapSoFar
    <3>2. QED
      BY <3>1, <1>2, <1>7, <1>13
  <2>2. ASSUME NEW j \in DOMAIN backing', NEW k \in DOMAIN backing', backing'[j] = backing'[k]
        PROVE  j = k
    <3>1. \A i \in 0 .. next - 1 : backing[i] # f
      <4>1. \A i \in 0 .. next - 1 : <<HEAP_START + i, backing[i]>> \in Record
        BY <1>2 DEF Record
      <4>2. QED
        BY <4>1, <1>9
    <3>2. (j = next \/ j \in 0 .. next - 1) /\ (k = next \/ k \in 0 .. next - 1)
      BY <1>2, <1>13
    <3>3. \A a, b \in 0 .. next - 1 : backing[a] = backing[b] => a = b
      BY <1>2 DEF HeapSoFar
    <3>4. QED
      BY <3>1, <3>2, <3>3, <2>2, <1>13
  <2>3. ASSUME vpc' = "heap", NEW k \in 0 .. next' - 1
        PROVE  \/ Walked(tables', HEAP_START + k) = backing'[k]
               \/ k = next' - 1 /\ free' = {} /\ Walked(tables', HEAP_START + k) = -1
    <3>1. CASE k = next
      <4>1. ~w.fault
        BY <2>3, <1>5
      <4>2. QED
        BY <4>1, <3>1, <1>1, <1>2, <1>5, <1>10, <1>13 DEF v
    <3>2. CASE k # next
      <4>1. k \in 0 .. next - 1
        BY <3>2, <1>1, <1>2
      <4>2. Walked(tables, HEAP_START + k) = backing[k]
        BY <4>1, <1>1 DEF HeapSoFar, HeapPhase
      <4>3. HEAP_START + k \in Pages
        <5>1. k \in 0 .. HeapSize(machine) - 1
          BY <4>1, <1>2
        <5>2. QED
          BY <5>1, <1>2, MachineFacts
      <4>4. backing[k] # -1
        <5>1. backing[k] \in Nat
          BY <4>1, <1>2 DEF HeapSoFar
        <5>2. QED
          BY <5>1
      <4>5. Walked(tables', HEAP_START + k) = backing[k]
        BY <4>2, <4>3, <4>4, <1>6, <1>11, KeptWalks
      <4>6. QED
        BY <4>1, <4>5, <1>13
    <3>3. QED
      BY <3>1, <3>2
  <2>4. HeapSize(machine)' = HeapSize(machine)
    BY <1>1 DEF HeapSize
  <2>5. DOMAIN backing' = 0 .. next' - 1 /\ next' <= dynamic_heap_size'
    BY <1>1, <1>2, <1>13
  <2>6. QED
    BY <2>1, <2>2, <2>3, <2>4, <2>5, <1>1, <1>2, <1>5 DEF HeapSoFar, HeapPhase
<1>17. PanicOnlyWhenExhausted'
  BY <1>5, <1>10 DEF PanicOnlyWhenExhausted
<1>18. QED
  BY <1>11, <1>12, <1>15, <1>16, <1>17

\* A step that changes nothing keeps it.
LEMMA VmmSame == VmmInv /\ UNCHANGED vmmVars => VmmInv'
BY DEF vmmVars, VmmInv, VmmType, TablesTree, HeapSoFar, HeapPhase, PanicOnlyWhenExhausted,
       Record, DevicesDone, FbDone, HeapSize

\* Mapping the page of an interrupt controller adds it to the record.
LEMMA ControllerStep ==
    ASSUME VmmInv, NEW CONSTANT here, NEW CONSTANT page, NEW CONSTANT frame, NEW CONSTANT then,
           InitController(here, page, frame, then),
           here \in {"lapic", "ioapic"}, then \in {"ioapic", "fb"}, here # then,
           page \in Pages, page >= Reach, frame \in Nat, frame \notin machine.free,
           \A m \in DevicesDone : m[1] # page /\ m[2] # frame,
           DevicesDone \cup {<<page, frame>>} \subseteq DevicesDone'
    PROVE  VmmInv' /\ Kept(tables, tables')
<1> USE DEF VmmInv
<1> DEFINE w == vmm_map_page(page, frame, free)
<1>1. /\ vpc = here /\ free' = w.free /\ tables' = w.tables
      /\ vpc' \in {then, "halted"} /\ (vpc' = "halted" => ~(Mapped(page)'))
      /\ UNCHANGED <<machine, next, dynamic_heap_size, backing>>
  BY DEF InitController
<1>2. /\ machine \in Machines /\ next = 0 /\ free \subseteq machine.free /\ dynamic_heap_size \in Nat
      /\ (DOMAIN tables) \cap Nat \subseteq machine.free /\ DOMAIN backing = {}
  BY <1>1 DEF VmmType, HeapSoFar
<1>3. PICK lv, cov : Tree(tables, lv, cov) /\ Owned(tables, lv, cov, free, Record)
  BY DEF TablesTree
<1>4. Record = DevicesDone
  BY <1>1, <1>2 DEF Record, FbDone
<1>5. frame \notin free /\ frame \notin DOMAIN tables
  BY <1>2
<1>6. /\ \E lv2, cov2 : /\ Tree(w.tables, lv2, cov2)
                        /\ Owned(w.tables, lv2, cov2, w.free, Record \cup {<<page, frame>>})
      /\ Grown(tables, free, w.tables, w.free)
      /\ Walked(w.tables, page) = frame \/ (Walked(w.tables, page) = -1 /\ (~w.fault => w.free = {}))
      /\ w.fault => \A f \in w.free : f >= Reach
  BY <1>3, <1>4, <1>5, MapHigh
<1> HIDE DEF w
<1>7. Kept(tables, tables') /\ free' \subseteq free /\ DOMAIN tables' \subseteq DOMAIN tables \cup free
  BY <1>1, <1>6 DEF Grown
<1>8. PICK lv2, cov2 : /\ Tree(tables', lv2, cov2)
                       /\ Owned(tables', lv2, cov2, free', Record \cup {<<page, frame>>})
  BY <1>1, <1>6
<1>9. Record \cup {<<page, frame>>} \subseteq Record'
  BY <1>4 DEF Record
<1>10. ASSUME NEW m \in Record' \ (Record \cup {<<page, frame>>})
       PROVE  m[1] \in Pages /\ m[2] \notin free' /\ m[2] \notin DOMAIN tables'
  <2>1. DOMAIN backing' = {}
    BY <1>1, <1>2
  <2>2. CASE m \in DevicesDone'
    <3>1. m \in {<<LapicPage, LapicFrame>>, <<IoapicPage, IoapicFrame>>}
      BY <2>2 DEF DevicesDone
    <3>2. /\ LapicPage \in Pages /\ IoapicPage \in Pages /\ LapicFrame \in Nat /\ IoapicFrame \in Nat
          /\ LapicFrame \notin machine.free /\ IoapicFrame \notin machine.free
      BY <1>2, MachineFacts
    <3>3. \A f \in Nat : f \notin machine.free => f \notin free' /\ f \notin DOMAIN tables'
      BY <1>2, <1>7
    <3>4. QED
      BY <3>1, <3>2, <3>3
  <2>3. CASE m \notin DevicesDone'
    <3>1. PICK n \in 0 .. FbDone' - 1 : m = <<machine'.fb.start + n, machine'.fb.start + n>>
      BY <1>10, <2>1, <2>3 DEF Record
    <3>2. n \in 0 .. machine.fb.pages - 1 /\ machine' = machine
      <4>1. FbDone' \in {0, machine.fb.pages} /\ machine.fb.pages \in Nat
        BY <1>1, <1>2, MachineFacts DEF FbDone
      <4>2. CASE FbDone' = 0
        BY <4>2, <3>1
      <4>3. CASE FbDone' = machine.fb.pages
        BY <4>3, <3>1, <1>1
      <4>4. QED
        BY <4>1, <4>2, <4>3
    <3>3. machine.fb.start + n \in Pages /\ machine.fb.start + n \notin machine.free
      BY <3>2, <1>2, MachineFacts
    <3>4. Pages \subseteq Nat
      BY DEF Pages
    <3>5. machine.fb.start + n \notin free' /\ machine.fb.start + n \notin DOMAIN tables'
      BY <3>3, <3>4, <1>2, <1>7
    <3>6. QED
      BY <3>1, <3>2, <3>3, <3>5
  <2>4. QED
    BY <2>2, <2>3
<1>11. Owned(tables', lv2, cov2, free', Record')
  BY <1>8, <1>9, <1>10, OwnedSame
<1>12. TablesTree'
  <2>1. Kept(LoaderTables, tables')
    BY <1>7 DEF Kept, TablesTree
  <2>2. QED
    BY <2>1, <1>8, <1>11 DEF TablesTree
<1>13. VmmType'
  <2>1. free' \subseteq machine'.free /\ (DOMAIN tables') \cap Nat \subseteq machine'.free
    BY <1>1, <1>2, <1>7
  <2>2. machine.fb.pages \in Nat
    BY <1>2, MachineFacts
  <2>3. QED
    BY <2>1, <2>2, <1>1, <1>2 DEF VmmType
<1>14. HeapSoFar'
  BY <1>1, <1>2 DEF HeapSoFar, HeapPhase
<1>15. PanicOnlyWhenExhausted'
  <2>1. SUFFICES ASSUME vpc' = "halted" PROVE \A f \in free' : f >= Reach
    BY <1>1 DEF PanicOnlyWhenExhausted
  <2>2. Walked(tables', page) = -1
    BY <2>1, <1>1, TranslateWalked DEF Mapped
  <2>3. Walked(w.tables, page) # frame
    BY <2>2, <1>1
  <2>4. QED
    BY <2>3, <1>1, <1>6
<1>16. QED
  BY <1>7, <1>12, <1>13, <1>14, <1>15

\* The local APIC comes first.
LEMMA LapicStep ==
    ASSUME VmmInv, init_apic
    PROVE  VmmInv' /\ Kept(tables, tables')
<1>1. machine \in Machines
  BY DEF VmmInv, VmmType
<1>2. /\ LapicPage \in Pages /\ LapicPage >= Reach /\ LapicFrame \in Nat /\ LapicFrame \notin machine.free
  BY <1>1, MachineFacts
<1>3. InitController("lapic", LapicPage, LapicFrame, "ioapic") /\ vpc = "lapic" /\ vpc' \in {"ioapic", "halted"}
  BY DEF init_apic, InitController
<1>4. /\ DevicesDone = {} /\ DevicesDone \cup {<<LapicPage, LapicFrame>>} \subseteq DevicesDone'
  BY <1>3 DEF DevicesDone
<1>5. QED
  BY <1>2, <1>3, <1>4, ControllerStep

\* The IOAPIC is mapped beside it.
LEMMA IoapicStep ==
    ASSUME VmmInv, init_ioapic
    PROVE  VmmInv' /\ Kept(tables, tables')
<1>1. machine \in Machines
  BY DEF VmmInv, VmmType
<1>2. /\ IoapicPage \in Pages /\ IoapicPage >= Reach /\ IoapicFrame \in Nat /\ IoapicFrame \notin machine.free
      /\ LapicPage # IoapicPage /\ LapicFrame # IoapicFrame
  BY <1>1, MachineFacts, VmmAssumption DEF Pages
<1>3. InitController("ioapic", IoapicPage, IoapicFrame, "fb") /\ vpc = "ioapic" /\ vpc' \in {"fb", "halted"}
  BY DEF init_ioapic, InitController
<1>4. /\ DevicesDone = {<<LapicPage, LapicFrame>>}
      /\ DevicesDone' = DevicesDone \cup {<<IoapicPage, IoapicFrame>>}
  BY <1>3 DEF DevicesDone
<1>5. \A m \in DevicesDone : m[1] # IoapicPage /\ m[2] # IoapicFrame
  BY <1>2, <1>4
<1>6. QED
  BY <1>2, <1>3, <1>4, <1>5, ControllerStep

\* Every step of the boot's memory part.
LEMMA VmmStep ==
    ASSUME FramebufferApart, VmmInv, VmmNext
    PROVE  VmmInv' /\ (vpc # "panic" => Kept(tables, tables'))
<1>1. CASE MapFramebuffer
  BY <1>1, FramebufferStep
<1>2. CASE MapRamdisk
  <2>1. machine \in Machines
    BY DEF VmmInv, VmmType
  <2>2. /\ machine.ramdisk.start \in Nat /\ machine.ramdisk.pages \in Nat
        /\ machine.ramdisk.start + machine.ramdisk.pages <= Reach
    BY <2>1, MachineFacts
  <2>3. QED
    BY <2>2, <1>2, LowLoopStep DEF MapRamdisk
<1>3. CASE MapLow
  <2>1. LowPages \in Nat /\ 0 + LowPages <= Reach /\ 0 \in Nat
    BY VmmAssumption
  <2>2. QED
    BY <2>1, <1>3, LowLoopStep DEF MapLow
<1>4. CASE SizeHeap
  BY <1>4, SizeHeapStep
<1>5. CASE MapHeapPage
  BY <1>5, HeapPageStep
<1>6. CASE CapHeap
  BY <1>6, HeapEndStep
<1>7. CASE HeapMapped
  BY <1>7, HeapEndStep
<1>8. CASE WriteHeader
  BY <1>8, WriteHeaderStep
<1>9. CASE page_fault_handler
  <2>1. /\ vpc = "panic" /\ vpc' = "lapic" /\ next' = 0 /\ free' = machine'.free /\ tables' = LoaderTables
        /\ dynamic_heap_size' = 0 /\ backing' = << >> /\ machine' \in Machines
    BY <1>9 DEF page_fault_handler, VmmInv, VmmType
  <2>2. VmmInit'
    BY <2>1 DEF VmmInit, LoaderTables
  <2>3. VmmInit' => VmmInv'
    BY VmmInitInv, PTL
  <2>4. QED
    BY <2>1, <2>2, <2>3
<1>10. CASE init_apic
  BY <1>10, LapicStep
<1>11. CASE init_ioapic
  BY <1>11, IoapicStep
<1>12. CASE dummy_exception_handler
  <2>1. UNCHANGED vmmVars
    BY <1>12 DEF dummy_exception_handler
  <2>2. VmmInv'
    BY <2>1, VmmSame
  <2>3. QED
    BY <2>1, <2>2 DEF vmmVars, Kept
<1>13. QED
  BY <1>1, <1>2, <1>3, <1>4, <1>5, <1>6, <1>7, <1>8, <1>9, <1>10, <1>11, <1>12 DEF VmmNext

\* The mappings of a step that keeps the entries.
LEMMA KeptTranslates ==
    ASSUME VmmInv, Kept(tables, tables'), NEW CONSTANT v \in Pages, Mapped(v)
    PROVE  Translate(v)' = Translate(v)
<1>1. PICK lv, cov : Tree(tables, lv, cov)
  BY DEF VmmInv, TablesTree
<1>2. Walked(tables, v) # -1
  BY TranslateWalked DEF Mapped
<1>3. Walked(tables', v) = Walked(tables, v)
  BY <1>1, <1>2, KeptWalks
<1>4. QED
  BY <1>3, TranslateWalked

\* What the invariant says of frames and of the heap.
LEMMA VmmInvGives == VmmInv => FramesServeOnce /\ HeapBacked /\ PanicOnlyWhenExhausted
<1> SUFFICES ASSUME VmmInv PROVE FramesServeOnce /\ HeapBacked /\ PanicOnlyWhenExhausted
  OBVIOUS
<1> USE DEF VmmInv
<1>1. PICK lv, cov : Tree(tables, lv, cov) /\ Owned(tables, lv, cov, free, Record)
  BY DEF TablesTree
<1>2. FramesServeOnce
  <2> DEFINE taken == {backing[k] : k \in DOMAIN backing}
             made == (DOMAIN tables) \cap Nat
             small == {e \in (DOMAIN tables) \X (0 .. Fanout - 1) :
                         tables[e[1]][e[2]].present /\ ~tables[e[1]][e[2]].huge}
  <2>1. \A k \in DOMAIN backing : backing[k] \notin free /\ backing[k] \notin DOMAIN tables
    <3>1. \A k \in DOMAIN backing : <<HEAP_START + k, backing[k]>> \in Record
      BY DEF Record
    <3>2. \A m \in Record : m[2] \notin free /\ m[2] \notin DOMAIN tables
      BY <1>1 DEF Owned
    <3>3. QED
      BY <3>1, <3>2
  <2>2. free \cap (taken \cup made) = {} /\ taken \cap made = {}
    BY <2>1, <1>1 DEF Owned
  <2>3. \A j, k \in DOMAIN backing : backing[j] = backing[k] => j = k
    BY DEF HeapSoFar
  <2>4. ASSUME NEW d \in small, NEW e \in small, tables[d[1]][d[2]].to = tables[e[1]][e[2]].to
        PROVE  d = e
    <3>1. d[1] = e[1] /\ d[2] = e[2]
      BY <2>4, <1>1 DEF Owned, Places
    <3>2. d = <<d[1], d[2]>> /\ e = <<e[1], e[2]>>
      OBVIOUS
    <3>3. QED
      BY <3>1, <3>2
  <2>5. QED
    BY <2>2, <2>3, <2>4 DEF FramesServeOnce
<1>3. HeapBacked
  <2>1. SUFFICES ASSUME vpc = "done", NEW k \in 0 .. dynamic_heap_size - 1
                 PROVE  \/ k \in DOMAIN backing /\ Translate(HEAP_START + k) = backing[k]
                        \/ k = dynamic_heap_size - 1 /\ free = {} /\ ~Mapped(HEAP_START + k)
    BY DEF HeapBacked
  <2>2. next = dynamic_heap_size /\ DOMAIN backing = 0 .. next - 1
    BY <2>1 DEF HeapSoFar, HeapPhase
  <2>3. \/ Walked(tables, HEAP_START + k) = backing[k]
        \/ k = next - 1 /\ free = {} /\ Walked(tables, HEAP_START + k) = -1
    BY <2>1, <2>2 DEF HeapSoFar, HeapPhase
  <2>4. Translate(HEAP_START + k) = Walked(tables, HEAP_START + k)
    BY TranslateWalked
  <2>5. QED
    BY <2>2, <2>3, <2>4 DEF Mapped
<1>4. QED
  BY <1>2, <1>3

\* The tables are a tree of their own frames in every state of the boot.
THEOREM VmmInvariant ==
    ASSUME FramebufferApart
    PROVE  BootSpec => []VmmInv
<1>1. BootInit => VmmInv
  BY VmmInitInv DEF BootInit
<1>2. VmmInv /\ [BootNext]_bootVars => VmmInv'
  <2> SUFFICES ASSUME VmmInv, [BootNext]_bootVars PROVE VmmInv'
    OBVIOUS
  <2>1. CASE UNCHANGED vmmVars
    BY <2>1, VmmSame
  <2>2. QED
    BY <2>1, FramebufferApart, VmmStep DEF BootNext, bootVars, Memory, ata_init, Transfers
<1>3. QED
  BY <1>1, <1>2, PTL DEF BootSpec

\* A frame pmm_alloc_block handed out is one table or backs one heap page, never
\* two of these at once, and no two entries of all the tables share it.
THEOREM FramesNeverShared ==
    ASSUME FramebufferApart
    PROVE  BootSpec => []FramesServeOnce
<1>1. VmmInv => FramesServeOnce
  BY VmmInvGives
<1>2. QED
  BY <1>1, VmmInvariant, FramebufferApart, PTL

\* kmalloc_init's heap has a frame for every page, but for the last one when the
\* memory ran out in vmm_map_page.
THEOREM HeapIsBacked ==
    ASSUME FramebufferApart
    PROVE  BootSpec => []HeapBacked
<1>1. VmmInv => HeapBacked
  BY VmmInvGives
<1>2. QED
  BY <1>1, VmmInvariant, FramebufferApart, PTL

\* vmm_map_page and the first header fault only when no frame is left that the
\* loader's map reaches.
THEOREM PanicMeansExhausted ==
    ASSUME FramebufferApart
    PROVE  BootSpec => []PanicOnlyWhenExhausted
<1>1. VmmInv => PanicOnlyWhenExhausted
  BY VmmInvGives
<1>2. QED
  BY <1>1, VmmInvariant, FramebufferApart, PTL

\* No call of vmm_map_page changes what another page is mapped to.
THEOREM MappingsAreKept ==
    ASSUME FramebufferApart
    PROVE  BootSpec => MappingsKept
<1>1. VmmInv /\ [BootNext]_bootVars
        => [vpc # "panic" => \A v \in Pages : Mapped(v) => Translate(v)' = Translate(v)]_vmmVars
  <2> SUFFICES ASSUME VmmInv, [BootNext]_bootVars, vmmVars' # vmmVars, vpc # "panic",
                      NEW CONSTANT v \in Pages, Mapped(v)
               PROVE  Translate(v)' = Translate(v)
    OBVIOUS
  <2>1. VmmNext
    BY DEF BootNext, bootVars, Memory, ata_init, Transfers
  <2>2. Kept(tables, tables')
    BY <2>1, FramebufferApart, VmmStep
  <2>3. QED
    BY <2>2, KeptTranslates
<1>2. QED
  BY <1>1, VmmInvariant, FramebufferApart, PTL DEF BootSpec, MappingsKept

=============================================================================

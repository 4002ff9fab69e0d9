-------------------------------- MODULE Pmm --------------------------------
(***************************************************************************)
(* The physical memory manager, src/src/mm/pmm.c: one bit per 4 KiB block, *)
(* set when the block is used.  pmm_init reads the boot loader's memory    *)
(* map one block at a time; pmm_alloc_block scans the bitmap from a roving *)
(* hint, last_free_bit, and then once more from the 1 MiB line.            *)
(*                                                                         *)
(* The scan is by bytes, and its second pass includes the byte that holds  *)
(* the hint.  The model therefore keeps the byte that follows pmm_bitmap   *)
(* in .bss as well: `used' ranges over Bits, the blocks and that byte.     *)
(***************************************************************************)
EXTENDS Integers, Sequences, FiniteSets

CONSTANTS
    PMM_BITMAP_SIZE,   \* bytes of the bitmap (524288 in pmm.h)
    LowBlock,          \* first block the allocator may return (256, the 1 MiB line)
    BootInfos,         \* what the boot loader may hand to pmm_init
    NeighbourBytes     \* values of the byte after pmm_bitmap, as sets of bits

PMM_BLOCK_SIZE == 4096

\* Multiboot magic numbers, which only tell the two parsers apart.
MB1 == "mb1"
MB2 == "mb2"

N      == 8 * PMM_BITMAP_SIZE
Blocks == 0 .. N - 1
Slack  == N .. N + 7
Bits   == 0 .. N + 7
NoBlock == 0    \* the NULL that pmm_alloc_block returns when it finds nothing

MmapEntry == [type : Nat, addr : Nat, len : Nat]
Module    == [kind : {"disk", "ai", "other"}, start : Nat, end : Nat]
BootInfo  == [magic : {MB1, MB2}, mmap : Seq(MmapEntry), mods : Seq(Module),
              kernel_start : Nat, kernel_end : Nat]

-----------------------------------------------------------------------------
(* What pmm_init reads of a boot information structure.                    *)

\* Blocks that one available-RAM entry contributes: the Multiboot 1 loop runs
\* while addr < end_addr, the Multiboot 2 loop len / PMM_BLOCK_SIZE times.
EntryBlocks(magic, e) ==
    IF e.type # 1 THEN 0
    ELSE IF magic = MB1 THEN (e.len + PMM_BLOCK_SIZE - 1) \div PMM_BLOCK_SIZE
                        ELSE e.len \div PMM_BLOCK_SIZE

EntryFirst(e) == e.addr \div PMM_BLOCK_SIZE

\* The module the globals name after the tag loop: the last one of its kind.
\* The Multiboot 1 parser looks for the disk image only.
Loaded(b, kind) ==
    {m \in 1 .. Len(b.mods) :
        /\ b.mods[m].kind = kind
        /\ kind = "ai" => b.magic = MB2
        /\ \A k \in m + 1 .. Len(b.mods) : b.mods[k].kind # kind}

\* The ranges pmm_init protects; every loop there includes its end block.
KernelRange(b) == {[first |-> b.kernel_start \div PMM_BLOCK_SIZE,
                    last  |-> b.kernel_end \div PMM_BLOCK_SIZE]}
PageZero == {[first |-> 0, last |-> 0]}

\* Mutant: the partial last block of a module is not protected.
ModuleRange_RoundDown(b, kind) ==
    {[first |-> b.mods[m].start \div PMM_BLOCK_SIZE,
      last  |-> b.mods[m].end \div PMM_BLOCK_SIZE - 1] : m \in Loaded(b, kind)}

ModuleRange(b, kind) ==
    {[first |-> b.mods[m].start \div PMM_BLOCK_SIZE,
      last  |-> (b.mods[m].end + PMM_BLOCK_SIZE - 1) \div PMM_BLOCK_SIZE]
        : m \in Loaded(b, kind)}

Ranges(b, step) == CASE step = 1 -> KernelRange(b)
                     [] step = 2 -> PageZero
                     [] step = 3 -> ModuleRange(b, "ai")
                     [] step = 4 -> ModuleRange(b, "disk")

RangeBlocks(b, step) == UNION {r.first .. r.last : r \in Ranges(b, step)}

Protected(b) == UNION {RangeBlocks(b, step) : step \in 1 .. 4}

\* The blocks the memory map makes available, as the two parsers read it.
Available(b) ==
    {k \in Blocks : \E i \in 1 .. Len(b.mmap) :
        /\ EntryFirst(b.mmap[i]) <= k
        /\ k < EntryFirst(b.mmap[i]) + EntryBlocks(b.magic, b.mmap[i])}

\* The blocks that hold a byte of the kernel, of a module the kernel uses, or
\* address 0.
Precious(b) ==
    LET Touches(k, from, to) == /\ from < (k + 1) * PMM_BLOCK_SIZE
                                /\ k * PMM_BLOCK_SIZE < to
    IN  {k \in Blocks :
            \/ k = 0
            \/ Touches(k, b.kernel_start, b.kernel_end)
            \/ \E kind \in {"ai", "disk"} : \E m \in Loaded(b, kind) :
                   Touches(k, b.mods[m].start, b.mods[m].end)}

\* The blocks whose every byte is RAM of type 1.
WhollyRam(b) ==
    {k \in Blocks : \E i \in 1 .. Len(b.mmap) :
        /\ b.mmap[i].type = 1
        /\ b.mmap[i].addr <= k * PMM_BLOCK_SIZE
        /\ (k + 1) * PMM_BLOCK_SIZE <= b.mmap[i].addr + b.mmap[i].len}

\* The bitmap has whole bytes below the 1 MiB line and some above it.
ASSUME SizeAssumption ==
    /\ PMM_BITMAP_SIZE \in Nat /\ LowBlock \in Nat
    /\ LowBlock % 8 = 0 /\ 0 < LowBlock /\ LowBlock < N

\* The linker puts the kernel at 1 MiB and Multiboot addresses of modules are
\* 32 bits wide, so what is protected lies within the 16 GiB that are tracked.
ASSUME BootAssumption ==
    /\ BootInfos \subseteq BootInfo
    /\ \A b \in BootInfos : Protected(b) \subseteq Blocks

ASSUME NeighbourAssumption == NeighbourBytes \subseteq SUBSET Slack

-----------------------------------------------------------------------------
VARIABLES
    pc,              \* where pmm_init stands: "reset", "mmap", "protect", "ready"
    boot,            \* its argument
    step,            \* memory map entry, then protected range, being handled
    cur,             \* loop counter inside that entry or range
    used,            \* the set bits of pmm_bitmap and of the byte behind it
    free_blocks,
    total_blocks,    \* total_memory_kb / 4
    last_free_bit,
    owned,           \* history: blocks returned and not freed since
    ret              \* the last call and its result

vars == <<pc, boot, step, cur, used, free_blocks, total_blocks,
          last_free_bit, owned, ret>>
initVars == <<pc, boot, step, cur, total_blocks>>

Calls == [call : {"none", "alloc", "free"}, block : Bits]

Init ==
    /\ pc = "reset" /\ boot \in BootInfos
    /\ step = 1 /\ cur = 0
    /\ used \in NeighbourBytes      \* .bss is zero, the neighbour is what it is
    /\ free_blocks = 0 /\ total_blocks = 0
    /\ last_free_bit = LowBlock
    /\ owned = {}
    /\ ret = [call |-> "none", block |-> NoBlock]

\* pmm_set_bit and pmm_clear_bit: the counter moves only when the bit does.
pmm_set_bit(bit) ==
    /\ used' = used \cup {bit}
    /\ free_blocks' = IF bit \notin used /\ free_blocks > 0
                      THEN free_blocks - 1 ELSE free_blocks

pmm_clear_bit(bit) ==
    /\ used' = used \ {bit}
    /\ free_blocks' = IF bit \in used THEN free_blocks + 1 ELSE free_blocks

-----------------------------------------------------------------------------
(* pmm_init, loop iteration by loop iteration.                             *)

\* 1. Mark everything as reserved.
ReserveAll ==
    /\ pc = "reset"
    /\ used' = used \cup Blocks
    /\ free_blocks' = 0
    /\ pc' = "mmap"
    /\ UNCHANGED <<boot, step, cur, total_blocks, last_free_bit, owned, ret>>

\* 2. One block of an available-RAM entry; blocks beyond the bitmap are skipped.
ClearRam ==
    /\ pc = "mmap" /\ step \in 1 .. Len(boot.mmap)
    /\ cur < EntryBlocks(boot.magic, boot.mmap[step])
    /\ LET block == EntryFirst(boot.mmap[step]) + cur
       IN  IF block < N THEN pmm_clear_bit(block)
                        ELSE UNCHANGED <<used, free_blocks>>
    /\ cur' = cur + 1
    /\ UNCHANGED <<pc, boot, step, total_blocks, last_free_bit, owned, ret>>

NextEntry ==
    /\ pc = "mmap" /\ step \in 1 .. Len(boot.mmap)
    /\ cur >= EntryBlocks(boot.magic, boot.mmap[step])
    /\ step' = step + 1 /\ cur' = 0
    /\ UNCHANGED <<pc, boot, used, free_blocks, total_blocks, last_free_bit,
                   owned, ret>>

\* The total is captured before anything is protected.
CaptureTotal ==
    /\ pc = "mmap" /\ step > Len(boot.mmap)
    /\ total_blocks' = free_blocks
    /\ pc' = "protect" /\ step' = 1 /\ cur' = 0
    /\ UNCHANGED <<boot, used, free_blocks, last_free_bit, owned, ret>>

\* 3.-6. One block of the kernel, page 0, the model image or the ramdisk.
Protect ==
    /\ pc = "protect" /\ step <= 4
    /\ \E r \in Ranges(boot, step) :
        /\ r.first + cur <= r.last
        /\ pmm_set_bit(r.first + cur)
    /\ cur' = cur + 1
    /\ UNCHANGED <<pc, boot, step, total_blocks, last_free_bit, owned, ret>>

\* Mutant: the total is captured again after protecting.
NextRange_CaptureLate ==
    /\ pc = "protect" /\ step <= 4
    /\ \A r \in Ranges(boot, step) : r.first + cur > r.last
    /\ step' = step + 1 /\ cur' = 0
    /\ pc' = IF step = 4 THEN "ready" ELSE "protect"
    /\ total_blocks' = IF step = 4 THEN free_blocks ELSE total_blocks
    /\ UNCHANGED <<boot, used, free_blocks, last_free_bit, owned, ret>>

NextRange ==
    /\ pc = "protect" /\ step <= 4
    /\ \A r \in Ranges(boot, step) : r.first + cur > r.last
    /\ step' = step + 1 /\ cur' = 0
    /\ pc' = IF step = 4 THEN "ready" ELSE "protect"
    /\ UNCHANGED <<boot, used, free_blocks, total_blocks, last_free_bit,
                   owned, ret>>

-----------------------------------------------------------------------------
(* The allocator.                                                          *)

\* Clear bits of the two scans of pmm_alloc_block.  Both stop at a whole byte:
\* the first at the end of the bitmap, the second after the hint's own byte.
FirstPass  == {b \in Bits : last_free_bit <= b /\ b < N} \ used
SecondPass == {b \in Bits : /\ LowBlock <= b
                            /\ b < 8 * (last_free_bit \div 8 + 1)} \ used

Candidates == IF FirstPass # {} THEN FirstPass ELSE SecondPass

pmm_alloc_block ==
    /\ pc = "ready"
    /\ \E block \in Candidates :
        /\ \A b \in Candidates : block <= b
        /\ pmm_set_bit(block)
        /\ last_free_bit' = block + 1
        /\ owned' = owned \cup {block}
        /\ ret' = [call |-> "alloc", block |-> block]
    /\ UNCHANGED initVars

\* Neither pass finds a clear bit.
pmm_alloc_block_fails ==
    /\ pc = "ready" /\ Candidates = {}
    /\ ret' = [call |-> "alloc", block |-> NoBlock]
    /\ UNCHANGED <<initVars, used, free_blocks, last_free_bit, owned>>

\* Mutant: freeing leaves the hint where it is.
pmm_free_block_KeepHint(block) ==
    /\ pc = "ready" /\ block \in owned
    /\ pmm_clear_bit(block)
    /\ owned' = owned \ {block}
    /\ ret' = [call |-> "free", block |-> block]
    /\ UNCHANGED <<initVars, last_free_bit>>

\* Callers give back what they were given.
pmm_free_block(block) ==
    /\ pc = "ready" /\ block \in owned
    /\ pmm_clear_bit(block)
    /\ last_free_bit' = IF block < last_free_bit THEN block ELSE last_free_bit
    /\ owned' = owned \ {block}
    /\ ret' = [call |-> "free", block |-> block]
    /\ UNCHANGED initVars

pmm_get_used_blocks ==
    IF total_blocks < free_blocks THEN 0 ELSE total_blocks - free_blocks

Next ==
    \/ ReserveAll \/ ClearRam \/ NextEntry \/ CaptureTotal
    \/ Protect \/ NextRange
    \/ pmm_alloc_block \/ pmm_alloc_block_fails
    \/ \E block \in owned : pmm_free_block(block)

Spec == Init /\ [][Next]_vars

-----------------------------------------------------------------------------
(* Properties.                                                             *)

\* Types of the state; every set bit is a tracked block or lies in the one byte
\* behind the bitmap that the second pass of pmm_alloc_block can reach.
TypeOK ==
    /\ pc \in {"reset", "mmap", "protect", "ready"}
    /\ boot \in BootInfos
    /\ step \in Nat \ {0} /\ cur \in Nat
    /\ used \in SUBSET Bits
    /\ free_blocks \in Nat /\ total_blocks \in Nat
    /\ last_free_bit \in LowBlock .. N + 8
    /\ owned \in SUBSET Bits
    /\ ret \in Calls

\* free_blocks, kept by the guarded increments of pmm_set_bit and pmm_clear_bit
\* through overlapping map entries and overlapping protected ranges, is the
\* number of clear bits of the bitmap, at every step of boot and after it.
FreeCountExact ==
    pc # "reset" => free_blocks = Cardinality(Blocks \ used)

\* What the `mem' command reports as used (pmm_get_used_blocks) is the number
\* of available-RAM blocks that are protected or allocated.
UsedCountExact ==
    pc = "ready" => pmm_get_used_blocks = Cardinality(Available(boot) \cap used)

\* No block that was handed out and not freed is page 0, holds a byte of the
\* kernel, of the model image or of the ramdisk, lies below 1 MiB or beyond
\* the bitmap.
OwnedOutsideProtected ==
    /\ owned \cap Precious(boot) = {}
    /\ owned \subseteq LowBlock .. N - 1

\* No clear bit lies between the 1 MiB line and the hint, so the second pass
\* never finds what the first one missed: the roving hint makes a first fit.
HintTight == pc = "ready" => LowBlock .. last_free_bit - 1 \subseteq used

\* The second scan of pmm_alloc_block stays inside pmm_bitmap.
ScanInBitmap ==
    pc = "ready" /\ FirstPass = {} => last_free_bit \div 8 < PMM_BITMAP_SIZE

\* The blocks a caller may still be given.
Allocatable == IF pc = "ready" THEN LowBlock .. N - 1 \ used ELSE {}

\* The allocator implements the lowest-block-first allocator of PageAllocator:
\* it hands out the lowest free block above 1 MiB and fails only when there is
\* none, whatever the order of allocations and frees before the call.
Abstract == INSTANCE PageAllocator
              WITH Pages <- LowBlock .. N - 1, Null <- NoBlock,
                   ready <- pc = "ready", free <- Allocatable, result <- ret
AbstractSpec == Abstract!Spec

=============================================================================

-------------------------------- MODULE Vmm --------------------------------
(***************************************************************************)
(* The page tables, src/src/mm/vmm.c, and everything that is mapped while  *)
(* kmain starts the system: the interrupt controllers by init_idt, then    *)
(* vmm_init, then the heap by kmalloc_init.  The timer interrupt is on     *)
(* from the end of init_idt but touches none of this.  The loader's tables *)
(* (loader.s) map the first 4 GB to themselves with huge pages; every      *)
(* other table is a frame taken from the physical memory manager, which    *)
(* answers as PageAllocator promises, and is written through its physical  *)
(* address.                                                                *)
(*                                                                         *)
(* A page, a frame and an address are page numbers; Fanout is the number   *)
(* of entries of a table.                                                  *)
(***************************************************************************)
EXTENDS Integers

CONSTANTS
    Fanout,        \* entries of a table, 512
    Reach,         \* pages mapped by the loader, 4 GB
    HEAP_START,    \* first page of the heap, at 8 GB
    LapicPage,     \* where init_apic maps the local APIC, at 32 GB
    LapicFrame,    \* where the local APIC is
    IoapicFrame,   \* where the IOAPIC is
    LowPages,      \* pages vmm_init maps in any case, 16 MB
    SafetyPages,   \* RAM kmalloc_init leaves alone, 8 MB
    FallbackPages, \* heap of a machine without RAM above HEAP_START, 16 MB
    Machines       \* what the boot loader and pmm_init found

\* fb, ramdisk: the first page and the number of pages, 0 if there is none;
\* free: the frames pmm_init left free; total: all the RAM it counted.
Machine == [fb : [start : Nat, pages : Nat], ramdisk : [start : Nat, pages : Nat],
            free : SUBSET Nat, total : Nat]

Pages == 0 .. Fanout * Fanout * Fanout * Fanout - 1

IoapicPage == LapicPage + 1

\* Addresses of multiboot modules are 32 bits wide; the framebuffer and the two
\* interrupt controllers are no RAM and lie apart; the bitmap of pmm.c tracks
\* 16 GB, so that the RAM it counts ends below the pages of the controllers.
ASSUME VmmAssumption ==
    /\ Fanout \in Nat /\ Fanout > 1
    /\ Reach \in Nat /\ Reach % (Fanout * Fanout) = 0 /\ Reach < Fanout * Fanout * Fanout
    /\ HEAP_START \in Pages /\ HEAP_START >= Reach
    /\ LowPages \in 0 .. Reach
    /\ SafetyPages \in Nat /\ FallbackPages \in Nat \ {0} /\ HEAP_START + FallbackPages <= LapicPage
    /\ LapicPage \in Nat /\ IoapicPage \in Pages
    /\ LapicFrame \in Nat /\ IoapicFrame \in Nat /\ LapicFrame # IoapicFrame
    /\ \A m \in Machines :
          /\ m \in Machine /\ 0 \notin m.free
          /\ m.ramdisk.start + m.ramdisk.pages <= Reach
          /\ m.fb.start \in Pages /\ m.fb.start + m.fb.pages - 1 \in Pages \cup {-1}
          /\ \A n \in 0 .. m.fb.pages - 1 : m.fb.start + n \notin m.free
          /\ \A f \in {LapicFrame, IoapicFrame} :
                f \notin m.free /\ f \notin m.fb.start .. m.fb.start + m.fb.pages - 1
          /\ m.total <= LapicPage

VARIABLES
    machine,
    vpc,                  \* "lapic", "ioapic", "fb", "ramdisk", "low", "size", "heap",
                          \* "header", "done", "panic", "halted"
    next,                \* the page the current loop is at
    free,                \* the frames the physical memory manager has left
    tables,              \* by frame, the page tables
    dynamic_heap_size,   \* in pages
    backing              \* history: by heap page, the frame kmalloc_init got for it

vmmVars == <<machine, vpc, next, free, tables, dynamic_heap_size, backing>>

\* The loader's tables lie in the kernel image and get numbers of their own.
PML4 == -1
PDPT == -2
PD(i) == -3 - i

NotPresent == [present |-> FALSE, huge |-> FALSE, to |-> 0]
Present(frame) == [present |-> TRUE, huge |-> FALSE, to |-> frame]
Huge(frame) == [present |-> TRUE, huge |-> TRUE, to |-> frame]
EmptyTable == [i \in 0 .. Fanout - 1 |-> NotPresent]

Directories == 0 .. Reach \div (Fanout * Fanout) - 1

\* The tables the loader builds.
LoaderTables ==
    [t \in {PML4, PDPT} \cup {PD(i) : i \in Directories} |->
       [j \in 0 .. Fanout - 1 |->
          CASE t = PML4 -> IF j = 0 THEN Present(PDPT) ELSE NotPresent
            [] t = PDPT -> IF j \in Directories THEN Present(PD(j)) ELSE NotPresent
            [] OTHER -> Huge(((-3 - t) * Fanout + j) * Fanout)]]

-----------------------------------------------------------------------------
(* The walk.                                                               *)

\* The index a page has in a table of level 3 (PML4) to 0 (page table).
Index(v, level) ==
    (CASE level = 3 -> v \div (Fanout * Fanout * Fanout)
       [] level = 2 -> v \div (Fanout * Fanout)
       [] level = 1 -> v \div Fanout
       [] level = 0 -> v) % Fanout

\* Mutant: the memory manager hands out the highest frame.
Lowest_High(S) == CHOOSE f \in S : \A g \in S : g <= f

\* The frame pmm_alloc_block returns.
Lowest(S) == CHOOSE f \in S : \A g \in S : f <= g

\* The tables with a cleared one in frame f that entry i of table t points to.
Linked(all, t, i, f) ==
    [a \in DOMAIN all \cup {f} |->
       CASE a = f -> EmptyTable
         [] a # f /\ a = t -> [all[t] EXCEPT ![i] = Present(f)]
         [] OTHER -> all[a]]

\* Mutant: the frame of a new table is left in the memory manager's hands.
NewTable_StillFree(w, i) ==
    LET f == Lowest(w.free)
    IN  [w EXCEPT !.tables = Linked(@, w.at, i, f), !.at = f]

\* A table is allocated, cleared through its physical address and linked; a
\* frame beyond the loader's map cannot be reached and faults.
NewTable(w, i) ==
    LET f == Lowest(w.free)
    IN  IF f >= Reach
        THEN [w EXCEPT !.free = @ \ {f}, !.ok = FALSE, !.fault = TRUE]
        ELSE [w EXCEPT !.free = @ \ {f},
                       !.tables = Linked(@, w.at, i, f),
                       !.at = f]

\* One level down, through a table that may have to be made first; without
\* memory for it the walk ends and nobody is told.
Descend(w, i) ==
    CASE ~w.ok -> w
      [] w.ok /\ w.tables[w.at][i].present -> [w EXCEPT !.at = w.tables[w.at][i].to]
      [] w.ok /\ ~w.tables[w.at][i].present /\ w.free = {} -> [w EXCEPT !.ok = FALSE]
      [] OTHER -> NewTable(w, i)

\* Mutant: a huge page is replaced by a table of small ones.
DescendPastHuge_Split(w, i) ==
    CASE w.ok /\ w.tables[w.at][i].huge /\ w.free # {} -> NewTable(w, i)
      [] w.ok /\ w.tables[w.at][i].huge /\ w.free = {} -> [w EXCEPT !.ok = FALSE]
      [] OTHER -> Descend(w, i)

\* At the page directory the walk also ends at a huge page.
DescendPastHuge(w, i) ==
    IF w.ok /\ w.tables[w.at][i].huge THEN [w EXCEPT !.ok = FALSE] ELSE Descend(w, i)

\* vmm_map_page, with the free frames it finds: the tables and free frames it
\* leaves behind, and whether it faulted.
vmm_map_page(v, frame, avail) ==
    LET w == [free |-> avail, tables |-> tables, at |-> PML4, ok |-> TRUE, fault |-> FALSE]
        pt == DescendPastHuge(Descend(Descend(w, Index(v, 3)), Index(v, 2)), Index(v, 1))
    IN  IF pt.ok THEN [pt EXCEPT !.tables[pt.at][Index(v, 0)] = Present(frame)] ELSE pt

\* The frame the processor finds for page v, -1 if it faults.
Translate(v) ==
    LET Down(t, level) == IF t.present THEN tables[t.to][Index(v, level)] ELSE NotPresent
        pde == Down(Down(Present(PML4), 3), 2)
        entry == IF ~pde.present THEN NotPresent ELSE tables[pde.to][Index(v, 1)]
    IN  CASE ~entry.present -> -1
          [] entry.present /\ entry.huge -> entry.to + Index(v, 0)
          [] OTHER -> IF tables[entry.to][Index(v, 0)].present
                      THEN tables[entry.to][Index(v, 0)].to ELSE -1

Mapped(v) == Translate(v) # -1

-----------------------------------------------------------------------------
(* init_idt, vmm_init and kmalloc_init.                                    *)

\* The loader has built its tables and pmm_init is done.
VmmInit ==
    /\ machine \in Machines
    /\ vpc = "lapic" /\ next = 0 /\ free = machine.free /\ tables = LoaderTables
    /\ dynamic_heap_size = 0 /\ backing = << >>

\* The registers of an interrupt controller are mapped and then written.  The
\* gate of the page fault is not set yet: without the page, or with a table out
\* of reach, the processor stops in dummy_exception_handler.
InitController(here, page, frame, then) ==
    /\ vpc = here
    /\ \E w \in {vmm_map_page(page, frame, free)} : free' = w.free /\ tables' = w.tables
    /\ IF Mapped(page)' THEN vpc' = then ELSE vpc' = "halted"
    /\ UNCHANGED <<machine, next, dynamic_heap_size, backing>>

init_apic == InitController("lapic", LapicPage, LapicFrame, "ioapic")
init_ioapic == InitController("ioapic", IoapicPage, IoapicFrame, "fb")

dummy_exception_handler == vpc = "halted" /\ UNCHANGED vmmVars

\* A call of vmm_map_page; a fault in it ends the boot.
MapPage(v, frame, avail, then) ==
    \E w \in {vmm_map_page(v, frame, avail)} :
       /\ free' = w.free /\ tables' = w.tables
       /\ IF w.fault THEN vpc' = "panic" ELSE vpc' = then

\* The three loops of vmm_init, each mapping pages to themselves.
MapLoop(here, start, pages, then) ==
    /\ vpc = here
    /\ IF next < pages
       THEN MapPage(start + next, start + next, free, here) /\ next' = next + 1
       ELSE vpc' = then /\ next' = 0 /\ UNCHANGED <<free, tables>>
    /\ UNCHANGED <<machine, dynamic_heap_size, backing>>

MapFramebuffer == MapLoop("fb", machine.fb.start, machine.fb.pages, "ramdisk")
MapRamdisk == MapLoop("ramdisk", machine.ramdisk.start, machine.ramdisk.pages, "low")
MapLow == MapLoop("low", 0, LowPages, "size")

\* How much heap kmalloc_init wants.
SizeHeap ==
    /\ vpc = "size" /\ vpc' = "heap"
    /\ dynamic_heap_size' = IF machine.total > HEAP_START + SafetyPages
                            THEN machine.total - HEAP_START - SafetyPages
                            ELSE FallbackPages
    /\ UNCHANGED <<machine, next, free, tables, backing>>

\* One page of the heap.
MapHeapPage ==
    /\ vpc = "heap" /\ next < dynamic_heap_size /\ free # {}
    /\ MapPage(HEAP_START + next, Lowest(free), free \ {Lowest(free)}, "heap")
    /\ backing' = [k \in 0 .. next |-> IF k = next THEN Lowest(free) ELSE backing[k]]
    /\ next' = next + 1
    /\ UNCHANGED <<machine, dynamic_heap_size>>

\* Mutant: the loop is left without a word.
CapHeap_Kept ==
    /\ vpc = "heap" /\ next < dynamic_heap_size /\ free = {}
    /\ vpc' = "header"
    /\ UNCHANGED <<machine, next, free, tables, dynamic_heap_size, backing>>

\* Out of RAM: the heap ends here.
CapHeap ==
    /\ vpc = "heap" /\ next < dynamic_heap_size /\ free = {}
    /\ dynamic_heap_size' = next /\ vpc' = "header"
    /\ UNCHANGED <<machine, next, free, tables, backing>>

HeapMapped ==
    /\ vpc = "heap" /\ next >= dynamic_heap_size
    /\ vpc' = "header"
    /\ UNCHANGED <<machine, next, free, tables, dynamic_heap_size, backing>>

\* The header of the first block is written at HEAP_START.
WriteHeader ==
    /\ vpc = "header"
    /\ IF Mapped(HEAP_START) THEN vpc' = "done" ELSE vpc' = "panic"
    /\ UNCHANGED <<machine, next, free, tables, dynamic_heap_size, backing>>

\* page_fault_handler: the machine is rebooted.
page_fault_handler ==
    /\ vpc = "panic"
    /\ vpc' = "lapic" /\ next' = 0 /\ free' = machine.free /\ tables' = LoaderTables
    /\ dynamic_heap_size' = 0 /\ backing' = << >>
    /\ UNCHANGED machine

VmmNext ==
    \/ init_apic \/ init_ioapic \/ dummy_exception_handler
    \/ MapFramebuffer \/ MapRamdisk \/ MapLow \/ SizeHeap
    \/ MapHeapPage \/ CapHeap \/ HeapMapped \/ WriteHeader
    \/ page_fault_handler

-----------------------------------------------------------------------------
(* Properties.                                                             *)

\* A page that has a frame keeps it for as long as the machine is up: mapping
\* the framebuffer, the ramdisk or the heap never changes another mapping, the
\* loader's huge pages and the registers of the interrupt controllers included.
MappingsKept ==
    [][vpc # "panic" =>
         \A v \in Pages : Mapped(v) => Translate(v)' = Translate(v)]_vmmVars

\* A frame serves one purpose: it is free, or one table, or the backing of one
\* heap page, and at most one entry of all the tables points to it.
FramesServeOnce ==
    LET taken == {backing[k] : k \in DOMAIN backing}
        made  == DOMAIN tables \cap Nat
        small == {e \in (DOMAIN tables) \X (0 .. Fanout - 1) :
                     tables[e[1]][e[2]].present /\ ~tables[e[1]][e[2]].huge}
    IN  /\ free \cap (taken \cup made) = {} /\ taken \cap made = {}
        /\ \A j, k \in DOMAIN backing : backing[j] = backing[k] => j = k
        /\ \A d, e \in small : tables[d[1]][d[2]].to = tables[e[1]][e[2]].to => d = e

\* When kmalloc_init is over, every page of the heap has its own frame.  The
\* one page that may lack it is the last one, when the memory that was left did
\* not suffice for the table it needs (the comment says the size is capped
\* then, vmm_map_page does not report it).
HeapBacked ==
    vpc = "done" =>
       \A k \in 0 .. dynamic_heap_size - 1 :
          \/ k \in DOMAIN backing /\ Translate(HEAP_START + k) = backing[k]
          \/ k = dynamic_heap_size - 1 /\ free = {} /\ ~Mapped(HEAP_START + k)

\* Boot panics, or stops for good, only after every frame the loader's map
\* reaches is used up.
PanicOnlyWhenExhausted == vpc \in {"panic", "halted"} => \A f \in free : f >= Reach

=============================================================================

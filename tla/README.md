# A TLA+ verification project for the JARVIS / AOS kernel

The kernel is a single-CPU, 64-bit, ring-0-only system: a Multiboot loader hands
over to `kernel.c`, which brings up memory, interrupts, drivers, a FAT32 file
system, an lwIP network stack and one shell task.  There is no preemption between
tasks: `task_yield` calls a task's function and waits for it to return.  The only
concurrency is between the mainline (boot code and the shell task) and interrupt
handlers.  Handlers run behind interrupt gates, with interrupts off, so a handler
is atomic for the mainline and may land between any two of its instructions.

## 1. Inventory

| Component | State it keeps | Operations | What makes it correct |
|---|---|---|---|
| Physical memory (`mm/pmm.c`) | bitmap, `free_blocks`, `total_memory_kb`, roving hint `last_free_bit`, module addresses | `pmm_init`, `pmm_alloc_block`, `pmm_free_block`, counters | counters exact; never hands out protected or foreign memory; fails only when full |
| Paging (`mm/vmm.c`) | four levels of tables | `vmm_init`, `vmm_map_page`, `page_fault_handler` | a mapping established is visible; out-of-memory in the middle of a walk leaves a usable tree |
| Kernel heap (`mm/kmalloc.c`) | linked list of block headers in the heap | `kmalloc_init`, `kmalloc`, `kfree`, statistics | live payloads disjoint, list tiles the heap, neighbours coalesce |
| Tasks (`core/task.c`) | 32 slots, next id, current slot | `task_create`, `task_kill`, `task_get`, `task_yield`, `task_sleep` | round robin, sleeping tasks wake, killed tasks stay dead |
| Timer (`core/timer.c`) | `ticks`, `net_ready` | `timer_handler`, `timer_wait` | time advances; handler polls the network |
| Keyboard (`drivers/keyboard.c`) | 256-byte ring, shift/ctrl/caps | `keyboard_handler` (IRQ 1), `kbd_put`, `kbd_get` | FIFO, bounded, no lost or invented key except when full |
| Screen (`drivers/screen.c`) | history ring, scroll offset, cursor, capture buffer, deferred refresh | `print_char`, `scroll_up/down`, capture | window inside the ring, capture bounded |
| Shell (`core/shell.c`) | line buffer, cursor, command history | `shell_input`, `shell_execute`, tab completion | buffer bounds, history navigation |
| ATA (`drivers/ata.c`) | port state, ramdisk fallback | `ata_read_sectors`, `ata_write_sectors` | timeouts and errors are reported |
| FAT32 (`fs/fat32.c`) | FAT, directory entries, file handles, working directory | open, read, write, seek, mkdir, rmdir, unlink, chdir, ls | one chain per file, no cluster shared or lost, what is written is read back |
| RTL8169 (`drivers/net/rtl8169.c`) | RX and TX descriptor rings, indices | `rtl8169_linkoutput`, `rtl8169_poll`, `rtl8169_init` | descriptor ownership, frames in order, none overwritten in flight |
| Agent link (`drivers/net/net_stack.c`) | `rx_accum`, response parser, ping state | `ollama_request`, lwIP callbacks, `ollama_parse_json` | one response is parsed as a whole, each command executed once |
| Agent context (`agent/agent.c`) | files under `/agent/db` | `agent_ctx_set`, `agent_ctx_get` | what was set is what is got |
| Boot (`core/kernel.c`), IDT, GDT, PCI, AHCI, ACPI, GPT, e1000 mock, libc | tables, device lists | initialisation, lookup | order of initialisation |
| lwIP TCP (`net/lwip/src/core/tcp*.c`) | control blocks, send queues, queue of segments out of order | connect, write, close, input, two timers | the callbacks give the stream once and in order, closing ends, blocks are freed |
| lwIP DHCP and AutoIP (`core/ipv4/dhcp.c`, `autoip.c`) | client state, lease, request timers; AutoIP state | start, answers, coarse and fine timer, ARP conflicts | one owner of the address, no use after the lease, an address in the end |
| rest of lwIP | vendored | | external here |

How the parts interact: `kmain` initialises memory (boot map, then paging,
then heap), the interrupt tables, the timer and the keyboard, the disk and its file
system, the network, creates the shell task and calls `task_yield` for ever.  The
keyboard interrupt fills the ring that the shell task empties.  The timer interrupt
advances the clock of the scheduler, polls the network card and runs lwIP, whose
callbacks gather an answer of the language model, execute a command found in it
through the shell, and send the result in a new request, all inside the interrupt.

What is hard here: (1) state shared between the mainline and interrupt handlers
without masking (keyboard ring, transmit ring, file system, lwIP, screen); (2) state
shared between connections (`rx_accum`, `global_prompt`); (3) the card, which moves
while the handlers run; (4) resources at their limit (bitmap, heap, ring, volume,
connection pool, prompt); (5) long sequences of legal calls on linked structures
(heap list, cluster chains, directories); (6) things that have to happen in the end
(a character is delivered, a task is run, a frame leaves, a chain of requests stops, boot
ends, an address is obtained, a dead connection is freed); (7) time-outs that race late
answers (drives, TCP, DHCP).
`PROJECT.json` lists these hazards at the lines where they bite.

## 2. Modules

| Module | Models | State | Actions |
|---|---|---|---|
| `PageAllocator` | the promise of `pmm.c`: the lowest free block, or a failure when there is none | whether boot is over, the free pages, the last answer | `Boot`, `Alloc`, `Refuse`, `Free` |
| `Pmm` | `mm/pmm.c` | bitmap as a set of bits, with the byte behind it; both counters; the hint | `pmm_init` one loop iteration at a time, `pmm_alloc_block`, its failure, `pmm_free_block` |
| `Kmalloc` | `mm/kmalloc.c` | headers by address, cursor of the running call | `kmalloc` and `kfree`, their list walks one iteration at a time |
| `Keyboard` | `drivers/keyboard.c` | ring, head, tail, modifiers | `keyboard_handler` (atomic), the three accesses of `kbd_get` |
| `Task` | `core/task.c`, main loop of `kernel.c` | table, current slot, clock | create, kill, sleep, the scan of `task_yield` slot by slot, the timer's tick |
| `Fat32` | `fs/fat32.c`, file commands of `shell.c`, `agent_init` | allocation table and clusters of cells, working directory | `touch`, `write`, `rm`, `mkdir`, `rmdir`, `cd`, boot, a power failure in any of them |
| `AgentFs` | extends `Fat32` with `agent.c` and commands that run in the timer interrupt | the shell's half-done write | `agent_ctx_set`, a split `write`, any command in between |
| `Rtl8169` | `drivers/net/rtl8169.c`, polling in `timer.c` | both rings, buffers, indices, the card's position | `rtl8169_linkoutput` in five steps, `rtl8169_poll` slot by slot, initialisation, the card |
| `AgentLink` | `drivers/net/net_stack.c` | answer buffer, prompt, connections, the request in the making | `ai` and `ai_mock` in three steps, connect, receive, close and error callbacks |
| `Vmm` | `mm/vmm.c`, the loader's tables, `init_apic` and `init_ioapic`, `kmalloc_init` | page tables by frame, free frames, heap size | mapping of the interrupt controllers, mapping of framebuffer, ramdisk and low memory page by page, the heap page by page, the panic |
| `Ata` | `drivers/ata.c` | slot, wait counter, last sector, what was chosen | select, wait, identify, search for a volume, fallback, transfers |
| `Boot` | composes `Vmm` and `Ata` in the order of `kmain` | both | both, and the first transfers |
| `Tcp` | `tcp.c`, `tcp_in.c`, `tcp_out.c` of lwIP under the callbacks of `net_stack.c` | one control block, the talk, the log of callbacks | `tcp_connect`, `tcp_input`, `tcp_slowtmr`, `tcp_fasttmr`, a change of address |
| `Dhcp` | `dhcp.c`, `autoip.c`, `etharp_input` of lwIP | client, AutoIP, address, what is under way, the servers' view of the leases | boot, the three timers, answers, ARP conflicts, servers |

`MC...` modules hold the constants of the instances, `...Proofs` modules the theorems.
Definitions named `X_Something` and marked as mutants are deliberately wrong variants of
`X`: replacing `X` by one of them breaks the property `PROJECT.json` names for it, which
shows that the property can fail.

### Correspondence, module by module

**Pmm.**  `used` is the set of set bits.  The scans of `pmm_alloc_block` go by bytes and
the second one includes the hint's own byte, so the model also has the byte that follows
`pmm_bitmap` in `.bss`, with any value.  `EntryBlocks` keeps the difference between the
two loaders' loops (Multiboot 1 rounds a partial block up, Multiboot 2 down).  `owned` is
history: what callers hold.  Callers free only what they hold.

**Kmalloc.**  Addresses are byte offsets, headers are 16 bytes, alignment and the split
threshold are those of the code; sizes wrap at `SizeModulus` and header fields at
`FieldModulus`.  `heap` is defined only where a header lies, so following a wrong pointer
has no value and is an error.  The list walks are steps, so that ending is a property.
The statistics functions only read and are left out.

**Keyboard.**  Scan codes are names of keys; the two tables are kept at one letter, the
letter of Ctrl+C, a digit and keys without a character.

**Task.**  A task is a C function that returns to `task_yield`, which then marks its slot
ready.  The scan goes slot by slot, because the timer moves the clock it compares wake times
with.  Priorities and names are stored and never read.  No function in the repository that
runs as a task creates, kills or sleeps; the model lets tasks make these calls of `task.h`, with
any id: `task_kill` guards neither the idle task nor the caller.  A task that kills itself is made
ready again when its function returns, and so is a new one that the function created in the slot;
`killed` is history and records only the kills by the function of another slot.  With the idle task
dead a scan may come round to the slot it began with, which is then called whatever its state:
`KilledStaysDead` says that even so nobody comes back to life, and `NoEarlyWake` names the case, since
a sleeper is called early by it.  Yielding inside a task is left out: nobody does it, and the task
would stay `RUNNING` for ever.

**Fat32.**  A cluster is an array of cells of the size of a directory entry, and a cell is
interpreted by its reader, so a cluster used for two purposes shows.  Path resolution,
creation in the parent (or, for any absolute path, in the root), extension of directories,
recursive removal and the order of allocating a cluster and creating its entry are the
code's.  An operator returns the disk together with the disks after each of its writes, and the
power may fail between any two of them: the driver flushes the drive's cache after every sector
(`ata.c:229`), so what is on the disk is a prefix of the program's writes.  The boot that follows
runs `agent_init` on it.  Three windows are marked fatal and end the behaviour: `rmdir` before
its last write (`fat32.c:278`), and the link to a new cluster before that is marked as the end of
the chain (`:133`, `:652`) or, in a directory, cleared (`:134`).  Everywhere else `Integrity` and
`OtherFilesUntouched` hold across the failure.  Clearing a cluster is one write, and so are the
frees of `rmdir`.  Left out: sectors inside a cluster, the second copy of the table, padding at the
end of the table, long names, seek and `read_at`, listings.  The inputs keep to what the
code's comments ask for: a name is used for files or for directories, file paths have one
component (comment at `fat32.c:487`), the working directory and its ancestors are not
removed.  Directories that are not empty are removed, with what is in them, as the code does;
`OtherFilesUntouched` allows that, and the run `fat32_rmdir` holds it against the header.

**AgentFs.**  A command from an answer, `agent_ctx_set` included, may run between `fat32_open`
and `fat32_write` of the shell's own command.

**Rtl8169.**  Frames are numbers.  The card is external: it walks its ring in order, returns
to slot 0 only at an end-of-ring mark, stores a frame into any slot it owns, and starts to
send when the doorbell is written.  The handler freezes the mainline, at any instruction of
`linkoutput` too, but not the card.  `nested` is history: the handler has sent from inside a
send.  From then on only what arrives is claimed to be right.

**AgentLink.**  An answer is a sequence of tokens; segments cut it anywhere.  A request of the
mainline is three steps, `rx_accum_len = 0`, the new prompt and the connection, with interrupts on, and
callbacks come between them; a request from a callback is one step.  `call` is the request in the
making.  If `tcp_new` has to abort a connection that waits for its last acknowledgment, the error
callback of that one runs inside the request.  A connection
that this side has closed keeps its callbacks until lwIP frees it, so a reset or time-out
of an old connection runs `ollama_err_cb`, and the server's close of a connection this side
gave up runs `ollama_recv_cb`: both touch the buffer of whichever connection is gathering
an answer by then.  `disturbed` is history and records that somebody else used the buffers
since a conversation, or the request that opens it, began.  A connection that `tcp_connect` refuses is returned by
`ollama_request` but not by the feedback request (state `lost`).  Left out: sizes in bytes,
commands in an answer that start a request themselves, `ping`.

**Vmm.**  Tables are functions from indices to entries, stored by frame, of fan-out 3 in place of
512; a page number is split into four indices as the code splits an address.  The loader's huge
pages are kept, and the walk goes on below one as the code does.  Frames come from an allocator
that gives the lowest free one, which is what `Pmm` is proved to do.  The first two mappings are
those of the local APIC and the IOAPIC at 32 GB (`idt.c:38`, `:61`), which `init_idt` makes after
`pmm_init` and before `vmm_init`; the registers are written at once, and as the gate of the page fault
is set later (`idt.c:103`), without the mapping the processor stops in `dummy_exception_handler`
(`halted`).  A new table is cleared
through its physical address, so a frame beyond the loader's map is a page fault, and a page
fault is the end.  The processor is taken to see every entry at once.  `init_idt` ends with `sti`:
the timer's and the keyboard's handlers run during the rest of the boot and touch neither the tables nor
the driver's state.

**Ata.**  A drive is absent, refuses IDENTIFY, never gets ready, gets ready too late, or answers.
The wait loops are steps, with the counter's wrap to -1; what a drive that is not ready delivers
is garbage.  The search looks at slot after slot, boot sector, then partition entries, and the
ramdisk last.

**Tcp.**  One block, one request and one answer.  The peer and the network together send any part
of the answer that the window allows, any number of times and in any order, with any
acknowledgement of what was sent; a window once given is not taken back.  Timers are not counted:
one that runs may expire at any tick.  `HALTED` is a failed assertion, which stops the kernel in
this port.  Allocation of a FIN may fail.  The SYN-ACK gives any window from 0 to `PeerWnd`.  When the
persist timer finds the window open but smaller than the first unsent segment, that one is cut in two
(`tcp_split_unsent_seg`) and the first part sent.  `TCPH_SET_FLAG` only adds flags (`tcp_out.c:935`), so a
FIN stays on both parts, and in the model too.  The driver takes every segment (`tcp_output` leaves a
refused one queued, `tcp_out.c:1292`, `:1362`).

**Dhcp.**  Time is counted in ticks of the coarse timer; shorter timers expire anywhere within a
tick, and answers are lost after one.  `same` says that the block's transaction number is the
newest; answers to older ones never match and are dropped from the model.  Calls are functions
from one record of state to the next, so that a handler that restarts the client is one step,
as in the code.  `lease` is the server's view: an address may be given away when it is 0, and
a late answer and two ARP checks may cost the client `Slack` ticks more: less than three minutes past
the lease are allowed.  Every acknowledgement names a lease time (without one the code keeps the earlier,
`dhcp.c:623`), and the client finds memory for its block and its port (`dhcp.c:762`, `:787`; without, it
stays off).

## 3. Runs

| Run | Checks | Bounds, and why they are enough |
|---|---|---|
| `memory` | physical blocks: reported use exact, nothing protected handed out, refinement of `PageAllocator`; heap: tiling, disjoint payloads, coalescing, first fit, every call returns | 24 blocks in 3 bytes, 5 memory maps: every relation of a range to a byte and to its neighbours, wrapped and exhausted bitmaps; 128 bytes of heap hold up to 4 blocks: first, middle and last neighbours, sizes on both sides of rounding and of the split |
| `mainloop` | tasks: those killed by another stay dead, no early wake, strict turns, no starvation; keyboard: order, loss only when full, every character delivered | 4 slots, 2 ticks, 4 ids: slots are reused, the table fills, the idle task and the running one are killed; a ring of 3 slots, 4 characters: wraps and fills |
| `fat32` | integrity of table and directories, clusters leak only on a full volume, other files untouched, `cat` shows what `write` wrote, the first three also across a power failure | 5 clusters of 3 cells: chains of two clusters, a directory (`/agent`) that grows with its first file, a volume that fills, one power failure, after which only the boot follows |
| `agentfs_irq` | *finding*: an answer's command between open and write | two files, one key |
| `fat32_rmdir` | *finding*: `rmdir` deletes the files of a directory that is not empty | as `fat32` |
| `agentlink` | an undisturbed conversation gathers its own answer and reports its own commands in order, every chain ends, up to established connections whose server never closes | 2 connections, 2 user commands, answers of 3 and 4 tokens on a buffer of 3, prompt of 3 and send buffer of 2 entries: truncated answers, refused writes, a full prompt, an exhausted pool all occur |
| `rtl8169` | frames arrive in order and drain; they leave in order, and are damaged only by a copy into a full ring, until the handler sends from inside a send | 2 slots, 3 frames each way: both rings wrap and fill, the handler lands anywhere |
| `boot` | no frame serves twice, the heap is backed, panic only when the loader's map is exhausted, mappings are kept, what is mounted is a volume, transfers move the right sector, boot ends | 61 machines (RAM up to frame 5 to 23, the frames below 18 in reach of the loader's map, four framebuffers and the two interrupt controllers, which are not free RAM), pairs of 10 and 4 kinds of drives: every level of the walk runs out of memory, every wait times out |
| `tcp` | callbacks, graceful close, send queues, blocks freed | window 3, segments of up to 2, answers of 0, 1 and 3 bytes, requests of 1 and 2 segments, first windows of 0 to 3, 2 retries: overlaps of three segments, a FIN in every position, fast retransmit, probes, segments split to the window |
| `tcp_assert` | *finding*: the persist timer ticks with nothing to send | as `tcp` |
| `dhcp` | one owner, lease honoured, a good server's address obtained from any state | one address, leases of 4 minutes and 20 seconds, 2 answers under way, 2 tries in place of 6: renewal, rebinding, expiry, refusal, decline and restart all occur |
| `dhcp_nak` | *finding*: a refusal takes the link-local address for good | the same, servers silent in the end |

In `memory` and in `mainloop` the two modules share no variable, and a behaviour exercises one of
them.  Deadlock is checked where the system never stops (`memory`, `mainloop`, `boot`); elsewhere a
bound on inputs ends the behaviour.

**Fairness.**  The mainline goes on (`kmain` loops for ever, calls return), the timer
keeps firing, and the card sends what it owns.  In `AgentLink` a connection that is being established
or closed makes progress or is timed out by lwIP's timers (retransmissions of the SYN and the FIN,
`FIN_WAIT_2`, `LAST_ACK`); of an established one nothing is assumed, as no keepalive and no `tcp_poll`
would end it, and `ChainEnds` leaves it out.  In `Rtl8169` the mainline needs strong fairness, since
the handler interrupts it again and again: there are instructions between two interrupts.  In `Boot` every step of
`kmain` is taken; nothing is assumed of drives.  In `Tcp` `tcp_tmr` is assumed to go on (weak
fairness of its two timers together), a running timer to expire, and memory for a FIN to be found in
some tick, all only after the peer fell silent; nothing is assumed of a peer that is heard of.  In `Dhcp` the timers run, and from
some time on servers are good or silent for ever and memory suffices; an answer that a good
server can give infinitely often arrives (strong fairness, as packets may be lost in between).
Nothing is assumed of users, of arriving frames or of the server before that.

### Findings

* `agentfs_irq` – commands of an answer run in interrupt context although the shell's
  comment says input is buffered to prevent that (`net_stack.c:302`, `shell.c:885`).
* `dhcp_nak` – `dhcp_handle_nak` clears the interface's address although AutoIP owns it; AutoIP
  stays bound and is not started again, so that without a server the interface has no address
  for ever, against the comment "Fallback to 169.254.x.x without a router" (`dhcp.c:291`,
  `lwipopts.h:36`).
* `fat32_rmdir` – `fat32_rmdir` removes whatever is below the directory (`recursive_rm`,
  `fat32.c:278`), against the header's "Delete directory (must be empty)" (`fat32.h:147`).
* `tcp_assert` – the assertion "persist ticking with empty send buffer" (`tcp.c:1238`) fails: a peer
  that opens with a window of 0, acknowledges the byte of the probe and keeps the window shut empties
  the queue, and nothing stops the persist timer.  The port's assertion handler stops the kernel.
  `FreedWhenSilent` is therefore about the behaviours in which no assertion fails.

Outside what the runs and proofs assume, the models show the following of the code.

* With RAM up to the last tracked block the second scan of `pmm_alloc_block` reads the byte
  behind the bitmap, and a block that does not exist is handed out (`pmm.c:223`;
  `OwnedOutsideProtected` fails without `TopNotAvailable`).
* On a machine whose heap outgrows the free RAM below 4 GB a page table is put where the loader's
  map does not reach, and boot ends in a page fault (`vmm.c:70`; `PanicOnlyWhenExhausted` says
  that this is the only way).
* `rtl8169_linkoutput` is not re-entrant: a send from the handler inside a send loses a frame or
  puts `tx_idx` ahead of the card, which then waits for ever (`rtl8169.c:179`; both transmit
  properties fail without `nested`).
* `agent_ctx_set` reports success and creates the file in the root directory;
  `agent_ctx_get` looks in `/agent/db` (`fat32.c:444`).
* The first segment queued out of order is not trimmed to the window; with a FIN one past it the
  assertion at `tcp_in.c:1580` fails and the kernel stops.
* A FIN stays on both parts of a segment that is split to fit the window (`tcp_out.c:935`), so that the
  peer is told of the end before the rest of the request.
* A task that kills itself is made ready again on return (`task.c:116`); with the idle task killed a
  sleeping task may be called early (`task.c:111`).
* A segment sent again for duplicate acknowledgements that does not fit the window waits in the
  unsent queue; when the timer expires, later segments are put before it (`tcp_out.c:1657`), although
  the comment at `tcp_out.c:1746` keeps that queue sorted.  The walk of `tcp_free_acked_segments`
  then stops short of it and an acknowledged segment stays queued.  No number is lost by that, which
  is what `SendQueueWhole` says.
* A renewal time left over from an earlier lease moves a request to RENEWING, whose answer is
  bound without the ARP check (`dhcp.c:555`).

Seen while modelling and kept out of the inputs, with no run of their own: a Multiboot 1
map whose RAM ends inside a page makes the partial page available (`pmm.c:57`); header
sizes of 2^32 and more are cut off; a task that calls `task_yield` stays `RUNNING` for ever
(`task.c:116`); `rmdir` of a directory that contains the working directory
leaves it at a freed cluster; the scan for a free cluster covers the padding of the last table
sector (`fat32.c:48`); the poll of the card has no budget (`rtl8169.c:245`); removing a file by an
absolute path never finds it; `cd ..`
is not resolved; `ai_mock`
says it exercises two tags and runs one; a tag closed by `\u003e` is executed without a
feedback request and without the `break` that the comment at `net_stack.c:332` calls
essential; the limit on the prompt exceeds what `TCP_SND_BUF` accepts; a late reset of the
previous connection empties the answer buffer of its successor (`net_stack.c:500`); the feedback request ignores
what `tcp_connect` returns (`net_stack.c:522`); an established connection whose peer falls silent
is kept for ever.

## 4. Proofs

All theorems hold for every value of the constants: every size of a table, ring or heap, every
memory map, every set of drives, answers, leases and addresses.  They rest on the assumptions
named in the modules (`SizeAssumption`, `BootAssumption`, `NeighbourAssumption`, `HeapAssumption`,
`RingAssumption`, `TaskAssumption`, `VmmAssumption`, `AtaAssumption`, `Rtl8169Assumption`,
`AgentLinkAssumption`, `DhcpAssumption`, `TcpAssumption`, `Fat32Assumption`, `PathAssumption`), which TLC evaluates on the instances, and on the
hypotheses below, which the instances satisfy too.  `VmmAssumption` includes that the framebuffer
and the interrupt controllers are not free RAM and lie apart, and that what the machine has fits the
four levels of tables, the RAM ending below the controllers' pages (the bitmap tracks 16 GB, they are
mapped at 32 GB).

| Module | Theorems about properties of the runs | Hypotheses |
|---|---|---|
| `KmallocProofs` | `HeapTiled`, `NoOverlap`, `NoSeam`, `FirstFitSearch` | `RequestsFit`: the heap fits a size field, no request is within 3 of 2^64 |
| `TaskProofs` (keyboard ring) | `DeliveredInOrder`, `LossOnlyAtLimit` | |
| `TaskProofs` (task table) | `KilledTasksStayDead`, `SleepersNotWokenEarly`, `ScanIsRoundRobin` | the last two: `ClockFits`, and the second `WakeTimesFit` too |
| `Rtl8169Proofs` | `FramesReceivedInOrder`, `SentFramesInOrder` | |
| `BootProofs` (memory manager) | `UsedCount`, `ProtectedStaysProtected`, `Refinement` | `TopNotAvailable`: the last tracked block is not RAM |
| `BootProofs` (disks, page tables) | `OnlyVolumesMounted`, `TransfersHonest`; `FramesNeverShared`, `HeapIsBacked`, `PanicMeansExhausted`, `MappingsAreKept` | the last four: `FramebufferApart` |
| `AgentLinkProofs` | `AnswersGatheredWhole`, `RequestsAskRight` | |
| `DhcpProofs` | `AddressHasOneOwner`, `LeaseIsHonoured` | |
| `Fat32Proofs` | `IntegrityHolds`, `WriteStoresHolds` | |
| `TcpProofs` | `CallbacksHold`, `GracefulCloseHolds`, `SendQueueWholeHolds` | |

None of these properties is inductive as it stands.  What each proof adds, and why:

**BootProofs, the physical memory manager.**  `IInv` adds what the boot loops have done so far (`MapInv`: exactly the
blocks of the entries and iterations behind the cursor are clear; `ProtectInv`: the ranges
behind the cursor are set), who holds what (`OwnerInv`) and that no block between the 1 MiB
line and the hint is free (`HintTight`).  From the last follows that the two scans together
find the lowest free block, which is what the refinement needs.

**KmallocProofs.**  `KInv` says that each header ends where the next begins, that allocated
blocks are exactly the live ones, what the running walk knows of the blocks behind its cursor,
and that the only seam between free blocks is the one `kfree` is about to close.

**TaskProofs, the keyboard ring.**  `RingInv` says that the slots from tail to head hold, in order, what was
stored and not yet returned, and where `kbd_get` stands relative to them; `Dist` is the
distance round the ring.

**TaskProofs, the task table.**  `TableInv` says that an id names one slot; that a scan, while the idle
task in slot 0 lives, does not come back to the slot it began with (`IdleSlot`); that this slot, which
is called at the end of a scan whatever its state, is ready or the idle one's, which has no function
(`StartReady`); and that the task whose function is running was not killed by another, so that its
return undoes at most its own kill (`CalledNotKilled`).  The last two are how a killed task would come
back.
`WakeInv` relates a wake time to the interrupts still due, and `AheadInv` the tasks called since
one was passed over to the slots between the two.  `ClockFits` and `WakeTimesFit` say that
neither the tick counter nor a wake time wraps at 2^32, which takes 497 days: past that the code
does wake tasks early, so the theorems could not do without.

**Rtl8169Proofs.**  `RxInv` counts: the slots from `rx_idx` to the card's are exactly the ones
that hold frames stored and not handed over, in order, wherever the poll stands.  The transmit
side does the same for the slots between the card and `tx_idx`, with the one that
`rtl8169_linkoutput` is filling, until the handler sends from inside a send; from then on the
property claims nothing.

**BootProofs, disks and page tables.**  `AtaInv` says that the slot being probed holds a drive that has answered as far
as the probing went, and that nothing is transferred before the search is over.  `VmmInv` says
that the tables are a tree: there are a level and a range of pages for every table such that each
entry leads one level down to a table covering its share of the range, no two entries share a
table, and no table's frame is free or mapped by a page of heap or framebuffer (`TablesTree`); how
far the heap is mapped (`HeapSoFar`); and that the loader's mappings are still there, as are those of
the interrupt controllers once they are made (`DevicesDone`).  Level and
range exist in every state and are computed nowhere in the code, so the invariant quantifies over
them.  The heap of unbounded length is handled by the least page that would break the claim
(`WellFoundedInduction`).  `FramebufferApart`: the framebuffer lies outside the range the heap is
mapped to, and off the two pages of the interrupt controllers.  The heap begins at 8 GB and ends below the end of RAM, or is a few megabytes long (`kmalloc.c:7`,
`:23`), and the loader's framebuffers lie below 4 GB; if the two met, `kmalloc_init` would
replace the framebuffer's mapping and `MappingsKept` would be wrong.  A framebuffer at 32 GB would
likewise take the controllers' pages.

**AgentLinkProofs.**  `LinkInv` says that each conversation which nobody disturbed agrees with the
shared buffers: its prompt is `global_prompt`, and `rx_accum` holds what fits of its answer so
far.  For the request that the mainline is making it says that every conversation has been put off,
and that the buffers are as the request left them unless a callback used them since (`CallAgrees`);
that is what the new connection agrees with.  The lemmas are about cutting: appending as much as fits, segment by segment, gives what fits
of the whole.

**DhcpProofs.**  Every call of the model maps a world to a world, and `Sound` is a predicate on
worlds that each call keeps (one lemma per call).  It says that AutoIP works only while the client
has called it in and an address of a server only belongs to a client that sent AutoIP away; and it
follows the minutes of a lease: an acknowledgement under way is backed by a lease less the minute
it may have travelled, an address under check by one less a further minute for each check, and an
address in use is at most `Slack` minutes ahead of the client's own count.

**TcpProofs.**  The two directions have an invariant each, a predicate on the control block that
every function of the model keeps (one lemma per function).  `RxInv`, for what is received: the
window and what was handed over together make up the whole window (`RxOk`), the queue of segments
out of order lies behind `rcv_nxt`, is in order without an overlap, carries a FIN only at its end
and nothing that is not in the answer, and the callbacks so far have given exactly the bytes
before `rcv_nxt` (`LogOk`).  The cutting of segments against each other keeps that, whatever
arrives, so that each byte is given once; and since the window is whole between two calls,
`tcp_close` finds it whole.  `TxInv`, for what is sent: the two lists together hold a set of
segments, each once, whose first numbers differ, and every number from `lastack` on lies in one of
them; and that the data of two segments does not overlap and ends before `snd_lbb` (`Placed`), without
which the second part of a segment that is split could have the first number of another.  It does not say that the unsent list is in order, which is not true (see the findings).  A
walk along a list is `Leading`, the longest prefix that satisfies its test; insertion by number is
`Sorted`, of which the proof needs that it lists each element of a set once.  Both are counted, not
computed recursively, so that the arguments go by least elements and injections
(`WellFoundedInduction`, `FiniteSetTheorems`) and need no induction over lists.

**Fat32Proofs.**  `Integrity` speaks of chains and of the entries that can be reached, both computed
step by step from the disk.  The invariant replaces them by a layout: the clusters in use, and for
each the first cluster of its chain, its place in it and whether it belongs to a directory.
`Chained` says that the table agrees with it (an entry of the table leads to the next place of the
same chain, no place is taken twice), `Named` that the directories do (an entry leads to a chain of
its kind that is long enough for its size, no two entries to the same one, none lies behind an end
mark).  `Fat32IInv`: outside the windows the model calls fatal there is a layout for the disk, in
which the working directory is a directory.  The layout exists in every state and nothing in the code
computes it.  Five lemmas say how a disk change carries it along: a write outside the
directories (`SameTree`), a size (`SizeTree`), an entry deleted and its chain freed (`DropTree`), a directory or
a file that grows (`ExtendTree`), a new chain and its entry (`LinkTree`).  Every write of a command
is one of these or happens inside a window, so that `Sound` (every disk of the command's log is whole
or fragile) holds along the command, which is the statement about power failures.  Chains, paths,
removal of a tree and the loop of `fat32_write` are recursive functions; where the proof walks along
one it takes the least step that would break the claim (`WellFoundedInduction`).

`WriteStores` follows from the same invariant, by an argument about one call.  With a layout every
cell of a file has a number, `Place`, from the place of its cluster and its offset, and no two cells
of a file have the same one.  `Progress` says what has been done after m cells of a write: the cells
numbered below m hold the text, the others up to the old size what they held.  One cell more
(`PutProgress`) and a cluster more behind the last one (`ExtendProgress`) keep it, and the write
touches no directory but for the size in the file's own entry (`Stored`).  So the name is found where
it was (`SameFind`, for which the chain of a directory must be the same), and reading returns the
cells in the order of their numbers up to the size (`ReadAll`), which never runs off the chain
because the size is within it (`SizeWithin`).  `PathAssumption`:
a name is used either for files or for directories.  The code does not check it (`fat32_open` opens
a directory, and a write would then go over its entries).

Only model-checked:

* everything under fairness (`CallsReturn`, `Drains`, `NoStarvation`, `RxDrains`, `TxDrains`,
  `ChainEnds`, `BootEnds`, `FreedWhenSilent`, `GetsLease`), which is out of the prover's reach;
* of `Fat32`, that the other files stay as they are (`OtherFilesUntouched`) and which clusters leak
  (`LeakOnlyWhenFull`): the first compares the files of two states, also after a power failure, and
  needs the layouts of the two to be related; a leaked cluster has no owner in a layout.

## 5. Not modelled

The screen (whose line index, column and capture buffer the timer interrupt and the mainline share
without a lock), the line editor of the shell, the order of boot against the first interrupts and
the C library.  Interrupt and segment tables, PCI, AHCI, ACPI, GPT, the network glue and the mock
card are constant tables, one-shot scans or printing.

Of lwIP, which is vendored: buffers and pools, IP and its reassembly, ICMP, UDP, the ARP cache,
passive TCP connections and TCP options; DHCP with links that go down and with leases that never
end.  DNS, IPv6, PPP, the sequential API and the applications make up most of its files and are
switched off or not linked; with the headers they are the larger part of the repository's lines,
so the models cover a small share of all lines and most of the kernel's own logic.  Races inside
lwIP, between the mainline and the timer interrupt, are not modelled.

## 6. Plan

Done, in order of what rests on it: memory (`Pmm`, `Kmalloc`), the interrupt-shared ring
(`Keyboard`), scheduling (`Task`), the file system (`Fat32`, `AgentFs`), the network (`Rtl8169`,
`AgentLink`), boot (`Vmm`, `Ata`, `Boot`), the protocols under the agent (`Tcp`, `Dhcp`); proofs of
the safety properties of all of them.  Next:

1. Proofs: the action properties of `Fat32`, on top of the layout that `Integrity` rests on.
2. `Shell`: the line editor and its history; `Screen`: the history ring, scrolling and the
   capture buffer, written from mainline and interrupt.
3. `libc` as operators against reference definitions (`strstr`, `itoa`, `json_escape`).

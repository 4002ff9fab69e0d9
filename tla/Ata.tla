-------------------------------- MODULE Ata --------------------------------
(***************************************************************************)
(* The disk driver, src/src/drivers/ata.c: detection of a drive on the     *)
(* four IDE slots, the search for a FAT32 volume, the ramdisk it falls     *)
(* back to, and the reads and writes of sectors.                           *)
(*                                                                         *)
(* The driver waits by polling a status register, with a counter that is   *)
(* an unsigned integer decremented after the test: when the wait is given  *)
(* up the counter has wrapped, and it is 0 exactly when the drive answered *)
(* at the last poll.  A drive may be slow: each poll finds it busy or not. *)
(* What is read from a drive that does not deliver is Garbage.             *)
(***************************************************************************)
EXTENDS Integers, Sequences

CONSTANTS
    Polls,        \* initial value of the wait counter, 100000
    LBAs,         \* sector numbers, 0 among them
    Bays,         \* what may be connected to the four slots
    Ramdisks      \* sizes of the ramdisk in sectors, 0 if it is not loaded

Slots == 0 .. 3      \* primary master and slave, secondary master and slave
Wrapped == -1        \* the counter after it was decremented at 0

\* What a sector holds: the boot record of a FAT32 volume, a partition table
\* (of which the type and start of the entries matter), or something else.
Volume == [kind |-> "volume", parts |-> << >>]
Plain == [kind |-> "plain", parts |-> << >>]
Garbage == [kind |-> "garbage", parts |-> << >>]
PartitionTable(parts) == [kind |-> "mbr", parts |-> parts]

\* status: "absent", "atapi" (reports an error), "hung" (always busy), "slow"
\* or "live"; capacity: whether IDENTIFY reports any sectors.
Drive == [status : {"absent", "atapi", "hung", "slow", "live"},
          capacity : BOOLEAN,
          sector : [LBAs -> [kind : {"volume", "plain", "mbr"},
                             parts : Seq([fat : BOOLEAN, start : LBAs])]]]

ASSUME AtaAssumption ==
    /\ Polls \in Nat /\ 0 \in LBAs /\ LBAs \subseteq Nat
    /\ \A b \in Bays : b \in [Slots -> Drive]
    /\ Ramdisks \subseteq Nat

VARIABLES
    bay,               \* the drives
    ramdisk_size,      \* in sectors
    apc,               \* where ata_init stands
    slot,              \* the slot being probed
    timeout,
    sector,            \* the sector read last
    part,              \* the partition entry being looked at
    drive_present, ramdisk_mode, partition_offset,
    active,            \* active_base_port and active_drive_sel
    io                 \* the last transfer asked of the driver and its outcome

ataVars == <<bay, ramdisk_size, apc, slot, timeout, sector, part, drive_present,
             ramdisk_mode, partition_offset, active, io>>
hardware == <<bay, ramdisk_size>>
globals == <<drive_present, ramdisk_mode, partition_offset, active>>

NoTransfer == [lba |-> 0, ret |-> -1, data |-> Garbage]

AtaInit ==
    /\ bay \in Bays /\ ramdisk_size \in Ramdisks
    /\ apc = "select" /\ slot = 0 /\ timeout = 0 /\ sector = Garbage /\ part = 1
    /\ drive_present = FALSE /\ ramdisk_mode = FALSE /\ partition_offset = 0
    /\ active = 0 /\ io = NoTransfer

\* What a poll of a slot may find: the drive answers, or it does not.
Answers(s) == CASE bay[s].status = "live" -> {TRUE}
                [] bay[s].status = "slow" -> {TRUE, FALSE}
                [] OTHER -> {FALSE}

-----------------------------------------------------------------------------
(* ata_detect_real_drive.                                                  *)

\* The next turn of the two nested loops.
NextSlot ==
    /\ apc' = IF slot = 3 THEN "fallback" ELSE "select"
    /\ slot' = IF slot = 3 THEN slot ELSE slot + 1

\* IDENTIFY is sent; status 0x00 or 0xFF means there is no drive.
Select ==
    /\ apc = "select"
    /\ IF bay[slot].status = "absent"
       THEN NextSlot /\ UNCHANGED timeout
       ELSE apc' = "bsy" /\ timeout' = Polls /\ UNCHANGED slot
    /\ UNCHANGED <<hardware, sector, part, globals, io>>

\* Mutant: the counter is not decremented.
Decremented_Never(t) == t

\* The value of the counter after timeout--.
Decremented(t) == IF t = 0 THEN Wrapped ELSE t - 1

\* One round of a wait loop for the slot's drive to answer, then the test of the
\* counter after it.
Wait(here, then) ==
    /\ apc = here
    /\ \E ready \in Answers(slot) :
          \/ /\ ~ready /\ timeout # 0                           \* poll again
             /\ timeout' = Decremented(timeout) /\ UNCHANGED <<apc, slot>>
          \/ /\ (ready /\ timeout # 0) \/ (~ready /\ timeout = 0)  \* answered, or given up
             /\ timeout' = IF ready THEN timeout ELSE Decremented(timeout)
             /\ apc' = then /\ UNCHANGED slot
          \/ /\ ready /\ timeout = 0                            \* answered at the last poll
             /\ NextSlot /\ UNCHANGED timeout
    /\ UNCHANGED <<hardware, sector, part, globals, io>>

\* An ATAPI drive is not busy, and reports an error; what a drive that is still
\* busy shows in the error bit is anything.
WaitBusy ==
    IF bay[slot].status = "atapi"
    THEN apc = "bsy" /\ apc' = "err" /\ UNCHANGED <<hardware, slot, timeout, sector, part, globals, io>>
    ELSE Wait("bsy", "err")

CheckError ==
    /\ apc = "err"
    /\ \E error \in CASE bay[slot].status = "atapi" -> {TRUE}
                      [] bay[slot].status # "atapi" /\ timeout = Wrapped -> BOOLEAN
                      [] OTHER -> {FALSE} :
          IF error THEN NextSlot /\ UNCHANGED timeout
                   ELSE apc' = "drq" /\ timeout' = Polls /\ UNCHANGED slot
    /\ UNCHANGED <<hardware, sector, part, globals, io>>

WaitData == Wait("drq", "identify")

\* The sector count of the IDENTIFY data, or of what was read in its place.
Identify ==
    /\ apc = "identify"
    /\ \E any \in IF timeout = Wrapped THEN BOOLEAN ELSE {bay[slot].capacity} :
          IF any
          THEN /\ active' = slot /\ apc' = "boot_sector"
               /\ drive_present' = TRUE /\ UNCHANGED slot
          ELSE NextSlot /\ UNCHANGED <<active, drive_present>>
    /\ UNCHANGED <<hardware, timeout, sector, part, ramdisk_mode, partition_offset, io>>

-----------------------------------------------------------------------------
(* Transfers.  The waits in them give up without a word.                   *)

\* Mutant: the first sector behind the ramdisk is still allowed.
InRamdisk_OffByOne(lba) == lba <= ramdisk_size
InRamdisk(lba) == lba + 1 <= ramdisk_size

\* The return values and contents that reading a sector may produce.
ata_read_sectors(lba) ==
    CASE ~drive_present -> {[lba |-> lba, ret |-> -1, data |-> Garbage]}
      [] drive_present /\ ramdisk_mode ->
            {IF InRamdisk(lba)
             THEN [lba |-> lba, ret |-> 0,
                   data |-> IF lba < ramdisk_size THEN Plain ELSE Garbage]
             ELSE [lba |-> lba, ret |-> -1, data |-> Garbage]}
      [] OTHER ->
            {[lba |-> lba, ret |-> 0, data |-> IF ready THEN bay[active].sector[lba] ELSE Garbage]
                : ready \in Answers(active)}

\* A write reaches the sector, or nothing, and reports success either way.
ata_write_sectors(lba) ==
    /\ drive_present
    /\ IF ramdisk_mode
       THEN io' = [lba |-> lba, ret |-> IF InRamdisk(lba) THEN 0 ELSE -1, data |-> Plain]
            /\ UNCHANGED bay
       ELSE \E ready \in Answers(active) :
               /\ bay' = IF ready THEN [bay EXCEPT ![active].sector[lba] = Plain] ELSE bay
               /\ io' = [lba |-> lba, ret |-> 0, data |-> IF ready THEN Plain ELSE Garbage]

-----------------------------------------------------------------------------
(* ata_init: the search for a volume.                                      *)

\* Mutant: a sector that is not a partition table is taken for a volume.
is_fat32_bpb_Weak(s) == s.kind \in {"volume", "plain"}

is_fat32_bpb(s) == s.kind = "volume"

ReadBootSector ==
    /\ apc = "boot_sector"
    /\ \E r \in ata_read_sectors(0) :
          /\ sector' = r.data
          /\ IF is_fat32_bpb(r.data)
             THEN apc' = "ready" /\ UNCHANGED <<part, drive_present>>
             ELSE IF r.data.kind = "mbr" THEN apc' = "partition" /\ part' = 1 /\ UNCHANGED drive_present
             ELSE apc' = "fallback" /\ drive_present' = FALSE /\ UNCHANGED part
    /\ UNCHANGED <<hardware, slot, timeout, ramdisk_mode, partition_offset, active, io>>

\* One entry of the partition table; only those of a FAT32 type are read.
ReadPartition ==
    /\ apc = "partition" /\ part <= Len(sector.parts)
    /\ LET p == sector.parts[part]
       IN  \E r \in IF p.fat THEN ata_read_sectors(p.start) ELSE {NoTransfer} :
              IF is_fat32_bpb(r.data)
              THEN apc' = "ready" /\ partition_offset' = p.start /\ UNCHANGED part
              ELSE part' = part + 1 /\ UNCHANGED <<apc, partition_offset>>
    /\ UNCHANGED <<hardware, slot, timeout, sector, drive_present, ramdisk_mode, active, io>>

NoPartition ==
    /\ apc = "partition" /\ part > Len(sector.parts)
    /\ drive_present' = FALSE /\ apc' = "fallback"
    /\ UNCHANGED <<hardware, slot, timeout, sector, part, ramdisk_mode, partition_offset, active, io>>

\* Without a usable drive the ramdisk is used, if the boot loader gave one.
Fallback ==
    /\ apc = "fallback"
    /\ IF ramdisk_size > 0
       THEN apc' = "ready" /\ ramdisk_mode' = TRUE /\ drive_present' = TRUE
       ELSE apc' = "none" /\ UNCHANGED <<ramdisk_mode, drive_present>>
    /\ UNCHANGED <<hardware, slot, timeout, sector, part, partition_offset, active, io>>

\* The file system reads and writes.
ReadSector ==
    /\ apc \in {"ready", "none"}
    /\ \E lba \in LBAs : io' \in ata_read_sectors(lba)
    /\ UNCHANGED <<hardware, apc, slot, timeout, sector, part, globals>>

WriteSector ==
    /\ apc = "ready"
    /\ \E lba \in LBAs \ {0, partition_offset} : ata_write_sectors(lba)
    /\ UNCHANGED <<ramdisk_size, apc, slot, timeout, sector, part, globals>>

Detect == Select \/ WaitBusy \/ CheckError \/ WaitData \/ Identify

Search == ReadBootSector \/ ReadPartition \/ NoPartition \/ Fallback

-----------------------------------------------------------------------------
(* Properties.                                                             *)

\* The sector handed to fat32_mount holds a FAT32 boot record, however slow the
\* drive was and whatever was read in place of what it failed to deliver; the
\* alternative is the ramdisk.
MountedIsFat32 ==
    apc = "ready" /\ ~ramdisk_mode => bay[active].sector[partition_offset].kind = "volume"

\* A transfer that reports success moved the sector, unless the drive is one
\* that does not answer in time.
ReadGivesSector ==
    io.ret = 0 =>
       \/ io.data.kind # "garbage"
       \/ ~ramdisk_mode /\ bay[active].status \in {"hung", "slow"}

=============================================================================

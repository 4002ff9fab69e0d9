------------------------------- MODULE MCBoot -------------------------------
(***************************************************************************)
(* Boot for TLC.  Page tables of three entries: a page table covers 3      *)
(* pages, a directory 9, the tables below one entry of the PML4 27.        *)
(***************************************************************************)
EXTENDS Boot, TLC

\* Frames 0 to 5 hold the kernel, 16 and 17 are the interrupt controllers; the
\* framebuffer is below 4 GB, just above the controllers' pages and across two
\* entries of the PML4, or far above; the machines differ in how far their RAM
\* goes.
None == [start |-> 0, pages |-> 0]
Framebuffers == {None, [start |-> 8, pages |-> 2], [start |-> 26, pages |-> 2],
                 [start |-> 40, pages |-> 4]}
RamTops == 5 .. 15 \cup {18, 20, 21, 23}
MachineWith(fb, rd, top) ==
    [fb |-> fb, ramdisk |-> rd, total |-> top + 1,
     free |-> 6 .. top \ ({16, 17} \cup (fb.start .. fb.start + fb.pages - 1))]
MCMachines ==
    {MachineWith(fb, [start |-> 5, pages |-> 1], top) : fb \in Framebuffers, top \in RamTops}
    \cup {MachineWith(None, None, 15)}

Disk(status, capacity, first, second) ==
    [status |-> status, capacity |-> capacity,
     sector |-> (0 :> first) @@ (1 :> second) @@ (2 :> Plain)]
Mbr(fat, start) == PartitionTable(<<[fat |-> FALSE, start |-> 1], [fat |-> fat, start |-> start]>>)
NoDrive == Disk("absent", FALSE, Plain, Plain)
Drives == {NoDrive,
           Disk("atapi", FALSE, Plain, Plain), Disk("hung", TRUE, Plain, Plain),
           Disk("slow", TRUE, Volume, Plain), Disk("slow", TRUE, Mbr(TRUE, 1), Volume),
           Disk("live", FALSE, Plain, Plain), Disk("live", TRUE, Plain, Volume),
           Disk("live", TRUE, Mbr(TRUE, 1), Volume), Disk("live", TRUE, Mbr(FALSE, 1), Volume),
           Disk("live", TRUE, Mbr(TRUE, 2), Volume)}
SecondDrives == {NoDrive, Disk("atapi", FALSE, Plain, Plain), Disk("slow", TRUE, Volume, Plain),
                 Disk("live", TRUE, Mbr(TRUE, 1), Volume)}
MCBays == {[s \in 0 .. 3 |-> IF s = 1 THEN d ELSE IF s = 3 THEN e ELSE NoDrive]
             : d \in Drives, e \in SecondDrives}

\* Every machine with no drive at all, and every set of drives on a machine
\* whose heap is mapped without a fault.
Empty == [s \in 0 .. 3 |-> NoDrive]
WithRamdisk == MachineWith(None, [start |-> 5, pages |-> 1], 15)
MCConfigs ==
    {<<m, Empty, 2>> : m \in {n \in MCMachines : n.ramdisk # None}}
    \cup {<<MachineWith(None, None, 15), b, 0>> : b \in MCBays}
    \cup {<<WithRamdisk, b, 2>> : b \in MCBays}

=============================================================================

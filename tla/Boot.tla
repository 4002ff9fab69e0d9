-------------------------------- MODULE Boot -------------------------------
(***************************************************************************)
(* The start of kmain, src/src/core/kernel.c, from init_idt to the first   *)
(* transfers of the file system: the page tables and the heap, then the    *)
(* disk.  The steps come in program order: of the interrupts that init_idt *)
(* enables the timer's and the keyboard's handlers touch none of this      *)
(* state.  What varies is the machine, the drives and how quickly they     *)
(* answer.                                                                 *)
(***************************************************************************)
EXTENDS Vmm, Ata

CONSTANT Configs    \* the machines, drives and ramdisks that occur together

bootVars == <<vmmVars, ataVars>>

BootInit ==
    /\ VmmInit /\ AtaInit
    /\ <<machine, bay, ramdisk_size>> \in Configs

Memory == VmmNext /\ UNCHANGED ataVars

ata_init == vpc = "done" /\ (Detect \/ Search) /\ UNCHANGED vmmVars

Transfers == vpc = "done" /\ (ReadSector \/ WriteSector) /\ UNCHANGED vmmVars

BootNext == Memory \/ ata_init \/ Transfers

\* The code of kmain is straight-line: it runs on.
BootSpec == BootInit /\ [][BootNext]_bootVars /\ WF_bootVars(Memory \/ ata_init)

\* Boot comes to its end, with a disk or without one, or else to a panic or a
\* stop for want of memory: every wait for a drive is bounded, whatever the
\* drives do.
BootEnds == <>(apc \in {"ready", "none"} \/ vpc \in {"panic", "halted"})

=============================================================================

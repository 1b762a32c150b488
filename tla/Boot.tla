-------------------------------- MODULE Boot --------------------------------
(***************************************************************************)
(* From the installed disk to protected mode: what install.py wrote, stage  *)
(* 1 that loads stage 2 by it, and the memory map that stage 2 asks for     *)
(* before it leaves real mode.                                             *)
(***************************************************************************)
EXTENDS Installer, Stage1, MemoryMap

CONSTANTS
    Files          \* lists of clusters that stage2.bin may have

(* Clusters are numbered from 2.                                             *)
ASSUME FileAssumption ==
    /\ Files \subseteq Seq((Nat \ {0, 1}) \X (Nat \ {0}))
    /\ \A f \in Files : Packs(Payload(f)) => Payload(f) \in Payloads

VARIABLES file     \* external: the clusters of stage2.bin

boot_vars == <<file, load_vars, map_vars>>

BootInit ==
    /\ file \in Files /\ Packs(Payload(file))
    /\ LoadInit /\ payload = Payload(file)
    /\ MapInit

BootNext ==
    \/ LoadNext /\ UNCHANGED <<file, map_vars>>
    \/ load_pc = "stage2" /\ MapNext /\ UNCHANGED <<file, load_vars>>

(* Instructions go on, and a disk can be reset after some attempts.          *)
BootSpec == BootInit /\ [][BootNext]_boot_vars /\ WF_boot_vars(BootNext)

-----------------------------------------------------------------------------
(* No extent goes beyond the sectors that stage 1 can count in 16 bits.       *)
Countable(clusters) ==
    \A i \in DOMAIN clusters :
        LET range == SectorRange(clusters[i]) IN range[1] + range[2] <= AX_SECTORS

(* Stage 2 is entered with the whole file in memory, its clusters in order,  *)
(* however they lie on the disk below sector 65536, the list was split and   *)
(* reads failed, if the file fits in the 64 KB that bx can reach.  This is   *)
(* stated for clusters of one sector: with more, install.py:211 multiplies   *)
(* the first data sector too, and the list names sectors of other files.     *)
(* A range that goes over sector 65535, which install.py packs when only its *)
(* start is below, is left out because stage 1 counts in 16 bits and goes on *)
(* with sector 0 (fat1x.s:135).                                              *)
Loaded ==
    /\ load_pc = "stage2"
    /\ SECTORS_PER_CLUSTER = 1
    /\ Countable(file)
    /\ Len(FileSectors(file)) <= BX_SECTORS
    => \A k \in DOMAIN FileSectors(file) : memory[k - 1] = FileSectors(file)[k]

(* Every boot ends, with the map in memory or in one of the loops that halt, *)
(* when the BIOS leaves 0 in EBX at the end of a map with room in the table: *)
(* failed reads are not repeated for ever, and the loop over the map stops.  *)
(* (It does not stop at the carry flag, and runs over the table when that    *)
(* alone tells the end: see MapRead.)                                        *)
Boots ==
    bios_end # "kept" /\ SlotsNeeded <= MAP_SLOTS
        => <>(load_pc = "panic" \/ map_pc \in {"failed", "mapped"})
=============================================================================

------------------------------ MODULE Installer ------------------------------
(***************************************************************************)
(* install.py: from the clusters of stage2.bin to the list of sectors that  *)
(* is written into the boot sector, which stage 1 reads.                    *)
(***************************************************************************)
EXTENDS Integers, Sequences, SequencesExt

CONSTANTS
    START_DATA,            \* first sector behind the FATs and the root directory
    SECTORS_PER_CLUSTER,
    FIRST_BLOCKS,          \* sectors from 0x7e00 to the first 64 KB boundary, 65
    BARRIER                \* sectors in 64 KB, 128

ASSUME LayoutAssumption == START_DATA \in Nat /\ SECTORS_PER_CLUSTER \in Nat \ {0}
ASSUME BarrierAssumption == FIRST_BLOCKS \in Nat \ {0} /\ BARRIER \in Nat \ {0}

Lesser(a, b) == IF a < b THEN a ELSE b

(* Mutant: the first piece is not stepped over. *)
PieceStart_Again(start, first, k) == start + (k - 1) * BARRIER

(* Where the k-th piece behind the first one begins.                         *)
PieceStart(start, first, k) == start + first + (k - 1) * BARRIER

(* _avoid_64k_boundary, of one range: what fits before the first boundary,   *)
(* and the rest by 64 KB.                                                    *)
Pieces(range) ==
    LET first == Lesser(FIRST_BLOCKS, range[2])
        rest  == range[2] - first
    IN  <<<<range[1], first>>>> \o
        [k \in 1..((rest + BARRIER - 1) \div BARRIER) |->
            <<PieceStart(range[1], first, k), Lesser(BARRIER, rest - (k - 1) * BARRIER)>>]

(* The pair of a first cluster and a number of clusters, in sectors.          *)
SectorRange(clusters) ==
    <<(START_DATA + clusters[1] - 2) * SECTORS_PER_CLUSTER, clusters[2] * SECTORS_PER_CLUSTER>>

get_sector_ranges(clusters) == [i \in DOMAIN clusters |-> SectorRange(clusters[i])]

Payload(clusters) ==
    LET ranges == get_sector_ranges(clusters)
    IN  FlattenSeq([i \in DOMAIN ranges |-> Pieces(ranges[i])])

(* struct.pack of 'H': it raises for a number of more than 16 bits, and then  *)
(* nothing is installed.                                                     *)
Packs(list) ==
    /\ \A i \in DOMAIN list : list[i][1] < 65536 /\ list[i][2] < 65536
    /\ Len(list) < 65536

-----------------------------------------------------------------------------
(* The sectors of the file by the layout of a FAT: its clusters are numbered *)
(* from 2, the first of them at START_DATA.                                   *)
ClusterSectors(c) ==
    [j \in 1..SECTORS_PER_CLUSTER |-> START_DATA + (c - 2) * SECTORS_PER_CLUSTER + j - 1]

FileSectors(clusters) ==
    FlattenSeq([i \in DOMAIN clusters |->
        FlattenSeq([j \in 1..clusters[i][2] |-> ClusterSectors(clusters[i][1] + j - 1)])])
=============================================================================

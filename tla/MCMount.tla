------------------------------- MODULE MCMount -------------------------------
(* Instances of Mount for TLC: small pools, and disks whose tables are of   *)
(* the sizes the other callers ask for.                                     *)
EXTENDS Mount

Usable(base, length)   == [base |-> base, length |-> length, usable |-> TRUE]
Reserved(base, length) == [base |-> base, length |-> length, usable |-> FALSE]

(* The memory above the megabyte of the instance leaves n bytes to serve;   *)
(* the last map has two blocks above it.                                    *)
MCPools ==
    {<<Usable(0, 3), Usable(4, 12 + n)>> : n \in {8, 15, 19}}
        \cup {<<Usable(0, 3), Usable(4, 8), Reserved(12, 4), Usable(16, 39)>>}

Signed(fat1x, fat32) ==
    [t \in {"fat1x", "fat32"} |-> IF t = "fat1x" THEN fat1x ELSE fat32]

(* Two floppies, one without a filesystem, one with a boot sector of zeroes *)
(* and a disk too large for n_sectors.                                      *)
OneSector == [bytes_per_sec |-> 1, sec_per_cluster |-> 1, n_reserved_sec |-> 1, n_fat |-> 2,
              root_max_entries |-> 1, n_sectors |-> 2880, sec_per_fat |-> 1,
              signature |-> Signed(TRUE, FALSE)]
ThreeSectors == [OneSector EXCEPT !.n_sectors = 65535, !.sec_per_fat = 3]
Unsigned  == [OneSector EXCEPT !.signature = Signed(FALSE, FALSE)]
Zeroes    == [OneSector EXCEPT !.bytes_per_sec = 0]
LargeDisk == [OneSector EXCEPT !.n_sectors = 0, !.sec_per_fat = 250,
                               !.signature = Signed(TRUE, TRUE)]

MCVolumes == {OneSector, ThreeSectors, Unsigned, Zeroes, LargeDisk}
=============================================================================

------------------------------- MODULE Stage1 -------------------------------
(***************************************************************************)
(* The boot sectors stage1/fat1x.s and stage1/fat32.s, which differ in the   *)
(* header only: they load the sectors of a list one by one from 0x7e00 on   *)
(* and jump there.                                                         *)
(*                                                                         *)
(* Abstracted: memory and bx count sectors of 512 bytes from 0x7e00, so     *)
(* that bx, of 16 bits, wraps at BX_SECTORS.  print is left out.               *)
(*                                                                         *)
(* External: the BIOS.  A reset may fail any number of times, a read any    *)
(* number of times too, and then may have spoilt what it should have read.  *)
(***************************************************************************)
EXTENDS Integers, Sequences

CONSTANTS
    BX_SECTORS,    \* the sectors that bx can address, 128
    AX_SECTORS,    \* the sectors that ax can count, 65536
    Disks,         \* geometries: records of sectors per track and heads
    Payloads       \* sector lists an installer may have written

Geometry == [spt : 1..63, heads : 1..256]
Extent   == {n \in Nat : n < AX_SECTORS} \X (1..128)
ASSUME DiskAssumption == Disks \subseteq Geometry
ASSUME PayloadAssumption == Payloads \subseteq Seq(Extent)
ASSUME WrapAssumption == BX_SECTORS \in Nat \ {0} /\ AX_SECTORS \in Nat \ {0}

Garbage == -1

VARIABLES
    disk,          \* external: the geometry the BIOS tells
    payload,       \* the sector list, whose length is sector_range_count
    load_pc,       \* where the loader is
    si,            \* the index of the range it is at
    bx,            \* where the next sector goes
    ax,            \* the logical sector, of 16 bits
    cx,            \* the sectors of the range that are still to be read
    chs,           \* _cyl, _sector and _head
    retries,       \* _retries
    memory,        \* external: the sector each place from 0x7e00 on holds
    loaded         \* ghost: the sectors read, in order

machine   == <<disk, payload>>
registers == <<si, bx, ax, cx, chs, retries>>
load_vars == <<disk, payload, load_pc, si, bx, ax, cx, chs, retries, memory, loaded>>

-----------------------------------------------------------------------------
(* The registers ch, cl and dh of INT 13, AH = 2: the two high bits of a     *)
(* cylinder are those of cl.                                                *)
Address(g, n) ==
    LET track == n \div g.spt
        cyl   == track \div g.heads
    IN  [ch |-> cyl % 256,
         cl |-> (n % g.spt) + 1 + 64 * ((cyl \div 256) % 4),
         dh |-> track % g.heads]

(* External: the sector of the disk that the BIOS reads.                     *)
SectorAt(g, a) ==
    LET cyl == a.ch + 256 * (a.cl \div 64)
    IN  (cyl * g.heads + a.dh) * g.spt + (a.cl % 64) - 1

(* What an installer has to see to: every sector of a list is one that the   *)
(* registers can name on the disk it is for.                                *)
Fits ==
    \A d \in Disks, p \in Payloads : \A k \in DOMAIN p :
        p[k][1] + p[k][2] <= (1024 * d.heads) * d.spt

-----------------------------------------------------------------------------
disk_reset ==
    /\ load_pc = "reset"
    /\ load_pc' = "params"
    /\ UNCHANGED <<machine, registers, memory, loaded>>

(* disk_get_params, and the test that there is a list.                       *)
disk_get_params ==
    /\ load_pc = "params"
    /\ load_pc' \in {"panic", IF payload = <<>> THEN "panic" ELSE "range"}
    /\ UNCHANGED <<machine, registers, memory, loaded>>

LoadRange ==
    /\ load_pc = "range"
    /\ ax' = payload[si][1] /\ cx' = payload[si][2]
    /\ load_pc' = "sector"
    /\ UNCHANGED <<machine, si, bx, chs, retries, memory, loaded>>

(* _read_sectors_loop *)
SetSector ==
    /\ load_pc = "sector"
    /\ chs' = Address(disk, ax)
    /\ retries' = 3
    /\ load_pc' = "try"
    /\ UNCHANGED <<machine, si, bx, ax, cx, memory, loaded>>

(* Mutant: the attempts begin again after every failure. *)
ReadFails_Restarts ==
    /\ load_pc = "try" /\ retries > 0
    /\ load_pc' = "sector"
    /\ UNCHANGED <<machine, registers, memory, loaded>>

ReadFails ==
    /\ load_pc = "try" /\ retries > 0
    /\ retries' = retries - 1
    /\ memory' \in {memory, [memory EXCEPT ![bx] = Garbage]}
    /\ UNCHANGED <<machine, load_pc, si, bx, ax, cx, chs, loaded>>

(* Mutant: a sector that fails is read into the next place. *)
Placed_Skips == (bx + 3 - retries) % BX_SECTORS

Placed == bx

ReadSucceeds ==
    /\ load_pc = "try" /\ retries > 0
    /\ retries' = retries - 1
    /\ memory' = [memory EXCEPT ![Placed] = SectorAt(disk, chs)]
    /\ loaded' = Append(loaded, ax)
    /\ bx' = (bx + 1) % BX_SECTORS
    /\ ax' = (ax + 1) % AX_SECTORS
    /\ cx' = cx - 1
    /\ load_pc' = IF cx' = 0 THEN "next" ELSE "sector"
    /\ UNCHANGED <<machine, si, chs>>

ReadGivesUp ==
    /\ load_pc = "try" /\ retries = 0
    /\ load_pc' = "panic"
    /\ UNCHANGED <<machine, registers, memory, loaded>>

(* The next range, or the self-check and the jump.                           *)
NextRange ==
    /\ load_pc = "next"
    /\ si' = si + 1
    /\ load_pc' = IF si < Len(payload) THEN "range" ELSE "stage2"
    /\ UNCHANGED <<machine, bx, ax, cx, chs, retries, memory, loaded>>

-----------------------------------------------------------------------------
LoadInit ==
    /\ disk \in Disks /\ payload \in Payloads
    /\ load_pc = "reset"
    /\ si = 1 /\ bx = 0 /\ ax = 0 /\ cx = 0 /\ retries = 0
    /\ chs = [ch |-> 0, cl |-> 0, dh |-> 0]
    /\ memory = [k \in 0..(BX_SECTORS - 1) |-> Garbage]
    /\ loaded = <<>>

LoadNext ==
    \/ disk_reset \/ disk_get_params
    \/ LoadRange \/ SetSector \/ ReadFails \/ ReadSucceeds \/ ReadGivesUp \/ NextRange

LoadSpec == LoadInit /\ [][LoadNext]_load_vars

-----------------------------------------------------------------------------
(* What was read is in memory, sector by sector from the start, however many *)
(* reads failed in between and whatever they left behind, as long as bx has  *)
(* not wrapped.                                                             *)
InOrder ==
    Len(loaded) < BX_SECTORS => \A k \in 1..Len(loaded) : memory[k - 1] = loaded[k]
=============================================================================

------------------------------ MODULE MemoryMap ------------------------------
(***************************************************************************)
(* load_memory_map of stage2.S: the calls of INT 15, EAX = E820 that fill   *)
(* the table of boot_information with the BIOS's map of the memory.         *)
(*                                                                         *)
(* The test of EBX behind a call clears the carry flag, so that the jump    *)
(* behind the test (stage2.S:93-95) is always taken: the code never sees    *)
(* the carry flag that the BIOS has set, and goes on until EBX is 0.        *)
(* Behind the table is the code of stage 2, of which nothing can be said    *)
(* once the loop has written there: such a run ends in "overrun".           *)
(*                                                                         *)
(* External: the BIOS, which gives one entry a call, of 24 bytes or, before *)
(* ACPI 3.0, of 20, and tells the end either by a 0 in EBX together with    *)
(* the last entry or by the carry flag in the call after it, with a 0 in    *)
(* EBX or with EBX as it was.                                               *)
(***************************************************************************)
EXTENDS Integers, Sequences

CONSTANTS
    MAP_SLOTS,     \* entries the table has room for, 32 in the code
    BiosMaps       \* the maps a BIOS may have

ASSUME SlotAssumption == MAP_SLOTS \in Nat \ {0}

(* An entry: whether it is usable memory, the ACPI bit, and its size.       *)
SMAPEntry == [base : Nat, usable : BOOLEAN, acpi : {0, 1}, bytes : {20, 24}]
ASSUME MapAssumption == BiosMaps \subseteq Seq(SMAPEntry) \ {<<>>}

Ends == {"zero", "carry", "kept"}

VARIABLES
    bios_map,      \* external: the map of this machine
    bios_end,      \* external: how this BIOS tells the end
    map_pc,        \* where load_memory_map is
    ebx,           \* the continuation value: the number of the next entry, or 0
    di,            \* the slot BIOS writes to
    bp,            \* the entries counted
    entries        \* the table, with the forced ACPI bit of unwritten slots

bios     == <<bios_map, bios_end>>
map_vars == <<bios_map, bios_end, map_pc, ebx, di, bp, entries>>

(* What a slot holds before BIOS writes to it: the ACPI bit is forced to 1.  *)
Blank == [base |-> 0, usable |-> FALSE, acpi |-> 1]

(* An entry of 20 bytes leaves the ACPI bit as it was.                       *)
Written(e) ==
    [base |-> e.base, usable |-> e.usable, acpi |-> IF e.bytes = 24 THEN e.acpi ELSE Blank.acpi]

(* One call: the entry asked for is written to slot n, or none is.           *)
StoreAt(n, value) == entries' = [entries EXCEPT ![n] = value]

(* What the call with i in EBX leaves there.                                 *)
Next_ebx(i) ==
    CASE i < Len(bios_map) -> i + 1
      [] i = Len(bios_map) -> IF bios_end = "zero" THEN 0 ELSE i + 1
      [] i > Len(bios_map) -> IF bios_end = "kept" THEN i ELSE 0

-----------------------------------------------------------------------------
(* The first call: no carry, SMAP in EAX, and more to come.                  *)
FirstCall ==
    /\ map_pc = "first"
    /\ StoreAt(0, Written(bios_map[1]))
    /\ ebx' = Next_ebx(1)
    /\ map_pc' = IF ebx' = 0 THEN "failed" ELSE "loop"
    /\ UNCHANGED <<bios, di, bp>>

NotSupported ==
    /\ map_pc = "first"
    /\ map_pc' = "failed"
    /\ StoreAt(0, Blank)
    /\ UNCHANGED <<bios, ebx, di, bp>>

(* The loop counts the entry before, moves on and calls again, until EBX is  *)
(* 0.                                                                       *)
(* Mutant: the entry just read is counted before the end is looked for, and  *)
(* again at the top of the loop.                                            *)
Counted_Twice == bp + 2

Counted == bp + 1

NextSlot == di + 1

LoopCall ==
    /\ map_pc = "loop"
    /\ bp' = Counted
    /\ di' = NextSlot
    /\ di' < MAP_SLOTS
    /\ StoreAt(di', IF ebx <= Len(bios_map) THEN Written(bios_map[ebx]) ELSE Blank)
    /\ ebx' = Next_ebx(ebx)
    /\ map_pc' = IF ebx' = 0 THEN "mapped" ELSE "loop"
    /\ UNCHANGED bios

(* The same turn with the table full.                                        *)
Overrun ==
    /\ map_pc = "loop"
    /\ bp' = Counted
    /\ di' = NextSlot
    /\ di' >= MAP_SLOTS
    /\ map_pc' = "overrun"
    /\ UNCHANGED <<bios, ebx, entries>>

-----------------------------------------------------------------------------
MapInit ==
    /\ bios_map \in BiosMaps /\ bios_end \in Ends
    /\ map_pc = "first"
    /\ ebx = 0 /\ di = 0 /\ bp = 0
    /\ entries = [k \in 0..(MAP_SLOTS - 1) |-> Blank]

MapNext == FirstCall \/ NotSupported \/ LoopCall \/ Overrun

MapSpec == MapInit /\ [][MapNext]_map_vars

-----------------------------------------------------------------------------
(* The slots that a loop which saw the end of the map would write to: one    *)
(* more than the entries where the carry flag tells the end.                 *)
SlotsNeeded == IF bios_end = "zero" THEN Len(bios_map) ELSE Len(bios_map) + 1

(* The entries main is told of are those of the BIOS, in order, with the     *)
(* ACPI bit set where the BIOS left it out.  Only the last one may be        *)
(* missing: the loop does not count it when EBX is 0 with it.  Nothing is    *)
(* written behind the table unless the map leaves no room in it or the BIOS  *)
(* ends it by the carry flag alone: as that flag is lost, such a BIOS is     *)
(* asked again until the table is overrun, and main is never reached.        *)
MapRead ==
    /\ map_pc = "mapped" =>
        /\ bios_end # "kept"
        /\ bp = IF bios_end = "zero" THEN Len(bios_map) - 1 ELSE Len(bios_map)
        /\ \A k \in 0..(bp - 1) : entries[k] = Written(bios_map[k + 1])
    /\ map_pc = "overrun" => bios_end = "kept" \/ SlotsNeeded > MAP_SLOTS
=============================================================================

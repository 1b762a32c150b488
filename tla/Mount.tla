-------------------------------- MODULE Mount --------------------------------
(***************************************************************************)
(* The command root of filesystem.c: fs_set_root of fs.c, fat_get_handle    *)
(* and fat_release_handle of fat.c, as callers of the allocator of memory.c *)
(* among others.  FAT is the only filesystem that registers.  All of it     *)
(* runs on the main thread; a step is a call of the allocator, so that the  *)
(* steps of a mount are steps of the allocator too.                         *)
(*                                                                         *)
(* Abstracted: of a device, whether it can be read and positioned, and of a *)
(* disk the numbers of its boot sector that fat_get_handle computes with.   *)
(* External: the disks, which may be changed and may fail to be read, and   *)
(* the other callers, who are idle while the command runs.                  *)
(***************************************************************************)
EXTENDS MemoryManager

CONSTANTS
    Volumes,       \* the boot sectors of the disks
    HANDLE         \* sizeof(FSHandle)

BootSector == [bytes_per_sec : Nat, sec_per_cluster : Nat, n_reserved_sec : Nat, n_fat : Nat,
               root_max_entries : Nat, n_sectors : Nat, sec_per_fat : Nat,
               signature : [{"fat1x", "fat32"} -> BOOLEAN]]

ASSUME VolumeAssumption == Volumes \subseteq BootSector

VARIABLES
    pc,            \* how far the command root is
    root,          \* the handle mounted: where it and its FAT are, or NoRoot
    fat,           \* fh.fat, the local of fat_get_handle
    null_written,  \* memory at address 0 was overwritten
    others         \* external: the blocks of the other callers

mountVars == <<vars, pc, root, fat, null_written, others>>

NoRoot == [handle |-> NULL, fat |-> NULL]

-----------------------------------------------------------------------------
(* What fat_get_handle makes of the boot sector. *)

(* The division of the code rounds up. *)
RootDirSectors(v) == ((v.root_max_entries * 32) + (v.bytes_per_sec - 1)) \div v.bytes_per_sec

SystemSectors(v) == v.n_reserved_sec + v.n_fat * v.sec_per_fat + RootDirSectors(v)

(* Below 0, data_sec is a huge unsigned number, and so is the number of     *)
(* clusters: the volume is taken for a FAT32.                               *)
FatType(v) ==
    LET data_sec   == v.n_sectors - SystemSectors(v)
        n_clusters == data_sec \div v.sec_per_cluster
    IN  IF data_sec < 0 THEN "FAT32"
        ELSE IF n_clusters < 4085 THEN "FAT12"
        ELSE IF n_clusters < 65525 THEN "FAT16"
        ELSE "FAT32"

Recognised(v) ==
    /\ v.bytes_per_sec # 0 /\ v.sec_per_cluster # 0
    /\ v.signature[IF FatType(v) = "FAT32" THEN "fat32" ELSE "fat1x"]

Supported(v) == Recognised(v) /\ FatType(v) # "FAT32"

FatSize(v) == v.sec_per_fat * v.bytes_per_sec

ASSUME FilesystemRequests ==
    /\ HANDLE \in Requests
    /\ \A v \in Volumes : Supported(v) => FatSize(v) \in Requests

-----------------------------------------------------------------------------
heap_free(ptr) == free_block(ptr) \/ free_unknown(ptr)

(* fs_set_root: a device without a function to seek or to read leaves the   *)
(* root as it is.                                                           *)
RootUnsuitable == pc = "idle" /\ UNCHANGED mountVars

RootCommand ==
    /\ pc = "idle"
    /\ pc' = IF root = NoRoot THEN "get_handle" ELSE "release_fat"
    /\ UNCHANGED <<vars, root, fat, null_written, others>>

(* Mutant: the table of the root released is not freed. *)
ReleaseFat_Not ==
    /\ pc = "release_fat"
    /\ pc' = "release_handle"
    /\ UNCHANGED <<vars, root, fat, null_written, others>>

ReleaseFat ==
    /\ pc = "release_fat"
    /\ heap_free(root.fat)
    /\ pc' = "release_handle"
    /\ UNCHANGED <<root, fat, null_written, others>>

(* Mutant: the root released is not forgotten. *)
ReleaseHandle_KeepsRoot ==
    /\ pc = "release_handle"
    /\ heap_free(root.handle)
    /\ pc' = "get_handle"
    /\ UNCHANGED <<root, fat, null_written, others>>

ReleaseHandle ==
    /\ pc = "release_handle"
    /\ heap_free(root.handle)
    /\ root' = NoRoot
    /\ pc' = "get_handle"
    /\ UNCHANGED <<fat, null_written, others>>

(* fat_get_handle: nothing is allocated for a disk that cannot be read or   *)
(* is not supported.                                                        *)
NoHandle ==
    /\ pc = "get_handle"
    /\ pc' = "idle"
    /\ UNCHANGED <<vars, root, fat, null_written, others>>

Unreadable == NoHandle

Unsupported(v) == ~Supported(v) /\ NoHandle

AllocateFat(v) ==
    /\ pc = "get_handle"
    /\ Supported(v)
    /\ malloc(FatSize(v))
    /\ fat' = Malloc(used, free, FatSize(v)).ptr
    /\ pc' = "read_fat"
    /\ UNCHANGED <<root, null_written, others>>

(* The table is read where malloc said, which may be address 0. *)
ReadFat ==
    /\ pc = "read_fat"
    /\ null_written' = (null_written \/ fat = NULL)
    /\ pc' = "make_handle"
    /\ UNCHANGED <<vars, root, fat, others>>

ReadFatFails ==
    /\ pc = "read_fat"
    /\ heap_free(fat)
    /\ fat' = NULL
    /\ pc' = "idle"
    /\ UNCHANGED <<root, null_written, others>>

(* An error of the root directory is not looked at.  The handle is copied   *)
(* where malloc said; one at address 0 is NULL to the caller.               *)
MakeHandle ==
    LET handle == Malloc(used, free, HANDLE).ptr
    IN  /\ pc = "make_handle"
        /\ malloc(HANDLE)
        /\ null_written' = (null_written \/ handle = NULL)
        /\ root' = IF handle = NULL THEN NoRoot ELSE [handle |-> handle, fat |-> fat]
        /\ fat' = NULL
        /\ pc' = "idle"
        /\ UNCHANGED others

-----------------------------------------------------------------------------
(* The other callers. *)

OtherMalloc(size) ==
    /\ pc = "idle"
    /\ malloc(size)
    /\ others' = others \cup (live' \ live)
    /\ UNCHANGED <<pc, root, fat, null_written>>

OtherFree(l) ==
    /\ pc = "idle"
    /\ free_block(l.ptr)
    /\ others' = others \ {l}
    /\ UNCHANGED <<pc, root, fat, null_written>>

OtherFreesNull ==
    /\ pc = "idle"
    /\ free_unknown(NULL)
    /\ UNCHANGED <<pc, root, fat, null_written, others>>

-----------------------------------------------------------------------------
MountInit ==
    /\ Init
    /\ pc = "idle"
    /\ root = NoRoot /\ fat = NULL
    /\ null_written = FALSE
    /\ others = {}

MountNext ==
    \/ RootUnsuitable \/ RootCommand
    \/ ReleaseFat \/ ReleaseHandle
    \/ Unreadable \/ \E v \in Volumes : Unsupported(v) \/ AllocateFat(v)
    \/ ReadFat \/ ReadFatFails
    \/ MakeHandle
    \/ \E size \in Requests : OtherMalloc(size)
    \/ \E l \in others : OtherFree(l)
    \/ OtherFreesNull

MountSpec == MountInit /\ [][MountNext]_mountVars

-----------------------------------------------------------------------------
BlocksOf(r) == {r.handle, r.fat} \ {NULL}

(* While the command is not running, the handle mounted and its table are   *)
(* blocks in use, neither released nor another caller's, through mounts     *)
(* that replace the root, fail, or find no memory.                          *)
RootAlive ==
    pc = "idle" => BlocksOf(root) \subseteq {l.ptr : l \in live \ others}

(* Every other block the filesystem got from malloc was given back, as long *)
(* as malloc had memory.                                                    *)
NothingLeaked ==
    pc = "idle" /\ ~null_written => {l.ptr : l \in live \ others} \subseteq BlocksOf(root)
=============================================================================

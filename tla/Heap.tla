-------------------------------- MODULE Heap --------------------------------
(***************************************************************************)
(* What malloc and free promise their callers, whatever the lists behind    *)
(* them look like: a block handed out is made of available bytes, so that   *)
(* no two blocks in use overlap, and a byte becomes available again only    *)
(* by being part of a block that is released.  A request may be refused,    *)
(* and the allocator may keep bytes for itself.                             *)
(***************************************************************************)
EXTENDS Integers

CONSTANTS
    Addresses,   \* the bytes of memory
    Sizes        \* the sizes of the requests

VARIABLES
    live,        \* the blocks in the callers' hands: their first byte and size
    avail        \* the bytes that can be handed out

vars == <<live, avail>>

Block == [ptr : Addresses, size : Sizes]

Bytes(b) == b.ptr .. (b.ptr + b.size - 1)

Init ==
    /\ live = {}
    /\ avail \subseteq Addresses

Allocate(b) ==
    /\ b \notin live
    /\ Bytes(b) \subseteq avail
    /\ avail' \subseteq avail \ Bytes(b)
    /\ live' = live \cup {b}

(* A release gives back the block, and whatever the allocator kept that no   *)
(* other caller holds.                                                      *)
Release(b) ==
    /\ b \in live
    /\ live' = live \ {b}
    /\ avail' \subseteq Addresses
    /\ \A c \in live' : Bytes(c) \cap avail' = {}

Next ==
    \/ \E b \in Block : Allocate(b)
    \/ \E b \in live : Release(b)

Spec == Init /\ [][Next]_vars

-----------------------------------------------------------------------------
(* Two blocks in use never overlap, and no byte of one is available. *)
Separate ==
    /\ \A b, c \in live : b # c => Bytes(b) \cap Bytes(c) = {}
    /\ \A b \in live : Bytes(b) \cap avail = {}
=============================================================================

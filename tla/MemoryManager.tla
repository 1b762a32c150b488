--------------------------- MODULE MemoryManager ---------------------------
(***************************************************************************)
(* memory.c: the pool chosen from the BIOS memory map and the allocator     *)
(* that serves it, one list of used blocks and one of free blocks.  Calls   *)
(* come from the main thread only, so a call is one step.                   *)
(*                                                                         *)
(* A used block begins with its own node.  A node of the free list is kept  *)
(* elsewhere: the first one in the space left at the start of the pool, the *)
(* others in blocks free() gets from malloc.  Only the order of the free    *)
(* list matters, so the used list is a set.  Addresses are counted in bytes *)
(* and the sizes are scaled down; NODE is sizeof(MemoryBlockNode), and      *)
(* adding n to a MemoryBlockNode pointer adds n * NODE to the address.      *)
(*                                                                         *)
(* External: the callers, who ask for a few sizes, free each block they     *)
(* hold at most once, and may free NULL.                                    *)
(***************************************************************************)
EXTENDS Integers, Sequences, FiniteSetsExt, SequencesExt

CONSTANTS
    NODE,          \* sizeof(MemoryBlockNode), 16 in the code
    MEGABYTE,      \* 0x100000 in the code
    WORD,          \* 2^32 in the code: pointers and size_t are 32 bits
    MemoryMaps,    \* the memory maps the BIOS may report: sequences of entries
    Requests       \* the sizes callers ask for

Entry == [base : Nat, length : Nat, usable : BOOLEAN]

ASSUME SizeAssumption == NODE \in Nat \ {0} /\ MEGABYTE \in Nat \ {0} /\ WORD \in Nat \ {0}
ASSUME MapAssumption == MemoryMaps \subseteq Seq(Entry)
ASSUME RequestAssumption == Requests \subseteq Nat \ {0}

NULL == 0

VARIABLES
    pool,        \* mem_pool, the entry of the memory map that is served
    used,        \* mem_used_blocks_list: [start, size]
    free,        \* mem_free_blocks_list: [node, start, size], first one first
    live         \* external: the blocks callers hold, [ptr, size]

vars == <<pool, used, free, live>>

-----------------------------------------------------------------------------
(* mm_initialize: the loop over the map has no break. *)
Candidates(map) == {i \in DOMAIN map : map[i].usable /\ map[i].base >= MEGABYTE}

MemPool(map) == map[CHOOSE i \in Candidates(map) : \A j \in Candidates(map) : j <= i]

(* The address of the first free node and of the first free byte. *)
FirstNode(base) == base + NODE * NODE
FirstFree(base) == FirstNode(base) + NODE * NODE

InitialUsed(p) == {[start |-> p.base % WORD, size |-> NODE]}

InitialFree(p) ==
    LET start == FirstFree(p.base % WORD)
    IN  <<[node  |-> FirstNode(p.base % WORD),
           start |-> start,
           size  |-> (p.length - start) % WORD]>>

(* A map without a candidate ends in panic(), before anything is served.    *)
Init ==
    \E map \in MemoryMaps :
        /\ Candidates(map) # {}
        /\ pool = MemPool(map)
        /\ used = InitialUsed(pool)
        /\ free = InitialFree(pool)
        /\ live = {}

-----------------------------------------------------------------------------
First(S) == CHOOSE i \in S : \A j \in S : i <= j

Fits(n, block_size) == n.size >= block_size

Fit(f, block_size) == {i \in DOMAIN f : Fits(f[i], block_size)}

(* Mutant: no room is reserved for the header. *)
BlockSize_NoHeader(size) == size

BlockSize(size) == size + NODE

(* The block is cut from the front of the free one.  A size_t is never      *)
(* below 0, so the code that removes a node with nothing left never runs.   *)
Cut(n, block_size) ==
    [n EXCEPT !.start = @ + block_size, !.size = @ - block_size]

(* What malloc(size) makes of the lists u and f, and what it returns.       *)
Malloc(u, f, size) ==
    LET bs  == BlockSize(size)
        fit == Fit(f, bs)
        i   == First(fit)
    IN  IF fit = {}
        THEN [used |-> u, free |-> f, ptr |-> NULL]
        ELSE [used |-> u \cup {[start |-> f[i].start, size |-> bs]},
              free |-> [f EXCEPT ![i] = Cut(f[i], bs)],
              ptr  |-> f[i].start + NODE]

Before(n, b) == n.start + n.size = b.start
After(n, b)  == b.start + b.size = n.start

Adjacent(f, b) == {i \in DOMAIN f : Before(f[i], b) \/ After(f[i], b)}

(* Mutant: a block merged in front of a free one does not move its start.   *)
Merge_KeepsStart(n, b) == [n EXCEPT !.size = @ + b.size]

Merge(n, b) ==
    IF Before(n, b) THEN [n EXCEPT !.size = @ + b.size]
                    ELSE [n EXCEPT !.size = @ + b.size, !.start = b.start]

(* A node for block b at the front of the list.  When malloc has no room    *)
(* for it, the code writes the node through NULL, at address 0, and leaves  *)
(* NULL as the head of the list.                                            *)
(* Mutant: the node of a free block is kept inside the block itself.        *)
NewNode_Inside(u, f, b) ==
    [used |-> u,
     free |-> <<[node |-> b.start, start |-> b.start, size |-> b.size]>> \o f]

NewNode(u, f, b) ==
    LET m == Malloc(u, f, NODE)
    IN  [used |-> m.used,
         free |-> IF m.ptr = NULL THEN <<>>
                  ELSE <<[node |-> m.ptr, start |-> b.start, size |-> b.size]>> \o m.free]

(* Mutant: a block too small to be worth a node is dropped from both lists. *)
Release_DropsSmall(u, f, b) ==
    LET adjacent == Adjacent(f, b)
        i == First(adjacent)
    IN  IF adjacent # {}
        THEN [used |-> u, free |-> [f EXCEPT ![i] = Merge(f[i], b)]]
        ELSE IF b.size < 2 * NODE THEN [used |-> u, free |-> f]
        ELSE NewNode(u, f, b)

Release(u, f, b) ==
    LET adjacent == Adjacent(f, b)
        i == First(adjacent)
    IN  IF adjacent # {}
        THEN [used |-> u, free |-> [f EXCEPT ![i] = Merge(f[i], b)]]
        ELSE NewNode(u, f, b)

-----------------------------------------------------------------------------
malloc(size) ==
    LET m == Malloc(used, free, size)
    IN  /\ used' = m.used
        /\ free' = m.free
        /\ live' = IF m.ptr = NULL THEN live
                   ELSE live \cup {[ptr |-> m.ptr, size |-> size]}
        /\ UNCHANGED pool

Node(ptr) == {b \in used : b.start = ptr - NODE}

free_block(ptr) ==
    \E b \in Node(ptr) :
        LET r == Release(used \ {b}, free, b)
        IN  /\ used' = r.used
            /\ free' = r.free
            /\ live' = {l \in live : l.ptr # ptr}
            /\ UNCHANGED pool

free_unknown(ptr) ==
    /\ Node(ptr) = {}
    /\ UNCHANGED vars

Next ==
    \/ \E size \in Requests : malloc(size)
    \/ \E l \in live : free_block(l.ptr)
    \/ free_unknown(NULL)

Spec == Init /\ [][Next]_vars

-----------------------------------------------------------------------------
Extent(b) == b.start .. (b.start + b.size - 1)

Held(l) == l.ptr .. (l.ptr + l.size - 1)

PoolBytes == pool.base .. (pool.base + pool.length - 1)

UsableBytes == UNION {Extent(free[i]) : i \in DOMAIN free}

TypeOK ==
    /\ pool \in Entry
    /\ \A b \in used : b \in [start : Nat, size : Nat]
    /\ \A i \in DOMAIN free : free[i] \in [node : Nat, start : Nat, size : Nat]
    /\ \A l \in live : l \in [ptr : Nat \ {NULL}, size : Requests]

(* No byte is in two blocks: used blocks, free blocks and the one with the  *)
(* other are disjoint and inside the pool, through every sequence of cuts   *)
(* and merges.                                                              *)
BlocksDisjoint ==
    /\ \A b, c \in used : b # c => Extent(b) \cap Extent(c) = {}
    /\ \A i, j \in DOMAIN free : i # j => Extent(free[i]) \cap Extent(free[j]) = {}
    /\ \A b \in used : \A i \in DOMAIN free : Extent(b) \cap Extent(free[i]) = {}
    /\ \A b \in used : Extent(b) \subseteq PoolBytes
    /\ UsableBytes \subseteq PoolBytes

NodeBytes(n) == n.node .. (n.node + NODE - 1)

(* The nodes of the free list are safe where they are: no node lies in      *)
(* memory that malloc can hand out, in the bytes of a caller, or in another *)
(* node.                                                                    *)
NodesSafe ==
    \A i \in DOMAIN free :
        /\ NodeBytes(free[i]) \cap UsableBytes = {}
        /\ \A l \in live : NodeBytes(free[i]) \cap Held(l) = {}
        /\ \A j \in DOMAIN free : i # j => NodeBytes(free[i]) \cap NodeBytes(free[j]) = {}

SumSizes(S) == MapThenSumSet(LAMBDA b : b.size, S)
FreeTotal == FoldSeq(LAMBDA n, t : n.size + t, 0, free)

(* mm_allocatable_free and mm_allocatable_used: between them they report    *)
(* the whole pool, until a free() finds no room for a node; and no used     *)
(* block is forgotten: each one is the first, a caller's, or holds a node.  *)
Accounted ==
    free # <<>> =>
        /\ FreeTotal + SumSizes(used) = InitialFree(pool)[1].size + NODE
        /\ \A b \in used :
               \/ b \in InitialUsed(pool)
               \/ \E l \in live : l.ptr = b.start + NODE
               \/ \E i \in DOMAIN free : free[i].node = b.start + NODE

(* The allocator keeps the promise of Heap. *)
H == INSTANCE Heap WITH
        Addresses <- 0..(WORD - 1),
        Sizes     <- Requests,
        live      <- live,
        avail     <- UsableBytes
ImplementsHeap == H!Spec

-----------------------------------------------------------------------------
(* memory.c:127 and 137 of a free block used to the last byte: "Have we     *)
(* used all the block?", "Node deleted. Free the memory".                   *)
UsedUpNodeDeleted == \A i \in DOMAIN free : free[i].size > 0
=============================================================================

---------------------------- MODULE MemoryProofs ----------------------------
(***************************************************************************)
(* Theorems about the allocator, for every memory map, size of a node and   *)
(* set of requests, as long as the pools are in reach of a pointer and hold *)
(* what mm_initialize takes off their length; and about the command root as *)
(* its caller: its calls are those the allocator is proved for, and it      *)
(* neither uses a block it gave back nor forgets one.                       *)
(***************************************************************************)
EXTENDS Mount, Arithmetic, SequenceTheorems

FreeNode  == [node : Nat, start : Nat, size : Nat]
UsedBlock == [start : Nat, size : Nat \ {0}]

(* The blocks share no byte.  A free block of size 0 has none.              *)
Apart(b, c) ==
    \/ b.size = 0 \/ c.size = 0
    \/ b.start + b.size <= c.start
    \/ c.start + c.size <= b.start

Inside(b) == pool.base <= b.start /\ b.start + b.size <= pool.base + pool.length

(* Two lists the allocator may have: typed, apart and inside the pool.      *)
Sound(u, f) ==
    /\ pool \in Entry
    /\ u \subseteq UsedBlock /\ f \in Seq(FreeNode)
    /\ \A b, c \in u : b # c => Apart(b, c)
    /\ \A i, j \in DOMAIN f : i # j => Apart(f[i], f[j])
    /\ \A b \in u : \A i \in DOMAIN f : Apart(b, f[i])
    /\ \A b \in u : Inside(b)
    /\ \A i \in DOMAIN f : Inside(f[i])

-----------------------------------------------------------------------------
(* What malloc does with a list, and with the free block it cuts. *)

LEMMA FirstOf ==
    ASSUME NEW S \in SUBSET Nat, S # {}
    PROVE  First(S) \in S
BY Least DEF First

LEMMA MallocFacts ==
    ASSUME NEW f \in Seq(FreeNode), NEW u, NEW size \in Nat
    PROVE  \/ Malloc(u, f, size) = [used |-> u, free |-> f, ptr |-> NULL]
           \/ \E i \in DOMAIN f :
                /\ f[i].size >= size + NODE
                /\ Malloc(u, f, size) =
                     [used |-> u \cup {[start |-> f[i].start, size |-> size + NODE]},
                      free |-> [f EXCEPT ![i] = Cut(f[i], size + NODE)],
                      ptr  |-> f[i].start + NODE]
<1> DEFINE fit == Fit(f, size + NODE)
<1>1. CASE fit = {}
  BY <1>1 DEF Malloc, BlockSize
<1>2. CASE fit # {}
  <2>1. fit \in SUBSET Nat
    BY DEF Fit
  <2>2. First(fit) \in DOMAIN f /\ f[First(fit)].size >= size + NODE
    BY <1>2, <2>1, FirstOf DEF Fit, Fits
  <2> QED BY <1>2, <2>2 DEF Malloc, BlockSize
<1> QED BY <1>1, <1>2

LEMMA CutSound ==
    ASSUME NEW u, NEW f, Sound(u, f),
           NEW i \in DOMAIN f, NEW n \in Nat \ {0}, f[i].size >= n
    PROVE  /\ [start |-> f[i].start, size |-> n] \notin u
           /\ Sound(u \cup {[start |-> f[i].start, size |-> n]},
                       [f EXCEPT ![i] = Cut(f[i], n)])
<1> DEFINE b == [start |-> f[i].start, size |-> n]
           c == Cut(f[i], n)
           g == [f EXCEPT ![i] = c]
<1>0. f[i] \in FreeNode
  BY DEF Sound
<1>1. b.start = f[i].start /\ b.size = n /\ b \in UsedBlock
  BY <1>0 DEF FreeNode, UsedBlock
<1>2. \A x \in FreeNode :
          /\ Cut(x, n).node = x.node
          /\ Cut(x, n).start = x.start + n
          /\ Cut(x, n).size = x.size - n
          /\ x.size >= n => Cut(x, n) \in FreeNode
  <2> SUFFICES ASSUME NEW x \in FreeNode
               PROVE  /\ Cut(x, n).node = x.node
                      /\ Cut(x, n).start = x.start + n
                      /\ Cut(x, n).size = x.size - n
                      /\ x.size >= n => Cut(x, n) \in FreeNode
    OBVIOUS
  <2>1. Cut(x, n).node = x.node /\ Cut(x, n).start = x.start + n /\ Cut(x, n).size = x.size - n
    BY DEF Cut, FreeNode
  <2>2. x.start + n \in Nat /\ (x.size >= n => x.size - n \in Nat)
    BY DEF FreeNode
  <2>3. x.size >= n => Cut(x, n) \in FreeNode
    BY <2>2 DEF Cut, FreeNode
  <2> QED BY <2>1, <2>3
<1>3. /\ c.start = f[i].start + n /\ c.size = f[i].size - n /\ c.node = f[i].node
      /\ f[i].start \in Nat /\ f[i].size \in Nat /\ f[i].size >= n /\ f[i].node \in Nat
  BY <1>0, <1>2 DEF FreeNode
<1>4. c \in FreeNode
  BY <1>0, <1>2
<1>5. g \in Seq(FreeNode) /\ DOMAIN g = DOMAIN f /\ g[i] = c
      /\ \A j \in DOMAIN f : j # i => g[j] = f[j]
  BY <1>4 DEF Sound
<1>6. \A x \in UsedBlock \cup FreeNode : x.start \in Nat /\ x.size \in Nat
  BY DEF UsedBlock, FreeNode
<1> HIDE DEF b, c
<1>7. \A x \in UsedBlock \cup FreeNode : Apart(x, f[i]) => Apart(x, b) /\ Apart(x, c)
  BY <1>1, <1>3, <1>6 DEF Apart
<1>8. Apart(b, c) /\ Apart(c, b)
  BY <1>1, <1>3 DEF Apart
<1>9. Inside(b) /\ Inside(c)
  <2>1. pool.base \in Nat /\ pool.length \in Nat
    BY DEF Sound, Entry
  <2>2. pool.base <= f[i].start /\ f[i].start + f[i].size <= pool.base + pool.length
    BY DEF Sound, Inside
  <2> QED BY <1>1, <1>3, <2>1, <2>2 DEF Inside
<1>10. \A x, y \in UsedBlock \cup FreeNode : Apart(x, y) => Apart(y, x)
  BY <1>6 DEF Apart
<1>11. \A j \in DOMAIN f : f[j] \in FreeNode
  BY DEF Sound
<1>12. b \notin u
  <2>1. ~Apart(b, f[i])
    BY <1>1, <1>3 DEF Apart
  <2> QED BY <2>1 DEF Sound
<1> HIDE DEF g
<1>13. u \cup {b} \subseteq UsedBlock /\ \A x \in u \cup {b} : Inside(x)
  BY <1>1, <1>9 DEF Sound
<1>14. \A x, y \in u \cup {b} : x # y => Apart(x, y)
  <2>1. \A x \in u : Apart(x, b) /\ Apart(b, x)
    BY <1>1, <1>7, <1>10 DEF Sound
  <2> QED BY <2>1 DEF Sound
<1>15. \A j, k \in DOMAIN g : j # k => Apart(g[j], g[k])
  <2>1. \A j \in DOMAIN f : j # i => Apart(f[j], c) /\ Apart(c, f[j])
    BY <1>4, <1>7, <1>10, <1>11 DEF Sound
  <2> QED BY <1>5, <2>1 DEF Sound
<1>16. \A x \in u \cup {b} : \A j \in DOMAIN g : Apart(x, g[j])
  <2>1. \A x \in u : Apart(x, c)
    BY <1>7 DEF Sound
  <2>2. \A j \in DOMAIN f : j # i => Apart(b, f[j])
    BY <1>1, <1>7, <1>10, <1>11 DEF Sound
  <2> QED BY <1>5, <1>8, <2>1, <2>2 DEF Sound
<1>17. \A j \in DOMAIN g : Inside(g[j])
  BY <1>5, <1>9 DEF Sound
<1>18. Sound(u \cup {b}, g)
  BY <1>5, <1>13, <1>14, <1>15, <1>16, <1>17 DEF Sound
<1> QED BY <1>12, <1>18 DEF b, c, g

LEMMA MergeSound ==
    ASSUME NEW u, NEW f, NEW b, b \notin u, Sound(u \cup {b}, f), NEW i \in Adjacent(f, b)
    PROVE  Sound(u, [f EXCEPT ![i] = Merge(f[i], b)])
<1> DEFINE c == Merge(f[i], b)
           g == [f EXCEPT ![i] = c]
<1>0. i \in DOMAIN f /\ (Before(f[i], b) \/ After(f[i], b)) /\ b \in UsedBlock
  BY DEF Adjacent, Sound
<1>1. f[i] \in FreeNode /\ f[i].start \in Nat /\ f[i].size \in Nat /\ f[i].node \in Nat
  <2>1. f[i] \in FreeNode
    BY <1>0 DEF Sound
  <2> QED BY <2>1 DEF FreeNode
<1>2. b.start \in Nat /\ b.size \in Nat \ {0}
  BY <1>0 DEF UsedBlock
<1>3. \/ /\ f[i].start + f[i].size = b.start
         /\ c = [node |-> f[i].node, start |-> f[i].start, size |-> f[i].size + b.size]
      \/ /\ b.start + b.size = f[i].start
         /\ c = [node |-> f[i].node, start |-> b.start, size |-> f[i].size + b.size]
  BY <1>0, <1>1 DEF Merge, Before, After, FreeNode
<1>4. c \in FreeNode
  BY <1>1, <1>2, <1>3 DEF FreeNode
<1>5. g \in Seq(FreeNode) /\ DOMAIN g = DOMAIN f /\ g[i] = c
      /\ \A j \in DOMAIN f : j # i => g[j] = f[j]
  BY <1>0, <1>4 DEF Sound
<1>6. \A x \in UsedBlock \cup FreeNode : x.start \in Nat /\ x.size \in Nat
  BY DEF UsedBlock, FreeNode
<1>7. \/ f[i].start + f[i].size = b.start /\ c.start = f[i].start /\ c.size = f[i].size + b.size
      \/ b.start + b.size = f[i].start /\ c.start = b.start /\ c.size = f[i].size + b.size
  BY <1>3
<1> HIDE DEF c
<1>8. \A x \in UsedBlock \cup FreeNode : Apart(x, f[i]) /\ Apart(x, b) => Apart(x, c)
  BY <1>1, <1>2, <1>6, <1>7 DEF Apart
<1>9. Inside(c)
  <2>1. pool.base \in Nat /\ pool.length \in Nat
    BY DEF Sound, Entry
  <2>2. /\ pool.base <= f[i].start /\ f[i].start + f[i].size <= pool.base + pool.length
        /\ pool.base <= b.start /\ b.start + b.size <= pool.base + pool.length
    BY <1>0 DEF Sound, Inside
  <2> QED BY <1>1, <1>2, <1>7, <2>1, <2>2 DEF Inside
<1>10. \A x, y \in UsedBlock \cup FreeNode : Apart(x, y) => Apart(y, x)
  BY <1>6 DEF Apart
<1>11. \A j \in DOMAIN f : f[j] \in FreeNode /\ Apart(f[j], b)
  BY <1>0, <1>10 DEF Sound
<1> HIDE DEF g
<1>12. \A j, k \in DOMAIN g : j # k => Apart(g[j], g[k])
  <2>1. \A j \in DOMAIN f : j # i => Apart(f[j], c) /\ Apart(c, f[j])
    BY <1>0, <1>4, <1>8, <1>10, <1>11 DEF Sound
  <2> QED BY <1>5, <2>1 DEF Sound
<1>13. \A x \in u : \A j \in DOMAIN g : Apart(x, g[j])
  <2>1. \A x \in u : Apart(x, c)
    BY <1>0, <1>8 DEF Sound
  <2> QED BY <1>5, <2>1 DEF Sound
<1>14. \A j \in DOMAIN g : Inside(g[j])
  BY <1>5, <1>9 DEF Sound
<1>15. Sound(u, g)
  BY <1>5, <1>12, <1>13, <1>14 DEF Sound
<1> QED BY <1>15 DEF c, g

LEMMA ListedSound ==
    ASSUME NEW u, NEW f, NEW b, b \notin u, Sound(u \cup {b}, f), NEW n \in Nat
    PROVE  Sound(u, <<[node |-> n, start |-> b.start, size |-> b.size]>> \o f)
<1> DEFINE c == [node |-> n, start |-> b.start, size |-> b.size]
           g == <<c>> \o f
<1>1. b.start \in Nat /\ b.size \in Nat \ {0} /\ b \in UsedBlock
  BY DEF Sound, UsedBlock
<1>2. c \in FreeNode /\ c.start = b.start /\ c.size = b.size
  BY <1>1 DEF FreeNode
<1>3. f \in Seq(FreeNode) /\ Len(f) \in Nat
  BY DEF Sound
<1>4. /\ g \in Seq(FreeNode) /\ DOMAIN g = 1..(Len(f) + 1) /\ g[1] = c
      /\ \A j \in 2..(Len(f) + 1) : g[j] = f[j - 1] /\ j - 1 \in DOMAIN f
  BY <1>2, <1>3
<1>5. \A x : (Apart(x, b) => Apart(x, c)) /\ (Apart(b, x) => Apart(c, x))
  BY <1>2 DEF Apart
<1>6. Inside(c)
  BY <1>2 DEF Sound, Inside
<1> HIDE DEF c, g
<1>7. \A x, y \in UsedBlock \cup FreeNode : Apart(x, y) => Apart(y, x)
  BY DEF Apart, UsedBlock, FreeNode
<1>8. \A j \in DOMAIN f : Apart(c, f[j]) /\ Apart(f[j], c)
  <2>1. \A j \in DOMAIN f : f[j] \in FreeNode /\ Apart(b, f[j])
    BY DEF Sound
  <2> QED BY <1>2, <1>5, <1>7, <2>1
<1>9. \A x \in u : Apart(x, c)
  BY <1>5 DEF Sound
<1>10. \A j \in DOMAIN g : j = 1 \/ j \in 2..(Len(f) + 1)
  BY <1>3, <1>4
<1>11. \A j, k \in DOMAIN g : j # k => Apart(g[j], g[k])
  <2> SUFFICES ASSUME NEW j \in DOMAIN g, NEW k \in DOMAIN g, j # k
               PROVE  Apart(g[j], g[k])
    OBVIOUS
  <2>1. CASE j = 1
    BY <1>4, <1>8, <1>10, <2>1
  <2>2. CASE k = 1
    BY <1>4, <1>8, <1>10, <2>2
  <2>3. CASE j # 1 /\ k # 1
    <3>1. g[j] = f[j - 1] /\ g[k] = f[k - 1] /\ j - 1 \in DOMAIN f /\ k - 1 \in DOMAIN f
      BY <1>4, <1>10, <2>3
    <3>2. j - 1 # k - 1
      BY <1>4
    <3> QED BY <3>1, <3>2 DEF Sound
  <2> QED BY <2>1, <2>2, <2>3
<1>12. \A x \in u : \A j \in DOMAIN g : Apart(x, g[j])
  BY <1>4, <1>9, <1>10 DEF Sound
<1>13. \A j \in DOMAIN g : Inside(g[j])
  BY <1>4, <1>6, <1>10 DEF Sound
<1>14. Sound(u, g)
  BY <1>4, <1>11, <1>12, <1>13 DEF Sound
<1> QED BY <1>14 DEF c, g

-----------------------------------------------------------------------------
(* The inductive invariant: the lists are sound together with the space at   *)
(* the start of the pool where the first node is; each block of a caller and *)
(* each node but that one is in a used block of its own.                    *)

Reserved == [start |-> FirstNode(pool.base), size |-> NODE * NODE]

HomeOf(l)   == [start |-> l.ptr - NODE, size |-> l.size + NODE]
NodeHome(n) == [start |-> n.node - NODE, size |-> NODE + NODE]

PoolOK == pool \in Entry /\ pool.base >= MEGABYTE /\ pool.base + pool.length <= WORD

ListsOK == Reserved \notin used /\ Sound(used \cup {Reserved}, free)

LiveOK ==
    \A l \in live :
        /\ l \in [ptr : Nat, size : Requests]
        /\ NODE <= l.ptr /\ HomeOf(l) \in used

NodesOK(u, f) ==
    /\ \A i \in DOMAIN f :
          \/ f[i].node = FirstNode(pool.base)
          \/ NODE <= f[i].node /\ NodeHome(f[i]) \in u
    /\ \A i, j \in DOMAIN f : i # j => f[i].node # f[j].node

Away == \A l \in live : \A i \in DOMAIN free : l.ptr # free[i].node

MMInv == PoolOK /\ ListsOK /\ LiveOK /\ NodesOK(used, free) /\ Away

LEMMA Sizes ==
    /\ NODE \in Nat \ {0} /\ MEGABYTE \in Nat \ {0} /\ WORD \in Nat \ {0}
    /\ NODE * NODE \in Nat /\ NODE * NODE >= NODE
<1>1. NODE \in Nat /\ NODE >= 1
  BY SizeAssumption
<1>2. NODE * NODE >= NODE * 1
  BY <1>1
<1> QED BY <1>1, <1>2, SizeAssumption

(* What both uses of malloc have in common, of n bytes of the free block i:  *)
(* v are all the blocks in use, u those among which the nodes are.          *)
Allocates(u, v, f, i, n) ==
    LET b == [start |-> f[i].start, size |-> n]
        g == [f EXCEPT ![i] = Cut(f[i], n)]
    IN  /\ b \notin v /\ Sound(v \cup {b}, g) /\ NodesOK(u \cup {b}, g)
        /\ DOMAIN g = DOMAIN f
        /\ \A j \in DOMAIN f : g[j].node = f[j].node /\ f[j].node # f[i].start + NODE
        /\ \A x \in v : x.start # f[i].start

LEMMA Allocated ==
    ASSUME NEW u, NEW v, NEW f, NEW i \in DOMAIN f, NEW n \in Nat,
           pool \in Entry, Sound(v, f), Reserved \in v, NodesOK(u, f), u \subseteq v,
           f[i].size >= n, n > NODE
    PROVE  Allocates(u, v, f, i, n)
<1> DEFINE b == [start |-> f[i].start, size |-> n]
           c == Cut(f[i], n)
           g == [f EXCEPT ![i] = c]
<1>1. n \in Nat \ {0} /\ n > NODE /\ NODE \in Nat \ {0} /\ NODE * NODE \in Nat \ {0}
  BY Sizes
<1>2. b \notin v /\ Sound(v \cup {b}, g)
  BY <1>1, CutSound
<1>3. f \in Seq(FreeNode) /\ f[i] \in FreeNode
  BY DEF Sound
<1>4. c.node = f[i].node
  BY <1>3 DEF Cut, FreeNode
<1>5. DOMAIN g = DOMAIN f /\ \A j \in DOMAIN f : g[j].node = f[j].node
  BY <1>3, <1>4
<1>6. \A x \in v : x.start # f[i].start
  <2>1. \A x \in v : x.start \in Nat /\ x.size \in Nat \ {0} /\ Apart(x, f[i])
    BY DEF Sound, UsedBlock
  <2>2. f[i].start \in Nat /\ f[i].size \in Nat /\ f[i].size > 0
    BY <1>1, <1>3 DEF FreeNode
  <2> QED BY <2>1, <2>2 DEF Apart
<1>7. \A j \in DOMAIN f : f[j].node # f[i].start + NODE
  <2> SUFFICES ASSUME NEW j \in DOMAIN f, f[j].node = f[i].start + NODE PROVE FALSE
    OBVIOUS
  <2>0. f[i].start \in Nat /\ f[i].size \in Nat /\ f[i].size > NODE
    BY <1>1, <1>3 DEF FreeNode
  <2>1. CASE f[j].node = FirstNode(pool.base)
    <3>1. Apart(Reserved, f[i])
      BY DEF Sound
    <3>2. Reserved.start = f[i].start + NODE /\ Reserved.size = NODE * NODE
      BY <2>1 DEF Reserved
    <3> HIDE DEF Reserved
    <3> QED BY <1>1, <2>0, <3>1, <3>2 DEF Apart
  <2>2. CASE NodeHome(f[j]) \in u
    <3>1. NodeHome(f[j]).start = f[i].start
      BY <1>1, <2>0 DEF NodeHome
    <3> QED BY <1>6, <2>2, <3>1
  <2> QED BY <2>1, <2>2 DEF NodesOK
<1>8. NodesOK(u \cup {b}, g)
  <2>1. \A j \in DOMAIN f : NodeHome(g[j]) = NodeHome(f[j])
    BY <1>5 DEF NodeHome
  <2> HIDE DEF b, g
  <2> QED BY <1>5, <2>1 DEF NodesOK
<1> HIDE DEF b, g
<1>9. /\ b \notin v /\ Sound(v \cup {b}, g) /\ NodesOK(u \cup {b}, g)
      /\ DOMAIN g = DOMAIN f
      /\ \A j \in DOMAIN f : g[j].node = f[j].node /\ f[j].node # f[i].start + NODE
      /\ \A x \in v : x.start # f[i].start
  BY <1>2, <1>5, <1>6, <1>7, <1>8
<1> QED BY <1>9 DEF Allocates, b, g, c

-----------------------------------------------------------------------------
LastOf(map) == {i \in Candidates(map) : \A j \in Candidates(map) : j <= i}

(* The pool is in reach of a pointer, and longer than the address of the     *)
(* first byte that is handed out: the code takes that address off its       *)
(* length, not the space before it.                                         *)
InReach ==
    \A map \in MemoryMaps : \A i \in LastOf(map) :
        /\ map[i].base + map[i].length <= WORD
        /\ FirstFree(map[i].base) <= map[i].length

LEMMA LastCandidate ==
    ASSUME NEW map \in MemoryMaps, Candidates(map) # {}
    PROVE  \E i \in LastOf(map) : MemPool(map) = map[i]
<1>1. map \in Seq(Entry) /\ Len(map) \in Nat
  BY MapAssumption
<1>2. Candidates(map) \in SUBSET (1..Len(map))
  BY <1>1 DEF Candidates
<1> DEFINE S == {Len(map) - i : i \in Candidates(map)}
<1>3. S \in SUBSET Nat /\ S # {}
  BY <1>1, <1>2
<1>4. PICK n \in S : \A m \in S : n <= m
  BY <1>3, Least
<1>5. PICK i \in Candidates(map) : n = Len(map) - i
  BY <1>4
<1>6. \A j \in Candidates(map) : j <= i
  <2> SUFFICES ASSUME NEW j \in Candidates(map) PROVE j <= i
    OBVIOUS
  <2>1. n <= Len(map) - j
    BY <1>4
  <2>2. i \in Int /\ j \in Int
    BY <1>2
  <2> QED BY <1>1, <1>5, <2>1, <2>2
<1>7. i \in LastOf(map) /\ \A k \in LastOf(map) : k = i
  <2>1. \A k \in LastOf(map) : k <= i /\ i <= k /\ k \in Int /\ i \in Int
    BY <1>2, <1>6 DEF LastOf
  <2> QED BY <1>6, <2>1 DEF LastOf
<1> QED BY <1>7 DEF MemPool, LastOf

LEMMA AllocatorInit == ASSUME InReach, Init PROVE MMInv
<1>1. PICK map \in MemoryMaps : /\ Candidates(map) # {}
                               /\ pool = MemPool(map)
                               /\ used = InitialUsed(pool) /\ free = InitialFree(pool) /\ live = {}
  BY DEF Init
<1>2. PICK i \in LastOf(map) : pool = map[i]
  BY <1>1, LastCandidate
<1>3. pool \in Entry /\ pool.base >= MEGABYTE
  BY <1>2, MapAssumption DEF Candidates, LastOf
<1>4. pool.base + pool.length <= WORD /\ FirstFree(pool.base) <= pool.length
  BY <1>2 DEF InReach
<1> DEFINE base == pool.base
           length == pool.length
           N2 == NODE * NODE
           start == base + N2 + N2
<1>5. base \in Nat /\ length \in Nat
  BY <1>3 DEF Entry
<1>6. N2 \in Nat /\ N2 >= NODE /\ NODE \in Nat \ {0} /\ WORD \in Nat \ {0}
  BY Sizes
<1>7. FirstNode(base) = base + N2 /\ FirstFree(base) = start
  BY DEF FirstNode, FirstFree
<1> HIDE DEF base, length, N2
<1>8. start <= length /\ base + length <= WORD
  BY <1>4, <1>7 DEF base, length
<1>9. \A a \in Nat : a < WORD => a % WORD = a
  <2> SUFFICES ASSUME NEW a \in Nat, a < WORD PROVE a % WORD = a
    OBVIOUS
  <2>1. ((WORD * 0) + a) % WORD = a
    BY <1>6, DivModUnique
  <2>2. (WORD * 0) + a = a
    BY <1>6
  <2> QED BY <2>1, <2>2
<1>10. base % WORD = base /\ (length - start) % WORD = length - start
  BY <1>5, <1>6, <1>8, <1>9
<1>11. used = {[start |-> base, size |-> NODE]}
  BY <1>1, <1>10 DEF InitialUsed, base
<1>12. free = <<[node |-> base + N2, start |-> start, size |-> length - start]>>
  BY <1>1, <1>7, <1>10 DEF InitialFree, base, length
<1>13. Reserved = [start |-> base + N2, size |-> N2]
  BY <1>7 DEF Reserved, base, N2
<1>14. Reserved \notin used
  <2>1. base # base + N2
    BY <1>5, <1>6
  <2> QED BY <1>11, <1>13, <2>1
<1> DEFINE r == [start |-> base + N2, size |-> N2]
           b == [start |-> base, size |-> NODE]
           n == [node |-> base + N2, start |-> start, size |-> length - start]
<1>15. r \in UsedBlock /\ b \in UsedBlock
  BY <1>5, <1>6 DEF UsedBlock
<1>16. n \in FreeNode
  BY <1>5, <1>6, <1>8 DEF FreeNode
<1>17. Apart(r, b) /\ Apart(b, r) /\ Apart(r, n) /\ Apart(b, n)
  BY <1>5, <1>6, <1>8 DEF Apart
<1>18. Inside(r) /\ Inside(b) /\ Inside(n)
  <2>1. \A x : Inside(x) <=> base <= x.start /\ x.start + x.size <= base + length
    BY DEF Inside, base, length
  <2> QED BY <1>5, <1>6, <1>8, <2>1
<1>19. used \cup {Reserved} = {b, r} /\ free = <<n>>
  BY <1>11, <1>12, <1>13
<1> HIDE DEF b, r, n
<1>20. Sound({b, r}, <<n>>)
  <2>1. <<n>> \in Seq(FreeNode) /\ DOMAIN <<n>> = {1} /\ <<n>>[1] = n
    BY <1>16
  <2> QED BY <1>3, <1>15, <1>17, <1>18, <2>1 DEF Sound
<1>21. NodesOK(used, free)
  <2>1. DOMAIN free = {1} /\ free[1].node = FirstNode(base)
    BY <1>7, <1>12
  <2> QED BY <2>1 DEF NodesOK, base
<1>22. PoolOK /\ LiveOK /\ Away
  BY <1>1, <1>3, <1>4 DEF PoolOK, LiveOK, Away
<1> QED BY <1>14, <1>19, <1>20, <1>21, <1>22 DEF MMInv, ListsOK

(* Everything a successful malloc changes. *)
Taken(i, size) ==
    /\ i \in DOMAIN free /\ free[i].size >= size + NODE
    /\ used' = used \cup {[start |-> free[i].start, size |-> size + NODE]}
    /\ free' = [free EXCEPT ![i] = Cut(free[i], size + NODE)]
    /\ live' = live \cup {[ptr |-> free[i].start + NODE, size |-> size]}
    /\ pool' = pool

LEMMA MallocCases ==
    ASSUME MMInv, NEW size \in Requests, malloc(size)
    PROVE  \/ UNCHANGED vars /\ Malloc(used, free, size).ptr = NULL
           \/ \E i \in DOMAIN free :
                  Taken(i, size) /\ Malloc(used, free, size).ptr = free[i].start + NODE
<1>1. free \in Seq(FreeNode) /\ size \in Nat
  BY RequestAssumption DEF MMInv, ListsOK, Sound
<1>2. CASE Malloc(used, free, size) = [used |-> used, free |-> free, ptr |-> NULL]
  BY <1>2 DEF malloc, vars
<1>3. ASSUME NEW i \in DOMAIN free,
             free[i].size >= size + NODE,
             Malloc(used, free, size) =
               [used |-> used \cup {[start |-> free[i].start, size |-> size + NODE]},
                free |-> [free EXCEPT ![i] = Cut(free[i], size + NODE)],
                ptr  |-> free[i].start + NODE]
      PROVE  Taken(i, size) /\ Malloc(used, free, size).ptr = free[i].start + NODE
  <2>1. free[i] \in FreeNode
    BY <1>1
  <2>2. free[i].start + NODE # NULL
    BY <2>1, Sizes DEF FreeNode, NULL
  <2> QED BY <1>3, <2>2 DEF malloc, Taken
<1> QED BY <1>1, <1>2, <1>3, MallocFacts

LEMMA MallocStep ==
    ASSUME MMInv, NEW size \in Requests, NEW i \in DOMAIN free, Taken(i, size)
    PROVE  /\ MMInv'
           /\ \A x \in used : x.start # free[i].start
<1> DEFINE b == [start |-> free[i].start, size |-> size + NODE]
           g == [free EXCEPT ![i] = Cut(free[i], size + NODE)]
           v == used \cup {Reserved}
<1>1. size \in Nat \ {0} /\ NODE \in Nat \ {0}
  BY RequestAssumption, Sizes
<1>2. /\ b \notin v /\ Sound(v \cup {b}, g) /\ NodesOK(used \cup {b}, g)
      /\ DOMAIN g = DOMAIN free
      /\ \A j \in DOMAIN free : g[j].node = free[j].node /\ free[j].node # free[i].start + NODE
      /\ \A x \in v : x.start # free[i].start
  <2>1. pool \in Entry /\ Sound(v, free) /\ Reserved \in v /\ NodesOK(used, free) /\ used \subseteq v
    BY DEF MMInv, PoolOK, ListsOK
  <2> DEFINE k == size + NODE
  <2>2. k \in Nat /\ k > NODE /\ free[i].size >= k
    BY <1>1 DEF Taken
  <2> HIDE DEF v, k
  <2>3. Allocates(used, v, free, i, k)
    BY <2>1, <2>2, Allocated
  <2> QED BY <2>3 DEF Allocates, k
<1>3. /\ used' = used \cup {b} /\ free' = g /\ pool' = pool /\ Reserved' = Reserved
      /\ live' = live \cup {[ptr |-> free[i].start + NODE, size |-> size]}
  BY DEF Taken, Reserved, FirstNode
<1>4. free[i].start \in Nat
  <2>1. free[i] \in FreeNode
    BY DEF MMInv, ListsOK, Sound
  <2> QED BY <2>1 DEF FreeNode
<1>5. HomeOf([ptr |-> free[i].start + NODE, size |-> size]) = b
  BY <1>1, <1>4 DEF HomeOf
<1> HIDE DEF b, g
<1>6. ListsOK'
  <2>1. used' \cup {Reserved} = v \cup {b}
    BY <1>3
  <2>2. Reserved \notin used'
    BY <1>2, <1>3 DEF MMInv, ListsOK
  <2>3. Sound(used \cup {Reserved}, free)'
    <3>1. \A x : Inside(x)' <=> Inside(x)
      BY <1>3 DEF Inside
    <3> QED BY <1>2, <1>3, <2>1, <3>1 DEF Sound, Inside
  <2> QED BY <1>3, <2>2, <2>3 DEF ListsOK
<1>7. LiveOK'
  <2>1. [ptr |-> free[i].start + NODE, size |-> size] \in [ptr : Nat, size : Requests]
    BY <1>1, <1>4
  <2>2. NODE <= free[i].start + NODE
    BY <1>1, <1>4
  <2> QED BY <1>3, <1>5, <2>1, <2>2 DEF MMInv, LiveOK, HomeOf
<1>8. NodesOK(used, free)' /\ Away' /\ PoolOK'
  BY <1>2, <1>3 DEF MMInv, NodesOK, NodeHome, Away, PoolOK
<1> QED BY <1>2, <1>6, <1>7, <1>8 DEF MMInv

-----------------------------------------------------------------------------
(* What a release does to the lists and to the callers' blocks.             *)

LEMMA OnlyHome ==
    ASSUME MMInv, NEW l \in live, NEW b \in used, b.start = l.ptr - NODE
    PROVE  b = HomeOf(l)
<1>1. HomeOf(l) \in used /\ HomeOf(l).start = l.ptr - NODE
  BY DEF MMInv, LiveOK, HomeOf
<1>2. b # HomeOf(l) => Apart(b, HomeOf(l))
  BY <1>1 DEF MMInv, ListsOK, Sound
<1>3. b \in UsedBlock /\ HomeOf(l) \in UsedBlock
  BY <1>1 DEF MMInv, ListsOK, Sound
<1> QED BY <1>1, <1>2, <1>3 DEF Apart, UsedBlock

LEMMA OneCaller ==
    ASSUME MMInv, NEW l \in live, NEW m \in live, l.ptr = m.ptr
    PROVE  l = m
<1>1. HomeOf(l) \in used /\ HomeOf(l).start = l.ptr - NODE
  BY DEF MMInv, LiveOK, HomeOf
<1>2. HomeOf(l) = HomeOf(m)
  BY <1>1, OnlyHome
<1>3. l.size + NODE = m.size + NODE
  BY <1>2 DEF HomeOf
<1>4. l \in [ptr : Nat, size : Requests] /\ m \in [ptr : Nat, size : Requests]
  BY DEF MMInv, LiveOK
<1>5. l.size = m.size
  <2>1. l.size \in Nat /\ m.size \in Nat /\ NODE \in Nat
    BY <1>4, RequestAssumption, Sizes
  <2> QED BY <1>3, <2>1
<1> QED BY <1>4, <1>5

(* The three outcomes: merged, listed with a node, or the list lost.         *)
Merged(l, i) ==
    /\ i \in Adjacent(free, HomeOf(l))
    /\ used' = used \ {HomeOf(l)}
    /\ free' = [free EXCEPT ![i] = Merge(free[i], HomeOf(l))]

Listed(l, i) ==
    LET b == [start |-> free[i].start, size |-> NODE + NODE]
        g == [free EXCEPT ![i] = Cut(free[i], NODE + NODE)]
    IN  /\ i \in DOMAIN free /\ free[i].size >= NODE + NODE
        /\ used' = (used \ {HomeOf(l)}) \cup {b}
        /\ free' = <<[node  |-> free[i].start + NODE,
                     start |-> HomeOf(l).start,
                     size  |-> HomeOf(l).size]>> \o g

Lost(l) == used' = used \ {HomeOf(l)} /\ free' = <<>>

LEMMA ReleaseCases ==
    ASSUME MMInv, NEW l \in live, free_block(l.ptr)
    PROVE  /\ pool' = pool /\ live' = live \ {l}
           /\ \/ \E i \in DOMAIN free : Merged(l, i)
              \/ \E i \in DOMAIN free : Listed(l, i)
              \/ Lost(l)
<1> DEFINE b == HomeOf(l)
           u == used \ {b}
<1>1. PICK x \in Node(l.ptr) : /\ used' = Release(used \ {x}, free, x).used
                              /\ free' = Release(used \ {x}, free, x).free
                              /\ live' = {m \in live : m.ptr # l.ptr} /\ pool' = pool
  BY DEF free_block
<1>2. x = b
  BY <1>1, OnlyHome DEF Node
<1>3. live' = live \ {l}
  BY <1>1, OneCaller
<1>4. free \in Seq(FreeNode)
  BY DEF MMInv, ListsOK, Sound
<1> HIDE DEF b
<1>5. CASE Adjacent(free, b) # {}
  <2>1. Adjacent(free, b) \in SUBSET Nat
    BY <1>4 DEF Adjacent
  <2>2. First(Adjacent(free, b)) \in Adjacent(free, b)
    BY <1>5, <2>1, FirstOf
  <2>3. Merged(l, First(Adjacent(free, b)))
    BY <1>1, <1>2, <1>5, <2>2 DEF Release, Merged, b
  <2>4. First(Adjacent(free, b)) \in DOMAIN free
    BY <2>2 DEF Adjacent
  <2> QED BY <1>1, <1>3, <2>3, <2>4
<1>6. CASE Adjacent(free, b) = {}
  <2>1. used' = NewNode(u, free, b).used /\ free' = NewNode(u, free, b).free
    BY <1>1, <1>2, <1>6 DEF Release
  <2> HIDE DEF u
  <2>2. CASE Malloc(u, free, NODE) = [used |-> u, free |-> free, ptr |-> NULL]
    <3>0. NewNode(u, free, b) = [used |-> u, free |-> <<>>]
      BY <2>2 DEF NewNode
    <3>1. Lost(l)
      BY <2>1, <3>0 DEF Lost, u, b
    <3> QED BY <1>1, <1>3, <3>1
  <2>3. ASSUME NEW i \in DOMAIN free,
               free[i].size >= NODE + NODE,
               Malloc(u, free, NODE) =
                 [used |-> u \cup {[start |-> free[i].start, size |-> NODE + NODE]},
                  free |-> [free EXCEPT ![i] = Cut(free[i], NODE + NODE)],
                  ptr  |-> free[i].start + NODE]
        PROVE  Listed(l, i)
    <3>1. free[i] \in FreeNode
      BY <1>4
    <3>2. free[i].start + NODE # NULL
      BY <3>1, Sizes DEF FreeNode, NULL
    <3> DEFINE n == [start |-> free[i].start, size |-> NODE + NODE]
               g == [free EXCEPT ![i] = Cut(free[i], NODE + NODE)]
               c == [node |-> free[i].start + NODE, start |-> b.start, size |-> b.size]
    <3>3. NewNode(u, free, b) = [used |-> u \cup {n}, free |-> <<c>> \o g]
      BY <2>3, <3>2 DEF NewNode
    <3>4. used' = u \cup {n} /\ free' = <<c>> \o g
      BY <2>1, <3>3
    <3> QED BY <2>3, <3>4 DEF Listed, u, b
  <2>4. NODE \in Nat
    BY Sizes
  <2> QED BY <1>1, <1>3, <1>4, <2>2, <2>3, <2>4, MallocFacts
<1> QED BY <1>5, <1>6

(* What is left when the block of a caller is taken off the used list.       *)
LEMMA Remaining ==
    ASSUME MMInv, NEW l \in live
    PROVE  LET h == HomeOf(l)
               u == used \ {h}
           IN  /\ h \in used /\ h \notin u \cup {Reserved}
               /\ Sound((u \cup {Reserved}) \cup {h}, free)
               /\ \A m \in live \ {l} : HomeOf(m) \in u
               /\ NodesOK(u, free)
<1> DEFINE h == HomeOf(l)
           u == used \ {h}
<1>1. h \in used /\ h # Reserved /\ NODE \in Nat
  BY Sizes DEF MMInv, LiveOK, ListsOK
<1>2. l.ptr \in Nat /\ NODE <= l.ptr /\ h.start = l.ptr - NODE
  BY DEF MMInv, LiveOK, HomeOf
<1>3. (u \cup {Reserved}) \cup {h} = used \cup {Reserved}
  BY <1>1
<1>4. Sound((u \cup {Reserved}) \cup {h}, free)
  BY <1>3 DEF MMInv, ListsOK
<1>5. ASSUME NEW m \in live \ {l} PROVE HomeOf(m) \in u
  <2>1. HomeOf(m) \in used /\ HomeOf(m).start = m.ptr - NODE /\ m.ptr \in Nat
    BY DEF MMInv, LiveOK, HomeOf
  <2>2. m.ptr # l.ptr
    BY OneCaller
  <2> QED BY <1>1, <1>2, <2>1, <2>2
<1>6. NodesOK(u, free)
  <2>1. ASSUME NEW i \in DOMAIN free, NODE <= free[i].node, NodeHome(free[i]) \in used
        PROVE  NodeHome(free[i]) \in u
    <3>1. free[i].node # l.ptr
      BY DEF MMInv, Away
    <3>2. free[i] \in FreeNode
      BY DEF MMInv, ListsOK, Sound
    <3>3. free[i].node \in Nat /\ NodeHome(free[i]).start = free[i].node - NODE
      BY <3>2 DEF NodeHome, FreeNode
    <3> QED BY <1>1, <1>2, <2>1, <3>1, <3>3
  <2> HIDE DEF u
  <2> QED BY <2>1 DEF MMInv, NodesOK
<1> HIDE DEF h
<1> QED BY <1>1, <1>4, <1>5, <1>6 DEF h

LEMMA Soundness ==
    ASSUME NEW u, NEW f, Sound(u, f), pool' = pool,
           used' \cup {Reserved} = u, free' = f, Reserved \notin used'
    PROVE  ListsOK'
<1>1. \A x : Inside(x)' <=> Inside(x)
  BY DEF Inside
<1>2. Reserved' = Reserved
  BY DEF Reserved, FirstNode
<1> QED BY <1>1, <1>2 DEF Sound, Inside, ListsOK

LEMMA MergedStep ==
    ASSUME MMInv, NEW l \in live, NEW i \in DOMAIN free, Merged(l, i),
           pool' = pool, live' = live \ {l}
    PROVE  MMInv'
<1> DEFINE h == HomeOf(l)
           u == used \ {h}
           g == [free EXCEPT ![i] = Merge(free[i], h)]
<1>1. /\ h \in used /\ h \notin u \cup {Reserved}
      /\ Sound((u \cup {Reserved}) \cup {h}, free)
      /\ \A m \in live \ {l} : HomeOf(m) \in u
      /\ NodesOK(u, free)
  BY Remaining
<1>2. used' = u /\ free' = g /\ i \in Adjacent(free, h)
  BY DEF Merged
<1>3. \A j \in DOMAIN free : g[j].node = free[j].node
  <2>1. free \in Seq(FreeNode) /\ free[i] \in FreeNode
    BY DEF MMInv, ListsOK, Sound
  <2>2. Merge(free[i], h).node = free[i].node
    BY <2>1 DEF Merge, FreeNode
  <2> QED BY <2>1, <2>2
<1>4. DOMAIN g = DOMAIN free
  OBVIOUS
<1>5. Sound(u \cup {Reserved}, g)
  <2> HIDE DEF h, u
  <2> QED BY <1>1, <1>2, MergeSound
<1> HIDE DEF h, g
<1>6. ListsOK'
  BY <1>2, <1>5, Soundness DEF MMInv, ListsOK
<1> HIDE DEF u
<1>7. LiveOK' /\ Away' /\ PoolOK'
  BY <1>1, <1>2, <1>3, <1>4 DEF MMInv, LiveOK, HomeOf, Away, PoolOK
<1>8. NodesOK(used, free)'
  BY <1>1, <1>2, <1>3, <1>4 DEF NodesOK, NodeHome
<1> QED BY <1>6, <1>7, <1>8 DEF MMInv

LEMMA LostStep ==
    ASSUME MMInv, NEW l \in live, Lost(l), pool' = pool, live' = live \ {l}
    PROVE  MMInv'
<1> DEFINE u == used \ {HomeOf(l)}
<1>1. /\ Sound(used \cup {Reserved}, free) /\ Reserved \notin used
      /\ \A m \in live \ {l} : HomeOf(m) \in u
  BY Remaining DEF MMInv, ListsOK
<1>2. used' = u /\ free' = <<>>
  BY DEF Lost
<1>3. Sound(u \cup {Reserved}, <<>>)
  BY <1>1 DEF Sound
<1>4. ListsOK'
  BY <1>1, <1>2, <1>3, Soundness
<1> HIDE DEF u
<1>5. LiveOK' /\ Away' /\ PoolOK' /\ NodesOK(used, free)'
  BY <1>1, <1>2 DEF MMInv, LiveOK, HomeOf, Away, PoolOK, NodesOK
<1> QED BY <1>4, <1>5 DEF MMInv

LEMMA ListedStep ==
    ASSUME MMInv, NEW l \in live, NEW i \in DOMAIN free, Listed(l, i),
           pool' = pool, live' = live \ {l}
    PROVE  MMInv'
<1> DEFINE h == HomeOf(l)
           u == used \ {h}
           v == used \cup {Reserved}
           b == [start |-> free[i].start, size |-> NODE + NODE]
           g == [free EXCEPT ![i] = Cut(free[i], NODE + NODE)]
           n == free[i].start + NODE
           c == [node |-> n, start |-> h.start, size |-> h.size]
<1>1. /\ h \in used /\ h \notin u \cup {Reserved}
      /\ \A m \in live \ {l} : HomeOf(m) \in u
      /\ NodesOK(u, free)
  BY Remaining
<1>2. used' = u \cup {b} /\ free' = <<c>> \o g
  BY DEF Listed
<1>3. NODE \in Nat \ {0}
  BY Sizes
<1>4. free \in Seq(FreeNode) /\ free[i] \in FreeNode
  BY DEF MMInv, ListsOK, Sound
<1>5. free[i].start \in Nat /\ n \in Nat /\ n >= NODE
  BY <1>3, <1>4 DEF FreeNode
<1>6. /\ b \notin v /\ Sound(v \cup {b}, g) /\ NodesOK(u \cup {b}, g)
      /\ DOMAIN g = DOMAIN free
      /\ \A j \in DOMAIN free : g[j].node = free[j].node /\ free[j].node # n
      /\ \A x \in v : x.start # free[i].start
  <2>1. pool \in Entry /\ Sound(v, free) /\ Reserved \in v /\ u \subseteq v
    BY DEF MMInv, PoolOK, ListsOK
  <2>2. NODE \in Nat /\ NODE >= 1 /\ free[i].size >= NODE + NODE
    BY <1>3 DEF Listed
  <2>3. NodesOK(u, free)
    BY <1>1
  <2> DEFINE k == NODE + NODE
  <2>4. k \in Nat /\ k > NODE /\ free[i].size >= k
    BY <2>2
  <2> HIDE DEF v, u, h, n, b, g, k
  <2>5. Allocates(u, v, free, i, k)
    BY <2>1, <2>3, <2>4, Allocated
  <2> QED BY <2>5 DEF Allocates, n, b, g, k
<1>7. NodeHome(c) = b
  BY <1>3, <1>5 DEF NodeHome
<1>8. Sound((u \cup {b}) \cup {Reserved}, <<c>> \o g)
  <2>1. v \cup {b} = ((u \cup {b}) \cup {Reserved}) \cup {h}
    BY <1>1
  <2>2. h \notin (u \cup {b}) \cup {Reserved}
    BY <1>1, <1>6
  <2> HIDE DEF u, v, b, g, h, n
  <2> QED BY <1>5, <1>6, <2>1, <2>2, ListedSound
<1>9. ListsOK'
  <2>1. Reserved \notin u \cup {b}
    BY <1>6 DEF MMInv, ListsOK
  <2> HIDE DEF u, v, b, g, h, n, c
  <2> QED BY <1>2, <1>8, <2>1, Soundness
<1>10. LiveOK'
  <2> HIDE DEF u, h, b
  <2> QED BY <1>1, <1>2 DEF MMInv, LiveOK, HomeOf
<1>11. g \in Seq(FreeNode) /\ Len(g) \in Nat
  BY <1>6 DEF Sound
<1>12. /\ DOMAIN free' = 1..(Len(g) + 1) /\ free'[1] = c
       /\ \A j \in 2..(Len(g) + 1) :
             /\ free'[j] = g[j - 1] /\ j - 1 \in DOMAIN g
             /\ free'[j].node = free[j - 1].node
  <2> HIDE DEF c, g
  <2>1. free' = <<c>> \o g /\ DOMAIN g = 1..Len(g)
    BY <1>2, <1>11
  <2> QED BY SMTT(30), <1>6, <1>11, <2>1
<1>13. \A j \in DOMAIN free' : j = 1 \/ j \in 2..(Len(g) + 1)
  BY <1>11, <1>12
<1>14. NodesOK(used, free)'
  <2>1. c.node = n
    OBVIOUS
  <2> HIDE DEF c, g, n, b, u, v
  <2>2. ASSUME NEW j \in DOMAIN free'
        PROVE  \/ free'[j].node = FirstNode(pool.base)
               \/ NODE <= free'[j].node /\ NodeHome(free'[j]) \in used'
    BY <1>2, <1>5, <1>6, <1>7, <1>12, <1>13, <2>1 DEF NodesOK
  <2>3. ASSUME NEW j \in DOMAIN free', NEW k \in DOMAIN free', j # k
        PROVE  free'[j].node # free'[k].node
    <3>1. \A m \in 2..(Len(g) + 1) : free'[m].node # n /\ free'[m].node = g[m - 1].node
      BY <1>6, <1>12
    <3>2. CASE j = 1 \/ k = 1
      BY <1>12, <1>13, <2>1, <2>3, <3>1, <3>2
    <3>3. CASE j # 1 /\ k # 1
      <4>1. j \in 2..(Len(g) + 1) /\ k \in 2..(Len(g) + 1)
        BY <1>13, <3>3
      <4>2. j - 1 \in DOMAIN g /\ k - 1 \in DOMAIN g /\ j - 1 # k - 1
        BY <1>12, <2>3, <4>1
      <4> QED BY <1>6, <3>1, <4>1, <4>2 DEF NodesOK
    <3> QED BY <3>2, <3>3
  <2> QED BY <2>2, <2>3 DEF NodesOK, NodeHome
<1>15. Away'
  <2> SUFFICES ASSUME NEW m \in live \ {l}, NEW j \in DOMAIN free' PROVE m.ptr # free'[j].node
    BY DEF Away
  <2>1. CASE j = 1
    <3>1. HomeOf(m) \in v /\ HomeOf(m).start = m.ptr - NODE /\ m.ptr \in Nat
      BY <1>1 DEF HomeOf, MMInv, LiveOK
    <3>2. free'[j].node = n
      BY <1>12, <2>1
    <3> QED BY <1>3, <1>5, <1>6, <3>1, <3>2
  <2>2. CASE j \in 2..(Len(g) + 1)
    BY <1>6, <1>12, <2>2 DEF MMInv, Away
  <2> QED BY <1>13, <2>1, <2>2
<1>16. PoolOK'
  BY DEF MMInv, PoolOK
<1> QED BY <1>9, <1>10, <1>14, <1>15, <1>16 DEF MMInv

LEMMA ReleaseStep == ASSUME MMInv, NEW l \in live, free_block(l.ptr) PROVE MMInv'
BY ReleaseCases, MergedStep, ListedStep, LostStep

LEMMA AllocatorStep == ASSUME MMInv, [Next]_vars PROVE MMInv'
<1>1. CASE UNCHANGED vars
  <2>1. Reserved' = Reserved
    BY <1>1 DEF Reserved, FirstNode, vars
  <2>2. ListsOK'
    BY <1>1, Soundness DEF MMInv, ListsOK, vars
  <2>3. PoolOK' /\ LiveOK' /\ NodesOK(used, free)' /\ Away'
    BY <1>1 DEF MMInv, PoolOK, LiveOK, HomeOf, NodesOK, NodeHome, Away, vars
  <2> QED BY <2>2, <2>3 DEF MMInv
<1>2. ASSUME NEW size \in Requests, malloc(size) PROVE MMInv'
  BY <1>1, <1>2, MallocCases, MallocStep
<1>3. ASSUME NEW l \in live, free_block(l.ptr) PROVE MMInv'
  BY <1>3, ReleaseStep
<1>4. CASE free_unknown(NULL)
  BY <1>1, <1>4 DEF free_unknown
<1> QED BY <1>1, <1>2, <1>3, <1>4 DEF Next

-----------------------------------------------------------------------------
(* What the invariant says of bytes. *)

LEMMA NoByte ==
    ASSUME NEW x, NEW y, Apart(x, y), x.start \in Nat, x.size \in Nat, y.start \in Nat, y.size \in Nat
    PROVE  Extent(x) \cap Extent(y) = {}
BY DEF Apart, Extent

LEMMA Typed ==
    ASSUME MMInv
    PROVE  /\ \A x \in used \cup {Reserved} : x \in UsedBlock /\ x.start \in Nat /\ x.size \in Nat \ {0}
           /\ \A i \in DOMAIN free :
                 /\ free[i] \in FreeNode
                 /\ free[i].start \in Nat /\ free[i].size \in Nat /\ free[i].node \in Nat
<1>1. /\ \A x \in used \cup {Reserved} : x \in UsedBlock
      /\ \A i \in DOMAIN free : free[i] \in FreeNode
  BY DEF MMInv, ListsOK, Sound
<1>2. /\ \A x \in UsedBlock : x.start \in Nat /\ x.size \in Nat \ {0}
      /\ \A n \in FreeNode : n.start \in Nat /\ n.size \in Nat /\ n.node \in Nat
  BY DEF UsedBlock, FreeNode
<1> QED BY <1>1, <1>2

LEMMA Bytes ==
    ASSUME MMInv
    PROVE  /\ \A x, y \in used \cup {Reserved} : x # y => Extent(x) \cap Extent(y) = {}
           /\ \A i, j \in DOMAIN free : i # j => Extent(free[i]) \cap Extent(free[j]) = {}
           /\ \A x \in used \cup {Reserved} : Extent(x) \cap UsableBytes = {}
           /\ \A x \in used : Extent(x) \subseteq PoolBytes
           /\ UsableBytes \subseteq PoolBytes
           /\ PoolBytes \subseteq 0..(WORD - 1)
<1>1. \A x, y \in used \cup {Reserved} : x # y => Extent(x) \cap Extent(y) = {}
  BY Typed, NoByte DEF MMInv, ListsOK, Sound
<1>2. \A i, j \in DOMAIN free : i # j => Extent(free[i]) \cap Extent(free[j]) = {}
  BY Typed, NoByte DEF MMInv, ListsOK, Sound
<1>3. \A x \in used \cup {Reserved} : \A i \in DOMAIN free : Extent(x) \cap Extent(free[i]) = {}
  BY Typed, NoByte DEF MMInv, ListsOK, Sound
<1>4. pool.base \in Nat /\ pool.length \in Nat /\ pool.base + pool.length <= WORD /\ WORD \in Nat
  BY Sizes DEF MMInv, PoolOK, Entry
<1>5. \A x : x.start \in Nat /\ x.size \in Nat /\ Inside(x) => Extent(x) \subseteq PoolBytes
  BY <1>4 DEF Inside, Extent, PoolBytes
<1>6. \A x \in used : Extent(x) \subseteq PoolBytes
  BY <1>5, Typed DEF MMInv, ListsOK, Sound
<1>7. \A i \in DOMAIN free : Extent(free[i]) \subseteq PoolBytes
  BY <1>5, Typed DEF MMInv, ListsOK, Sound
<1>8. PoolBytes \subseteq 0..(WORD - 1)
  BY <1>4 DEF PoolBytes
<1>9. UsableBytes \subseteq PoolBytes /\ \A x \in used \cup {Reserved} : Extent(x) \cap UsableBytes = {}
  <2> HIDE DEF Extent, PoolBytes
  <2> QED BY <1>3, <1>7 DEF UsableBytes
<1> QED BY <1>1, <1>2, <1>6, <1>8, <1>9

LEMMA HeldBytes ==
    ASSUME MMInv, NEW l \in live
    PROVE  /\ HomeOf(l) \in used /\ Held(l) \subseteq Extent(HomeOf(l))
           /\ l.ptr \in Nat \ {NULL} /\ l.size \in Nat \ {0}
<1>1. HomeOf(l) \in used /\ l.ptr \in Nat /\ NODE <= l.ptr /\ l.size \in Requests
  BY DEF MMInv, LiveOK
<1>2. l.size \in Nat \ {0} /\ NODE \in Nat \ {0}
  BY <1>1, RequestAssumption, Sizes
<1>3. HomeOf(l).start = l.ptr - NODE /\ HomeOf(l).size = l.size + NODE
  BY DEF HomeOf
<1> HIDE DEF HomeOf
<1>4. Held(l) \subseteq Extent(HomeOf(l))
  BY <1>1, <1>2, <1>3 DEF Held, Extent
<1> QED BY <1>1, <1>2, <1>4 DEF NULL

LEMMA NodeHomes ==
    ASSUME MMInv, NEW i \in DOMAIN free
    PROVE  \E x \in used \cup {Reserved} :
              /\ NodeBytes(free[i]) \subseteq Extent(x)
              /\ x = Reserved => free[i].node = FirstNode(pool.base)
              /\ x # Reserved => x \in used /\ x.start = free[i].node - NODE
<1>1. NODE \in Nat \ {0} /\ NODE * NODE \in Nat /\ NODE * NODE >= NODE
  BY Sizes
<1>2. free[i].node \in Nat
  BY Typed
<1>3. CASE free[i].node = FirstNode(pool.base)
  <2>1. Reserved.start = free[i].node /\ Reserved.size = NODE * NODE
    BY <1>3 DEF Reserved
  <2>2. NodeBytes(free[i]) \subseteq Extent(Reserved)
    <3> HIDE DEF Reserved
    <3> QED BY <1>1, <1>2, <2>1 DEF NodeBytes, Extent
  <2> QED BY <1>3, <2>2
<1>4. CASE NODE <= free[i].node /\ NodeHome(free[i]) \in used
  <2>1. NodeHome(free[i]).start = free[i].node - NODE /\ NodeHome(free[i]).size = NODE + NODE
    BY DEF NodeHome
  <2>2. NodeBytes(free[i]) \subseteq Extent(NodeHome(free[i]))
    BY <1>1, <1>2, <1>4, <2>1 DEF NodeBytes, Extent
  <2>3. NodeHome(free[i]) # Reserved
    BY <1>4 DEF MMInv, ListsOK
  <2> QED BY <1>4, <2>1, <2>2, <2>3
<1> QED BY <1>3, <1>4 DEF MMInv, NodesOK

LEMMA InvNodesSafe == MMInv => NodesSafe
<1> SUFFICES ASSUME MMInv, NEW i \in DOMAIN free
             PROVE  /\ NodeBytes(free[i]) \cap UsableBytes = {}
                    /\ \A l \in live : NodeBytes(free[i]) \cap Held(l) = {}
                    /\ \A j \in DOMAIN free : i # j => NodeBytes(free[i]) \cap NodeBytes(free[j]) = {}
  BY DEF NodesSafe
<1>1. PICK x \in used \cup {Reserved} :
              /\ NodeBytes(free[i]) \subseteq Extent(x)
              /\ x = Reserved => free[i].node = FirstNode(pool.base)
              /\ x # Reserved => x \in used /\ x.start = free[i].node - NODE
  BY NodeHomes
<1>0. Reserved \notin used /\ NODE \in Nat /\ free[i].node \in Nat
  BY Typed, Sizes DEF MMInv, ListsOK
<1>2. NodeBytes(free[i]) \cap UsableBytes = {}
  BY <1>1, Bytes
<1>3. ASSUME NEW l \in live PROVE NodeBytes(free[i]) \cap Held(l) = {}
  <2>1. HomeOf(l) \in used /\ Held(l) \subseteq Extent(HomeOf(l)) /\ l.ptr \in Nat
    BY HeldBytes
  <2>2. HomeOf(l).start = l.ptr - NODE /\ l.ptr # free[i].node
    BY DEF HomeOf, MMInv, Away
  <2>3. x # HomeOf(l)
    BY <1>0, <1>1, <2>1, <2>2
  <2>4. Extent(x) \cap Extent(HomeOf(l)) = {}
    BY <2>1, <2>3, Bytes
  <2> QED BY <1>1, <2>1, <2>4
<1>4. ASSUME NEW j \in DOMAIN free, i # j
      PROVE  NodeBytes(free[i]) \cap NodeBytes(free[j]) = {}
  <2>1. PICK y \in used \cup {Reserved} :
              /\ NodeBytes(free[j]) \subseteq Extent(y)
              /\ y = Reserved => free[j].node = FirstNode(pool.base)
              /\ y # Reserved => y \in used /\ y.start = free[j].node - NODE
    BY NodeHomes
  <2>2. free[i].node # free[j].node /\ free[j].node \in Nat
    BY <1>4, Typed DEF MMInv, NodesOK
  <2>3. x # y
    BY <1>0, <1>1, <2>1, <2>2
  <2>4. Extent(x) \cap Extent(y) = {}
    BY <2>3, Bytes
  <2> QED BY <1>1, <2>1, <2>4
<1> QED BY <1>2, <1>3, <1>4

-----------------------------------------------------------------------------
LEMMA AllocatorInv == InReach => (Spec => []MMInv)
<1> SUFFICES ASSUME InReach PROVE Spec => []MMInv
  OBVIOUS
<1>1. Init => MMInv
  BY AllocatorInit
<1>2. MMInv /\ [Next]_vars => MMInv'
  BY AllocatorStep
<1> QED BY <1>1, <1>2, PTL DEF Spec

(* The types of the lists; no caller is ever given NULL for a block.         *)
THEOREM AllocatorTypes == InReach => (Spec => []TypeOK)
<1> SUFFICES ASSUME InReach PROVE Spec => []TypeOK
  OBVIOUS
<1>1. MMInv => TypeOK
  <2> SUFFICES ASSUME MMInv PROVE TypeOK
    OBVIOUS
  <2>1. pool \in Entry /\ \A b \in used : b \in [start : Nat, size : Nat]
    BY Typed DEF MMInv, PoolOK, UsedBlock
  <2>2. \A i \in DOMAIN free : free[i] \in [node : Nat, start : Nat, size : Nat]
    BY Typed DEF FreeNode
  <2>3. \A l \in live : l \in [ptr : Nat \ {NULL}, size : Requests]
    BY HeldBytes DEF MMInv, LiveOK
  <2> QED BY <2>1, <2>2, <2>3 DEF TypeOK
<1> QED BY <1>1, AllocatorInv, PTL

(* No byte is ever in two blocks, and none outside the pool: every sequence  *)
(* of calls of malloc and free, on every memory map whose pool is in reach,  *)
(* keeps the two lists apart.                                               *)
THEOREM AllocatorDisjoint == InReach => (Spec => []BlocksDisjoint)
<1> SUFFICES ASSUME InReach PROVE Spec => []BlocksDisjoint
  OBVIOUS
<1>1. MMInv => BlocksDisjoint
  <2> SUFFICES ASSUME MMInv PROVE BlocksDisjoint
    OBVIOUS
  <2>1. \A b \in used : \A i \in DOMAIN free : Extent(b) \cap Extent(free[i]) = {}
    BY Bytes DEF UsableBytes
  <2> QED BY <2>1, Bytes DEF BlocksDisjoint
<1> QED BY <1>1, AllocatorInv, PTL

(* A node of the free list is never in memory that is handed out: a caller   *)
(* who writes to his block, the last byte included, cannot spoil the list.   *)
THEOREM AllocatorNodesSafe == InReach => (Spec => []NodesSafe)
BY InvNodesSafe, AllocatorInv, PTL

-----------------------------------------------------------------------------
(* The refinement of Heap. *)

(* A successful malloc is an allocation of Heap. *)
LEMMA TakenAllocates ==
    ASSUME MMInv, MMInv', NEW size \in Requests, NEW i \in DOMAIN free, Taken(i, size)
    PROVE  H!Next
<1> DEFINE l == [ptr |-> free[i].start + NODE, size |-> size]
           n == size + NODE
           c == Cut(free[i], n)
<1>1. size \in Nat \ {0} /\ NODE \in Nat \ {0} /\ WORD \in Nat
  BY RequestAssumption, Sizes
<1>2. /\ free[i] \in FreeNode /\ free[i].start \in Nat /\ free[i].size \in Nat
      /\ free[i].size >= n /\ free \in Seq(FreeNode)
  BY Typed DEF Taken, MMInv, ListsOK, Sound
<1>3. c.start = free[i].start + n /\ c.size = free[i].size - n
  BY <1>2 DEF Cut, FreeNode
<1>4. /\ free' = [free EXCEPT ![i] = c] /\ live' = live \cup {l}
      /\ DOMAIN free' = DOMAIN free /\ free'[i] = c
      /\ \A j \in DOMAIN free : j # i => free'[j] = free[j]
  BY <1>2 DEF Taken
<1>5. l.ptr = free[i].start + NODE /\ l.size = size
  OBVIOUS
<1> HIDE DEF c, l
<1>6. /\ Held(l) \subseteq Extent(free[i])
      /\ Extent(c) \subseteq Extent(free[i]) \ Held(l)
  <2> DEFINE a == free[i].start
             m == free[i].size
  <2>1. a \in Nat /\ m \in Nat /\ m >= size + NODE
    BY <1>2
  <2>2. /\ Extent(free[i]) = a .. (a + m - 1)
        /\ Extent(c) = (a + (size + NODE)) .. ((a + (size + NODE)) + (m - (size + NODE)) - 1)
        /\ Held(l) = (a + NODE) .. ((a + NODE) + size - 1)
    BY <1>3, <1>5 DEF Held, Extent
  <2> HIDE DEF a, m
  <2> QED BY <1>1, <2>1, <2>2
<1>7. l.ptr \in Held(l)
  BY <1>1, <1>2, <1>5 DEF Held
<1>8. Extent(free[i]) \subseteq UsableBytes
  BY DEF UsableBytes
<1>9. UsableBytes \subseteq 0..(WORD - 1)
  BY Bytes
<1> DEFINE E(x) == Extent(x)
<1>10. UsableBytes' = UNION {E(free'[j]) : j \in DOMAIN free}
  BY <1>4 DEF UsableBytes, Extent
<1>11. \A j \in DOMAIN free : j # i => E(free[j]) \cap Held(l) = {}
  BY <1>6, Bytes
<1>12. \A j \in DOMAIN free : E(free'[j]) \subseteq E(free[j]) \ Held(l)
  BY <1>4, <1>6, <1>11
<1> HIDE DEF E
<1>13. UsableBytes = UNION {E(free[j]) : j \in DOMAIN free}
  BY DEF UsableBytes, E
<1>14. UsableBytes' \subseteq UsableBytes \ Held(l)
  BY <1>10, <1>12, <1>13
<1>15. l \notin live
  <2> SUFFICES ASSUME l \in live PROVE FALSE
    OBVIOUS
  <2>1. HomeOf(l) \in used /\ Held(l) \subseteq Extent(HomeOf(l))
    BY HeldBytes
  <2>2. Extent(HomeOf(l)) \cap UsableBytes = {}
    BY <2>1, Bytes
  <2> QED BY <1>6, <1>7, <1>8, <2>1, <2>2
<1>16. l \in H!Block
  <2>1. l.ptr \in 0..(WORD - 1)
    BY <1>6, <1>7, <1>8, <1>9
  <2> QED BY <1>5, <2>1 DEF H!Block, l
<1>17. H!Bytes(l) = Held(l)
  BY DEF H!Bytes, Held
<1>18. H!Allocate(l)
  BY <1>4, <1>6, <1>8, <1>14, <1>15, <1>17 DEF H!Allocate
<1> QED BY <1>16, <1>18 DEF H!Next

LEMMA InAddresses == MMInv => UsableBytes \subseteq 0..(WORD - 1)
BY Bytes

NotUsable == \A l \in live : Held(l) \cap UsableBytes = {}

LEMMA CallersApart == MMInv => NotUsable
<1> SUFFICES ASSUME MMInv, NEW l \in live PROVE Held(l) \cap UsableBytes = {}
  BY DEF NotUsable
<1>1. HomeOf(l) \in used /\ Held(l) \subseteq Extent(HomeOf(l))
  BY HeldBytes
<1> QED BY <1>1, Bytes

(* A free is a release of Heap, whatever becomes of the lists. *)
LEMMA ReleaseReleases ==
    ASSUME MMInv, MMInv', NEW l \in live, live' = live \ {l}
    PROVE  H!Next
<1>1. (UsableBytes \subseteq 0..(WORD - 1))'
  BY InAddresses, PTL
<1>2. NotUsable'
  BY CallersApart, PTL
<1>3. \A m \in live' : H!Bytes(m) \cap UsableBytes' = {}
  BY <1>2 DEF NotUsable, H!Bytes, Held
<1>4. H!Release(l)
  BY <1>1, <1>3 DEF H!Release
<1> QED BY <1>4 DEF H!Next

(* The lists of used and free blocks, with their nodes in blocks of their    *)
(* own, keep the promise of Heap to the callers.                            *)
THEOREM AllocatorImplementsHeap == InReach => (Spec => ImplementsHeap)
<1> SUFFICES ASSUME InReach PROVE Spec => H!Spec
  BY DEF ImplementsHeap
<1>1. MMInv /\ Init => H!Init
  BY InAddresses DEF H!Init, Init
<1>2. MMInv /\ MMInv' /\ [Next]_vars => [H!Next]_H!vars
  <2> SUFFICES ASSUME MMInv, MMInv', [Next]_vars PROVE [H!Next]_H!vars
    OBVIOUS
  <2>1. CASE UNCHANGED vars
    BY <2>1 DEF vars, H!vars, UsableBytes, Extent
  <2>2. ASSUME NEW size \in Requests, malloc(size) PROVE [H!Next]_H!vars
    BY <2>1, <2>2, MallocCases, TakenAllocates
  <2>3. ASSUME NEW l \in live, free_block(l.ptr) PROVE [H!Next]_H!vars
    BY <2>3, ReleaseCases, ReleaseReleases
  <2>4. CASE free_unknown(NULL)
    BY <2>1, <2>4 DEF free_unknown
  <2> QED BY <2>1, <2>2, <2>3, <2>4 DEF Next
<1> QED BY <1>1, <1>2, AllocatorInv, PTL DEF Spec, H!Spec

-----------------------------------------------------------------------------
(* The totals of the two lists are sums. *)
SizesOf(S) == [b \in S |-> b.size]
FreeSizes(f) == [i \in DOMAIN f |-> f[i].size]

LEMMA UsedTotal ==
    ASSUME NEW S, IsFiniteSet(S), \A b \in S : b.size \in Nat
    PROVE  SumSizes(S) = Total(S, SizesOf(S))
<1> DEFINE Is(it) == it = [s \in SUBSET S |-> IF s = {} THEN 0
                                               ELSE Picked(s).size + it[s \ {Picked(s)}]]
           g == CHOOSE it : Is(it)
           w == SizesOf(S)
<1>1. SumSizes(S) = g[S]
  BY DEF SumSizes, MapThenSumSet, MapThenFoldSet, Picked
<1>2. Weighs(w, S) /\ \A b \in S : w[b] = b.size
  BY DEF Weighs, SizesOf
<1> HIDE DEF w
<1>3. PICK f : f \in [SUBSET S -> Nat] /\ Sums(f, S, w)
  BY <1>2, SumsExist
<1>4. ASSUME NEW s \in SUBSET S
      PROVE  f[s] = IF s = {} THEN 0 ELSE Picked(s).size + f[s \ {Picked(s)}]
  BY <1>2, <1>3, PickedIs DEF Sums
<1>5. Is(f)
  BY <1>3, <1>4
<1>6. Is(g)
  <2> HIDE DEF Is
  <2> QED BY <1>5
<1> HIDE DEF g
<1>7. Sums(g, S, w)
  BY <1>2, <1>6, PickedIs DEF Sums
<1>8. g[S] = Total(S, w)
  BY <1>2, <1>7, TotalIs
<1> QED BY <1>1, <1>8 DEF w

FoldTotal(f) == FoldSeq(LAMBDA n, t : n.size + t, 0, f)

LEMMA ListTotal ==
    ASSUME NEW f \in Seq(FreeNode)
    PROVE  FoldTotal(f) = Total(DOMAIN f, FreeSizes(f))
<1> DEFINE S == DOMAIN f
           Is(it) == it = [s \in SUBSET S |-> IF s = {} THEN 0
                                               ELSE f[Picked(s)].size + it[s \ {Picked(s)}]]
           g == CHOOSE it : Is(it)
           w == FreeSizes(f)
<1>1. FoldTotal(f) = g[S]
  BY DEF FoldTotal, FoldSeq, FoldFunction, FoldFunctionOnSet, MapThenFoldSet, Picked
<1>2. Weighs(w, S) /\ \A i \in S : w[i] = f[i].size
  <2>1. \A i \in S : f[i] \in FreeNode
    OBVIOUS
  <2>2. \A i \in S : f[i].size \in Nat
    BY <2>1 DEF FreeNode
  <2> QED BY <2>2 DEF Weighs, FreeSizes
<1>3. IsFiniteSet(S)
  <2>1. S = 1..Len(f) /\ Len(f) \in Nat
    BY LenProperties
  <2> QED BY <2>1, FS_Interval
<1> HIDE DEF w, S
<1>4. PICK h : h \in [SUBSET S -> Nat] /\ Sums(h, S, w)
  BY <1>2, <1>3, SumsExist
<1>5. ASSUME NEW s \in SUBSET S
      PROVE  h[s] = IF s = {} THEN 0 ELSE f[Picked(s)].size + h[s \ {Picked(s)}]
  BY <1>2, <1>4, PickedIs DEF Sums
<1>6. Is(h)
  BY <1>4, <1>5
<1>7. Is(g)
  <2> HIDE DEF Is
  <2> QED BY <1>6
<1> HIDE DEF g
<1>8. Sums(g, S, w)
  BY <1>2, <1>7, PickedIs DEF Sums
<1>9. g[S] = Total(S, w)
  BY <1>2, <1>3, <1>8, TotalIs
<1> QED BY <1>1, <1>9 DEF w, S
-----------------------------------------------------------------------------
(* Every used block is known: it is the first one, a caller's, or the home    *)
(* of a node.                                                                *)
AllKnown(u, f, c) ==
    \A b \in u :
        \/ b \in InitialUsed(pool)
        \/ \E l \in c : l.ptr = b.start + NODE
        \/ \E i \in DOMAIN f : f[i].node = b.start + NODE

WholePool == InitialFree(pool)[1].size + NODE

AccountInv ==
    /\ MMInv /\ IsFiniteSet(used)
    /\ free # <<>> =>
           FoldTotal(free) + SumSizes(used) = WholePool /\ AllKnown(used, free, live)

LEMMA UsedSizes ==
    ASSUME MMInv, NEW u, u \subseteq used, IsFiniteSet(used)
    PROVE  /\ IsFiniteSet(u) /\ SumSizes(u) \in Nat
           /\ \A h \in u : SumSizes(u) = h.size + SumSizes(u \ {h}) /\ SumSizes(u \ {h}) \in Nat
           /\ \A b : b \notin u /\ b.size \in Nat => SumSizes(u \cup {b}) = SumSizes(u) + b.size
<1>1. \A b \in used : b.size \in Nat
  BY DEF MMInv, ListsOK, Sound, UsedBlock
<1>2. IsFiniteSet(u) /\ \A b \in u : b.size \in Nat
  BY <1>1, FS_Subset
<1>3. ASSUME NEW v, IsFiniteSet(v), \A b \in v : b.size \in Nat
      PROVE  /\ SumSizes(v) = Total(v, SizesOf(v)) /\ Weighs(SizesOf(v), v)
             /\ Total(v, SizesOf(v)) \in Nat
  <2>1. Weighs(SizesOf(v), v)
    BY <1>3 DEF Weighs, SizesOf
  <2> QED BY <1>3, <2>1, UsedTotal, TotalType
<1>4. ASSUME NEW v, NEW b, IsFiniteSet(v), \A x \in v : x.size \in Nat, b \notin v, b.size \in Nat
      PROVE  SumSizes(v \cup {b}) = SumSizes(v) + b.size /\ SumSizes(v) \in Nat
  <2> DEFINE r == v \cup {b}
             w == SizesOf(r)
  <2>1. IsFiniteSet(r) /\ \A x \in r : x.size \in Nat
    BY <1>4, FS_AddElement
  <2>2. \A x \in r : w[x] = x.size
    BY DEF SizesOf
  <2>3. \A x \in v : SizesOf(v)[x] = x.size
    BY DEF SizesOf
  <2>4. b \in r /\ v \subseteq r
    OBVIOUS
  <2> HIDE DEF w
  <2>5. Weighs(w, v) /\ w[b] = b.size
    BY <2>1, <2>2, <2>4 DEF Weighs
  <2>6. Total(v \cup {b}, w) = w[b] + Total(v, w)
    BY <1>4, <2>5, TotalAdd
  <2>7. \A x \in v : SizesOf(v)[x] = w[x]
    BY <2>2, <2>3, <2>4
  <2>8. Total(v, SizesOf(v)) = Total(v, w)
    BY <1>3, <1>4, <2>7, TotalSame
  <2>9. SumSizes(v) = Total(v, w) /\ SumSizes(v) \in Nat
    BY <1>3, <1>4, <2>8
  <2>10. SumSizes(r) = Total(r, w)
    BY <1>3, <2>1 DEF w
  <2> QED BY <1>4, <2>5, <2>6, <2>9, <2>10
<1>5. ASSUME NEW h \in u
      PROVE  SumSizes(u) = h.size + SumSizes(u \ {h}) /\ SumSizes(u \ {h}) \in Nat
  <2> DEFINE v == u \ {h}
  <2>1. IsFiniteSet(v) /\ (\A x \in v : x.size \in Nat) /\ h \notin v /\ h.size \in Nat
    BY <1>2, FS_Subset
  <2>2. v \cup {h} = u
    OBVIOUS
  <2> HIDE DEF v
  <2>3. SumSizes(v \cup {h}) = SumSizes(v) + h.size /\ SumSizes(v) \in Nat
    BY <1>4, <2>1
  <2>4. SumSizes(v) + h.size = h.size + SumSizes(v)
    BY <2>1, <2>3
  <2> QED BY <2>2, <2>3, <2>4 DEF v
<1> QED BY <1>2, <1>3, <1>4, <1>5

(* The size of one free block changed, and a block put in front. *)
LEMMA FreeChanged ==
    ASSUME NEW f \in Seq(FreeNode), NEW i \in DOMAIN f, NEW n \in FreeNode
    PROVE  FoldTotal([f EXCEPT ![i] = n]) + f[i].size = FoldTotal(f) + n.size /\ FoldTotal(f) \in Nat
           /\ FoldTotal([f EXCEPT ![i] = n]) \in Nat
<1> DEFINE g == [f EXCEPT ![i] = n]
           S == DOMAIN f
           w == FreeSizes(f)
           v == FreeSizes(g)
<1>1. g \in Seq(FreeNode) /\ DOMAIN g = S /\ \A j \in S : g[j] = IF j = i THEN n ELSE f[j]
  OBVIOUS
<1>2. IsFiniteSet(S)
  <2>1. S = 1..Len(f) /\ Len(f) \in Nat
    BY LenProperties
  <2> QED BY <2>1, FS_Interval
<1>3. \A j \in S : f[j] \in FreeNode /\ g[j] \in FreeNode
  BY <1>1
<1>4. \A j \in S : f[j].size \in Nat /\ g[j].size \in Nat
  BY <1>3 DEF FreeNode
<1> HIDE DEF g
<1>5. \A j \in S : w[j] = f[j].size /\ v[j] = g[j].size
  BY <1>1 DEF FreeSizes
<1>6. FoldTotal(f) = Total(S, w) /\ FoldTotal(g) = Total(S, v)
  BY <1>1, ListTotal
<1> HIDE DEF w, v, S
<1>7. Weighs(w, S) /\ Weighs(v, S) /\ i \in S
  BY <1>4, <1>5 DEF Weighs, S
<1>8. \A j \in S : j # i => w[j] = v[j]
  BY <1>1, <1>5
<1>9. Total(S, w) + v[i] = Total(S, v) + w[i]
  BY <1>2, <1>7, <1>8, TotalChange
<1>10. Total(S, w) \in Nat /\ Total(S, v) \in Nat
  BY <1>2, <1>7, TotalType
<1>11. v[i] = n.size /\ w[i] = f[i].size
  BY <1>1, <1>5, <1>7
<1> QED BY <1>6, <1>9, <1>10, <1>11 DEF g

LEMMA FreePut ==
    ASSUME NEW f \in Seq(FreeNode), NEW n \in FreeNode
    PROVE  FoldTotal(<<n>> \o f) = n.size + FoldTotal(f)
<1> DEFINE g == <<n>> \o f
           N == Len(f)
           w == FreeSizes(f)
           v == FreeSizes(g)
<1>1. N \in Nat /\ DOMAIN f = 1..N
  BY LenProperties
<1>2. /\ g \in Seq(FreeNode) /\ DOMAIN g = 1..(N + 1) /\ g[1] = n
      /\ \A k \in 1..N : g[k + 1] = f[k]
  OBVIOUS
<1> HIDE DEF g, N
<1>3. \A k \in 1..N : w[k] = f[k].size
  BY <1>1 DEF FreeSizes
<1>4. \A k \in 1..(N + 1) : v[k] = g[k].size
  BY <1>2 DEF FreeSizes
<1>5. FoldTotal(f) = Total(1..N, w) /\ FoldTotal(g) = Total(1..(N + 1), v)
  BY <1>1, <1>2, ListTotal
<1>6. \A k \in 1..N : f[k] \in FreeNode
  BY <1>1
<1>7. \A k \in 1..N : f[k].size \in Nat
  BY <1>6 DEF FreeNode
<1> HIDE DEF w, v
<1>8. Weighs(w, 1..N)
  BY <1>3, <1>7 DEF Weighs
<1>9. v[1] = n.size /\ v[1] \in Nat
  <2>1. 1 \in 1..(N + 1)
    BY <1>1
  <2> QED BY <1>2, <1>4, <2>1 DEF FreeNode
<1>10. \A k \in 1..N : v[k + 1] = w[k]
  <2>1. \A k \in 1..N : k + 1 \in 1..(N + 1)
    BY <1>1
  <2> QED BY <1>2, <1>3, <1>4, <2>1
<1>11. Total(1..(N + 1), v) = v[1] + Total(1..N, w)
  BY <1>1, <1>8, <1>9, <1>10, TotalShift
<1> QED BY <1>5, <1>9, <1>11 DEF g

LEMMA FreeNone == FoldTotal(<<>>) = 0
<1>1. << >> \in Seq(FreeNode) /\ DOMAIN << >> = {}
  OBVIOUS
<1>2. FoldTotal(<<>>) = Total({}, FreeSizes(<<>>))
  BY <1>1, ListTotal
<1> QED BY <1>2, TotalNone

LEMMA AccountStarts == ASSUME InReach, Init PROVE AccountInv
<1> DEFINE r == InitialFree(pool)[1]
           b == [start |-> pool.base % WORD, size |-> NODE]
<1>1. MMInv
  BY AllocatorInit
<1>2. used = {b} /\ free = <<r>>
  BY DEF Init, InitialUsed, InitialFree
<1>3. IsFiniteSet(used) /\ b.size \in Nat /\ b \notin {}
  BY <1>2, FS_Singleton, Sizes
<1>4. SumSizes(used) = SumSizes({}) + NODE
  <2>1. {} \subseteq used /\ {} \cup {b} = used /\ b.size = NODE
    BY <1>2
  <2> HIDE DEF b
  <2> QED BY <1>1, <1>3, <2>1, UsedSizes
<1>5. SumSizes({}) = 0
  <2>1. IsFiniteSet({}) /\ \A x \in {} : x.size \in Nat
    BY FS_EmptySet
  <2> QED BY <2>1, UsedTotal, TotalNone
<1>6. free \in Seq(FreeNode)
  BY <1>1 DEF MMInv, ListsOK, Sound
<1> HIDE DEF r
<1>7. r \in FreeNode
  <2>1. 1 \in DOMAIN free /\ free[1] = r
    BY <1>2
  <2> QED BY <1>6, <2>1
<1>8. FoldTotal(free) = r.size
  <2>1. FoldTotal(<<r>> \o <<>>) = r.size + FoldTotal(<<>>)
    <3>1. << >> \in Seq(FreeNode)
      OBVIOUS
    <3> QED BY <1>7, <3>1, FreePut
  <2>2. <<r>> \o <<>> = <<r>>
    OBVIOUS
  <2>3. r.size \in Nat
    BY <1>7 DEF FreeNode
  <2> QED BY <1>2, <2>1, <2>2, <2>3, FreeNone
<1>9. FoldTotal(free) + SumSizes(used) = WholePool
  <2>1. r.size \in Nat /\ NODE \in Nat
    BY <1>7, Sizes DEF FreeNode
  <2> QED BY <1>4, <1>5, <1>8, <2>1 DEF WholePool, r
<1>10. AllKnown(used, free, live)
  BY <1>2 DEF AllKnown, InitialUsed
<1> QED BY <1>1, <1>3, <1>9, <1>10 DEF AccountInv

LEMMA FirstByte ==
    ASSUME MMInv, NEW i \in DOMAIN free, free[i].size >= NODE
    PROVE  \A x \in used : x.start # free[i].start
<1>1. \A x \in used : x.start \in Nat /\ x.size \in Nat \ {0} /\ Apart(x, free[i])
  BY DEF MMInv, ListsOK, Sound, UsedBlock
<1>2. free[i] \in FreeNode
  BY DEF MMInv, ListsOK, Sound
<1>3. free[i].start \in Nat /\ free[i].size \in Nat /\ free[i].size > 0
  BY <1>2, Sizes DEF FreeNode
<1> QED BY <1>1, <1>3 DEF Apart

LEMMA CutNode ==
    ASSUME NEW n \in FreeNode, NEW k \in Nat, n.size >= k
    PROVE  /\ Cut(n, k) \in FreeNode /\ Cut(n, k).size = n.size - k
           /\ Cut(n, k).node = n.node
<1>1. n = [node |-> n.node, start |-> n.start, size |-> n.size]
      /\ n.node \in Nat /\ n.start \in Nat /\ n.size \in Nat
  BY DEF FreeNode
<1>2. Cut(n, k) = [node |-> n.node, start |-> n.start + k, size |-> n.size - k]
  <2> DEFINE m == [n EXCEPT !.start = n.start + k]
  <2>1. m = [node |-> n.node, start |-> n.start + k, size |-> n.size]
    BY <1>1
  <2>2. Cut(n, k) = [m EXCEPT !.size = n.size - k]
    BY DEF Cut
  <2> HIDE DEF m
  <2> QED BY <2>1, <2>2
<1> QED BY <1>1, <1>2 DEF FreeNode

LEMMA MergeNode ==
    ASSUME NEW n \in FreeNode, NEW h, h.start \in Nat, h.size \in Nat
    PROVE  /\ Merge(n, h) \in FreeNode /\ Merge(n, h).size = n.size + h.size
           /\ Merge(n, h).node = n.node
<1>1. n = [node |-> n.node, start |-> n.start, size |-> n.size]
      /\ n.node \in Nat /\ n.start \in Nat /\ n.size \in Nat
  BY DEF FreeNode
<1>2. \/ Merge(n, h) = [node |-> n.node, start |-> n.start, size |-> n.size + h.size]
      \/ Merge(n, h) = [node |-> n.node, start |-> h.start, size |-> n.size + h.size]
  BY <1>1 DEF Merge
<1> QED BY <1>1, <1>2 DEF FreeNode

LEMMA TakenAccounts ==
    ASSUME AccountInv, NEW size \in Requests, NEW i \in DOMAIN free, Taken(i, size)
    PROVE  AccountInv'
<1> DEFINE k == size + NODE
           b == [start |-> free[i].start, size |-> k]
           n == Cut(free[i], k)
           l == [ptr |-> free[i].start + NODE, size |-> size]
<1>1. /\ MMInv /\ IsFiniteSet(used) /\ free # <<>>
      /\ FoldTotal(free) + SumSizes(used) = WholePool /\ AllKnown(used, free, live)
  BY DEF AccountInv
<1>2. /\ free[i].size >= k /\ used' = used \cup {b} /\ free' = [free EXCEPT ![i] = n]
      /\ live' = live \cup {l} /\ pool' = pool
  BY DEF Taken
<1>3. MMInv'
  BY <1>1, MallocStep
<1>4. free \in Seq(FreeNode) /\ free[i] \in FreeNode
  BY <1>1 DEF MMInv, ListsOK, Sound
<1>5. k \in Nat /\ k >= NODE /\ NODE \in Nat /\ free[i].size \in Nat /\ free[i].start \in Nat
  BY <1>4, Sizes, RequestAssumption DEF FreeNode
<1>6. b \notin used
  <2>1. \A x \in used : x.start # free[i].start
    BY <1>1, <1>2, <1>5, FirstByte
  <2> QED BY <2>1
<1>7. n \in FreeNode /\ n.size = free[i].size - k /\ n.node = free[i].node
  BY <1>2, <1>4, <1>5, CutNode
<1>8. SumSizes(used') = SumSizes(used) + k /\ SumSizes(used) \in Nat
  <2>1. b.size = k /\ used \subseteq used
    OBVIOUS
  <2> HIDE DEF b, k
  <2> QED BY <1>1, <1>2, <1>5, <1>6, <2>1, UsedSizes
<1>9. FoldTotal(free') + free[i].size = FoldTotal(free) + n.size
      /\ FoldTotal(free) \in Nat /\ FoldTotal(free') \in Nat
  <2> HIDE DEF n
  <2> QED BY <1>2, <1>4, <1>7, FreeChanged
<1>10. IsFiniteSet(used')
  BY <1>1, <1>2, FS_AddElement
<1>11. FoldTotal(free') + SumSizes(used') = WholePool
  <2> HIDE DEF n, k
  <2> QED BY <1>1, <1>5, <1>7, <1>8, <1>9
<1>12. WholePool' = WholePool
  BY <1>2 DEF WholePool, InitialFree, FirstNode, FirstFree
<1>13. AllKnown(used, free, live)'
  <2>1. \A j \in DOMAIN free : j \in DOMAIN free' /\ free'[j].node = free[j].node
    BY <1>2, <1>4, <1>7
  <2>2. l \in live' /\ l.ptr = b.start + NODE
    BY <1>2
  <2>3. InitialUsed(pool)' = InitialUsed(pool)
    BY <1>2 DEF InitialUsed
  <2> HIDE DEF b, l
  <2> QED BY <1>1, <1>2, <2>1, <2>2, <2>3 DEF AllKnown
<1> QED BY <1>3, <1>10, <1>11, <1>12, <1>13 DEF AccountInv, AllKnown

(* The used blocks that are not given back are known without the caller.     *)
LEMMA KnownStill ==
    ASSUME MMInv, NEW l \in live, AllKnown(used, free, live)
    PROVE  AllKnown(used \ {HomeOf(l)}, free, live \ {l})
<1> SUFFICES ASSUME NEW b \in used, b # HomeOf(l), NEW m \in live, m.ptr = b.start + NODE
             PROVE  m # l
  BY DEF AllKnown
<1> SUFFICES ASSUME m = l PROVE FALSE
  OBVIOUS
<1>1. b.start \in Nat /\ NODE \in Nat
  BY Sizes DEF MMInv, ListsOK, Sound, UsedBlock
<1>2. b.start = l.ptr - NODE
  BY <1>1
<1> QED BY <1>2, OnlyHome

LEMMA MergedAccounts ==
    ASSUME AccountInv, NEW l \in live, NEW i \in DOMAIN free, Merged(l, i),
           pool' = pool, live' = live \ {l}
    PROVE  AccountInv'
<1> DEFINE h == HomeOf(l)
           n == Merge(free[i], h)
<1>1. /\ MMInv /\ IsFiniteSet(used) /\ free # <<>>
      /\ FoldTotal(free) + SumSizes(used) = WholePool /\ AllKnown(used, free, live)
  BY DEF AccountInv
<1>2. used' = used \ {h} /\ free' = [free EXCEPT ![i] = n]
  BY DEF Merged
<1>3. MMInv'
  BY <1>1, MergedStep
<1>4. free \in Seq(FreeNode) /\ free[i] \in FreeNode
  BY <1>1 DEF MMInv, ListsOK, Sound
<1>5. h \in used /\ h.size \in Nat /\ h.start \in Nat
  <2>1. h \in used
    BY <1>1 DEF MMInv, LiveOK
  <2> HIDE DEF h
  <2> QED BY <1>1, <2>1 DEF MMInv, ListsOK, Sound, UsedBlock
<1> HIDE DEF h
<1>6. n \in FreeNode /\ n.size = free[i].size + h.size /\ n.node = free[i].node
  BY <1>4, <1>5, MergeNode
<1>7. SumSizes(used) = h.size + SumSizes(used') /\ SumSizes(used') \in Nat
  <2>1. used \subseteq used
    OBVIOUS
  <2> QED BY <1>1, <1>2, <1>5, <2>1, UsedSizes
<1>8. FoldTotal(free') + free[i].size = FoldTotal(free) + n.size
      /\ FoldTotal(free) \in Nat /\ FoldTotal(free') \in Nat
  <2> HIDE DEF n
  <2> QED BY <1>2, <1>4, <1>6, FreeChanged
<1>9. free[i].size \in Nat
  BY <1>4 DEF FreeNode
<1>10. FoldTotal(free') + SumSizes(used') = WholePool
  <2> HIDE DEF n
  <2> QED BY <1>1, <1>5, <1>6, <1>7, <1>8, <1>9
<1>11. IsFiniteSet(used') /\ WholePool' = WholePool
  BY <1>1, <1>2, FS_RemoveElement DEF WholePool, InitialFree, FirstNode, FirstFree
<1>12. AllKnown(used, free, live)'
  <2>1. \A j \in DOMAIN free : j \in DOMAIN free' /\ free'[j].node = free[j].node
    BY <1>2, <1>4, <1>6
  <2>2. InitialUsed(pool)' = InitialUsed(pool)
    BY DEF InitialUsed
  <2>3. AllKnown(used \ {h}, free, live \ {l})
    BY <1>1, KnownStill DEF h
  <2> QED BY <1>2, <2>1, <2>2, <2>3 DEF AllKnown
<1> QED BY <1>3, <1>10, <1>11, <1>12 DEF AccountInv, AllKnown

LEMMA ListedAccounts ==
    ASSUME AccountInv, NEW l \in live, NEW i \in DOMAIN free, Listed(l, i),
           pool' = pool, live' = live \ {l}
    PROVE  AccountInv'
<1> DEFINE h == HomeOf(l)
           u == used \ {h}
           k == NODE + NODE
           b == [start |-> free[i].start, size |-> k]
           n == Cut(free[i], k)
           g == [free EXCEPT ![i] = n]
           c == [node |-> free[i].start + NODE, start |-> h.start, size |-> h.size]
<1>1. /\ MMInv /\ IsFiniteSet(used) /\ free # <<>>
      /\ FoldTotal(free) + SumSizes(used) = WholePool /\ AllKnown(used, free, live)
  BY DEF AccountInv
<1>2. used' = u \cup {b} /\ free' = <<c>> \o g /\ free[i].size >= k
  BY DEF Listed
<1>3. MMInv'
  BY <1>1, ListedStep
<1>4. free \in Seq(FreeNode) /\ free[i] \in FreeNode
  BY <1>1 DEF MMInv, ListsOK, Sound
<1>5. h \in used /\ h.size \in Nat /\ h.start \in Nat
  <2>1. h \in used
    BY <1>1 DEF MMInv, LiveOK
  <2> HIDE DEF h
  <2> QED BY <1>1, <2>1 DEF MMInv, ListsOK, Sound, UsedBlock
<1> HIDE DEF h
<1>6. NODE \in Nat /\ k \in Nat /\ k >= NODE /\ free[i].size \in Nat /\ free[i].start \in Nat
  BY <1>4, Sizes DEF FreeNode
<1>7. b \notin u
  <2>1. \A x \in used : x.start # free[i].start
    BY <1>1, <1>2, <1>6, FirstByte
  <2> QED BY <2>1
<1>8. n \in FreeNode /\ n.size = free[i].size - k /\ n.node = free[i].node
  BY <1>2, <1>4, <1>6, CutNode
<1>9. c \in FreeNode /\ c.size = h.size /\ c.node = b.start + NODE
  BY <1>5, <1>6 DEF FreeNode
<1>10. SumSizes(used) = h.size + SumSizes(u) /\ SumSizes(u) \in Nat
  <2>1. used \subseteq used
    OBVIOUS
  <2> QED BY <1>1, <1>5, <2>1, UsedSizes
<1>11. SumSizes(used') = SumSizes(u) + k
  <2>1. b.size = k /\ u \subseteq used
    OBVIOUS
  <2> HIDE DEF b, k, u
  <2> QED BY <1>1, <1>2, <1>6, <1>7, <2>1, UsedSizes
<1>12. FoldTotal(g) + free[i].size = FoldTotal(free) + n.size
       /\ FoldTotal(free) \in Nat /\ FoldTotal(g) \in Nat
  <2> HIDE DEF n
  <2> QED BY <1>4, <1>8, FreeChanged
<1>13. g \in Seq(FreeNode) /\ DOMAIN g = DOMAIN free
       /\ \A j \in DOMAIN free : g[j].node = free[j].node
  <2> HIDE DEF n
  <2> QED BY <1>4, <1>8
<1> HIDE DEF g, c, n, k
<1>14. FoldTotal(free') = h.size + FoldTotal(g)
  BY <1>2, <1>9, <1>13, FreePut
<1>15. FoldTotal(free') + SumSizes(used') = WholePool
  <2>1. FoldTotal(g) = FoldTotal(free) - k
    BY <1>6, <1>8, <1>12
  <2>2. FoldTotal(free') = h.size + (FoldTotal(free) - k)
    BY <1>14, <2>1
  <2>3. FoldTotal(free') + SumSizes(used') = FoldTotal(free) + (h.size + SumSizes(u))
    BY <1>5, <1>6, <1>10, <1>11, <1>12, <2>2
  <2> QED BY <1>1, <1>10, <2>3
<1>16. IsFiniteSet(used') /\ WholePool' = WholePool
  <2>1. IsFiniteSet(u)
    BY <1>1, FS_RemoveElement
  <2> HIDE DEF u
  <2> QED BY <1>2, <2>1, FS_AddElement DEF WholePool, InitialFree, FirstNode, FirstFree
<1>17. AllKnown(used, free, live)'
  <2>1. /\ 1 \in DOMAIN free' /\ free'[1].node = b.start + NODE
        /\ \A j \in DOMAIN g : j + 1 \in DOMAIN free' /\ free'[j + 1] = g[j]
    BY <1>2, <1>9, <1>13
  <2>2. \A j \in DOMAIN free : j + 1 \in DOMAIN free' /\ free'[j + 1].node = free[j].node
    BY <1>13, <2>1
  <2>3. InitialUsed(pool)' = InitialUsed(pool)
    BY DEF InitialUsed
  <2>4. AllKnown(u, free, live \ {l})
    BY <1>1, KnownStill DEF h
  <2> HIDE DEF b, u
  <2> QED BY <1>2, <2>1, <2>2, <2>3, <2>4 DEF AllKnown
<1> QED BY <1>3, <1>15, <1>16, <1>17 DEF AccountInv, AllKnown

LEMMA AccountStays == ASSUME AccountInv, [Next]_vars PROVE AccountInv'
<1>1. MMInv /\ MMInv' /\ IsFiniteSet(used)
  BY AllocatorStep DEF AccountInv
<1>2. CASE UNCHANGED vars
  <2>1. WholePool' = WholePool /\ InitialUsed(pool)' = InitialUsed(pool)
    BY <1>2 DEF vars, WholePool, InitialFree, InitialUsed, FirstNode, FirstFree
  <2>2. used' = used /\ free' = free /\ live' = live
    BY <1>2 DEF vars
  <2> QED BY <1>1, <2>1, <2>2 DEF AccountInv, AllKnown
<1>3. ASSUME NEW size \in Requests, malloc(size) PROVE AccountInv'
  BY <1>1, <1>2, <1>3, MallocCases, TakenAccounts
<1>4. ASSUME NEW l \in live, free_block(l.ptr) PROVE AccountInv'
  <2>1. ASSUME Lost(l) PROVE AccountInv'
    <3>1. free' = <<>> /\ IsFiniteSet(used')
      BY <1>1, <2>1, FS_RemoveElement DEF Lost
    <3> QED BY <1>1, <3>1 DEF AccountInv
  <2> QED BY <1>1, <1>4, <2>1, ReleaseCases, MergedAccounts, ListedAccounts
<1>5. CASE free_unknown(NULL)
  BY <1>2, <1>5 DEF free_unknown
<1> QED BY <1>2, <1>3, <1>4, <1>5 DEF Next

(* The books balance through every sequence of calls of malloc and free, on   *)
(* every memory map whose pool is in reach: the sizes of the two lists sum up *)
(* to what mm_initialize took over, and no used block is forgotten, until a   *)
(* free finds no room for its node.                                          *)
THEOREM AllocatorAccounts == InReach => (Spec => []Accounted)
<1> SUFFICES ASSUME InReach PROVE Spec => []Accounted
  OBVIOUS
<1>1. Init => AccountInv
  BY AccountStarts
<1>2. AccountInv /\ [Next]_vars => AccountInv'
  BY AccountStays
<1>3. AccountInv => Accounted
  BY DEF AccountInv, AllKnown, Accounted, WholePool, FreeTotal, FoldTotal
<1> QED BY <1>1, <1>2, <1>3, PTL DEF Spec

-----------------------------------------------------------------------------
(* The command root. *)

(* The blocks the filesystem holds, and those it knows of at each step of    *)
(* the command.                                                             *)
Owned == {l.ptr : l \in live \ others}

Known ==
    CASE pc \in {"idle", "release_fat"}     -> {root.handle, root.fat}
      [] pc = "release_handle"              -> {root.handle}
      [] pc = "get_handle"                  -> {}
      [] pc \in {"read_fat", "make_handle"} -> {fat}

MountTypes ==
    /\ pc \in {"idle", "release_fat", "release_handle", "get_handle", "read_fat", "make_handle"}
    /\ root \in [handle : Nat, fat : Nat]
    /\ fat \in Nat /\ null_written \in BOOLEAN
    /\ others \subseteq live

RootOK ==
    /\ root.handle = root.fat => root = NoRoot
    /\ pc \in {"get_handle", "read_fat", "make_handle"} => root = NoRoot
    /\ pc = "make_handle" /\ fat = NULL => null_written

KnownOK ==
    /\ Known \ {NULL} \subseteq Owned
    /\ ~null_written => Owned \subseteq Known \ {NULL}

MountInv == MMInv /\ MountTypes /\ RootOK /\ KnownOK

-----------------------------------------------------------------------------
(* The effect of one call of the allocator on the blocks of the filesystem.  *)

LEMMA NoNullBlock == ASSUME MMInv PROVE Node(NULL) = {}
<1>1. \A b \in used : b.start \in Nat
  BY Typed
<1>2. NULL - NODE \notin Nat
  BY Sizes DEF NULL
<1> QED BY <1>1, <1>2 DEF Node

LEMMA FreeOwned ==
    ASSUME MMInv, others \subseteq live, NEW ptr, ptr # NULL => ptr \in Owned, heap_free(ptr)
    PROVE  /\ [Next]_vars
           /\ others \subseteq live'
           /\ {l.ptr : l \in live' \ others} = Owned \ {ptr}
<1>1. CASE ptr = NULL
  <2>1. Node(NULL) = {}
    BY NoNullBlock
  <2>2. UNCHANGED vars
    BY <1>1, <2>1 DEF heap_free, free_block, free_unknown
  <2>3. NULL \notin Owned
    BY HeldBytes DEF Owned
  <2> QED BY <1>1, <2>2, <2>3 DEF vars, Owned
<1>2. CASE ptr # NULL
  <2>1. PICK l \in live \ others : l.ptr = ptr
    BY <1>2 DEF Owned
  <2>2. HomeOf(l) \in used /\ HomeOf(l).start = ptr - NODE
    BY <2>1, HeldBytes DEF HomeOf
  <2>3. free_block(l.ptr)
    BY <2>1, <2>2 DEF heap_free, free_unknown, Node
  <2>4. live' = live \ {l}
    BY <2>1, <2>3, ReleaseCases
  <2>5. \A m \in live : m.ptr = ptr => m = l
    BY <2>1, OneCaller
  <2> QED BY <2>1, <2>3, <2>4, <2>5 DEF Next, Owned
<1> QED BY <1>1, <1>2

LEMMA MallocOwned ==
    ASSUME MMInv, NEW size \in Requests, malloc(size), others \subseteq live
    PROVE  LET ptr == Malloc(used, free, size).ptr
           IN  /\ [Next]_vars /\ live \subseteq live' /\ ptr \in Nat
               /\ ptr = NULL => live' = live
               /\ ptr # NULL => ptr \notin Owned
               /\ {l.ptr : l \in live' \ others} = Owned \cup ({ptr} \ {NULL})
<1> DEFINE ptr == Malloc(used, free, size).ptr
<1>1. [Next]_vars
  BY DEF Next
<1>2. CASE UNCHANGED vars /\ ptr = NULL
  BY <1>1, <1>2 DEF vars, Owned, NULL
<1>3. ASSUME NEW i \in DOMAIN free, Taken(i, size), ptr = free[i].start + NODE
      PROVE  /\ live \subseteq live' /\ ptr \in Nat \ {NULL} /\ ptr \notin Owned
             /\ {l.ptr : l \in live' \ others} = Owned \cup {ptr}
  <2>1. free[i].start \in Nat /\ NODE \in Nat \ {0}
    BY Typed, Sizes
  <2>2. ptr \in Nat \ {NULL}
    BY <1>3, <2>1 DEF NULL
  <2>3. \A l \in live : l.ptr # ptr
    <3> SUFFICES ASSUME NEW l \in live PROVE l.ptr # ptr
      OBVIOUS
    <3>1. HomeOf(l) \in used /\ l.ptr \in Nat /\ HomeOf(l).start = l.ptr - NODE
      BY HeldBytes DEF HomeOf
    <3>2. HomeOf(l).start # free[i].start
      BY <1>3, <3>1, MallocStep
    <3> QED BY <1>3, <2>1, <3>1, <3>2
  <2>4. live' = live \cup {[ptr |-> ptr, size |-> size]}
    BY <1>3 DEF Taken
  <2> HIDE DEF ptr
  <2>5. [ptr |-> ptr, size |-> size] \notin others
    BY <2>3
  <2> QED BY <2>2, <2>3, <2>4, <2>5 DEF Owned
<1> QED BY <1>1, <1>2, <1>3, MallocCases

-----------------------------------------------------------------------------
(* Each step of the command keeps the invariant and is a step of the         *)
(* allocator, or none.                                                      *)

LEMMA MountInitially == ASSUME InReach, MountInit PROVE MountInv
<1>1. MMInv
  BY AllocatorInit DEF MountInit
<1>2. MountTypes /\ RootOK
  BY DEF MountInit, MountTypes, RootOK, NoRoot, NULL
<1>3. Owned = {} /\ Known \ {NULL} = {}
  BY DEF MountInit, Init, Owned, Known, NoRoot, NULL
<1> QED BY <1>1, <1>2, <1>3 DEF MountInv, KnownOK

LEMMA HeapKept == ASSUME MMInv, [Next]_vars PROVE MMInv'
BY AllocatorStep

(* What the allocator does not see. *)
LEMMA QuietStep ==
    ASSUME MountInv, UNCHANGED <<vars, others>>,
           MountTypes', RootOK', Known' = Known \/ Known' \ {NULL} = Known \ {NULL},
           null_written => null_written'
    PROVE  MountInv' /\ [Next]_vars
<1>1. MMInv'
  BY HeapKept DEF MountInv
<1>2. Owned' = Owned
  BY DEF vars, Owned
<1>3. KnownOK'
  BY <1>2 DEF MountInv, KnownOK
<1> QED BY <1>1, <1>3 DEF MountInv

LEMMA RootCommandStep == ASSUME MountInv, RootCommand PROVE MountInv' /\ [Next]_vars
<1>1. MountTypes'
  BY DEF RootCommand, MountInv, MountTypes, vars
<1>2. RootOK'
  BY DEF RootCommand, MountInv, RootOK, vars
<1>3. CASE root = NoRoot
  <2>1. Known' \ {NULL} = {} /\ Known \ {NULL} = {}
    BY <1>3 DEF RootCommand, Known, NoRoot, NULL
  <2> QED BY <1>1, <1>2, <2>1, QuietStep DEF RootCommand
<1>4. CASE root # NoRoot
  <2>1. Known' = Known
    BY <1>4 DEF RootCommand, Known
  <2> QED BY <1>1, <1>2, <2>1, QuietStep DEF RootCommand
<1> QED BY <1>3, <1>4

LEMMA FreeingStep ==
    ASSUME MountInv, NEW ptr \in Nat, ptr # NULL => ptr \in Known, heap_free(ptr),
           others' = others, null_written' = null_written, MountTypes', RootOK',
           Known' \ {NULL} = (Known \ {NULL}) \ {ptr}
    PROVE  MountInv' /\ [Next]_vars
<1>1. /\ [Next]_vars
      /\ {l.ptr : l \in live' \ others} = Owned \ {ptr}
  BY FreeOwned DEF MountInv, MountTypes, KnownOK
<1>2. MMInv'
  BY <1>1, HeapKept DEF MountInv
<1>3. Owned' = Owned \ {ptr}
  BY <1>1 DEF Owned
<1>4. KnownOK'
  BY <1>3 DEF MountInv, KnownOK
<1> QED BY <1>1, <1>2, <1>4 DEF MountInv

LEMMA OthersKept ==
    ASSUME MountInv, NEW ptr, ptr # NULL => ptr \in Known, heap_free(ptr), others' = others
    PROVE  others' \subseteq live'
BY FreeOwned DEF MountInv, MountTypes, KnownOK

LEMMA ReleaseFatStep == ASSUME MountInv, ReleaseFat PROVE MountInv' /\ [Next]_vars
<1>0. root.fat \in Nat /\ root.fat \in Known /\ heap_free(root.fat) /\ pc = "release_fat"
  BY DEF ReleaseFat, MountInv, MountTypes, Known
<1>1. MountTypes'
  BY <1>0, OthersKept DEF ReleaseFat, MountInv, MountTypes
<1>2. RootOK'
  BY DEF ReleaseFat, MountInv, RootOK
<1>3. Known = {root.handle, root.fat} /\ Known' = {root.handle}
  BY <1>0 DEF ReleaseFat, Known
<1>4. root.handle = root.fat => root.handle = NULL
  BY DEF MountInv, RootOK, NoRoot
<1>5. Known' \ {NULL} = (Known \ {NULL}) \ {root.fat}
  BY <1>3, <1>4
<1> QED BY <1>0, <1>1, <1>2, <1>5, FreeingStep DEF ReleaseFat

LEMMA ReleaseHandleStep == ASSUME MountInv, ReleaseHandle PROVE MountInv' /\ [Next]_vars
<1>0. root.handle \in Nat /\ root.handle \in Known /\ heap_free(root.handle) /\ pc = "release_handle"
  BY DEF ReleaseHandle, MountInv, MountTypes, Known
<1>1. MountTypes'
  BY <1>0, OthersKept DEF ReleaseHandle, MountInv, MountTypes, NoRoot, NULL
<1>2. RootOK'
  BY DEF ReleaseHandle, MountInv, RootOK
<1>3. Known = {root.handle} /\ Known' = {}
  BY <1>0 DEF ReleaseHandle, Known
<1> QED BY <1>0, <1>1, <1>2, <1>3, FreeingStep DEF ReleaseHandle

LEMMA NoHandleStep == ASSUME MountInv, NoHandle PROVE MountInv' /\ [Next]_vars
<1>1. MountTypes' /\ RootOK'
  BY DEF NoHandle, MountInv, MountTypes, RootOK, vars
<1>2. Known = {} /\ Known' \ {NULL} = {}
  BY DEF NoHandle, MountInv, RootOK, Known, NoRoot, NULL
<1> QED BY <1>1, <1>2, QuietStep DEF NoHandle

LEMMA AllocateFatStep ==
    ASSUME MountInv, NEW v \in Volumes, AllocateFat(v) PROVE MountInv' /\ [Next]_vars
<1> DEFINE ptr == Malloc(used, free, FatSize(v)).ptr
<1>1. FatSize(v) \in Requests /\ malloc(FatSize(v)) /\ pc = "get_handle"
  BY FilesystemRequests DEF AllocateFat
<1>2. /\ [Next]_vars /\ live \subseteq live' /\ ptr \in Nat
      /\ {l.ptr : l \in live' \ others} = Owned \cup ({ptr} \ {NULL})
  BY <1>1, MallocOwned DEF MountInv, MountTypes
<1>3. /\ fat' = ptr /\ pc' = "read_fat" /\ UNCHANGED <<root, null_written, others>>
  BY DEF AllocateFat
<1> HIDE DEF ptr
<1>4. MountTypes'
  BY <1>2, <1>3 DEF MountInv, MountTypes
<1>5. RootOK'
  BY <1>1, <1>3 DEF MountInv, RootOK
<1>6. Known = {} /\ Known' = {ptr}
  BY <1>1, <1>3 DEF Known
<1>7. Owned' = Owned \cup ({ptr} \ {NULL})
  BY <1>2, <1>3 DEF Owned
<1>8. KnownOK'
  BY <1>3, <1>6, <1>7 DEF MountInv, KnownOK
<1>9. MMInv'
  BY <1>2, HeapKept DEF MountInv
<1> QED BY <1>2, <1>4, <1>5, <1>8, <1>9 DEF MountInv

LEMMA ReadFatStep == ASSUME MountInv, ReadFat PROVE MountInv' /\ [Next]_vars
<1>1. null_written' \in BOOLEAN /\ (null_written => null_written') /\ (fat = NULL => null_written')
  BY DEF ReadFat, MountInv, MountTypes
<1>2. MountTypes'
  BY <1>1 DEF ReadFat, MountInv, MountTypes, vars
<1>3. RootOK'
  BY <1>1 DEF ReadFat, MountInv, RootOK
<1>4. Known' = Known
  BY DEF ReadFat, Known
<1> QED BY <1>1, <1>2, <1>3, <1>4, QuietStep DEF ReadFat

LEMMA ReadFatFailsStep == ASSUME MountInv, ReadFatFails PROVE MountInv' /\ [Next]_vars
<1>0. fat \in Nat /\ fat \in Known /\ heap_free(fat) /\ pc = "read_fat" /\ root = NoRoot
  BY DEF ReadFatFails, MountInv, MountTypes, RootOK, Known
<1>1. MountTypes'
  BY <1>0, OthersKept DEF ReadFatFails, MountInv, MountTypes, NULL
<1>2. RootOK'
  BY DEF ReadFatFails, MountInv, RootOK
<1>3. Known = {fat} /\ Known' \ {NULL} = {}
  BY <1>0 DEF ReadFatFails, Known, NoRoot
<1> QED BY <1>0, <1>1, <1>2, <1>3, FreeingStep DEF ReadFatFails

LEMMA MakeHandleStep == ASSUME MountInv, MakeHandle PROVE MountInv' /\ [Next]_vars
<1> DEFINE ptr == Malloc(used, free, HANDLE).ptr
<1>1. HANDLE \in Requests /\ malloc(HANDLE) /\ pc = "make_handle" /\ Known = {fat}
  BY FilesystemRequests DEF MakeHandle, Known
<1>2. /\ [Next]_vars /\ live \subseteq live' /\ ptr \in Nat
      /\ ptr # NULL => ptr \notin Owned
      /\ {l.ptr : l \in live' \ others} = Owned \cup ({ptr} \ {NULL})
  BY <1>1, MallocOwned DEF MountInv, MountTypes
<1>3. /\ null_written' = (null_written \/ ptr = NULL)
      /\ root' = IF ptr = NULL THEN NoRoot ELSE [handle |-> ptr, fat |-> fat]
      /\ fat' = NULL /\ pc' = "idle" /\ others' = others
  BY DEF MakeHandle
<1> HIDE DEF ptr
<1>4. MMInv'
  BY <1>2, HeapKept DEF MountInv
<1>5. MountTypes'
  BY <1>2, <1>3 DEF MountInv, MountTypes, NoRoot, NULL
<1>6. Owned' = Owned \cup ({ptr} \ {NULL})
  BY <1>2, <1>3 DEF Owned
<1>7. CASE ptr = NULL
  <2>1. RootOK' /\ null_written'
    BY <1>3, <1>7 DEF RootOK
  <2>2. Known' \ {NULL} = {}
    BY <1>3, <1>7 DEF Known, NoRoot
  <2> QED BY <1>2, <1>4, <1>5, <2>1, <2>2 DEF MountInv, KnownOK
<1>8. CASE ptr # NULL
  <2>1. fat # NULL => fat \in Owned
    BY <1>1 DEF MountInv, KnownOK
  <2>2. ptr # fat
    BY <1>2, <1>8, <2>1
  <2>3. RootOK'
    BY <1>3, <1>8, <2>2 DEF RootOK
  <2>4. Known' = {ptr, fat}
    BY <1>3, <1>8 DEF Known
  <2>5. KnownOK'
    BY <1>1, <1>3, <1>6, <1>8, <2>4 DEF MountInv, KnownOK
  <2> QED BY <1>2, <1>4, <1>5, <2>3, <2>5 DEF MountInv
<1> QED BY <1>7, <1>8

LEMMA OtherMallocStep ==
    ASSUME MountInv, NEW size \in Requests, OtherMalloc(size) PROVE MountInv' /\ [Next]_vars
<1>1. malloc(size) /\ others' = others \cup (live' \ live) /\ UNCHANGED <<pc, root, fat, null_written>>
  BY DEF OtherMalloc
<1>2. [Next]_vars /\ live \subseteq live'
  BY <1>1, MallocOwned DEF MountInv, MountTypes
<1>3. MMInv'
  BY <1>2, HeapKept DEF MountInv
<1>4. MountTypes' /\ RootOK'
  BY <1>1, <1>2 DEF MountInv, MountTypes, RootOK
<1>5. live' \ others' = live \ others
  BY <1>1, <1>2 DEF MountInv, MountTypes
<1>6. KnownOK'
  BY <1>1, <1>5 DEF MountInv, KnownOK, Known, Owned
<1> QED BY <1>2, <1>3, <1>4, <1>6 DEF MountInv

LEMMA OtherFreeStep ==
    ASSUME MountInv, NEW l \in others, OtherFree(l) PROVE MountInv' /\ [Next]_vars
<1>1. /\ free_block(l.ptr) /\ l \in live
      /\ others' = others \ {l} /\ UNCHANGED <<pc, root, fat, null_written>>
  BY DEF OtherFree, MountInv, MountTypes
<1>2. [Next]_vars /\ live' = live \ {l}
  BY <1>1, ReleaseCases DEF MountInv, Next
<1>3. MMInv'
  BY <1>2, HeapKept DEF MountInv
<1>4. MountTypes' /\ RootOK'
  BY <1>1, <1>2 DEF MountInv, MountTypes, RootOK
<1>5. live' \ others' = live \ others
  BY <1>1, <1>2
<1>6. KnownOK'
  BY <1>1, <1>5 DEF MountInv, KnownOK, Known, Owned
<1> QED BY <1>2, <1>3, <1>4, <1>6 DEF MountInv

LEMMA MountStep == ASSUME MountInv, [MountNext]_mountVars PROVE MountInv' /\ [Next]_vars
<1>1. CASE UNCHANGED mountVars
  <2>1. MountTypes' /\ RootOK' /\ Known' = Known
    BY <1>1 DEF MountInv, MountTypes, RootOK, Known, mountVars, vars
  <2> QED BY <1>1, <2>1, QuietStep DEF mountVars
<1>2. CASE RootUnsuitable
  BY <1>1, <1>2 DEF RootUnsuitable
<1>3. ASSUME NEW v \in Volumes, Unsupported(v) \/ AllocateFat(v)
      PROVE  MountInv' /\ [Next]_vars
  BY <1>3, NoHandleStep, AllocateFatStep DEF Unsupported
<1>4. CASE OtherFreesNull
  <2>1. UNCHANGED mountVars
    BY <1>4 DEF OtherFreesNull, free_unknown, mountVars
  <2> QED BY <1>1, <2>1
<1> QED BY <1>1, <1>2, <1>3, <1>4, RootCommandStep, ReleaseFatStep, ReleaseHandleStep,
           NoHandleStep, ReadFatStep, ReadFatFailsStep, MakeHandleStep, OtherMallocStep,
           OtherFreeStep DEF MountNext, Unreadable

-----------------------------------------------------------------------------
LEMMA MountInvariant == InReach => (MountSpec => []MountInv)
<1> SUFFICES ASSUME InReach PROVE MountSpec => []MountInv
  OBVIOUS
<1>1. MountInit => MountInv
  BY MountInitially
<1>2. MountInv /\ [MountNext]_mountVars => MountInv'
  BY MountStep
<1> QED BY <1>1, <1>2, PTL DEF MountSpec

(* Mounts, whatever fails in them, call the allocator as its callers should: *)
(* they free only what they hold, and NULL.  So its theorems hold of them.   *)
THEOREM MountUsesAllocator == InReach => (MountSpec => Spec)
<1> SUFFICES ASSUME InReach PROVE MountSpec => Spec
  OBVIOUS
<1>1. MountInit => Init
  BY DEF MountInit
<1>2. MountInv /\ [MountNext]_mountVars => [Next]_vars
  BY MountStep
<1> QED BY <1>1, <1>2, MountInvariant, PTL DEF MountSpec, Spec

(* The root mounted is never made of memory that was given back.             *)
THEOREM RootStaysAlive == InReach => (MountSpec => []RootAlive)
<1> SUFFICES ASSUME InReach PROVE MountSpec => []RootAlive
  OBVIOUS
<1>1. MountInv => RootAlive
  BY DEF MountInv, KnownOK, Known, Owned, RootAlive, BlocksOf
<1> QED BY <1>1, MountInvariant, PTL

(* Nothing is lost by a mount that fails or replaces another.                *)
THEOREM MountLeaksNothing == InReach => (MountSpec => []NothingLeaked)
<1> SUFFICES ASSUME InReach PROVE MountSpec => []NothingLeaked
  OBVIOUS
<1>1. MountInv => NothingLeaked
  BY DEF MountInv, KnownOK, Known, Owned, NothingLeaked, BlocksOf
<1> QED BY <1>1, MountInvariant, PTL
=============================================================================

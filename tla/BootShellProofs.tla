--------------------------- MODULE BootShellProofs ---------------------------
(***************************************************************************)
(* Theorems about the two loops that run in real mode: the one of stage 1   *)
(* that loads stage 2, for every disk and list of sectors, and the one of   *)
(* stage 2 that asks the BIOS for the memory map, for every map; about the  *)
(* two and the installer together; and about the command line, the program  *)
(* that the boot ends in: from keys to a line, to words, to a command, to a *)
(* device.                                                                  *)
(***************************************************************************)
EXTENDS Boot, Shell, SequenceTheorems, Arithmetic

-----------------------------------------------------------------------------
(* The address of a sector in the registers of INT 13 names that sector, as *)
(* long as its cylinder has ten bits.                                       *)
THEOREM SectorAddressed ==
    ASSUME NEW g \in Geometry, NEW n \in Nat, n < (1024 * g.heads) * g.spt
    PROVE  SectorAt(g, Address(g, n)) = n
<1> DEFINE s == g.spt
           h == g.heads
           t == n \div s
           j == n % s
           c == t \div h
           side == t % h
           top == c \div 256
           low == c % 256
<1>1. s \in Nat \ {0} /\ h \in Nat \ {0} /\ s <= 63
  BY DEF Geometry
<1> HIDE DEF s, h
<1>2. n = (s * t) + j /\ t \in Nat /\ j \in 0..(s - 1)
  BY ONLY n \in Nat, <1>1, DivMod
<1> HIDE DEF t, j
<1>3. t = (h * c) + side /\ c \in Nat /\ side \in 0..(h - 1)
  BY ONLY <1>1, <1>2, DivMod
<1> HIDE DEF c, side
<1>4. c < 1024
  <2> SUFFICES ASSUME c >= 1024 PROVE FALSE
    BY <1>3
  <2>1. h * c >= h * 1024
    BY <1>1, <1>3
  <2>2. t >= 1024 * h
    BY <1>1, <1>3, <2>1
  <2>3. s * t >= s * (1024 * h)
    BY <1>1, <1>2, <2>2
  <2>4. n < (1024 * h) * s
    BY DEF s, h
  <2> QED BY <1>1, <1>2, <2>3, <2>4
<1>5. c = (256 * top) + low /\ top \in 0..3 /\ low \in 0..255
  BY <1>3, <1>4
<1> HIDE DEF top, low
<1>6. Address(g, n) = [ch |-> low, cl |-> (j + 1) + (64 * top), dh |-> side]
  <2>1. (c \div 256) % 4 = top
    BY <1>5 DEF top
  <2>2. Address(g, n) = [ch |-> low, cl |-> ((j + 1) + (64 * ((c \div 256) % 4))), dh |-> side]
    BY DEF Address, low, c, side, t, j, s, h
  <2> QED BY <2>1, <2>2
<1>7. ((j + 1) + (64 * top)) \div 64 = top /\ ((j + 1) + (64 * top)) % 64 = j + 1
  BY <1>1, <1>2, <1>5
<1>8. SectorAt(g, [ch |-> low, cl |-> (j + 1) + (64 * top), dh |-> side])
        = (((low + (256 * top)) * h) + side) * s + ((j + 1) - 1)
  BY <1>7 DEF SectorAt, s, h
<1> QED BY <1>1, <1>2, <1>3, <1>5, <1>6, <1>8

-----------------------------------------------------------------------------
(* FlattenSeq: the concatenation of the sequences in a sequence.             *)
IsFlat(s, f) == f = [n \in 1..Len(s) |-> IF n = 1 THEN s[n] ELSE f[n - 1] \o s[n]]

LEMMA FlatExists ==
    ASSUME NEW V, NEW s \in Seq(Seq(V))
    PROVE  \E f : IsFlat(s, f)
<1> DEFINE N == Len(s)
           step == [k \in 1..N |-> [v \in Seq(V) |-> v \o s[k]]]
<1>1. N \in Nat /\ \A k \in 1..N : s[k] \in Seq(V)
  BY LenProperties
<1>2. step \in [1..N -> [Seq(V) -> Seq(V)]]
  BY <1>1, ConcatProperties
<1>3. <<>> \in Seq(V)
  OBVIOUS
<1> HIDE DEF N
<1>4. PICK g \in [0..N -> Seq(V)] :
          g[0] = <<>> /\ \A k \in 1..N : g[k] = step[k][g[k - 1]]
  <2> DEFINE W == Seq(V)
             empty == <<>>
  <2>1. step \in [1..N -> [W -> W]]
    BY <1>2
  <2>2. empty \in W
    BY <1>3
  <2>3. N \in Nat
    BY <1>1
  <2> HIDE DEF step, W, empty
  <2>4. StepsOn(step, N, W)
    BY <2>1 DEF StepsOn
  <2>5. PICK g : Iterates(g, N, W, empty, step)
    BY <2>2, <2>3, <2>4, Recursion
  <2> QED BY <2>5 DEF W, empty, Iterates
<1>5. ASSUME NEW k \in 1..N
      PROVE  g[k - 1] \in Seq(V) /\ g[k] = g[k - 1] \o s[k]
  <2>1. k - 1 \in 0..N
    BY <1>1
  <2>2. g[k - 1] \in Seq(V)
    BY <2>1
  <2>3. g[k] = step[k][g[k - 1]]
    BY <1>4
  <2> QED BY <2>2, <2>3
<1> DEFINE f == [k \in 1..N |-> g[k]]
<1>6. ASSUME NEW k \in 1..N
      PROVE  f[k] = IF k = 1 THEN s[k] ELSE f[k - 1] \o s[k]
  <2>1. f[k] = g[k - 1] \o s[k]
    BY <1>5
  <2>2. CASE k = 1
    <3>1. <<>> \o s[k] = s[k]
      BY <1>1, ConcatEmptySeq
    <3>2. k - 1 = 0 /\ g[0] = <<>>
      BY <1>4, <2>2
    <3> HIDE DEF f, step
    <3> QED BY <2>1, <2>2, <3>1, <3>2
  <2>3. CASE k # 1
    <3>1. k - 1 \in 1..N
      BY <1>1, <2>3
    <3>2. f[k - 1] = g[k - 1]
      BY <3>1
    <3> QED BY <2>1, <2>3, <3>2
  <2> QED BY <2>2, <2>3
<1>7. IsFlat(s, f)
  <2>1. f = [k \in 1..N |-> IF k = 1 THEN s[k] ELSE f[k - 1] \o s[k]]
    <3>1. f = [k \in 1..N |-> f[k]]
      OBVIOUS
    <3> HIDE DEF f
    <3> QED BY <1>6, <3>1
  <2> QED BY <2>1 DEF IsFlat, N
<1> QED BY <1>7

LEMMA FlatValue ==
    ASSUME NEW V, NEW s \in Seq(Seq(V)), NEW f, IsFlat(s, f)
    PROVE  \A k \in 1..Len(s) :
               f[k] = (IF k = 1 THEN s[k] ELSE f[k - 1] \o s[k]) /\ f[k] \in Seq(V)
<1>1. Len(s) \in Nat /\ \A j \in 1..Len(s) : s[j] \in Seq(V)
  BY LenProperties
<1> DEFINE e == [n \in 1..Len(s) |-> IF n = 1 THEN s[n] ELSE f[n - 1] \o s[n]]
<1>2. \A j \in 1..Len(s) : f[j] = IF j = 1 THEN s[j] ELSE f[j - 1] \o s[j]
  <2>1. f = e
    BY DEF IsFlat
  <2>2. \A j \in 1..Len(s) : e[j] = IF j = 1 THEN s[j] ELSE f[j - 1] \o s[j]
    OBVIOUS
  <2> HIDE DEF e
  <2> QED BY <2>1, <2>2
<1> DEFINE T == {j \in Nat : j + 1 \in 1..Len(s) => f[j + 1] \in Seq(V)}
<1>3. 0 \in T
  <2> SUFFICES ASSUME 1 \in 1..Len(s) PROVE f[1] \in Seq(V)
    OBVIOUS
  <2>1. f[1] = s[1]
    BY <1>2
  <2> QED BY <1>1, <2>1
<1>4. ASSUME NEW j \in Nat, j \in T PROVE j + 1 \in T
  <2> SUFFICES ASSUME j + 2 \in 1..Len(s) PROVE f[j + 2] \in Seq(V)
    OBVIOUS
  <2>1. j + 1 \in 1..Len(s) /\ j + 2 # 1 /\ (j + 2) - 1 = j + 1
    BY <1>1
  <2>2. f[j + 1] \in Seq(V)
    BY <1>4, <2>1
  <2>3. f[j + 2] = f[j + 1] \o s[j + 2]
    <3>1. f[j + 2] = IF j + 2 = 1 THEN s[j + 2] ELSE f[(j + 2) - 1] \o s[j + 2]
      BY <1>2
    <3> QED BY <2>1, <3>1
  <2> QED BY <1>1, <2>2, <2>3, ConcatProperties
<1>5. \A j \in Nat : j \in T
  <2> HIDE DEF T
  <2> QED BY <1>3, <1>4, Induction
<1>6. ASSUME NEW k \in 1..Len(s) PROVE f[k] \in Seq(V)
  <2>1. k - 1 \in Nat /\ (k - 1) + 1 = k
    BY <1>1
  <2>2. k - 1 \in T
    BY <1>5, <2>1
  <2> QED BY <2>1, <2>2
<1> QED BY <1>2, <1>6

(* Any function that meets the definition is the one FlattenSeq takes.        *)
LEMMA FlattenIs ==
    ASSUME NEW V, NEW s \in Seq(Seq(V)), s # <<>>, NEW f, IsFlat(s, f)
    PROVE  FlattenSeq(s) = f[Len(s)]
<1> DEFINE g == CHOOSE h : IsFlat(s, h)
<1>1. Len(s) \in Nat \ {0}
  BY EmptySeq
<1>2. FlattenSeq(s) = g[Len(s)]
  BY <1>1 DEF FlattenSeq, IsFlat
<1>3. IsFlat(s, g)
  BY Zenon
<1> HIDE DEF g
<1> DEFINE T == {j \in Nat : j + 1 \in 1..Len(s) => g[j + 1] = f[j + 1]}
<1>4. 0 \in T
  <2>1. 1 \in 1..Len(s)
    BY <1>1
  <2>2. g[1] = s[1] /\ f[1] = s[1]
    BY <1>3, <2>1, FlatValue
  <2> QED BY <2>2
<1>5. ASSUME NEW j \in Nat, j \in T PROVE j + 1 \in T
  <2> SUFFICES ASSUME j + 2 \in 1..Len(s) PROVE g[j + 2] = f[j + 2]
    OBVIOUS
  <2>1. g[j + 2] = IF j + 2 = 1 THEN s[j + 2] ELSE g[(j + 2) - 1] \o s[j + 2]
    BY <1>3, FlatValue
  <2>2. f[j + 2] = IF j + 2 = 1 THEN s[j + 2] ELSE f[(j + 2) - 1] \o s[j + 2]
    BY FlatValue
  <2>3. j + 2 # 1 /\ (j + 2) - 1 = j + 1 /\ j + 1 \in 1..Len(s)
    BY <1>1
  <2>4. g[j + 1] = f[j + 1]
    BY <1>5, <2>3
  <2> QED BY <2>1, <2>2, <2>3, <2>4
<1>6. \A j \in Nat : j \in T
  <2> HIDE DEF T
  <2> QED BY <1>4, <1>5, Induction
<1>7. Len(s) - 1 \in T
  <2>1. Len(s) - 1 \in Nat
    BY <1>1
  <2> HIDE DEF T
  <2> QED BY <1>6, <2>1
<1> QED BY <1>1, <1>2, <1>7

LEMMA FlattenEmpty == FlattenSeq(<<>>) = <<>>
BY DEF FlattenSeq

LEMMA FlattenAppend ==
    ASSUME NEW V, NEW s \in Seq(Seq(V)), NEW x \in Seq(V)
    PROVE  /\ FlattenSeq(Append(s, x)) = FlattenSeq(s) \o x
           /\ FlattenSeq(s) \in Seq(V)
           /\ FlattenSeq(Append(s, x)) \in Seq(V)
<1> DEFINE t == Append(s, x)
           N == Len(s)
<1>1. /\ t \in Seq(Seq(V)) /\ t # <<>> /\ Len(t) = N + 1 /\ N \in Nat
      /\ \A k \in 1..N : t[k] = s[k]
      /\ t[N + 1] = x
  BY AppendProperties, LenProperties
<1> HIDE DEF t, N
<1>2. PICK g : IsFlat(t, g)
  BY <1>1, FlatExists
<1>3. FlattenSeq(t) = g[N + 1]
  BY <1>1, <1>2, FlattenIs
<1>v. \A k \in 1..Len(t) :
          g[k] = (IF k = 1 THEN t[k] ELSE g[k - 1] \o t[k]) /\ g[k] \in Seq(V)
  BY <1>1, <1>2, FlatValue
<1>4. g[N + 1] \in Seq(V)
  <2>1. N + 1 \in 1..Len(t)
    BY <1>1
  <2> QED BY <1>v, <2>1
<1>5. CASE s = <<>>
  <2>1. N = 0
    BY <1>5, EmptySeq DEF N
  <2>2. g[N + 1] = x
    <3>1. 1 \in 1..Len(t)
      BY <1>1
    <3>2. g[1] = t[1]
      BY <1>v, <3>1
    <3> QED BY <1>1, <2>1, <3>2
  <2>3. FlattenSeq(s) = <<>> /\ <<>> \o x = x /\ <<>> \in Seq(V)
    BY <1>5, FlattenEmpty, ConcatEmptySeq
  <2> QED BY <1>3, <1>4, <2>2, <2>3 DEF t
<1>6. CASE s # <<>>
  <2> DEFINE f == [n \in 1..N |-> g[n]]
  <2>1. N >= 1
    BY <1>1, <1>6, EmptySeq DEF N
  <2>2. \A n \in 1..N : g[n] = IF n = 1 THEN t[n] ELSE g[n - 1] \o t[n]
    <3> SUFFICES ASSUME NEW n \in 1..N
                 PROVE  g[n] = IF n = 1 THEN t[n] ELSE g[n - 1] \o t[n]
      OBVIOUS
    <3>1. n \in 1..Len(t)
      BY <1>1
    <3> QED BY <1>v, <3>1
  <2>3. \A n \in 1..N : f[n] = IF n = 1 THEN s[n] ELSE f[n - 1] \o s[n]
    BY <1>1, <2>2
  <2>4. IsFlat(s, f)
    <3>1. f = [n \in 1..N |-> f[n]]
      OBVIOUS
    <3> HIDE DEF f
    <3>2. f = [n \in 1..N |-> IF n = 1 THEN s[n] ELSE f[n - 1] \o s[n]]
      BY <2>3, <3>1
    <3> QED BY <3>2 DEF IsFlat, N
  <2>5. FlattenSeq(s) = f[N]
    <3> HIDE DEF f
    <3> QED BY <1>6, <2>4, FlattenIs DEF N
  <2>6. f[N] = g[N]
    BY <1>1, <2>1
  <2>7. g[N + 1] = g[N] \o x
    <3>1. N + 1 \in 1..Len(t) /\ N + 1 # 1 /\ (N + 1) - 1 = N
      BY <1>1, <2>1
    <3>2. g[N + 1] = IF N + 1 = 1 THEN t[N + 1] ELSE g[(N + 1) - 1] \o t[N + 1]
      BY <1>v, <3>1
    <3> QED BY <1>1, <3>1, <3>2
  <2>8. g[N] \in Seq(V)
    <3>1. N \in 1..Len(t)
      BY <1>1, <2>1
    <3> QED BY <1>v, <3>1
  <2> QED BY <1>3, <1>4, <2>5, <2>6, <2>7, <2>8 DEF t
<1> QED BY <1>5, <1>6

LEMMA FlattenType ==
    ASSUME NEW V, NEW s \in Seq(Seq(V))
    PROVE  FlattenSeq(s) \in Seq(V)
BY FlattenAppend, EmptySeq

LEMMA FlattenOne ==
    ASSUME NEW V, NEW x \in Seq(V)
    PROVE  FlattenSeq(<<x>>) = x
<1>1. <<>> \in Seq(Seq(V)) /\ Append(<<>>, x) = <<x>>
  OBVIOUS
<1>2. FlattenSeq(<<x>>) = <<>> \o x
  BY <1>1, FlattenAppend, FlattenEmpty
<1> QED BY <1>2, ConcatEmptySeq

LEMMA FlattenConcat ==
    ASSUME NEW V, NEW s \in Seq(Seq(V)), NEW t \in Seq(Seq(V))
    PROVE  FlattenSeq(s \o t) = FlattenSeq(s) \o FlattenSeq(t)
<1> DEFINE T == {u \in Seq(Seq(V)) : FlattenSeq(s \o u) = FlattenSeq(s) \o FlattenSeq(u)}
<1>1. <<>> \in T
  <2>1. <<>> \in Seq(Seq(V)) /\ s \o <<>> = s
    BY ConcatEmptySeq
  <2>2. FlattenSeq(s) \o <<>> = FlattenSeq(s)
    BY FlattenType, ConcatEmptySeq
  <2> QED BY <2>1, <2>2, FlattenEmpty
<1>2. ASSUME NEW u \in Seq(Seq(V)), NEW x \in Seq(V), u \in T
      PROVE  Append(u, x) \in T
  <2>1. Append(u, x) \in Seq(Seq(V))
    BY AppendProperties
  <2>2. s \o Append(u, x) = Append(s \o u, x)
    <3>1. /\ Append(u, x) = u \o <<x>> /\ s \o u \in Seq(Seq(V))
          /\ Append(s \o u, x) = (s \o u) \o <<x>> /\ <<x>> \in Seq(Seq(V))
      BY AppendIsConcat, ConcatProperties
    <3> QED BY <3>1, ConcatAssociative
  <2>3. FlattenSeq(Append(s \o u, x)) = FlattenSeq(s \o u) \o x
    BY ConcatProperties, FlattenAppend
  <2>4. (FlattenSeq(s) \o FlattenSeq(u)) \o x = FlattenSeq(s) \o (FlattenSeq(u) \o x)
    BY SMTT(30), FlattenType, ConcatAssociative
  <2>5. FlattenSeq(Append(u, x)) = FlattenSeq(u) \o x
    BY FlattenAppend
  <2> QED BY <1>2, <2>1, <2>2, <2>3, <2>4, <2>5
<1>3. \A u \in Seq(Seq(V)) : u \in T
  <2> HIDE DEF T
  <2> QED BY <1>1, <1>2, SeqInduction
<1> QED BY <1>3

(* A sequence that goes on by one element. *)
GoesOn(t, s, x) ==
    LET n == Len(s)
    IN  /\ t = [k \in 1..(n + 1) |-> t[k]]
        /\ \A k \in 1..n : t[k] = s[k]
        /\ t[n + 1] = x

LEMMA AppendIs ==
    ASSUME NEW V, NEW s \in Seq(V), NEW x \in V, NEW t, GoesOn(t, s, x)
    PROVE  t = Append(s, x) /\ t \in Seq(V) /\ Len(t) = Len(s) + 1
<1> DEFINE n == Len(s)
<1>n. n \in Nat
  BY LenProperties
<1>t. t = [k \in 1..(n + 1) |-> t[k]]
  BY Zenon DEF GoesOn
<1>e. (\A k \in 1..n : t[k] = s[k]) /\ t[n + 1] = x
  BY Zenon DEF GoesOn
<1>1. /\ Append(s, x) \in Seq(V) /\ Len(Append(s, x)) = n + 1
      /\ \A k \in 1..n : Append(s, x)[k] = s[k]
      /\ Append(s, x)[n + 1] = x
  BY AppendProperties
<1> HIDE DEF n
<1>2. \A k \in 1..(n + 1) : t[k] = Append(s, x)[k]
  BY ONLY <1>n, <1>e, <1>1
<1>3. \A k \in 1..(n + 1) : t[k] \in V
  <2>1. \A k \in 1..(n + 1) : Append(s, x)[k] \in V
    BY <1>n, <1>1
  <2> QED BY <1>2, <2>1
<1>4. t \in [1..(n + 1) -> V]
  BY <1>t, <1>3
<1>5. t \in Seq(V) /\ Len(t) = n + 1
  <2>1. n + 1 \in Nat /\ DOMAIN t = 1..(n + 1)
    BY <1>n, <1>4
  <2>2. t \in Seq(V)
    BY <1>4, <2>1, SeqDef
  <2> QED BY <2>1, <2>2, LenProperties
<1> QED BY <1>1, <1>2, <1>5, SeqEqual DEF n

-----------------------------------------------------------------------------
(* The sectors of a range, and those of a list of ranges, in order.          *)
Ext(a, n) == [j \in 1..n |-> a + j - 1]

Sectors(es) == FlattenSeq([k \in DOMAIN es |-> Ext(es[k][1], es[k][2])])

Ranges == Nat \X Nat

LEMMA NatsAssociative ==
    \A p, q, r \in Seq(Nat) : (p \o q) \o r = p \o (q \o r)
BY SMTT(30), ConcatAssociative

LEMMA ExtType ==
    ASSUME NEW a \in Nat, NEW n \in Nat
    PROVE  Ext(a, n) \in Seq(Nat) /\ Len(Ext(a, n)) = n
<1>1. Ext(a, n) \in [1..n -> Nat]
  BY DEF Ext
<1> QED BY <1>1, SeqDef, LenProperties DEF Ext

LEMMA ExtNone == ASSUME NEW a PROVE Ext(a, 0) = <<>>
<1>1. Ext(a, 0) \in [1..0 -> Nat]
  BY DEF Ext
<1>2. Ext(a, 0) \in Seq(Nat) /\ Len(Ext(a, 0)) = 0
  BY <1>1, SeqDef DEF Ext
<1> QED BY <1>2, EmptySeq

LEMMA ExtJoin ==
    ASSUME NEW a \in Nat, NEW m \in Nat, NEW n \in Nat
    PROVE  Ext(a, m) \o Ext(a + m, n) = Ext(a, m + n)
<1> DEFINE s == Ext(a, m)
           t == Ext(a + m, n)
           u == Ext(a, m + n)
<1>1. s \in Seq(Nat) /\ t \in Seq(Nat) /\ u \in Seq(Nat)
      /\ Len(s) = m /\ Len(t) = n /\ Len(u) = m + n
  <2>1. a + m \in Nat /\ m + n \in Nat
    OBVIOUS
  <2> QED BY <2>1, ExtType
<1>2. /\ \A j \in 1..m : s[j] = a + j - 1
      /\ \A j \in 1..n : t[j] = (a + m) + j - 1
      /\ \A j \in 1..(m + n) : u[j] = a + j - 1
  BY DEF Ext
<1> HIDE DEF s, t, u
<1>3. s \o t \in Seq(Nat) /\ Len(s \o t) = m + n
      /\ \A j \in 1..(m + n) : (s \o t)[j] = IF j <= m THEN s[j] ELSE t[j - m]
  BY <1>1, ConcatProperties
<1>4. \A j \in 1..(m + n) : (s \o t)[j] = u[j]
  BY SMTT(30), <1>2, <1>3
<1>5. s \o t = u
  BY <1>1, <1>3, <1>4, SeqEqual
<1> QED BY <1>5 DEF s, t, u

LEMMA SectorsAppend ==
    ASSUME NEW es \in Seq(Ranges), NEW e \in Ranges
    PROVE  /\ Sectors(Append(es, e)) = Sectors(es) \o Ext(e[1], e[2])
           /\ Sectors(es) \in Seq(Nat)
           /\ Sectors(Append(es, e)) \in Seq(Nat)
<1> DEFINE each(s) == [k \in DOMAIN s |-> Ext(s[k][1], s[k][2])]
           fs == Append(es, e)
           N == Len(es)
           x == Ext(e[1], e[2])
<1>1. N \in Nat /\ fs \in Seq(Ranges) /\ Len(fs) = N + 1
      /\ DOMAIN es = 1..N /\ DOMAIN fs = 1..(N + 1)
      /\ (\A k \in 1..N : fs[k] = es[k] /\ es[k] \in Ranges) /\ fs[N + 1] = e
  BY AppendProperties, LenProperties
<1>2. x \in Seq(Nat)
  BY ExtType DEF Ranges
<1>3. \A k \in 1..N : each(es)[k] = Ext(es[k][1], es[k][2]) /\ each(es)[k] \in Seq(Nat)
  <2> SUFFICES ASSUME NEW k \in 1..N
               PROVE  each(es)[k] = Ext(es[k][1], es[k][2]) /\ each(es)[k] \in Seq(Nat)
    OBVIOUS
  <2>1. es[k][1] \in Nat /\ es[k][2] \in Nat
    BY <1>1 DEF Ranges
  <2>2. each(es)[k] = Ext(es[k][1], es[k][2])
    BY <1>1
  <2> QED BY <2>1, <2>2, ExtType
<1>4. each(es) \in Seq(Seq(Nat)) /\ Len(each(es)) = N
  <2>1. each(es) \in [1..N -> Seq(Nat)]
    BY <1>1, <1>3
  <2> HIDE DEF each
  <2> QED BY <1>1, <2>1, SeqDef, LenProperties
<1>5. each(fs) = Append(each(es), x)
  <2>1. \A k \in 1..N : each(fs)[k] = each(es)[k]
    BY <1>1, <1>3
  <2>2. each(fs)[N + 1] = x
    BY <1>1
  <2>3. GoesOn(each(fs), each(es), x)
    <3>1. each(fs) = [k \in 1..(N + 1) |-> each(fs)[k]]
      BY <1>1
    <3>2. Len(each(es)) = N
      BY <1>4
    <3> HIDE DEF each, x, fs, N
    <3> QED BY <2>1, <2>2, <3>1, <3>2 DEF GoesOn
  <2> HIDE DEF each, x, fs
  <2> QED BY <1>2, <1>4, <2>3, AppendIs
<1>6. Sectors(es) = FlattenSeq(each(es)) /\ Sectors(fs) = FlattenSeq(each(fs))
  BY DEF Sectors
<1> HIDE DEF each, x, fs
<1>7. /\ FlattenSeq(Append(each(es), x)) = FlattenSeq(each(es)) \o x
      /\ FlattenSeq(each(es)) \in Seq(Nat) /\ FlattenSeq(Append(each(es), x)) \in Seq(Nat)
  BY <1>2, <1>4, FlattenAppend
<1> QED BY <1>5, <1>6, <1>7 DEF x, fs

LEMMA SectorsNone == Sectors(<<>>) = <<>>
<1>1. [k \in DOMAIN <<>> |-> Ext(<<>>[k][1], <<>>[k][2])] = <<>>
  OBVIOUS
<1> QED BY <1>1, FlattenEmpty DEF Sectors

LEMMA SectorsType ==
    ASSUME NEW es \in Seq(Ranges)
    PROVE  Sectors(es) \in Seq(Nat)
<1>1. <<0, 0>> \in Ranges
  BY DEF Ranges
<1> QED BY <1>1, SectorsAppend

LEMMA SectorsConcat ==
    ASSUME NEW es \in Seq(Ranges), NEW fs \in Seq(Ranges)
    PROVE  Sectors(es \o fs) = Sectors(es) \o Sectors(fs)
<1> DEFINE T == {u \in Seq(Ranges) : Sectors(es \o u) = Sectors(es) \o Sectors(u)}
<1>1. <<>> \in T
  <2>1. <<>> \in Seq(Ranges) /\ es \o <<>> = es
    BY ConcatEmptySeq
  <2>2. Sectors(es) \o <<>> = Sectors(es)
    BY SectorsType, ConcatEmptySeq
  <2> QED BY <2>1, <2>2, SectorsNone
<1>2. ASSUME NEW u \in Seq(Ranges), NEW e \in Ranges, u \in T
      PROVE  Append(u, e) \in T
  <2> DEFINE x == Ext(e[1], e[2])
  <2>1. Append(u, e) \in Seq(Ranges) /\ es \o u \in Seq(Ranges) /\ x \in Seq(Nat)
    BY AppendProperties, ConcatProperties, ExtType DEF Ranges
  <2> HIDE DEF x
  <2>2. es \o Append(u, e) = Append(es \o u, e)
    <3>1. /\ Append(u, e) = u \o <<e>>
          /\ Append(es \o u, e) = (es \o u) \o <<e>> /\ <<e>> \in Seq(Ranges)
      BY <2>1, AppendIsConcat
    <3> QED BY <3>1, ConcatAssociative
  <2>3. Sectors(Append(es \o u, e)) = Sectors(es \o u) \o x
    BY <2>1, SectorsAppend DEF x
  <2>4. (Sectors(es) \o Sectors(u)) \o x = Sectors(es) \o (Sectors(u) \o x)
    <3>1. Sectors(es) \in Seq(Nat) /\ Sectors(u) \in Seq(Nat) /\ x \in Seq(Nat)
      BY <2>1, SectorsType
    <3> QED BY ONLY <3>1, NatsAssociative
  <2>5. Sectors(Append(u, e)) = Sectors(u) \o x
    BY SectorsAppend DEF x
  <2> QED BY <1>2, <2>1, <2>2, <2>3, <2>4, <2>5
<1>3. \A u \in Seq(Ranges) : u \in T
  <2> HIDE DEF T
  <2> QED BY <1>1, <1>2, SeqInduction
<1> QED BY <1>3

-----------------------------------------------------------------------------
(* The pieces a range is cut into are the range again. *)
LEMMA PiecesAreRange ==
    ASSUME NEW r \in Nat \X (Nat \ {0})
    PROVE  Pieces(r) \in Seq(Ranges) /\ Sectors(Pieces(r)) = Ext(r[1], r[2])
<1> DEFINE a == r[1]
           n == r[2]
           f == Lesser(FIRST_BLOCKS, n)
           rest == n - f
           K == (rest + BARRIER - 1) \div BARRIER
           piece(k) == <<PieceStart(a, f, k), Lesser(BARRIER, rest - (k - 1) * BARRIER)>>
           cut(m) == [k \in 1..m |-> piece(k)]
           head == <<<<a, f>>>>
           at(m) == Lesser(m * BARRIER, rest)
<1>1. /\ a \in Nat /\ n \in Nat /\ f \in Nat /\ f <= n /\ rest \in Nat /\ n = f + rest
      /\ BARRIER \in Nat \ {0}
  BY BarrierAssumption DEF Lesser
<1>2. Pieces(r) = head \o cut(K)
  BY DEF Pieces
<1> HIDE DEF a, n, f, rest
<1>3. K \in Nat /\ K * BARRIER >= rest /\ \A k \in 1..K : (k - 1) * BARRIER < rest
  <2> DEFINE p == rest + BARRIER - 1
             j == p % BARRIER
  <2>1. p \in Nat
    BY <1>1
  <2>2. p = (BARRIER * K) + j /\ K \in Nat /\ j \in 0..(BARRIER - 1)
    BY <1>1, <2>1, DivMod
  <2>3. p = rest + BARRIER - 1
    OBVIOUS
  <2> HIDE DEF p, j, K
  <2>4. K * BARRIER >= rest
    BY <1>1, <2>2, <2>3
  <2>5. ASSUME NEW k \in 1..K PROVE (k - 1) * BARRIER < rest
    <3>1. k * BARRIER <= K * BARRIER
      <4>1. (K - k) * BARRIER >= 0
        BY <1>1, <2>2
      <4> QED BY <1>1, <2>2, <4>1
    <3>2. (k - 1) * BARRIER = (k * BARRIER) - BARRIER
      BY <1>1, <2>2
    <3>3. K * BARRIER <= rest + BARRIER - 1
      BY <1>1, <2>2, <2>3
    <3>4. k * BARRIER \in Int /\ K * BARRIER \in Int
      BY <1>1, <2>2
    <3> QED BY <1>1, <3>1, <3>2, <3>3, <3>4
  <2> QED BY <2>2, <2>4, <2>5
<1> HIDE DEF K
<1>4. ASSUME NEW k \in 1..K
      PROVE  /\ piece(k) \in Ranges
             /\ piece(k) = <<(a + f) + at(k - 1), Lesser(BARRIER, rest - at(k - 1))>>
             /\ at(k - 1) \in Nat
             /\ at(k) = at(k - 1) + Lesser(BARRIER, rest - at(k - 1))
  <2>1. k - 1 \in Nat /\ (k - 1) * BARRIER \in Nat /\ (k - 1) * BARRIER < rest
    BY <1>1, <1>3
  <2>2. k * BARRIER = (k - 1) * BARRIER + BARRIER /\ k * BARRIER \in Nat
    BY <1>1, <1>3
  <2> DEFINE b == (k - 1) * BARRIER
             c == k * BARRIER
  <2>3. b \in Nat /\ b < rest /\ c = b + BARRIER /\ at(k - 1) = Lesser(b, rest)
        /\ at(k) = Lesser(c, rest)
        /\ piece(k) = <<a + f + b, Lesser(BARRIER, rest - b)>>
    BY <2>1, <2>2 DEF PieceStart
  <2> HIDE DEF b, c, at, piece
  <2>4. at(k - 1) = b
    BY <1>1, <2>3 DEF Lesser
  <2>5. Lesser(BARRIER, rest - b) \in Nat /\ a + f + b \in Nat /\ (a + f) + b = a + f + b
    BY <1>1, <2>3 DEF Lesser
  <2>6. Lesser(c, rest) = b + Lesser(BARRIER, rest - b)
    BY <1>1, <2>3 DEF Lesser
  <2> QED BY <2>3, <2>4, <2>5, <2>6 DEF Ranges
<1> DEFINE T == {m \in 0..K : cut(m) \in Seq(Ranges) /\ Sectors(cut(m)) = Ext(a + f, at(m))}
<1>5. 0 \in T
  <2>1. cut(0) \in [1..0 -> Ranges]
    OBVIOUS
  <2>2. cut(0) \in Seq(Ranges) /\ Len(cut(0)) = 0
    BY <2>1, SeqDef
  <2>3. cut(0) = <<>> /\ cut(0) \in Seq(Ranges)
    BY <2>2, EmptySeq
  <2>4. at(0) = 0
    BY <1>1 DEF Lesser
  <2>5. 0 \in 0..K
    BY <1>3
  <2> HIDE DEF cut, at
  <2> QED BY <2>3, <2>4, <2>5, ExtNone, SectorsNone
<1>6. ASSUME NEW m \in 0..(K - 1), m \in T PROVE m + 1 \in T
  <2> DEFINE e == piece(m + 1)
             l == Lesser(BARRIER, rest - at(m))
  <2>1. m + 1 \in 1..K /\ (m + 1) - 1 = m /\ m + 1 \in 0..K /\ m \in Nat
    BY <1>3
  <2>2. /\ e \in Ranges /\ e = <<(a + f) + at(m), l>>
        /\ at(m) \in Nat /\ at(m + 1) = at(m) + l
    BY <1>4, <2>1
  <2>3. cut(m) \in Seq(Ranges) /\ Len(cut(m)) = m /\ Sectors(cut(m)) = Ext(a + f, at(m))
    BY <1>6, <2>1, LenProperties
  <2>4. cut(m + 1) = Append(cut(m), e) /\ cut(m + 1) \in Seq(Ranges)
    <3>1. \A k \in 1..m : cut(m + 1)[k] = cut(m)[k]
      BY <2>1
    <3>2. cut(m + 1)[m + 1] = e
      BY <2>1
    <3>3. cut(m + 1) = [k \in 1..(m + 1) |-> cut(m + 1)[k]]
      OBVIOUS
    <3> HIDE DEF cut, piece, e, at, T
    <3>4. GoesOn(cut(m + 1), cut(m), e)
      BY <2>3, <3>1, <3>2, <3>3 DEF GoesOn
    <3> QED BY <2>2, <2>3, <3>4, AppendIs
  <2> HIDE DEF cut, at, e, piece
  <2>5. e[1] = (a + f) + at(m) /\ e[2] = l /\ l \in Nat
    BY <2>2 DEF Ranges
  <2> HIDE DEF l
  <2>6. Sectors(cut(m + 1)) = Ext(a + f, at(m)) \o Ext((a + f) + at(m), l)
    BY <2>2, <2>3, <2>4, <2>5, SectorsAppend
  <2>7. Ext(a + f, at(m)) \o Ext((a + f) + at(m), l) = Ext(a + f, at(m) + l)
    <3>1. a + f \in Nat
      BY <1>1
    <3> QED BY <2>2, <2>5, <3>1, ExtJoin
  <2> QED BY <2>1, <2>2, <2>4, <2>6, <2>7
<1>7. K \in T
  <2> HIDE DEF T
  <2>1. K \in Nat
    BY <1>3
  <2>2. \A m \in 0..(K - 1) : m \in T => m + 1 \in T
    BY <1>6
  <2>3. \A m \in 0..K : m \in T
    BY ONLY <1>5, <2>1, <2>2, UpTo
  <2> QED BY <2>1, <2>3
<1>8. at(K) = rest
  <2>1. K * BARRIER \in Nat
    BY <1>1, <1>3
  <2> QED BY <1>1, <1>3, <2>1 DEF Lesser
<1>9. head \in Seq(Ranges) /\ Sectors(head) = Ext(a, f)
  <2> DEFINE e == <<a, f>>
             none == <<>>
  <2>1. e \in Ranges /\ e[1] = a /\ e[2] = f /\ head = Append(none, e) /\ none \in Seq(Ranges)
    BY <1>1 DEF Ranges
  <2>2. Ext(a, f) \in Seq(Nat) /\ Sectors(none) = <<>>
    BY <1>1, ExtType, SectorsNone
  <2>3. <<>> \o Ext(a, f) = Ext(a, f)
    BY <2>2, ConcatEmptySeq
  <2> HIDE DEF e, none, head
  <2>4. head \in Seq(Ranges)
    BY <2>1, AppendProperties
  <2> QED BY <2>1, <2>2, <2>3, <2>4, SectorsAppend
<1> HIDE DEF head, cut, at
<1>10. cut(K) \in Seq(Ranges) /\ Sectors(cut(K)) = Ext(a + f, rest)
  BY <1>7, <1>8
<1>11. Sectors(head \o cut(K)) = Ext(a, f) \o Ext(a + f, rest)
  BY <1>9, <1>10, SectorsConcat
<1>12. Ext(a, f) \o Ext(a + f, rest) = Ext(a, f + rest)
  BY <1>1, ExtJoin
<1>13. head \o cut(K) \in Seq(Ranges)
  BY <1>9, <1>10, ConcatProperties
<1> QED BY <1>1, <1>2, <1>11, <1>12, <1>13 DEF a, n

(* The sectors of a concatenation are those of its parts. *)
LEMMA SectorsFlatten ==
    ASSUME NEW ss \in Seq(Seq(Ranges))
    PROVE  Sectors(FlattenSeq(ss)) = FlattenSeq([k \in DOMAIN ss |-> Sectors(ss[k])])
<1> DEFINE each(s) == [k \in DOMAIN s |-> Sectors(s[k])]
           T == {s \in Seq(Seq(Ranges)) : each(s) \in Seq(Seq(Nat))
                                       /\ Sectors(FlattenSeq(s)) = FlattenSeq(each(s))}
<1>1. <<>> \in T
  <2>1. each(<<>>) = <<>> /\ <<>> \in Seq(Seq(Ranges)) /\ <<>> \in Seq(Seq(Nat))
    OBVIOUS
  <2> HIDE DEF each
  <2> QED BY <2>1, FlattenEmpty, SectorsNone
<1>2. ASSUME NEW s \in Seq(Seq(Ranges)), NEW x \in Seq(Ranges), s \in T
      PROVE  Append(s, x) \in T
  <2> DEFINE t == Append(s, x)
             N == Len(s)
             y == Sectors(x)
  <2>1. /\ N \in Nat /\ t \in Seq(Seq(Ranges)) /\ Len(t) = N + 1
        /\ DOMAIN s = 1..N /\ DOMAIN t = 1..(N + 1)
        /\ (\A k \in 1..N : t[k] = s[k] /\ s[k] \in Seq(Ranges)) /\ t[N + 1] = x
    BY AppendProperties, LenProperties
  <2>2. y \in Seq(Nat)
    BY SectorsType
  <2>3. each(s) \in Seq(Seq(Nat)) /\ Len(each(s)) = N /\ DOMAIN each(s) = 1..N
    <3>1. each(s) \in Seq(Seq(Nat)) /\ DOMAIN each(s) = 1..N
      BY <1>2, <2>1
    <3> HIDE DEF each
    <3> QED BY <2>1, <3>1, LenProperties
  <2>4. each(t) = Append(each(s), y) /\ each(t) \in Seq(Seq(Nat))
    <3>1. \A k \in 1..N : each(t)[k] = each(s)[k]
      BY <2>1
    <3>2. each(t)[N + 1] = y
      BY <2>1
    <3>3. each(t) = [k \in 1..(N + 1) |-> each(t)[k]]
      BY <2>1
    <3> HIDE DEF each, y, t, T
    <3>4. GoesOn(each(t), each(s), y)
      BY <2>3, <3>1, <3>2, <3>3 DEF GoesOn
    <3> QED BY <2>2, <2>3, <3>4, AppendIs
  <2> HIDE DEF each, y
  <2>5. FlattenSeq(t) = FlattenSeq(s) \o x /\ FlattenSeq(s) \in Seq(Ranges)
    BY FlattenAppend
  <2>6. FlattenSeq(each(t)) = FlattenSeq(each(s)) \o y
    BY <2>2, <2>3, <2>4, FlattenAppend
  <2>7. Sectors(FlattenSeq(s) \o x) = Sectors(FlattenSeq(s)) \o Sectors(x)
    BY <2>5, SectorsConcat
  <2>8. Sectors(FlattenSeq(s)) = FlattenSeq(each(s))
    BY <1>2
  <2>9. Sectors(FlattenSeq(t)) = FlattenSeq(each(t))
    BY <2>5, <2>6, <2>7, <2>8 DEF y
  <2> HIDE DEF t
  <2> QED BY <2>1, <2>4, <2>9 DEF t
<1>3. \A s \in Seq(Seq(Ranges)) : s \in T
  <2> HIDE DEF T
  <2> QED BY <1>1, <1>2, SeqInduction
<1>4. ss \in T
  BY <1>3
<1> QED BY <1>4

(* The sectors of a run of clusters of one sector each. *)
LEMMA ClustersAreRange ==
    ASSUME SECTORS_PER_CLUSTER = 1, NEW c \in (Nat \ {0, 1}) \X (Nat \ {0})
    PROVE  FlattenSeq([j \in 1..c[2] |-> ClusterSectors(c[1] + j - 1)])
               = Ext(SectorRange(c)[1], SectorRange(c)[2])
<1> DEFINE a == SectorRange(c)[1]
           n == c[2]
           cluster(j) == ClusterSectors(c[1] + j - 1)
           first(m) == [j \in 1..m |-> cluster(j)]
           T == {m \in Nat : first(m) \in Seq(Seq(Nat)) /\ FlattenSeq(first(m)) = Ext(a, m)}
<1>1. START_DATA \in Nat /\ c[1] \in Nat /\ c[1] >= 2 /\ n \in Nat
  BY LayoutAssumption
<1>2. a = START_DATA + c[1] - 2 /\ SectorRange(c)[2] = n /\ a \in Nat
  BY <1>1 DEF SectorRange
<1> HIDE DEF a, n
<1>3. ASSUME NEW j \in Nat \ {0} PROVE cluster(j) = Ext(a + (j - 1), 1)
  <2>1. \A x \in 1..1 : START_DATA + ((c[1] + j - 1) - 2) * 1 + x - 1 = (a + (j - 1)) + x - 1
    BY <1>1, <1>2
  <2> QED BY <2>1 DEF ClusterSectors, Ext
<1> HIDE DEF cluster
<1>4. 0 \in T
  <2>1. first(0) \in [1..0 -> Seq(Nat)]
    OBVIOUS
  <2>2. first(0) \in Seq(Seq(Nat)) /\ Len(first(0)) = 0
    BY <2>1, SeqDef
  <2>3. first(0) = <<>>
    BY <2>2, EmptySeq
  <2> HIDE DEF first
  <2> QED BY <2>2, <2>3, ExtNone, FlattenEmpty
<1>5. ASSUME NEW m \in Nat, m \in T PROVE m + 1 \in T
  <2> DEFINE y == cluster(m + 1)
  <2>1. y = Ext(a + m, 1) /\ y \in Seq(Nat)
    <3>1. m + 1 \in Nat \ {0} /\ (m + 1) - 1 = m /\ a + m \in Nat
      BY <1>2
    <3>2. y = Ext(a + ((m + 1) - 1), 1)
      BY <1>3, <3>1
    <3>3. Ext(a + m, 1) \in Seq(Nat)
      BY <3>1, ExtType
    <3> QED BY <3>1, <3>2, <3>3
  <2>2. first(m) \in Seq(Seq(Nat)) /\ Len(first(m)) = m /\ FlattenSeq(first(m)) = Ext(a, m)
    BY <1>5, LenProperties
  <2>3. first(m + 1) = Append(first(m), y) /\ first(m + 1) \in Seq(Seq(Nat))
    <3>1. \A k \in 1..m : first(m + 1)[k] = first(m)[k]
      OBVIOUS
    <3>2. first(m + 1)[m + 1] = y
      OBVIOUS
    <3>3. first(m + 1) = [k \in 1..(m + 1) |-> first(m + 1)[k]]
      OBVIOUS
    <3> HIDE DEF first, y, T
    <3>4. GoesOn(first(m + 1), first(m), y)
      BY <2>2, <3>1, <3>2, <3>3 DEF GoesOn
    <3> QED BY <2>1, <2>2, <3>4, AppendIs
  <2> HIDE DEF first, y
  <2>4. FlattenSeq(first(m + 1)) = Ext(a, m) \o Ext(a + m, 1)
    BY <2>1, <2>2, <2>3, FlattenAppend
  <2>5. Ext(a, m) \o Ext(a + m, 1) = Ext(a, m + 1)
    BY <1>2, ExtJoin
  <2>6. FlattenSeq(first(m + 1)) = Ext(a, m + 1)
    BY <2>4, <2>5
  <2> QED BY <2>3, <2>6
<1>6. \A m \in Nat : m \in T
  <2> HIDE DEF T
  <2> QED BY <1>4, <1>5, Induction
<1>7. n \in T
  BY <1>1, <1>6
<1> QED BY <1>2, <1>7 DEF a, n, cluster

(* The list that the installer writes names the sectors of the file in order. *)
LEMMA PayloadIsFile ==
    ASSUME SECTORS_PER_CLUSTER = 1, NEW f \in Seq((Nat \ {0, 1}) \X (Nat \ {0}))
    PROVE  Sectors(Payload(f)) = FileSectors(f)
<1> DEFINE of(k) == SectorRange(f[k])
           cut == [k \in DOMAIN f |-> Pieces(of(k))]
           N == Len(f)
<1>1. N \in Nat /\ DOMAIN f = 1..N /\ \A k \in 1..N : f[k] \in (Nat \ {0, 1}) \X (Nat \ {0})
  BY LenProperties
<1>2. Payload(f) = FlattenSeq(cut)
  <2>1. DOMAIN get_sector_ranges(f) = DOMAIN f /\ \A k \in DOMAIN f : get_sector_ranges(f)[k] = of(k)
    BY DEF get_sector_ranges
  <2>2. cut = [k \in DOMAIN get_sector_ranges(f) |-> Pieces(get_sector_ranges(f)[k])]
    BY <2>1
  <2> QED BY <2>2 DEF Payload
<1>3. ASSUME NEW k \in 1..N
      PROVE  of(k) \in Nat \X (Nat \ {0})
  <2>1. START_DATA \in Nat /\ f[k][1] \in Nat /\ f[k][1] >= 2 /\ f[k][2] \in Nat \ {0}
    BY SMTT(30), <1>1, LayoutAssumption
  <2> QED BY <2>1 DEF SectorRange
<1>4. ASSUME NEW k \in 1..N
      PROVE  /\ Pieces(of(k)) \in Seq(Ranges)
             /\ Sectors(Pieces(of(k)))
                  = FlattenSeq([j \in 1..f[k][2] |-> ClusterSectors(f[k][1] + j - 1)])
  <2>1. Sectors(Pieces(of(k))) = Ext(of(k)[1], of(k)[2]) /\ Pieces(of(k)) \in Seq(Ranges)
    BY <1>3, PiecesAreRange
  <2> QED BY <1>1, <2>1, ClustersAreRange
<1>5. cut \in Seq(Seq(Ranges)) /\ DOMAIN cut = 1..N
  <2>1. cut \in [1..N -> Seq(Ranges)]
    BY <1>1, <1>4
  <2> QED BY <1>1, <2>1, SeqDef
<1>6. [k \in DOMAIN cut |-> Sectors(cut[k])]
        = [k \in DOMAIN f |-> FlattenSeq([j \in 1..f[k][2] |-> ClusterSectors(f[k][1] + j - 1)])]
  <2>1. \A k \in 1..N : cut[k] = Pieces(of(k))
    BY <1>1
  <2> HIDE DEF cut, of
  <2> QED BY <1>1, <1>4, <1>5, <2>1
<1> HIDE DEF cut
<1>7. Sectors(FlattenSeq(cut)) = FlattenSeq([k \in DOMAIN cut |-> Sectors(cut[k])])
  BY <1>5, SectorsFlatten
<1> QED BY <1>2, <1>6, <1>7 DEF FileSectors

-----------------------------------------------------------------------------
LEMMA ExtentParts ==
    ASSUME NEW e \in Extent
    PROVE  e[1] \in Nat /\ e[1] < AX_SECTORS /\ e[2] \in 1..128
BY DEF Extent

(* Counting in the 16 bits of ax. *)
LEMMA Counting ==
    ASSUME NEW n \in Nat
    PROVE  /\ n % AX_SECTORS \in Nat /\ n % AX_SECTORS <= n
           /\ n < AX_SECTORS => n % AX_SECTORS = n
           /\ (n + 1) % AX_SECTORS = ((n % AX_SECTORS) + 1) % AX_SECTORS
<1> DEFINE A == AX_SECTORS
           q == n \div A
           r == n % A
<1>1. A \in Nat \ {0}
  BY WrapAssumption
<1> HIDE DEF A
<1>2. n = (A * q) + r /\ q \in Nat /\ r \in 0..(A - 1)
  BY <1>1, DivMod
<1> HIDE DEF q, r
<1>3. A * q \in Nat
  BY <1>1, <1>2
<1>4. r \in Nat /\ r <= n
  BY ONLY <1>1, <1>2, <1>3
<1>5. n < A => r = n
  <2> SUFFICES ASSUME n < A PROVE r = n
    OBVIOUS
  <2>1. n \in 0..(A - 1) /\ 0 \in Nat /\ (A * 0) + n = n
    BY <1>1
  <2>2. ((A * 0) + n) % A = n
    BY <1>1, <2>1, DivModUnique
  <2> QED BY <2>1, <2>2 DEF r
<1>6. (n + 1) % A = (r + 1) % A
  <2>1. CASE r + 1 < A
    <3>1. r + 1 \in 0..(A - 1) /\ n + 1 = (A * q) + (r + 1) /\ r + 1 = (A * 0) + (r + 1)
      BY <1>1, <1>2, <2>1
    <3>2. ((A * q) + (r + 1)) % A = r + 1 /\ ((A * 0) + (r + 1)) % A = r + 1
      BY <1>1, <1>2, <3>1, DivModUnique
    <3> QED BY <3>1, <3>2
  <2>2. CASE r + 1 = A
    <3>1. 0 \in 0..(A - 1) /\ q + 1 \in Nat /\ 1 \in Nat
      BY <1>1, <1>2
    <3>2. n + 1 = (A * (q + 1)) + 0 /\ r + 1 = (A * 1) + 0
      BY <1>1, <1>2, <2>2
    <3>3. ((A * (q + 1)) + 0) % A = 0 /\ ((A * 1) + 0) % A = 0
      BY <1>1, <3>1, DivModUnique
    <3> QED BY <3>2, <3>3
  <2>3. r + 1 < A \/ r + 1 = A
    BY <1>1, <1>2
  <2> QED BY <2>1, <2>2, <2>3
<1> QED BY <1>4, <1>5, <1>6 DEF A, r

LoadTypes ==
    /\ disk \in Disks /\ payload \in Payloads
    /\ si \in Nat \ {0} /\ ax \in Nat /\ cx \in Nat
    /\ bx \in Nat /\ bx < BX_SECTORS
    /\ memory \in [0..(BX_SECTORS - 1) -> Int]
    /\ loaded \in Seq(Nat)

(* cx sectors of the range si are left, the first of them the one in ax.     *)
AtSector ==
    cx \in 1..payload[si][2] /\ ax = ((payload[si][1] + payload[si][2]) - cx) % AX_SECTORS

(* The loader is at a sector of the range si, whose address it has computed. *)
AtRange ==
    /\ load_pc \in {"reset", "params"} => si = 1
    /\ load_pc \in {"range", "sector", "try", "next"} => si <= Len(payload)
    /\ load_pc \in {"sector", "try"} => AtSector
    /\ load_pc = "try" => chs = Address(disk, ax)

(* bx is behind the sectors read.                                            *)
Behind == Len(loaded) < BX_SECTORS => bx = Len(loaded)

(* The last sector there is room for may be read too, and stays as long as   *)
(* no other is tried.                                                        *)
Whole ==
    Len(loaded) < BX_SECTORS \/ (Len(loaded) = BX_SECTORS /\ load_pc \notin {"try", "panic"})
        => \A k \in 1..Len(loaded) : memory[k - 1] = loaded[k]

LoadInv == LoadTypes /\ AtRange /\ Behind /\ Whole

LEMMA LoadInitially == LoadInit => LoadInv
<1> SUFFICES ASSUME LoadInit PROVE LoadInv
  OBVIOUS
<1>1. LoadTypes
  BY WrapAssumption DEF LoadInit, LoadTypes, Garbage
<1>2. AtRange /\ Behind /\ Whole
  BY DEF LoadInit, AtRange, Behind, Whole
<1> QED BY <1>1, <1>2 DEF LoadInv

LEMMA LoadStep ==
    ASSUME Fits, LoadInv, LoadNext
    PROVE  LoadInv'
<1> USE DEF LoadInv
<1>p. payload \in Seq(Extent) /\ disk \in Geometry
  BY PayloadAssumption, DiskAssumption DEF LoadTypes
<1>b. BX_SECTORS \in Nat \ {0}
  BY WrapAssumption
<1>1. CASE disk_reset
  <2>1. LoadTypes'
    BY <1>1 DEF disk_reset, LoadTypes, machine, registers
  <2>2. AtRange' /\ Behind' /\ Whole'
    BY <1>1 DEF disk_reset, AtRange, Behind, Whole, machine, registers
  <2> QED BY <2>1, <2>2
<1>2. CASE disk_get_params
  <2>1. LoadTypes'
    BY <1>2 DEF disk_get_params, LoadTypes, machine, registers
  <2>2. AtRange'
    <3>1. load_pc' = "range" => payload # <<>>
      BY <1>2 DEF disk_get_params
    <3>2. payload # <<>> => 1 <= Len(payload)
      BY <1>p
    <3> QED BY <1>2, <3>1, <3>2 DEF disk_get_params, AtRange, machine, registers
  <2>3. Behind' /\ Whole'
    BY <1>2 DEF disk_get_params, Behind, Whole, machine, registers
  <2> QED BY <2>1, <2>2, <2>3
<1>3. CASE LoadRange
  <2>1. si \in DOMAIN payload
    BY <1>3, <1>p DEF LoadRange, AtRange, LoadTypes
  <2>2. payload[si] \in Extent
    BY <2>1, <1>p
  <2>3. /\ ax' \in Nat /\ cx' \in Nat /\ cx' \in 1..payload[si][2]
        /\ ax' = ((payload[si][1] + payload[si][2]) - cx') % AX_SECTORS
    <3> DEFINE a == payload[si][1]
               n == payload[si][2]
    <3>1. a \in Nat /\ a < AX_SECTORS /\ n \in 1..128
      BY <2>2, ExtentParts
    <3>2. ax' = a /\ cx' = n
      BY <1>3 DEF LoadRange
    <3> HIDE DEF a, n
    <3>3. (a + n) - n = a /\ a % AX_SECTORS = a
      BY ONLY <3>1, Counting
    <3>4. ax' = ((a + n) - cx') % AX_SECTORS
      BY ONLY <3>2, <3>3
    <3>5. ax' \in Nat /\ cx' \in Nat /\ cx' \in 1..n
      BY ONLY <3>1, <3>2
    <3> QED BY ONLY <3>4, <3>5 DEF a, n
  <2>4. LoadTypes'
    BY <1>3, <2>3 DEF LoadRange, LoadTypes, machine
  <2>5. AtRange'
    <3>1. AtSector'
      BY <1>3, <2>3 DEF LoadRange, AtSector, machine
    <3> QED BY <1>3, <3>1 DEF LoadRange, AtRange, machine
  <2>6. Behind' /\ Whole'
    BY <1>3 DEF LoadRange, Behind, Whole, machine
  <2> QED BY <2>4, <2>5, <2>6
<1>4. CASE SetSector
  <2>1. LoadTypes'
    BY <1>4 DEF SetSector, LoadTypes, machine
  <2>2. AtRange'
    BY <1>4 DEF SetSector, AtRange, AtSector, machine
  <2>3. Behind' /\ Whole'
    BY <1>4 DEF SetSector, Behind, Whole, machine
  <2> QED BY <2>1, <2>2, <2>3
<1>5. CASE ReadFails
  <2>1. LoadTypes'
    BY <1>5 DEF ReadFails, LoadTypes, machine, Garbage
  <2>2. AtRange' /\ Behind'
    BY <1>5 DEF ReadFails, AtRange, AtSector, Behind, machine
  <2>3. Whole'
    <3>0. load_pc = "try" /\ load_pc' = "try"
      BY <1>5 DEF ReadFails
    <3> SUFFICES ASSUME Len(loaded') < BX_SECTORS, NEW k \in 1..Len(loaded')
                 PROVE  memory'[k - 1] = loaded'[k]
      BY <3>0 DEF Whole
    <3>1. loaded' = loaded /\ Len(loaded) \in Nat
      BY <1>5 DEF ReadFails, LoadTypes
    <3>2. bx = Len(loaded) /\ memory[k - 1] = loaded[k]
      BY <3>1 DEF Behind, Whole
    <3>3. k - 1 # bx /\ k - 1 \in 0..(BX_SECTORS - 1)
      BY <3>1, <3>2, <1>b
    <3> QED BY <1>5, <3>1, <3>2, <3>3 DEF ReadFails, LoadTypes
  <2> QED BY <2>1, <2>2, <2>3
<1>6. CASE ReadSucceeds
  <2> DEFINE last == payload[si][1] + payload[si][2]
             at == last - cx
  <2>1. /\ si \in DOMAIN payload /\ cx \in 1..payload[si][2] /\ ax = at % AX_SECTORS
        /\ last \in Nat /\ payload[si][2] \in Nat
    <3>0. load_pc = "try" /\ si \in Nat \ {0}
      BY <1>6 DEF ReadSucceeds, LoadTypes
    <3>a. si <= Len(payload) /\ AtSector
      BY <3>0 DEF AtRange
    <3>1. si <= Len(payload) /\ cx \in 1..payload[si][2] /\ ax = at % AX_SECTORS
      BY <3>a DEF AtSector
    <3>2. si \in DOMAIN payload
      <4> HIDE DEF at, last
      <4> QED BY <1>p, <3>0, <3>1
    <3>3. payload[si] \in Extent
      BY <1>p, <3>2
    <3>4. payload[si][1] \in Nat /\ payload[si][2] \in Nat
      BY <3>3, ExtentParts
    <3>5. last \in Nat
      BY ONLY <3>4
    <3> QED BY <3>1, <3>2, <3>4, <3>5
  <2>2. last <= (1024 * disk.heads) * disk.spt
    BY <2>1 DEF Fits, LoadTypes
  <2>c. at \in Nat /\ at < last /\ ax <= at
    <3> DEFINE a == payload[si][1]
               n == payload[si][2]
    <3>1. payload[si] \in Extent
      BY <1>p, <2>1
    <3>2. a \in Nat /\ n \in Nat /\ cx \in 1..n /\ last = a + n
      BY <2>1, <3>1, ExtentParts
    <3> HIDE DEF a, n, last
    <3>3. at \in Nat /\ at < last
      BY ONLY <3>2
    <3> HIDE DEF at
    <3> QED BY ONLY <2>1, <3>3, Counting
  <2>3. ax < (1024 * disk.heads) * disk.spt
    <3>1. (1024 * disk.heads) * disk.spt \in Nat
      <4>1. \A g \in Geometry : g.heads \in Nat /\ g.spt \in Nat
        BY DEF Geometry
      <4>2. disk.heads \in Nat /\ disk.spt \in Nat
        BY <1>p, <4>1
      <4> QED BY <4>2
    <3>2. ax \in Nat /\ last \in Nat
      BY <2>1 DEF LoadTypes
    <3> HIDE DEF at, last
    <3> QED BY <2>2, <2>c, <3>1, <3>2
  <2>4. SectorAt(disk, chs) = ax
    BY <1>6, <1>p, <2>3, SectorAddressed DEF ReadSucceeds, AtRange, LoadTypes
  <2>5. memory' = [memory EXCEPT ![bx] = ax] /\ loaded' = Append(loaded, ax)
    BY <1>6, <2>4 DEF ReadSucceeds, Placed
  <2>6. bx' \in Nat /\ bx' < BX_SECTORS /\ (bx + 1 < BX_SECTORS => bx' = bx + 1)
    <3> DEFINE b == bx + 1
    <3>1. b \in Nat /\ bx' = b % BX_SECTORS
      BY <1>6 DEF ReadSucceeds, LoadTypes
    <3> HIDE DEF b
    <3>2. b % BX_SECTORS \in 0..(BX_SECTORS - 1)
      BY <1>b, <3>1, DivMod
    <3>3. b < BX_SECTORS => b % BX_SECTORS = b
      <4>1. b < BX_SECTORS => b \in 0..(BX_SECTORS - 1)
        BY <1>b, <3>1
      <4>2. b < BX_SECTORS => ((BX_SECTORS * 0) + b) % BX_SECTORS = b
        BY <1>b, <4>1, DivModUnique
      <4> QED BY <1>b, <3>1, <4>2
    <3> QED BY <1>b, <3>1, <3>2, <3>3 DEF b
  <2>7. Len(loaded) \in Nat /\ Len(loaded') = Len(loaded) + 1 /\ loaded' \in Seq(Nat)
    BY <2>5, AppendProperties DEF LoadTypes
  <2>8. LoadTypes'
    <3>1. memory' \in [0..(BX_SECTORS - 1) -> Int]
      <4>1. ax \in Int /\ memory \in [0..(BX_SECTORS - 1) -> Int]
        BY DEF LoadTypes
      <4> QED BY ONLY <2>5, <4>1
    <3>2. ax' \in Nat /\ cx' \in Nat /\ UNCHANGED <<disk, payload, si>>
      <4>1. ax' = (ax + 1) % AX_SECTORS /\ cx' = cx - 1 /\ UNCHANGED <<disk, payload, si>>
        BY <1>6 DEF ReadSucceeds, machine
      <4>2. ax \in Nat /\ cx \in Nat /\ cx >= 1
        BY <2>1 DEF LoadTypes
      <4>3. ax' \in Nat
        BY <4>1, <4>2, Counting
      <4> QED BY <4>1, <4>2, <4>3
    <3> QED BY <2>6, <2>7, <3>1, <3>2 DEF LoadTypes
  <2>9. AtRange'
    <3>1. /\ load_pc = "try" /\ ax' = (ax + 1) % AX_SECTORS /\ cx' = cx - 1
          /\ load_pc' = (IF cx' = 0 THEN "next" ELSE "sector") /\ UNCHANGED <<payload, si>>
      BY <1>6 DEF ReadSucceeds, machine
    <3>2. si <= Len(payload)
      BY <3>1 DEF AtRange
    <3>3. cx' # 0 => cx' \in 1..payload[si][2]
      BY <2>1, <3>1
    <3>4. last - cx' = at + 1
      <4> HIDE DEF last
      <4> QED BY ONLY <2>1, <3>1
    <3>5. ax' = (last - cx') % AX_SECTORS
      <4>1. ax = at % AX_SECTORS /\ at \in Nat /\ ax' = (ax + 1) % AX_SECTORS
        BY <2>1, <2>c, <3>1
      <4> HIDE DEF at
      <4> QED BY ONLY <3>4, <4>1, Counting
    <3>6. si' <= Len(payload')
      BY <3>1, <3>2
    <3>9. load_pc' = "sector" => AtSector'
      BY <3>1, <3>3, <3>5 DEF AtSector
    <3>8. load_pc' \in {"next", "sector"}
      BY <3>1
    <3> QED BY <3>6, <3>9, <3>8 DEF AtRange
  <2>10. Behind'
    BY <2>6, <2>7, <1>b DEF Behind, LoadTypes
  <2>11. Whole'
    <3> SUFFICES ASSUME Len(loaded') <= BX_SECTORS, NEW k \in 1..Len(loaded')
                 PROVE  memory'[k - 1] = loaded'[k]
      BY <1>b, <2>7 DEF Whole
    <3>1. bx = Len(loaded)
      BY <2>7, <1>b DEF Behind
    <3>2. CASE k = Len(loaded) + 1
      <4>1. loaded'[k] = ax /\ k - 1 = bx
        BY <2>5, <3>1, <3>2, AppendProperties DEF LoadTypes
      <4> QED BY <2>5, <4>1, <1>b DEF LoadTypes
    <3>3. CASE k # Len(loaded) + 1
      <4>1. k \in 1..Len(loaded)
        BY <2>7, <3>3
      <4>2. loaded'[k] = loaded[k]
        BY <2>5, <4>1, AppendProperties DEF LoadTypes
      <4>3. memory[k - 1] = loaded[k]
        BY <2>7, <4>1, <1>b DEF Whole
      <4>4. k - 1 # bx /\ k - 1 \in 0..(BX_SECTORS - 1)
        BY <2>7, <3>1, <4>1, <1>b
      <4> QED BY <2>5, <4>2, <4>3, <4>4 DEF LoadTypes
    <3> QED BY <3>2, <3>3
  <2> QED BY <2>8, <2>9, <2>10, <2>11
<1>7. CASE ReadGivesUp
  <2>1. LoadTypes'
    BY <1>7 DEF ReadGivesUp, LoadTypes, machine, registers
  <2>2. AtRange' /\ Behind' /\ Whole'
    BY <1>7 DEF ReadGivesUp, AtRange, Behind, Whole, machine, registers
  <2> QED BY <2>1, <2>2
<1>8. CASE NextRange
  <2>1. LoadTypes'
    BY <1>8 DEF NextRange, LoadTypes, machine
  <2>2. AtRange'
    <3> Len(payload) \in Nat
      BY <1>p
    <3> QED BY <1>8 DEF NextRange, AtRange, LoadTypes, machine
  <2>3. Behind' /\ Whole'
    BY <1>8 DEF NextRange, Behind, Whole, machine
  <2> QED BY <2>1, <2>2, <2>3
<1> QED BY <1>1, <1>2, <1>3, <1>4, <1>5, <1>6, <1>7, <1>8 DEF LoadNext

(* The loader keeps what it has read where stage 2 expects it, however often *)
(* reads fail, on every disk whose lists stay below the 1024th cylinder.     *)
THEOREM LoadedInOrder == Fits => (LoadSpec => []InOrder)
<1> SUFFICES ASSUME Fits PROVE LoadSpec => []InOrder
  OBVIOUS
<1>1. LoadInv /\ [LoadNext]_load_vars => LoadInv'
  <2> SUFFICES ASSUME LoadInv, UNCHANGED load_vars PROVE LoadInv'
    BY LoadStep
  <2> QED BY DEF LoadInv, LoadTypes, AtRange, AtSector, Behind, Whole, load_vars
<1>2. LoadInv => InOrder
  BY DEF LoadInv, Whole, InOrder
<1> QED BY LoadInitially, <1>1, <1>2, PTL DEF LoadSpec

-----------------------------------------------------------------------------
(* No range of the list goes over the last sector that ax can count.         *)
Unwrapped == \A k \in DOMAIN payload : payload[k][1] + payload[k][2] <= AX_SECTORS

(* What has been read is what the list names up to the sector the loader is  *)
(* at.                                                                      *)
Upto(k) == SubSeq(payload, 1, k)

Progress ==
    /\ load_pc \in {"reset", "params", "range"} => loaded = Sectors(Upto(si - 1))
    /\ load_pc \in {"sector", "try"} =>
        loaded = Sectors(Upto(si - 1)) \o Ext(payload[si][1], payload[si][2] - cx)
    /\ load_pc = "next" => loaded = Sectors(Upto(si))
    /\ load_pc = "stage2" => loaded = Sectors(payload)

LEMMA ExtMore ==
    ASSUME NEW p \in Seq(Nat), NEW a \in Nat, NEW n \in Nat
    PROVE  Append(p \o Ext(a, n), a + n) = p \o Ext(a, n + 1)
<1> DEFINE s == Ext(a, n)
           one == Ext(a + n, 1)
<1>1. s \in Seq(Nat) /\ one \in Seq(Nat) /\ a + n \in Nat
  BY ExtType
<1>2. one = <<a + n>>
  <2>1. one = [j \in 1..1 |-> a + n + j - 1]
    BY DEF Ext
  <2>2. \A j \in 1..1 : a + n + j - 1 = a + n
    OBVIOUS
  <2>3. one = [j \in 1..1 |-> a + n]
    BY <2>1, <2>2
  <2>4. <<a + n>> = [j \in 1..1 |-> a + n]
    OBVIOUS
  <2> QED BY <2>3, <2>4
<1>3. s \o one = Ext(a, n + 1)
  BY ExtJoin
<1> HIDE DEF s, one
<1>4. p \o s \in Seq(Nat)
  BY <1>1, ConcatProperties
<1>5. Append(p \o s, a + n) = (p \o s) \o one
  BY <1>1, <1>2, <1>4, AppendIsConcat
<1>6. (p \o s) \o one = p \o (s \o one)
  BY <1>1, NatsAssociative
<1> QED BY <1>3, <1>5, <1>6 DEF s

LEMMA ProgressStep ==
    ASSUME LoadTypes, AtRange, Unwrapped, Progress, LoadNext
    PROVE  Progress'
<1>p. payload \in Seq(Ranges) /\ Len(payload) \in Nat
  <2>1. payload \in Seq(Extent)
    BY PayloadAssumption DEF LoadTypes
  <2>2. Extent \subseteq Ranges
    BY DEF Extent, Ranges
  <2> QED BY <2>1, <2>2
<1>s. si \in Nat \ {0}
  BY DEF LoadTypes
<1>u. ASSUME NEW k \in 0..Len(payload)
      PROVE  Upto(k) \in Seq(Ranges) /\ Sectors(Upto(k)) \in Seq(Nat)
  <2>1. Upto(k) \in Seq(Ranges)
    <3>1. 1 \in Int /\ k \in Int /\ \A j \in 1..k : payload[j] \in Ranges
      BY <1>p
    <3> QED BY <3>1, SubSeqProperties DEF Upto
  <2> QED BY <2>1, SectorsType
<1>r. ASSUME load_pc \in {"range", "sector", "try", "next"}
      PROVE  /\ si \in 1..Len(payload) /\ payload[si] \in Ranges /\ payload[si][1] \in Nat
             /\ Sectors(Upto(si - 1)) \in Seq(Nat)
  <2>1. si \in 1..Len(payload) /\ si - 1 \in 0..Len(payload)
    BY <1>p, <1>r, <1>s DEF AtRange
  <2>2. payload[si] \in Ranges
    BY <1>p, <2>1
  <2> QED BY <1>u, <2>1, <2>2 DEF Ranges
<1>1. CASE disk_reset
  BY <1>1 DEF disk_reset, machine, registers, Progress, Upto
<1>2. CASE disk_get_params
  BY <1>2 DEF disk_get_params, machine, registers, Progress, Upto
<1>3. CASE LoadRange
  <2>1. load_pc = "range" /\ load_pc' = "sector" /\ cx' = payload[si][2]
        /\ UNCHANGED <<payload, si, loaded>>
    BY <1>3 DEF LoadRange, machine
  <2>2. loaded = Sectors(Upto(si - 1))
    BY <2>1 DEF Progress
  <2>3. payload[si][1] \in Nat /\ payload[si][2] \in Nat /\ Sectors(Upto(si - 1)) \in Seq(Nat)
    BY <2>1, <1>r DEF Ranges
  <2>4. Ext(payload[si][1], payload[si][2] - cx') = <<>>
    BY <2>1, <2>3, ExtNone
  <2>5. Sectors(Upto(si - 1)) \o <<>> = Sectors(Upto(si - 1))
    BY <2>3, ConcatEmptySeq
  <2> QED BY <2>1, <2>2, <2>4, <2>5 DEF Progress, Upto
<1>4. CASE SetSector
  BY <1>4 DEF SetSector, machine, Progress, Upto
<1>5. CASE ReadFails
  BY <1>5 DEF ReadFails, machine, Progress, Upto
<1>6. CASE ReadSucceeds
  <2> DEFINE a == payload[si][1]
             done == Sectors(Upto(si - 1))
             n == payload[si][2] - cx
  <2>1. /\ load_pc = "try" /\ load_pc' = IF cx' = 0 THEN "next" ELSE "sector"
        /\ cx' = cx - 1 /\ loaded' = Append(loaded, ax)
        /\ UNCHANGED <<payload, si>>
    BY <1>6 DEF ReadSucceeds, machine
  <2>2. /\ loaded = done \o Ext(a, n)
        /\ cx \in 1..payload[si][2] /\ ax = ((a + payload[si][2]) - cx) % AX_SECTORS
    BY <2>1 DEF Progress, AtRange, AtSector
  <2>3. /\ si \in 1..Len(payload) /\ payload[si] \in Ranges /\ a \in Nat /\ done \in Seq(Nat)
        /\ payload[si][2] \in Nat /\ cx \in Nat
    BY <2>1, <1>r DEF LoadTypes, Ranges
  <2>4. n \in Nat /\ n < payload[si][2] /\ payload[si][2] - cx' = n + 1
    <3> DEFINE b == payload[si][2]
    <3>1. b \in Nat /\ cx \in 1..b /\ cx' = cx - 1
      BY <2>1, <2>2, <2>3
    <3> HIDE DEF b
    <3>2. b - cx \in Nat /\ b - cx < b /\ b - cx' = (b - cx) + 1
      BY ONLY <3>1
    <3> QED BY <3>2 DEF b
  <2>a. a + payload[si][2] <= AX_SECTORS
    BY <2>3, <1>p DEF Unwrapped
  <2> HIDE DEF a, done
  <2>x. ax = a + n
    <3>1. (a + payload[si][2]) - cx = a + n
      BY ONLY <2>2, <2>3
    <3>2. a + n \in Nat /\ a + n < AX_SECTORS
      <4> HIDE DEF n
      <4> QED BY <2>3, <2>4, <2>a, WrapAssumption
    <3> HIDE DEF n
    <3> QED BY ONLY <2>2, <3>1, <3>2, Counting
  <2> HIDE DEF n
  <2>5. loaded' = done \o Ext(a, n + 1)
    <3>1. loaded' = Append(done \o Ext(a, n), a + n)
      BY ONLY <2>1, <2>2, <2>x
    <3> QED BY ONLY <2>3, <2>4, <3>1, ExtMore
  <2>6. CASE cx' # 0
    <3>1. load_pc' = "sector"
      BY <2>1, <2>6
    <3> QED BY <2>1, <2>4, <2>5, <3>1 DEF Progress, Upto, a, done
  <2>7. CASE cx' = 0
    <3>1. load_pc' = "next" /\ n + 1 = payload[si][2]
      BY <2>1, <2>3, <2>4, <2>7
    <3>2. Upto(si) = Append(Upto(si - 1), payload[si])
      <4>1. 1 \in 1..Len(payload) /\ si \in 1..Len(payload)
        BY <1>p, <2>3
      <4>2. Upto(si) = Upto(si - 1) \o <<payload[si]>>
        BY <1>p, <4>1, SubSeqRecursiveSecond DEF Upto
      <4>3. si - 1 \in 0..Len(payload)
        BY <1>p, <4>1
      <4> QED BY <1>u, <2>3, <4>2, <4>3, AppendIsConcat
    <3>3. Sectors(Upto(si)) = done \o Ext(a, payload[si][2])
      <4>1. Upto(si - 1) \in Seq(Ranges)
        BY <1>u, <2>3
      <4> QED BY <2>3, <3>2, <4>1, SectorsAppend DEF a, done
    <3> QED BY <2>1, <2>5, <3>1, <3>3 DEF Progress, Upto
  <2> QED BY <2>6, <2>7
<1>7. CASE ReadGivesUp
  BY <1>7 DEF ReadGivesUp, machine, registers, Progress, Upto
<1>8. CASE NextRange
  <2>1. /\ load_pc = "next" /\ si' = si + 1 /\ UNCHANGED <<payload, loaded>>
        /\ load_pc' = IF si < Len(payload) THEN "range" ELSE "stage2"
    BY <1>8 DEF NextRange, machine
  <2>2. loaded = Sectors(Upto(si)) /\ si \in 1..Len(payload)
    BY <2>1, <1>r DEF Progress
  <2>3. CASE si < Len(payload)
    <3>1. si' - 1 = si
      BY <2>1, <1>s
    <3> QED BY <2>1, <2>2, <2>3, <3>1 DEF Progress, Upto
  <2>4. CASE ~(si < Len(payload))
    <3>1. si = Len(payload)
      BY <2>2, <2>4, <1>p
    <3>2. Upto(Len(payload)) = payload
      BY <1>p, SubSeqFull DEF Upto
    <3> QED BY <2>1, <2>2, <2>4, <3>1, <3>2 DEF Progress, Upto
  <2> QED BY <2>3, <2>4
<1> QED BY <1>1, <1>2, <1>3, <1>4, <1>5, <1>6, <1>7, <1>8 DEF LoadNext

-----------------------------------------------------------------------------
MapTypes ==
    /\ bios_map \in Seq(SMAPEntry) /\ bios_map # <<>> /\ bios_end \in Ends
    /\ map_pc \in {"first", "failed", "loop", "mapped", "overrun"}
    /\ ebx \in Nat /\ di \in Nat /\ bp \in Nat
    /\ DOMAIN entries = 0..(MAP_SLOTS - 1)

(* The slot in hand is full and not counted yet, and a BIOS that ends with 0 *)
(* has more to tell.                                                        *)
Asking ==
    /\ bp + 1 <= Len(bios_map) /\ ebx = bp + 2
    /\ bios_end = "zero" => bp + 1 < Len(bios_map)
    /\ \A k \in 0..bp : entries[k] = Written(bios_map[k + 1])

(* A BIOS that has told the end by the carry flag, and is asked again.       *)
AskingOn == bios_end = "kept" /\ ebx = Len(bios_map) + 1

(* Before the loop nothing is counted; in it, the slot in hand is in the     *)
(* table.                                                                   *)
MapAt ==
    /\ map_pc = "first" => ebx = 0 /\ di = 0 /\ bp = 0
    /\ map_pc = "loop" => di = bp /\ bp < MAP_SLOTS /\ (Asking \/ AskingOn)

MapInv == MapTypes /\ MapAt /\ MapRead

LEMMA MapInitially == MapInit => MapInv
<1> SUFFICES ASSUME MapInit PROVE MapInv
  OBVIOUS
<1>1. MapTypes
  BY MapAssumption DEF MapInit, MapTypes
<1>2. MapAt /\ MapRead
  BY DEF MapInit, MapAt, MapRead
<1> QED BY <1>1, <1>2 DEF MapInv

LEMMA MapStep ==
    ASSUME MapInv, MapNext
    PROVE  MapInv'
<1> USE DEF MapInv
<1>b. MAP_SLOTS \in Nat \ {0} /\ Len(bios_map) \in Nat /\ Len(bios_map) >= 1
  BY SlotAssumption DEF MapTypes
<1>1. CASE FirstCall
  <2>1. entries' = [k \in DOMAIN entries |-> IF k = 0 THEN Written(bios_map[1]) ELSE entries[k]]
    BY <1>1 DEF FirstCall, StoreAt
  <2>2. /\ ebx' = IF bios_end = "zero" /\ Len(bios_map) = 1 THEN 0 ELSE 2
        /\ map_pc' = IF ebx' = 0 THEN "failed" ELSE "loop"
        /\ UNCHANGED <<bios_map, bios_end, di, bp>> /\ di = 0 /\ bp = 0
    BY <1>1, <1>b DEF FirstCall, Next_ebx, bios, MapAt
  <2>3. MapTypes'
    BY <2>1, <2>2 DEF MapTypes
  <2>4. MapAt'
    <3>1. entries'[0] = Written(bios_map[1])
      BY <2>1, <1>b DEF MapTypes
    <3>2. \A k \in 0..bp' : entries'[k] = Written(bios_map[k + 1])
      BY <2>2, <3>1
    <3> HIDE DEF MapInv
    <3>3. map_pc' = "loop" => Asking'
      <4>1. map_pc' = "loop" => ebx' = 2 /\ ~(bios_end = "zero" /\ Len(bios_map) = 1)
        BY ONLY <2>2
      <4>2. bp' = 0 /\ bios_map' = bios_map /\ bios_end' = bios_end
        BY ONLY <2>2
      <4>3. Len(bios_map) # 1 => 1 < Len(bios_map)
        <5> DEFINE n == Len(bios_map)
        <5>1. n \in Nat /\ n >= 1
          BY <1>b
        <5> HIDE DEF n
        <5>2. n # 1 => 1 < n
          BY ONLY <5>1
        <5> QED BY <5>2 DEF n
      <4> QED BY <3>2, <4>1, <4>2, <4>3, <1>b DEF Asking
    <3> QED BY <2>2, <3>3, <1>b DEF MapAt
  <2>5. MapRead'
    BY <2>2 DEF MapRead
  <2> QED BY <2>3, <2>4, <2>5
<1>2. CASE NotSupported
  <2>1. MapTypes'
    BY <1>2 DEF NotSupported, StoreAt, MapTypes, bios
  <2>2. MapAt' /\ MapRead'
    BY <1>2 DEF NotSupported, MapAt, MapRead
  <2> QED BY <2>1, <2>2
<1>l. ASSUME map_pc = "loop"
      PROVE  /\ di = bp /\ bp < MAP_SLOTS /\ (Asking \/ AskingOn)
             /\ bp \in Nat /\ DOMAIN entries = 0..(MAP_SLOTS - 1) /\ bios_end \in Ends
  BY <1>l DEF MapAt, MapTypes
<1>3. CASE LoopCall
  <2>1. /\ map_pc = "loop" /\ bp' = bp + 1 /\ di' = bp + 1 /\ bp + 1 < MAP_SLOTS
        /\ StoreAt(bp + 1, IF ebx <= Len(bios_map) THEN Written(bios_map[ebx]) ELSE Blank)
        /\ ebx' = Next_ebx(ebx) /\ map_pc' = (IF ebx' = 0 THEN "mapped" ELSE "loop")
        /\ UNCHANGED <<bios_map, bios_end>>
    BY <1>3, <1>l DEF LoopCall, Counted, NextSlot, bios
  <2>2. /\ bp \in Nat /\ (Asking \/ AskingOn) /\ bios_end \in {"zero", "carry", "kept"}
        /\ DOMAIN entries = 0..(MAP_SLOTS - 1)
    BY <1>l, <2>1 DEF Ends
  <2>3. CASE Asking /\ bp + 2 <= Len(bios_map)
    <3>1. ebx = bp + 2 /\ ebx \in Nat
      BY <2>2, <2>3 DEF Asking
    <3>2. /\ StoreAt(bp + 1, Written(bios_map[bp + 2]))
          /\ ebx' = IF bios_end = "zero" /\ bp + 2 = Len(bios_map) THEN 0 ELSE bp + 3
      BY <2>1, <2>2, <2>3, <3>1, <1>b DEF Next_ebx
    <3>3. /\ DOMAIN entries' = 0..(MAP_SLOTS - 1)
          /\ \A k \in 0..(bp + 1) : entries'[k] = Written(bios_map[k + 1])
      BY <2>1, <2>2, <2>3, <3>2, <1>b DEF StoreAt, Asking
    <3>4. MapTypes'
      BY <2>1, <2>2, <3>2, <3>3 DEF MapTypes
    <3>5. map_pc' = "loop" => Asking'
      BY <2>1, <2>2, <2>3, <3>2, <3>3, <1>b DEF Asking
    <3>6. MapAt'
      BY <2>1, <3>5 DEF MapAt
    <3>7. MapRead'
      BY <2>1, <2>2, <2>3, <3>2, <3>3, <1>b DEF MapRead
    <3> QED BY <3>4, <3>6, <3>7
  <2>4. CASE Asking /\ ~(bp + 2 <= Len(bios_map))
    <3>1. /\ ebx = Len(bios_map) + 1 /\ bp + 1 = Len(bios_map) /\ bios_end \in {"carry", "kept"}
          /\ \A k \in 0..bp : entries[k] = Written(bios_map[k + 1])
      BY <2>2, <2>4, <1>b DEF Asking
    <3>2. /\ StoreAt(bp + 1, Blank)
          /\ ebx' = IF bios_end = "kept" THEN Len(bios_map) + 1 ELSE 0
      BY <2>1, <3>1, <1>b DEF Next_ebx
    <3>3. /\ DOMAIN entries' = 0..(MAP_SLOTS - 1)
          /\ \A k \in 0..bp : entries'[k] = Written(bios_map[k + 1])
      BY <2>1, <2>2, <3>1, <3>2, <1>b DEF StoreAt
    <3>4. MapTypes'
      BY <2>1, <2>2, <3>2, <3>3, <1>b DEF MapTypes
    <3>5. map_pc' = "loop" => AskingOn'
      BY <2>1, <3>1, <3>2, <1>b DEF AskingOn
    <3>6. MapAt'
      BY <2>1, <3>5 DEF MapAt
    <3>7. MapRead'
      BY <2>1, <2>2, <3>1, <3>2, <3>3, <1>b DEF MapRead
    <3> QED BY <3>4, <3>6, <3>7
  <2>5. CASE AskingOn
    <3>1. /\ StoreAt(bp + 1, Blank) /\ ebx' = Len(bios_map) + 1 /\ bios_end = "kept"
          /\ map_pc' = "loop"
      BY <2>1, <2>5, <1>b DEF AskingOn, Next_ebx
    <3>2. DOMAIN entries' = 0..(MAP_SLOTS - 1)
      BY <2>2, <3>1 DEF StoreAt
    <3>3. MapTypes'
      BY <2>1, <2>2, <3>1, <3>2, <1>b DEF MapTypes
    <3>4. MapAt' /\ MapRead'
      BY <2>1, <3>1 DEF MapAt, AskingOn, MapRead
    <3> QED BY <3>3, <3>4
  <2> QED BY <2>2, <2>3, <2>4, <2>5
<1>4. CASE Overrun
  <2>1. /\ map_pc = "loop" /\ bp' = bp + 1 /\ di' = bp + 1 /\ bp + 1 >= MAP_SLOTS
        /\ map_pc' = "overrun" /\ UNCHANGED <<bios_map, bios_end, ebx, entries>>
    BY <1>4, <1>l DEF Overrun, Counted, NextSlot, bios
  <2>2. MapTypes'
    BY <2>1 DEF MapTypes
  <2>3. MapAt'
    BY <2>1 DEF MapAt
  <2>4. bios_end = "kept" \/ SlotsNeeded > MAP_SLOTS
    <3>1. CASE Asking
      BY <1>l, <2>1, <3>1, <1>b DEF Asking, SlotsNeeded, Ends
    <3>2. CASE AskingOn
      BY <3>2 DEF AskingOn
    <3> QED BY <1>l, <2>1, <3>1, <3>2
  <2>5. MapRead'
    BY <2>1, <2>4 DEF MapRead, SlotsNeeded
  <2> QED BY <2>2, <2>3, <2>5
<1> QED BY <1>1, <1>2, <1>3, <1>4 DEF MapNext

(* Whatever map the BIOS has, main is told the entries of the map in order,   *)
(* all but at most the last one, or is never reached because the table was   *)
(* overrun: by a map with no room in it, or by a BIOS that ends its map with *)
(* the carry flag and EBX as it was, which the loop does not see.            *)
THEOREM EntriesInOrder == MapSpec => []MapRead
<1>1. MapInv /\ [MapNext]_map_vars => MapInv'
  <2> SUFFICES ASSUME MapInv, UNCHANGED map_vars PROVE MapInv'
    BY MapStep
  <2> QED BY DEF MapInv, MapTypes, MapAt, MapRead, Asking, AskingOn, SlotsNeeded, map_vars
<1>2. MapInv => MapRead
  BY DEF MapInv
<1> QED BY MapInitially, <1>1, <1>2, PTL DEF MapSpec

-----------------------------------------------------------------------------
(* A boot is a run of the loader, and then one of load_memory_map: what each *)
(* does on its own it does in the whole.                                    *)
LEMMA BootSteps ==
    /\ BootInit => LoadInit /\ MapInit
    /\ [BootNext]_boot_vars => [LoadNext]_load_vars
    /\ [BootNext]_boot_vars => [MapNext]_map_vars
BY DEF BootInit, BootNext, boot_vars

(* Boot adds nothing to the loader: each of its steps is one of the loader or *)
(* leaves the loader's variables alone.                                      *)
THEOREM BootLoads == BootSpec => LoadSpec
BY BootSteps, PTL DEF BootSpec, LoadSpec

(* The same of the loop over the memory map.                                 *)
THEOREM BootReadsMap == BootSpec => MapSpec
BY BootSteps, PTL DEF BootSpec, MapSpec

(* So the whole boot keeps in memory, in order, what the loader has read ... *)
THEOREM BootInOrder == Fits => (BootSpec => []InOrder)
BY BootLoads, LoadedInOrder, PTL

(* ... and tells main the entries of the BIOS's map in order, if main is      *)
(* reached.                                                                 *)
THEOREM BootMapRead == BootSpec => []MapRead
BY BootReadsMap, EntriesInOrder, PTL

(* The cuts at 64 KB leave every piece below the last sector of its range.    *)
LEMMA PiecesBelow ==
    ASSUME NEW r \in Nat \X (Nat \ {0}), r[1] + r[2] <= AX_SECTORS
    PROVE  Pieces(r) \in Seq({e \in Ranges : e[1] + e[2] <= AX_SECTORS})
<1> DEFINE Low == {e \in Ranges : e[1] + e[2] <= AX_SECTORS}
           a == r[1]
           n == r[2]
           f == Lesser(FIRST_BLOCKS, n)
           rest == n - f
           K == (rest + BARRIER - 1) \div BARRIER
           piece(k) == <<PieceStart(a, f, k), Lesser(BARRIER, rest - (k - 1) * BARRIER)>>
           cut == [k \in 1..K |-> piece(k)]
<1>1. /\ a \in Nat /\ n \in Nat /\ f \in Nat /\ f <= n /\ rest \in Nat /\ n = f + rest
      /\ BARRIER \in Nat \ {0} /\ a + n <= AX_SECTORS
  BY BarrierAssumption DEF Lesser
<1>2. Pieces(r) = <<<<a, f>>>> \o cut
  BY DEF Pieces
<1> HIDE DEF a, n, f, rest
<1>3. K \in Nat
  <2> DEFINE top == rest + BARRIER - 1
  <2>1. top \in Nat
    BY <1>1
  <2> HIDE DEF top
  <2>2. top \div BARRIER \in Nat
    BY ONLY <1>1, <2>1, DivMod
  <2> QED BY <2>2 DEF top
<1>4. ASSUME NEW k \in 1..K PROVE piece(k) \in Low
  <2> DEFINE m == (k - 1) * BARRIER
             top == rest + BARRIER - 1
             j == top % BARRIER
  <2>1. m \in Nat /\ m < rest
    <3>1. top \in Nat /\ top = rest + BARRIER - 1
      BY <1>1
    <3>2. top = (BARRIER * K) + j /\ j \in 0..(BARRIER - 1)
      <4>1. K = top \div BARRIER
        OBVIOUS
      <4> HIDE DEF top, K
      <4> QED BY ONLY <1>1, <3>1, <4>1, DivMod
    <3> HIDE DEF top, j, K
    <3>3. m + BARRIER <= BARRIER * K
      <4>1. K - k \in Nat /\ k - 1 \in Nat
        BY <1>3
      <4>2. (K - k) * BARRIER >= 0
        BY <1>1, <4>1
      <4>3. (K - k) * BARRIER = (BARRIER * K) - (m + BARRIER)
        BY <1>1, <1>3
      <4>4. m \in Nat /\ BARRIER * K \in Nat
        BY <1>1, <1>3, <4>1
      <4> HIDE DEF m
      <4> QED BY <1>1, <4>2, <4>3, <4>4
    <3>4. m \in Nat
      BY <1>1, <1>3
    <3>5. BARRIER * K \in Nat
      BY <1>1, <1>3
    <3> HIDE DEF m
    <3> QED BY <1>1, <3>1, <3>2, <3>3, <3>4, <3>5
  <2>2. piece(k) = <<a + f + m, Lesser(BARRIER, rest - m)>>
    BY DEF PieceStart
  <2> HIDE DEF m, piece
  <2>3. Lesser(BARRIER, rest - m) \in Nat /\ Lesser(BARRIER, rest - m) <= rest - m
    BY <1>1, <2>1 DEF Lesser
  <2> DEFINE x == a + f + m
             y == Lesser(BARRIER, rest - m)
  <2>4. x \in Nat /\ y \in Nat /\ x + y <= AX_SECTORS
    <3>1. x = a + f + m /\ y \in Nat /\ y <= rest - m
      BY <2>3
    <3> HIDE DEF x, y
    <3> QED BY <1>1, <2>1, <3>1, WrapAssumption
  <2>5. piece(k) = <<x, y>>
    BY <2>2
  <2> HIDE DEF x, y
  <2>6. <<x, y>> \in Nat \X Nat /\ <<x, y>>[1] = x /\ <<x, y>>[2] = y
    BY <2>4
  <2> QED BY <2>4, <2>5, <2>6 DEF Ranges
<1>5. cut \in Seq(Low)
  <2>1. cut \in [1..K -> Low]
    BY <1>4
  <2> HIDE DEF cut, Low
  <2> QED BY <1>3, <2>1, SeqDef
<1>6. <<a, f>> \in Low
  <2>1. a + f <= AX_SECTORS
    BY <1>1, WrapAssumption
  <2>2. <<a, f>> \in Nat \X Nat /\ <<a, f>>[1] = a /\ <<a, f>>[2] = f
    BY <1>1
  <2> QED BY <2>1, <2>2 DEF Ranges
<1>7. <<<<a, f>>>> \in Seq(Low)
  <2> HIDE DEF Low
  <2> QED BY <1>6
<1> HIDE DEF cut, Low
<1>8. Pieces(r) \in Seq(Low)
  BY <1>2, <1>5, <1>7, ConcatProperties
<1> QED BY <1>8 DEF Low

(* The list of a file that lies below sector 65536 stays below it.            *)
LEMMA PayloadBelow ==
    ASSUME NEW f \in Seq((Nat \ {0, 1}) \X (Nat \ {0})), Countable(f)
    PROVE  Payload(f) \in Seq({e \in Ranges : e[1] + e[2] <= AX_SECTORS})
<1> DEFINE Low == {e \in Ranges : e[1] + e[2] <= AX_SECTORS}
           cut == [k \in DOMAIN f |-> Pieces(SectorRange(f[k]))]
           N == Len(f)
<1>1. N \in Nat /\ DOMAIN f = 1..N /\ \A k \in 1..N : f[k] \in (Nat \ {0, 1}) \X (Nat \ {0})
  BY LenProperties
<1>2. Payload(f) = FlattenSeq(cut)
  <2>1. /\ DOMAIN get_sector_ranges(f) = DOMAIN f
        /\ \A k \in DOMAIN f : get_sector_ranges(f)[k] = SectorRange(f[k])
    BY DEF get_sector_ranges
  <2>2. cut = [k \in DOMAIN get_sector_ranges(f) |-> Pieces(get_sector_ranges(f)[k])]
    BY <2>1
  <2> QED BY <2>2 DEF Payload
<1>3. ASSUME NEW k \in 1..N PROVE Pieces(SectorRange(f[k])) \in Seq(Low)
  <2>1. START_DATA \in Nat /\ SECTORS_PER_CLUSTER \in Nat \ {0}
    BY LayoutAssumption
  <2>2. f[k][1] \in Nat /\ f[k][1] >= 2 /\ f[k][2] \in Nat \ {0}
    BY SMTT(30), <1>1
  <2>3. SectorRange(f[k]) \in Nat \X (Nat \ {0})
    <3>1. START_DATA + f[k][1] - 2 \in Nat
      BY <2>1, <2>2
    <3>2. \A x \in Nat : x * SECTORS_PER_CLUSTER \in Nat
      BY <2>1
    <3>3. \A x \in Nat \ {0} : x * SECTORS_PER_CLUSTER \in Nat \ {0}
      BY <2>1
    <3>4. (START_DATA + f[k][1] - 2) * SECTORS_PER_CLUSTER \in Nat
      BY <3>1, <3>2
    <3>5. f[k][2] * SECTORS_PER_CLUSTER \in Nat \ {0}
      BY <2>2, <3>3
    <3> QED BY <3>4, <3>5 DEF SectorRange
  <2>4. SectorRange(f[k])[1] + SectorRange(f[k])[2] <= AX_SECTORS
    BY <1>1 DEF Countable
  <2> QED BY <2>3, <2>4, PiecesBelow
<1>4. cut \in Seq(Seq(Low))
  <2> HIDE DEF Low
  <2>1. cut \in [1..N -> Seq(Low)]
    BY <1>1, <1>3
  <2> QED BY <1>1, <2>1, SeqDef
<1> HIDE DEF cut, Low
<1>5. Payload(f) \in Seq(Low)
  BY <1>2, <1>4, FlattenType
<1> QED BY <1>5 DEF Low

(* Stage 2 is entered with its file in memory: the installer's list names    *)
(* the file's sectors in order, the loader reads what the list names, and    *)
(* what it reads stays.  Failed reads and the cuts at 64 KB change nothing.   *)
(* This is for clusters of one sector, extents that end below sector 65536,  *)
(* where the 16 bits of ax do not wrap, and files of up to 64 KB: those are  *)
(* in the antecedent of Loaded.                                              *)
THEOREM FileIsLoaded == Fits => (BootSpec => []Loaded)
<1> SUFFICES ASSUME Fits PROVE BootSpec => []Loaded
  OBVIOUS
<1> DEFINE Listed == payload = Payload(file) /\ file \in Files
           BInv == LoadInv /\ (Unwrapped => Progress) /\ Listed
<1>1. BootInit => BInv
  <2> SUFFICES ASSUME BootInit PROVE BInv
    OBVIOUS
  <2>1. LoadInv
    BY BootSteps, LoadInitially
  <2>2. load_pc = "reset" /\ si = 1 /\ loaded = <<>> /\ Listed
    BY DEF BootInit, LoadInit
  <2>3. Upto(si - 1) = <<>>
    BY <2>2, SubSeqEmpty DEF Upto
  <2>4. Progress
    BY <2>2, <2>3, SectorsNone DEF Progress
  <2> QED BY <2>1, <2>2, <2>4
<1>2. BInv /\ [BootNext]_boot_vars => BInv'
  <2> SUFFICES ASSUME BInv, [BootNext]_boot_vars PROVE BInv'
    OBVIOUS
  <2>1. UNCHANGED file
    BY DEF BootNext, boot_vars
  <2>2. UNCHANGED payload
    BY DEF BootNext, boot_vars, load_vars, LoadNext, machine, disk_reset, disk_get_params,
           LoadRange, SetSector, ReadFails, ReadSucceeds, ReadGivesUp, NextRange
  <2>3. CASE LoadNext
    <3>1. LoadInv'
      BY <2>3, LoadStep
    <3>2. Unwrapped' => Progress'
      BY <2>2, <2>3, ProgressStep DEF LoadInv, Unwrapped
    <3> QED BY <2>1, <2>2, <3>1, <3>2
  <2>4. CASE UNCHANGED load_vars
    <3>0. UNCHANGED <<disk, payload, load_pc, si, bx, ax, cx, chs, memory, loaded>>
      BY <2>4 DEF load_vars
    <3>a. LoadTypes' /\ Behind' /\ Whole'
      BY <3>0 DEF LoadInv, LoadTypes, Behind, Whole
    <3>b. AtRange'
      BY <3>0, Zenon DEF LoadInv, AtRange, AtSector
    <3>1. LoadInv'
      BY <3>a, <3>b DEF LoadInv
    <3>2. Unwrapped' => Progress'
      BY <2>4 DEF load_vars, Progress, Upto, Unwrapped
    <3> QED BY <2>1, <2>2, <3>1, <3>2
  <2> QED BY <2>3, <2>4, BootSteps
<1>3. BInv => Loaded
  <2> SUFFICES ASSUME BInv, load_pc = "stage2", SECTORS_PER_CLUSTER = 1,
                      Countable(file), Len(FileSectors(file)) <= BX_SECTORS
               PROVE  \A k \in DOMAIN FileSectors(file) : memory[k - 1] = FileSectors(file)[k]
    BY DEF Loaded
  <2>1. file \in Seq((Nat \ {0, 1}) \X (Nat \ {0}))
    BY FileAssumption
  <2>u. Unwrapped
    <3> DEFINE Low == {e \in Ranges : e[1] + e[2] <= AX_SECTORS}
    <3>1. payload \in Seq(Low)
      BY <2>1, PayloadBelow
    <3>2. \A k \in DOMAIN payload : payload[k] \in Low
      <4> HIDE DEF Low
      <4> QED BY <3>1, LenProperties
    <3> QED BY <3>2 DEF Unwrapped
  <2>2. loaded = FileSectors(file)
    BY <2>1, <2>u, PayloadIsFile DEF Progress
  <2>3. loaded \in Seq(Nat) /\ Len(loaded) \in Nat /\ DOMAIN loaded = 1..Len(loaded)
    BY DEF LoadInv, LoadTypes
  <2>4. \A k \in 1..Len(loaded) : memory[k - 1] = loaded[k]
    <3>1. Len(loaded) <= BX_SECTORS
      BY <2>2
    <3>2. Len(loaded) < BX_SECTORS \/ (Len(loaded) = BX_SECTORS /\ load_pc \notin {"try", "panic"})
      <4> DEFINE n == Len(loaded)
      <4>1. n \in Nat /\ n <= BX_SECTORS /\ BX_SECTORS \in Nat
        BY <2>3, <3>1, WrapAssumption
      <4> HIDE DEF n
      <4>2. n < BX_SECTORS \/ n = BX_SECTORS
        BY ONLY <4>1
      <4>3. load_pc \notin {"try", "panic"}
        OBVIOUS
      <4> QED BY <4>2, <4>3 DEF n
    <3> QED BY <3>2 DEF LoadInv, Whole
  <2> QED BY <2>2, <2>3, <2>4
<1> HIDE DEF BInv
<1> QED BY <1>1, <1>2, <1>3, PTL DEF BootSpec

-----------------------------------------------------------------------------
(* Characters of a string: none of them is the NUL. *)
Letters == (-128..127) \ {NUL}
Str     == Seq(Letters)

LEMMA ChOf ==
    ASSUME NEW s \in Str, NEW k \in Nat
    PROVE  /\ k < Len(s) => Ch(s, k) = s[k + 1] /\ Ch(s, k) \in Letters
           /\ k >= Len(s) => Ch(s, k) = NUL
<1>1. Len(s) \in Nat /\ \A j \in 1..Len(s) : s[j] \in Letters
  BY LenProperties DEF Str
<1>2. k < Len(s) => k + 1 \in 1..Len(s)
  BY <1>1
<1> QED BY <1>1, <1>2 DEF Ch

(* Where a comparison stops. *)
LEMMA Stops ==
    ASSUME NEW s1 \in Str, NEW s2 \in Str, NEW len \in Nat
    PROVE  LET k == Differ(s1, s2, len)
           IN  /\ k \in 0..Len(s1)
               /\ k \in {Len(s1), len} \/ Ch(s1, k) # Ch(s2, k)
               /\ \A j \in 0..(k - 1) : j # Len(s1) /\ j # len /\ Ch(s1, j) = Ch(s2, j)
<1> DEFINE P(k) == k \in {Len(s1), len} \/ Ch(s1, k) # Ch(s2, k)
           S == {k \in 0..Len(s1) : P(k)}
<1>1. Len(s1) \in Nat
  BY LenProperties DEF Str
<1>2. S \in SUBSET Nat /\ Len(s1) \in S
  BY <1>1
<1>3. PICK k \in S : \A m \in S : k <= m
  BY <1>2, Least
<1>4. k \in 0..Len(s1) /\ P(k) /\ \A j \in 0..(k - 1) : ~P(j)
  BY <1>1, <1>3
<1>5. Differ(s1, s2, len) = CHOOSE m \in 0..Len(s1) : P(m) /\ \A j \in 0..(m - 1) : ~P(j)
  BY DEF Differ, FirstFrom
<1> DEFINE d == Differ(s1, s2, len)
<1> HIDE DEF P
<1>6. d \in 0..Len(s1) /\ P(d) /\ \A j \in 0..(d - 1) : ~P(j)
  BY <1>4, <1>5
<1> QED BY <1>6 DEF P

(* strncmp tells equal strings from others, if it looks at all of the first. *)
LEMMA SameString ==
    ASSUME NEW s1 \in Str, NEW s2 \in Str, NEW len \in Nat, Len(s1) <= len
    PROVE  strncmp(s1, s2, len) = 0 <=> s1 = s2
<1> DEFINE d == Differ(s1, s2, len)
<1>1. /\ d \in 0..Len(s1)
      /\ d \in {Len(s1), len} \/ Ch(s1, d) # Ch(s2, d)
      /\ \A j \in 0..(d - 1) : j # Len(s1) /\ j # len /\ Ch(s1, j) = Ch(s2, j)
  BY Stops
<1>2. Len(s1) \in Nat /\ Len(s2) \in Nat
  BY LenProperties DEF Str
<1>3. strncmp(s1, s2, len) =
          CASE d < Len(s1) /\ d < len -> IF Ch(s1, d) > Ch(s2, d) \/ Ch(s2, d) = NUL THEN 1 ELSE -1
            [] d = Len(s1) \/ d = len -> IF Ch(s2, d) = NUL THEN 0 ELSE 1
  BY Zenon DEF strncmp
<1> HIDE DEF d
<1>4. CASE d < Len(s1)
  <2>1. d < len /\ d # Len(s1) /\ d # len
    BY <1>1, <1>2, <1>4
  <2>2. Ch(s1, d) # Ch(s2, d)
    BY <1>1, <2>1
  <2>3. strncmp(s1, s2, len) \in {1, -1}
    BY <1>3, <1>4, <2>1
  <2> QED BY <2>2, <2>3
<1>5. CASE d = Len(s1)
  <2>1. strncmp(s1, s2, len) = IF Ch(s2, d) = NUL THEN 0 ELSE 1
    BY <1>2, <1>3, <1>5
  <2>2. Ch(s2, d) = NUL <=> Len(s2) <= Len(s1)
    <3>1. d \in Nat
      BY <1>1, <1>2
    <3>2. /\ d < Len(s2) => Ch(s2, d) \in Letters
          /\ d >= Len(s2) => Ch(s2, d) = NUL
      BY <3>1, ChOf
    <3> QED BY <1>2, <1>5, <3>2 DEF Letters
  <2>3. ASSUME NEW j \in 0..(Len(s1) - 1)
        PROVE  j < Len(s2) /\ s1[j + 1] = s2[j + 1]
    <3>1. j \in Nat /\ j < Len(s1) /\ Ch(s1, j) = Ch(s2, j)
      BY <1>1, <1>2, <1>5
    <3>2. Ch(s1, j) = s1[j + 1] /\ Ch(s1, j) \in Letters
      BY <3>1, ChOf
    <3>3. /\ j < Len(s2) => Ch(s2, j) = s2[j + 1]
          /\ j >= Len(s2) => Ch(s2, j) = NUL
      BY <3>1, ChOf
    <3> QED BY <1>2, <3>1, <3>2, <3>3 DEF Letters
  <2>4. Len(s2) >= Len(s1)
    <3>1. CASE Len(s1) = 0
      BY <1>2, <3>1
    <3>2. CASE Len(s1) # 0
      <4>1. Len(s1) - 1 < Len(s2)
        BY <1>2, <2>3, <3>2
      <4> QED BY <1>2, <4>1
    <3> QED BY <3>1, <3>2
  <2>5. Len(s2) <= Len(s1) => s1 = s2
    <3> SUFFICES ASSUME Len(s2) <= Len(s1) PROVE s1 = s2
      OBVIOUS
    <3>1. Len(s1) = Len(s2)
      BY <1>2, <2>4
    <3>2. \A j \in 1..Len(s1) : s1[j] = s2[j]
      <4> SUFFICES ASSUME NEW j \in 1..Len(s1) PROVE s1[j] = s2[j]
        OBVIOUS
      <4>1. j - 1 \in 0..(Len(s1) - 1) /\ (j - 1) + 1 = j
        BY <1>2
      <4> QED BY <2>3, <4>1
    <3> QED BY <3>1, <3>2, SeqEqual DEF Str
  <2> QED BY <1>2, <2>1, <2>2, <2>5
<1> QED BY <1>1, <1>2, <1>4, <1>5

LEMMA SameWhole ==
    ASSUME NEW s1 \in Str, NEW s2 \in Str
    PROVE  strcmp(s1, s2) = 0 <=> s1 = s2
<1>1. Len(s1) + 1 \in Nat /\ Len(s1) <= Len(s1) + 1
  BY LenProperties DEF Str
<1> QED BY <1>1, SameString DEF strcmp

(* The first of a list that is named a: one exists in the list if the answer  *)
(* is not empty, and it is the first.                                        *)
FirstNamed(list, a, found) ==
    /\ found = <<>> => \A k \in DOMAIN list : list[k].name # a
    /\ found # <<>> => \E k \in DOMAIN list :
           /\ found = <<list[k]>> /\ list[k].name = a
           /\ \A n \in 1..(k - 1) : list[n].name # a

LEMMA FirstIs ==
    ASSUME NEW list, NEW N \in Nat, DOMAIN list = 1..N, NEW a,
           NEW k \in 1..(N + 1), k > N \/ list[k].name = a,
           \A j \in 1..(k - 1) : list[j].name # a
    PROVE  FirstNamed(list, a, IF k > N THEN <<>> ELSE <<list[k]>>)
<1>1. CASE k > N
  <2>1. \A j \in DOMAIN list : list[j].name # a
    BY <1>1
  <2> QED BY <1>1, <2>1 DEF FirstNamed
<1>2. CASE ~(k > N)
  <2>1. k \in DOMAIN list /\ <<list[k]>> # <<>> /\ list[k].name = a
    BY <1>2
  <2> QED BY <1>2, <2>1 DEF FirstNamed
<1> QED BY <1>1, <1>2

Devices  == [name : Str, ops : SUBSET Operations]
Commands == [name : Str, func : Programs]

LEMMA TargetFound ==
    ASSUME first_device \in Seq(Devices), argv(1) \in Str
    PROVE  FirstNamed(first_device, argv(1), Target)
<1> DEFINE list == first_device
           N == Len(list)
           P(k) == k > N \/ SameName(list[k].name)
           S == {k \in 1..(N + 1) : P(k)}
           d == CHOOSE k \in 1..(N + 1) : P(k) /\ \A j \in 1..(k - 1) : ~P(j)
<1>1. N \in Nat /\ DOMAIN list = 1..N /\ \A k \in 1..N : list[k].name \in Str
  <2>1. N \in Nat /\ DOMAIN list = 1..N
    BY LenProperties
  <2>2. \A k \in 1..N : list[k] \in Devices
    BY <2>1
  <2> QED BY <2>1, <2>2 DEF Devices
<1>2. S \in SUBSET Nat /\ N + 1 \in S
  BY <1>1
<1>3. PICK k \in S : \A m \in S : k <= m
  BY <1>2, Least
<1>4. k \in 1..(N + 1) /\ P(k) /\ \A j \in 1..(k - 1) : ~P(j)
  BY <1>1, <1>3
<1>5. Target = IF d > N THEN <<>> ELSE <<list[d]>>
  BY DEF Target, ByName, FirstFrom
<1>6. \A m \in 1..N : SameName(list[m].name) <=> list[m].name = argv(1)
  BY <1>1, SameWhole DEF SameName
<1> HIDE DEF P, list, N
<1>7. d \in 1..(N + 1) /\ P(d) /\ \A j \in 1..(d - 1) : ~P(j)
  BY <1>4
<1> HIDE DEF d
<1>8. (d > N \/ list[d].name = argv(1)) /\ \A j \in 1..(d - 1) : list[j].name # argv(1)
  BY <1>1, <1>6, <1>7 DEF P
<1> QED BY <1>1, <1>5, <1>7, <1>8, FirstIs DEF list

LEMMA CommandFound ==
    ASSUME cli_list \in Seq(Commands), argv(0) \in Str, Len(argv(0)) <= 128
    PROVE  FirstNamed(cli_list, argv(0), ByName(cli_list, Named))
<1> DEFINE list == cli_list
           N == Len(list)
           P(k) == k > N \/ Named(list[k].name)
           S == {k \in 1..(N + 1) : P(k)}
           d == CHOOSE k \in 1..(N + 1) : P(k) /\ \A j \in 1..(k - 1) : ~P(j)
<1>1. N \in Nat /\ DOMAIN list = 1..N /\ \A k \in 1..N : list[k].name \in Str
  <2>1. N \in Nat /\ DOMAIN list = 1..N
    BY LenProperties
  <2>2. \A k \in 1..N : list[k] \in Commands
    BY <2>1
  <2> QED BY <2>1, <2>2 DEF Commands
<1>2. S \in SUBSET Nat /\ N + 1 \in S
  BY <1>1
<1>3. PICK k \in S : \A m \in S : k <= m
  BY <1>2, Least
<1>4. k \in 1..(N + 1) /\ P(k) /\ \A j \in 1..(k - 1) : ~P(j)
  BY <1>1, <1>3
<1>5. ByName(cli_list, Named) = IF d > N THEN <<>> ELSE <<list[d]>>
  BY DEF ByName, FirstFrom
<1>6. \A m \in 1..N : Named(list[m].name) <=> list[m].name = argv(0)
  BY <1>1, SameString DEF Named
<1> HIDE DEF P, list, N
<1>7. d \in 1..(N + 1) /\ P(d) /\ \A j \in 1..(d - 1) : ~P(j)
  BY <1>4
<1> HIDE DEF d
<1>8. (d > N \/ list[d].name = argv(0)) /\ \A j \in 1..(d - 1) : list[j].name # argv(0)
  BY <1>1, <1>6, <1>7 DEF P
<1> QED BY <1>1, <1>5, <1>7, <1>8, FirstIs DEF list

-----------------------------------------------------------------------------
(* The numbers of a finite set up to one of them. *)
Count(S, k) == Cardinality({a \in S : a <= k})

LEMMA CountFinite ==
    ASSUME NEW S, IsFiniteSet(S), NEW k
    PROVE  IsFiniteSet({a \in S : a <= k}) /\ Count(S, k) \in Nat /\ Cardinality(S) \in Nat
           /\ Count(S, k) <= Cardinality(S)
<1>1. {a \in S : a <= k} \in SUBSET S
  OBVIOUS
<1> QED BY <1>1, FS_Subset, FS_CardinalityType DEF Count

LEMMA CountNext ==
    ASSUME NEW S \in SUBSET Nat, IsFiniteSet(S), NEW k \in Nat, NEW b \in S, k < b,
           \A a \in S : ~(k < a /\ a < b)
    PROVE  Count(S, b) = Count(S, k) + 1
<1> DEFINE A == {a \in S : a <= k}
           B == {a \in S : a <= b}
<1>1. B = A \cup {b} /\ b \notin A
  <2>1. b \in Nat /\ \A a \in S : a \in Nat
    OBVIOUS
  <2>2. \A a \in S : a <= b <=> a <= k \/ a = b
    BY <2>1
  <2>3. ~(b <= k) /\ b <= b
    BY <2>1
  <2> QED BY <2>2, <2>3
<1>2. IsFiniteSet(A)
  BY CountFinite
<1> HIDE DEF A, B
<1>3. Cardinality(A \cup {b}) = Cardinality(A) + 1
  BY <1>1, <1>2, FS_AddElement
<1> QED BY <1>1, <1>3 DEF Count, A, B

LEMMA CountAll ==
    ASSUME NEW S \in SUBSET Nat, NEW k \in Nat, \A a \in S : a <= k
    PROVE  Count(S, k) = Cardinality(S)
<1>1. {a \in S : a <= k} = S
  OBVIOUS
<1> QED BY <1>1 DEF Count

LEMMA CountNone ==
    ASSUME NEW S \in SUBSET (Nat \ {0})
    PROVE  Count(S, 0) = 0
<1>1. {a \in S : a <= 0} = {}
  <2>1. \A a \in S : a \in Nat /\ a # 0
    OBVIOUS
  <2>2. \A a \in S : ~(a <= 0)
    BY <2>1
  <2> QED BY <2>2
<1> QED BY <1>1, FS_EmptySet DEF Count

LEMMA CountLess ==
    ASSUME NEW S \in SUBSET Nat, IsFiniteSet(S), NEW b \in S, NEW c \in S, b < c
    PROVE  Count(S, b) < Count(S, c)
<1> DEFINE A == {a \in S : a <= b}
           C == {a \in S : a <= c}
<1>1. A \in SUBSET (C \ {c}) /\ c \in C
  <2>1. b \in Nat /\ c \in Nat /\ \A a \in S : a \in Nat
    OBVIOUS
  <2>2. c <= c /\ \A a \in S : a <= b => a <= c /\ a # c
    BY <2>1
  <2> QED BY <2>2
<1>2. IsFiniteSet(C) /\ Cardinality(C) \in Nat
  BY CountFinite DEF Count
<1> HIDE DEF A, C
<1>3. Cardinality(C \ {c}) = Cardinality(C) - 1 /\ IsFiniteSet(C \ {c})
  BY <1>1, <1>2, FS_RemoveElement
<1>4. Cardinality(A) <= Cardinality(C \ {c}) /\ Cardinality(A) \in Nat
  BY <1>1, <1>3, FS_Subset, FS_CardinalityType
<1> QED BY <1>2, <1>3, <1>4 DEF Count, A, C

LEMMA CountSome ==
    ASSUME NEW S \in SUBSET Nat, IsFiniteSet(S), NEW b \in S
    PROVE  /\ Count(S, b) \in Nat \ {0}
           /\ (CHOOSE x \in S : Cardinality({a \in S : a <= x}) = Count(S, b)) = b
<1>1. Count(S, b) \in Nat
  BY CountFinite
<1>2. Count(S, b) # 0
  <2> DEFINE A == {a \in S : a <= b}
  <2>1. b \in A /\ IsFiniteSet(A)
    BY CountFinite
  <2> HIDE DEF A
  <2>2. Cardinality(A) # 0
    BY <2>1, FS_EmptySet
  <2> QED BY <2>2 DEF Count, A
<1>3. \A x \in S : Count(S, x) = Count(S, b) => x = b
  <2> SUFFICES ASSUME NEW x \in S, Count(S, x) = Count(S, b), x # b PROVE FALSE
    OBVIOUS
  <2>1. x \in Nat /\ b \in Nat /\ Count(S, x) \in Nat
    BY CountFinite
  <2>2. CASE x < b
    BY <2>2, <1>1, <2>1, CountLess
  <2>3. CASE b < x
    BY <2>3, <1>1, <2>1, CountLess
  <2> QED BY <2>1, <2>2, <2>3
<1> DEFINE y == CHOOSE x \in S : Count(S, x) = Count(S, b)
<1>4. y \in S /\ Count(S, y) = Count(S, b)
  OBVIOUS
<1>5. y = b
  BY <1>3, <1>4
<1>6. (CHOOSE x \in S : Cardinality({a \in S : a <= x}) = Count(S, b)) = y
  BY DEF Count
<1> QED BY <1>1, <1>2, <1>5, <1>6

(* The greatest of them up to k counts as many as k. *)
LEMMA CountTop ==
    ASSUME NEW S \in SUBSET (Nat \ {0}), IsFiniteSet(S), NEW k \in Nat, Count(S, k) # 0
    PROVE  \E b \in S : b <= k /\ Count(S, b) = Count(S, k)
<1>0. \A a \in S : a \in Nat
  OBVIOUS
<1>1. PICK a \in S : a <= k
  <2> SUFFICES ASSUME \A a \in S : ~(a <= k) PROVE FALSE
    OBVIOUS
  <2>1. {a \in S : a <= k} = {}
    OBVIOUS
  <2> QED BY <2>1, FS_EmptySet DEF Count
<1> DEFINE D == {m \in Nat : k - m \in S}
<1>2. k - a \in D /\ D \in SUBSET Nat
  BY <1>0, <1>1
<1>3. PICK m \in D : \A l \in D : m <= l
  BY <1>2, Least
<1> DEFINE b == k - m
<1>4. b \in S /\ b <= k /\ b \in Nat
  BY <1>0, <1>3
<1>5. \A c \in S : c <= k => c <= b
  <2> SUFFICES ASSUME NEW c \in S, c <= k PROVE c <= b
    OBVIOUS
  <2>1. c \in Nat /\ k - c \in Nat /\ k - (k - c) = c
    BY <1>0
  <2>2. k - c \in D
    BY <2>1
  <2>3. m <= k - c /\ m \in Nat
    BY <1>3, <2>2
  <2> QED BY <2>1, <2>3
<1> HIDE DEF b
<1>6. \A c \in S : c <= k <=> c <= b
  BY <1>0, <1>4, <1>5
<1>7. {c \in S : c <= k} = {c \in S : c <= b}
  BY <1>6
<1>8. Count(S, b) = Count(S, k)
  BY <1>7 DEF Count
<1> QED BY <1>4, <1>8

-----------------------------------------------------------------------------
SplitEnd(t, B, k) ==
    FirstFrom(k, Len(t), LAMBDA j : j = Len(t) \/ t[j + 1] \in B)

SplitFrom(t, B, f, k) ==
    LET e == SplitEnd(t, B, k)
    IN  IF k = Len(t) THEN <<>>
        ELSE <<SubSeq(t, k + 1, e)>> \o f[IF e < Len(t) THEN e + 1 ELSE Len(t)]

IsSplit(t, B, f) == f = [k \in 0..Len(t) |-> SplitFrom(t, B, f, k)]

LEMMA SplitEndIs ==
    ASSUME NEW V, NEW t \in Seq(V), NEW B, NEW k \in 0..Len(t)
    PROVE  LET e == SplitEnd(t, B, k)
           IN  /\ e \in k..Len(t)
               /\ e = Len(t) \/ t[e + 1] \in B
               /\ \A j \in k..(e - 1) : j # Len(t) /\ t[j + 1] \notin B
<1> DEFINE n == Len(t)
           P(j) == j = n \/ t[j + 1] \in B
           S == {j \in k..n : P(j)}
           d == CHOOSE j \in k..n : P(j) /\ \A m \in k..(j - 1) : ~P(m)
<1>1. n \in Nat
  BY LenProperties
<1>2. S \in SUBSET Nat /\ n \in S
  BY <1>1
<1>3. PICK m \in S : \A l \in S : m <= l
  BY <1>2, Least
<1>5. SplitEnd(t, B, k) = d
  BY DEF SplitEnd, FirstFrom
<1> HIDE DEF P, n
<1>4. m \in k..n /\ P(m) /\ \A j \in k..(m - 1) : ~P(j)
  <2>1. k \in Nat /\ m \in k..n /\ P(m)
    BY <1>1, <1>3 DEF n
  <2>2. ASSUME NEW j \in k..(m - 1) PROVE ~P(j)
    <3>1. j \in k..n /\ ~(m <= j)
      BY <1>1, <2>1
    <3> QED BY <1>3, <3>1
  <2> QED BY <2>1, <2>2
<1>6. d \in k..n /\ P(d) /\ \A j \in k..(d - 1) : ~P(j)
  BY <1>4
<1> QED BY <1>5, <1>6 DEF P, n

(* The recursion of strsplit has one solution at most. *)
LEMMA SplitUnique ==
    ASSUME NEW V, NEW t \in Seq(V), NEW B, NEW f, NEW g, IsSplit(t, B, f), IsSplit(t, B, g)
    PROVE  \A k \in 0..Len(t) : f[k] = g[k]
<1> DEFINE n == Len(t)
           T == {m \in Nat : \A k \in 0..n : n - m <= k => f[k] = g[k]}
<1>1. n \in Nat
  BY LenProperties
<1>2. \A k \in 0..n : f[k] = SplitFrom(t, B, f, k) /\ g[k] = SplitFrom(t, B, g, k)
  <2>1. f = [k \in 0..n |-> SplitFrom(t, B, f, k)] /\ g = [k \in 0..n |-> SplitFrom(t, B, g, k)]
    BY DEF IsSplit
  <2> QED BY <2>1
<1> HIDE DEF n
<1>3. 0 \in T
  <2> SUFFICES ASSUME NEW k \in 0..n, n - 0 <= k PROVE f[k] = g[k]
    OBVIOUS
  <2>1. k = n
    BY <1>1
  <2> QED BY <1>2, <2>1 DEF SplitFrom, n
<1>4. ASSUME NEW m \in Nat, m \in T PROVE m + 1 \in T
  <2> SUFFICES ASSUME NEW k \in 0..n, n - (m + 1) <= k PROVE f[k] = g[k]
    OBVIOUS
  <2> DEFINE e == SplitEnd(t, B, k)
             next == IF e < n THEN e + 1 ELSE n
  <2>1. CASE k = n
    BY <1>2, <2>1 DEF SplitFrom, n
  <2>2. CASE k # n
    <3>1. e \in k..n
      BY SplitEndIs DEF n
    <3>2. next \in 0..n /\ n - m <= next
      BY <1>1, <2>2, <3>1
    <3>3. f[next] = g[next]
      BY <1>4, <3>2
    <3> QED BY <1>2, <2>2, <3>3 DEF SplitFrom, n
  <2> QED BY <2>1, <2>2
<1>5. \A m \in Nat : m \in T
  <2> HIDE DEF T
  <2> QED BY <1>3, <1>4, Induction
<1> SUFFICES ASSUME NEW k \in 0..n PROVE f[k] = g[k]
  BY DEF n
<1>6. n \in T
  BY <1>1, <1>5
<1> QED BY <1>1, <1>6

LEMMA SplitIs ==
    ASSUME NEW V, NEW t \in Seq(V), NEW B, NEW f, IsSplit(t, B, f)
    PROVE  strsplit(t, B) = f[0]
<1> DEFINE g == CHOOSE h : IsSplit(t, B, h)
<1>1. strsplit(t, B) = g[0]
  BY DEF strsplit, IsSplit, SplitFrom, SplitEnd
<1>2. IsSplit(t, B, g)
  BY Zenon
<1> HIDE DEF g
<1>3. 0 \in 0..Len(t)
  BY LenProperties
<1>4. \A k \in 0..Len(t) : g[k] = f[k]
  BY <1>2, SplitUnique
<1> QED BY <1>1, <1>3, <1>4

LineEnd(s) == FirstFrom(0, Len(s), LAMBDA k : Ch(s, k) = NUL)

(* The blanks of a line, and the places between them. *)
BlanksOf(s) == {k \in 1..LineEnd(s) : s[k] \in Blanks}
NthBlank(s, k) == CHOOSE b \in BlanksOf(s) : Cardinality({a \in BlanksOf(s) : a <= b}) = k
WordFrom(s, k) == IF k = 1 THEN 1 ELSE NthBlank(s, k - 1) + 1
LastWord(s)   == Cardinality(BlanksOf(s)) + 1
WordCount(s)  == IF WordFrom(s, LastWord(s)) > LineEnd(s) THEN LastWord(s) - 1 ELSE LastWord(s)
WordTo(s, k)  == IF k = LastWord(s) THEN LineEnd(s) ELSE NthBlank(s, k) - 1

LEMMA WordsAre == \A s : Words(s) = [k \in 1..WordCount(s) |-> SubSeq(s, WordFrom(s, k), WordTo(s, k))]
BY Zenon DEF Words, WordCount, WordFrom, WordTo, LastWord, NthBlank, BlanksOf, LineEnd

LEMMA LineEndIs ==
    ASSUME NEW V, NEW s \in Seq(V)
    PROVE  LET n == LineEnd(s)
           IN  /\ n \in 0..Len(s) /\ Ch(s, n) = NUL
               /\ \A j \in 0..(n - 1) : Ch(s, j) # NUL
<1> DEFINE N == Len(s)
           P(j) == Ch(s, j) = NUL
           S == {j \in 0..N : P(j)}
           d == CHOOSE j \in 0..N : P(j) /\ \A m \in 0..(j - 1) : ~P(m)
<1>1. N \in Nat
  BY LenProperties
<1>2. S \in SUBSET Nat /\ N \in S
  BY <1>1 DEF Ch
<1>3. PICK m \in S : \A l \in S : m <= l
  BY <1>2, Least
<1>4. LineEnd(s) = d
  BY DEF LineEnd, FirstFrom
<1> HIDE DEF P, N
<1>5. m \in 0..N /\ P(m) /\ \A j \in 0..(m - 1) : ~P(j)
  <2>1. m \in 0..N /\ P(m)
    BY <1>1, <1>3 DEF N
  <2>2. ASSUME NEW j \in 0..(m - 1) PROVE ~P(j)
    <3>1. j \in 0..N /\ ~(m <= j)
      BY <1>1, <2>1
    <3> QED BY <1>3, <3>1
  <2> QED BY <2>1, <2>2
<1>6. d \in 0..N /\ P(d) /\ \A j \in 0..(d - 1) : ~P(j)
  BY <1>5
<1> QED BY <1>4, <1>6 DEF P, N

LEMMA BlanksAre ==
    ASSUME NEW V, NEW s \in Seq(V)
    PROVE  /\ BlanksOf(s) \in SUBSET (Nat \ {0}) /\ IsFiniteSet(BlanksOf(s))
           /\ LineEnd(s) \in Nat /\ \A b \in BlanksOf(s) : b \in 1..LineEnd(s)
           /\ LastWord(s) \in Nat \ {0}
           /\ \A b \in BlanksOf(s) : /\ Count(BlanksOf(s), b) \in Nat \ {0}
                                     /\ NthBlank(s, Count(BlanksOf(s), b)) = b
<1>1. LineEnd(s) \in Nat
  BY LineEndIs, LenProperties
<1>2. BlanksOf(s) \in SUBSET (1..LineEnd(s)) /\ IsFiniteSet(1..LineEnd(s))
  BY <1>1, FS_Interval DEF BlanksOf
<1>3. BlanksOf(s) \in SUBSET (Nat \ {0}) /\ IsFiniteSet(BlanksOf(s))
  BY <1>1, <1>2, FS_Subset
<1>4. Cardinality(BlanksOf(s)) \in Nat
  BY <1>3, FS_CardinalityType
<1>5. ASSUME NEW b \in BlanksOf(s)
      PROVE  Count(BlanksOf(s), b) \in Nat \ {0} /\ NthBlank(s, Count(BlanksOf(s), b)) = b
  <2>1. BlanksOf(s) \in SUBSET Nat
    BY <1>3
  <2> QED BY <1>3, <2>1, CountSome DEF NthBlank
<1> QED BY <1>1, <1>2, <1>3, <1>4, <1>5 DEF LastWord

(* What lies behind the k-th character of the line, and where the word that  *)
(* goes on there ends: c blanks are before it.                               *)
LEMMA NextWord ==
    ASSUME NEW V, NEW s \in Seq(V), NEW t \in Seq(V), Len(t) = LineEnd(s),
           \A j \in 1..Len(t) : t[j] = s[j], NEW k \in 0..(Len(t) - 1)
    PROVE  LET n == Len(t)
               e == SplitEnd(t, Blanks, k)
               c == Count(BlanksOf(s), k)
           IN  /\ e \in k..n /\ c \in Nat
               /\ WordTo(s, c + 1) = e
               /\ WordCount(s) \in Nat /\ WordCount(s) >= c + 1
               /\ e < n => Count(BlanksOf(s), e + 1) = c + 1 /\ WordFrom(s, c + 2) = e + 2
               /\ e >= n - 1 => WordCount(s) = c + 1
<1> DEFINE n == Len(t)
           e == SplitEnd(t, Blanks, k)
           S == BlanksOf(s)
           c == Count(S, k)
           all == Cardinality(S)
<1>1. /\ S \in SUBSET (Nat \ {0}) /\ S \in SUBSET Nat /\ IsFiniteSet(S) /\ n \in Nat
      /\ \A b \in S : b \in 1..n /\ Count(S, b) \in Nat \ {0} /\ NthBlank(s, Count(S, b)) = b
  BY BlanksAre, LenProperties
<1>2. k \in Nat /\ k < n /\ k \in 0..n
  BY <1>1
<1>3. c \in Nat /\ all \in Nat /\ c <= all
  BY <1>1, CountFinite
<1>4. e \in k..n /\ (e = n \/ t[e + 1] \in Blanks) /\ \A j \in k..(e - 1) : t[j + 1] \notin Blanks
  BY <1>2, SplitEndIs
<1>5. \A j \in 1..n : j \in S <=> t[j] \in Blanks
  BY DEF BlanksOf
<1>6. LastWord(s) = all + 1 /\ LineEnd(s) = n
  BY DEF LastWord
<1> HIDE DEF n, e, S, c, all
<1>7. \A a \in S : ~(k < a /\ a < e + 1)
  <2> SUFFICES ASSUME NEW a \in S, k < a, a < e + 1 PROVE FALSE
    OBVIOUS
  <2>1. a \in 1..n /\ a - 1 \in k..(e - 1) /\ (a - 1) + 1 = a
    BY <1>1, <1>2, <1>4
  <2> QED BY <1>4, <1>5, <2>1
<1>8. CASE e < n
  <2>1. e + 1 \in S /\ k < e + 1 /\ e + 1 \in Nat
    BY <1>1, <1>2, <1>4, <1>5, <1>8
  <2>2. Count(S, e + 1) = c + 1
    BY <1>1, <1>2, <1>7, <2>1, CountNext DEF c
  <2>3. NthBlank(s, c + 1) = e + 1
    BY <1>1, <2>1, <2>2
  <2>4. c + 1 <= all
    BY <1>1, <2>2, CountFinite DEF all
  <2>5. WordTo(s, c + 1) = e
    <3>1. c + 1 # all + 1
      BY <1>3, <2>4
    <3> QED BY <1>4, <1>6, <2>3, <3>1, <1>2 DEF WordTo
  <2>6. WordFrom(s, c + 2) = e + 2
    <3>1. c + 2 # 1 /\ (c + 2) - 1 = c + 1
      BY <1>3
    <3> QED BY <1>4, <1>2, <2>3, <3>1 DEF WordFrom
  <2>7. WordCount(s) \in {all, all + 1}
    BY <1>3, <1>6 DEF WordCount
  <2>8. e >= n - 1 => WordCount(s) = c + 1
    <3> SUFFICES ASSUME e >= n - 1 PROVE WordCount(s) = c + 1
      OBVIOUS
    <3>1. e + 1 = n
      BY <1>1, <1>2, <1>4, <1>8
    <3>2. \A a \in S : a <= e + 1
      BY <1>1, <3>1
    <3>3. Count(S, e + 1) = all
      BY <1>1, <2>1, <3>2, CountAll DEF all
    <3>4. WordFrom(s, all + 1) = n + 1
      <4>1. all + 1 = c + 2
        BY <1>3, <2>2, <3>3
      <4> QED BY <1>1, <1>2, <1>4, <2>6, <3>1, <4>1
    <3> QED BY <1>1, <1>3, <1>6, <2>2, <3>3, <3>4 DEF WordCount
  <2> QED BY <1>1, <1>3, <1>4, <2>2, <2>4, <2>5, <2>6, <2>7, <2>8 DEF n, e, S, c
<1>9. CASE ~(e < n)
  <2>1. e = n
    BY <1>1, <1>2, <1>4, <1>9
  <2>2. \A a \in S : a <= k
    BY <1>1, <1>2, <1>7, <2>1
  <2>3. c = all
    BY <1>1, <1>2, <2>2, CountAll DEF c, all
  <2>4. WordTo(s, c + 1) = e
    BY <1>6, <2>1, <2>3 DEF WordTo
  <2>5. WordFrom(s, c + 1) <= n
    <3>1. CASE c = 0
      BY <1>1, <1>2, <3>1 DEF WordFrom
    <3>2. CASE c # 0
      <4>1. PICK b \in S : b <= k /\ Count(S, b) = c
        BY <1>1, <1>2, <3>2, CountTop DEF c
      <4>2. NthBlank(s, c) = b /\ c + 1 # 1 /\ (c + 1) - 1 = c
        BY <1>1, <1>3, <3>2, <4>1
      <4> QED BY <1>1, <1>2, <4>1, <4>2 DEF WordFrom
    <3> QED BY <3>1, <3>2
  <2>6. WordCount(s) = c + 1
    <3>1. ~(WordFrom(s, all + 1) > n)
      <4>1. WordFrom(s, c + 1) \in Int
        <5>1. CASE c = 0
          BY <5>1 DEF WordFrom
        <5>2. CASE c # 0
          <6>1. PICK b \in S : b <= k /\ Count(S, b) = c
            BY <1>1, <1>2, <5>2, CountTop DEF c
          <6>2. NthBlank(s, c) = b /\ c + 1 # 1 /\ (c + 1) - 1 = c
            BY <1>1, <1>3, <5>2, <6>1
          <6> QED BY <1>1, <6>2 DEF WordFrom
        <5> QED BY <5>1, <5>2
      <4> QED BY <1>1, <2>3, <2>5, <4>1
    <3> QED BY <1>6, <2>3, <3>1 DEF WordCount
  <2> QED BY <1>1, <1>3, <1>4, <2>1, <2>4, <2>6 DEF n, e, S, c
<1> QED BY <1>8, <1>9

(* What is left of the words behind the k-th character. *)
PartFrom(s, k, c, j) == IF j = 1 THEN k + 1 ELSE WordFrom(s, c + j)
Rest(s, k) ==
    LET c == Count(BlanksOf(s), k)
    IN  [j \in 1..(WordCount(s) - c) |-> SubSeq(s, PartFrom(s, k, c, j), WordTo(s, c + j))]
Rests(s, n) == [k \in 0..n |-> IF k = n THEN <<>> ELSE Rest(s, k)]

LEMMA RestIs ==
    ASSUME NEW s, NEW k
    PROVE  LET c == Count(BlanksOf(s), k)
           IN  /\ Places(Rest(s, k), WordCount(s) - c)
               /\ \A j \in 1..(WordCount(s) - c) :
                      Rest(s, k)[j] = SubSeq(s, PartFrom(s, k, c, j), WordTo(s, c + j))
BY DEF Rest, Places

LEMMA SplitRests ==
    ASSUME NEW V, NEW s \in Seq(V), NEW t \in Seq(V), Len(t) = LineEnd(s),
           \A j \in 1..Len(t) : t[j] = s[j]
    PROVE  IsSplit(t, Blanks, Rests(s, Len(t)))
<1> DEFINE n == Len(t)
           F == Rests(s, n)
           S == BlanksOf(s)
           W == WordCount(s)
<1>1. n \in Nat /\ n <= Len(s)
  <2>1. LineEnd(s) \in 0..Len(s)
    BY LineEndIs
  <2> QED BY <2>1, LenProperties
<1>2. \A k \in 0..n : F[k] = IF k = n THEN <<>> ELSE Rest(s, k)
  BY DEF Rests
<1> HIDE DEF F
<1>3. ASSUME NEW k \in 0..n PROVE F[k] = SplitFrom(t, Blanks, F, k)
  <2> DEFINE e == SplitEnd(t, Blanks, k)
             c == Count(S, k)
             next == IF e < n THEN e + 1 ELSE n
  <2>1. CASE k = n
    BY <1>2, <2>1 DEF SplitFrom
  <2>2. CASE k # n
    <3>1. k \in 0..(Len(t) - 1) /\ k \in Nat
      BY <1>1, <2>2
    <3>2. /\ e \in k..n /\ c \in Nat
          /\ WordTo(s, c + 1) = e
          /\ W \in Nat /\ W >= c + 1
          /\ e < n => Count(S, e + 1) = c + 1 /\ WordFrom(s, c + 2) = e + 2
          /\ e >= n - 1 => W = c + 1
      BY <3>1, NextWord
    <3> HIDE DEF e, c, W, S
    <3>3. SplitFrom(t, Blanks, F, k) = <<SubSeq(t, k + 1, e)>> \o F[next]
      BY <2>2 DEF SplitFrom, e
    <3>4. SubSeq(t, k + 1, e) = SubSeq(s, k + 1, e)
      <4>1. k + 1 \in Nat \ {0} /\ e \in 0..Len(t) /\ Len(t) <= Len(s)
        BY <1>1, <3>1, <3>2
      <4> QED BY <4>1, SameParts
    <3> DEFINE z == Rest(s, k)
               x == SubSeq(s, k + 1, e)
               y == F[next]
               m == W - (c + 1)
    <3>5. /\ Places(z, W - c)
          /\ \A j \in 1..(W - c) : z[j] = SubSeq(s, PartFrom(s, k, c, j), WordTo(s, c + j))
      BY RestIs DEF W, c, S
    <3>6. m \in Nat /\ W - c = m + 1
      BY <3>2
    <3>7. z[1] = x
      <4>1. 1 \in 1..(W - c) /\ PartFrom(s, k, c, 1) = k + 1
        BY <3>2, <3>6 DEF PartFrom
      <4> QED BY <3>2, <3>5, <4>1
    <3>8. Places(y, m) /\ \A j \in 1..m : z[j + 1] = y[j]
      <4>1. CASE e >= n - 1
        <5>1. next = n /\ m = 0 /\ n \in 0..n
          BY <1>1, <3>1, <3>2, <4>1
        <5>2. y = <<>>
          BY <1>2, <5>1
        <5> HIDE DEF y, z, m
        <5>3. Places(y, m)
          <6>1. 1..m = {}
            BY <5>1
          <6> QED BY <5>2, <6>1 DEF Places
        <5> QED BY <5>1, <5>3
      <4>2. CASE ~(e >= n - 1)
        <5>1. next = e + 1 /\ next \in 0..n /\ next # n /\ e < n
          BY <1>1, <3>1, <3>2, <4>2
        <5>2. y = Rest(s, e + 1)
          BY <1>2, <5>1
        <5>3. Count(S, e + 1) = c + 1
          BY <3>2, <5>1
        <5>4. /\ Places(y, m)
              /\ \A j \in 1..m : y[j] = SubSeq(s, PartFrom(s, e + 1, c + 1, j), WordTo(s, (c + 1) + j))
          <6> HIDE DEF y
          <6>1. /\ Places(Rest(s, e + 1), W - (c + 1))
                /\ \A j \in 1..(W - (c + 1)) : Rest(s, e + 1)[j] =
                       SubSeq(s, PartFrom(s, e + 1, c + 1, j), WordTo(s, (c + 1) + j))
            BY <5>3, RestIs DEF W, S
          <6> QED BY <5>2, <6>1
        <5>5. ASSUME NEW j \in 1..m PROVE z[j + 1] = y[j]
          <6>1. j + 1 \in 1..(W - c) /\ j + 1 # 1 /\ (c + 1) + j = c + (j + 1)
            BY <3>2, <3>6
          <6>2. PartFrom(s, k, c, j + 1) = WordFrom(s, c + (j + 1))
            BY <6>1 DEF PartFrom
          <6>3. PartFrom(s, e + 1, c + 1, j) = WordFrom(s, c + (j + 1))
            <7>1. CASE j = 1
              <8>1. c + (j + 1) = c + 2 /\ (e + 1) + 1 = e + 2
                BY <3>2, <7>1
              <8> QED BY <3>2, <5>1, <7>1, <8>1 DEF PartFrom
            <7>2. CASE j # 1
              BY <6>1, <7>2 DEF PartFrom
            <7> QED BY <7>1, <7>2
          <6>4. z[j + 1] = SubSeq(s, WordFrom(s, c + (j + 1)), WordTo(s, c + (j + 1)))
            BY <3>5, <6>1, <6>2
          <6>5. y[j] = SubSeq(s, WordFrom(s, c + (j + 1)), WordTo(s, c + (j + 1)))
            BY <5>4, <6>1, <6>3
          <6> QED BY <6>4, <6>5
        <5> QED BY <5>4, <5>5
      <4> QED BY <4>1, <4>2
    <3> HIDE DEF x, y, z, m
    <3>9. Places(z, m + 1)
      BY <3>5, <3>6
    <3>10. z = <<x>> \o y
      BY <3>6, <3>7, <3>8, <3>9, Prepended
    <3>11. F[k] = z
      BY <1>2, <2>2 DEF z
    <3> QED BY <3>3, <3>4, <3>10, <3>11 DEF x, y
  <2> QED BY <2>1, <2>2
<1>4. F = [k \in 0..n |-> F[k]]
  BY DEF F, Rests
<1>5. F = [k \in 0..n |-> SplitFrom(t, Blanks, F, k)]
  BY <1>3, <1>4
<1> QED BY <1>5 DEF IsSplit, F

(* The words of a line are those the splitting of it at its blanks gives. *)
LEMMA SplitWords ==
    ASSUME NEW V, NEW s \in Seq(V), NEW t \in Seq(V), Len(t) = LineEnd(s),
           \A j \in 1..Len(t) : t[j] = s[j]
    PROVE  strsplit(t, Separators) = Words(s)
<1> DEFINE n == Len(t)
           F == Rests(s, n)
           S == BlanksOf(s)
           W == WordCount(s)
<1>1. strsplit(t, Blanks) = F[0]
  BY SplitRests, SplitIs
<1>2. n \in Nat /\ S \in SUBSET (Nat \ {0}) /\ n = LineEnd(s)
  BY BlanksAre, LenProperties
<1>3. F[0] = IF 0 = n THEN <<>> ELSE Rest(s, 0)
  BY <1>2 DEF Rests
<1>4. Words(s) = [k \in 1..W |-> SubSeq(s, WordFrom(s, k), WordTo(s, k))]
  BY WordsAre
<1>5. CASE n = 0
  <2>1. S = {}
    BY <1>2, <1>5 DEF BlanksOf
  <2>2. LastWord(s) = 1
    BY <2>1, FS_EmptySet DEF LastWord
  <2>3. W = 0
    BY <1>2, <1>5, <2>2 DEF WordCount, WordFrom
  <2>4. 1..W = {}
    BY <2>3
  <2>5. Words(s) = <<>>
    BY <1>4, <2>4
  <2> QED BY <1>1, <1>3, <1>5, <2>5 DEF Separators
<1>6. CASE n # 0
  <2>1. Count(S, 0) = 0
    BY <1>2, CountNone
  <2>2. 0 \in 0..(Len(t) - 1)
    BY <1>2, <1>6
  <2>3. W \in Nat
    BY <2>2, NextWord
  <2> HIDE DEF W, S
  <2>4. /\ Places(Rest(s, 0), W - 0)
        /\ \A j \in 1..(W - 0) : Rest(s, 0)[j] = SubSeq(s, PartFrom(s, 0, 0, j), WordTo(s, 0 + j))
    BY <2>1, RestIs DEF W, S
  <2>5. W - 0 = W /\ \A j \in 1..W : 0 + j = j /\ PartFrom(s, 0, 0, j) = WordFrom(s, j)
    BY <2>3 DEF PartFrom, WordFrom
  <2>6. Rest(s, 0) = Words(s)
    BY <1>4, <2>4, <2>5 DEF Places
  <2> QED BY <1>1, <1>3, <1>6, <2>6 DEF Separators
<1> QED BY <1>5, <1>6

(* The strings a string is split into are no longer than it. *)
Short(V, n) == {u \in Seq(V) : Len(u) <= n}

LEMMA SplitType ==
    ASSUME NEW V, NEW t \in Seq(V), NEW B, NEW f, IsSplit(t, B, f)
    PROVE  f[0] \in Seq(Short(V, Len(t)))
<1> DEFINE n == Len(t)
           U == Short(V, n)
           T == {m \in Nat : \A k \in 0..n : n - m <= k => f[k] \in Seq(U)}
<1>1. n \in Nat
  BY LenProperties
<1>2. \A k \in 0..n : f[k] = SplitFrom(t, B, f, k)
  <2>1. f = [k \in 0..n |-> SplitFrom(t, B, f, k)]
    BY DEF IsSplit
  <2> QED BY <2>1
<1> HIDE DEF n, U
<1>3. 0 \in T
  <2> SUFFICES ASSUME NEW k \in 0..n, n - 0 <= k PROVE f[k] \in Seq(U)
    OBVIOUS
  <2>1. k = n
    BY <1>1
  <2>2. f[k] = <<>>
    BY <1>2, <2>1 DEF SplitFrom, n
  <2>3. << >> \in Seq(U)
    OBVIOUS
  <2> QED BY <2>2, <2>3
<1>4. ASSUME NEW m \in Nat, m \in T PROVE m + 1 \in T
  <2> SUFFICES ASSUME NEW k \in 0..n, n - (m + 1) <= k PROVE f[k] \in Seq(U)
    OBVIOUS
  <2> DEFINE e == SplitEnd(t, B, k)
             next == IF e < n THEN e + 1 ELSE n
             x == SubSeq(t, k + 1, e)
  <2>1. CASE k = n
    BY <1>3, <1>1, <2>1
  <2>2. CASE k # n
    <3>1. e \in k..n
      BY SplitEndIs DEF n
    <3>2. next \in 0..n /\ n - m <= next
      BY <1>1, <2>2, <3>1
    <3>3. f[next] \in Seq(U)
      BY <1>4, <3>2
    <3>4. x \in U
      <4> HIDE DEF e
      <4>1. k + 1 \in Int /\ e \in Int /\ \A j \in (k + 1)..e : j \in 1..n
        BY <1>1, <3>1
      <4>2. \A j \in (k + 1)..e : t[j] \in V
        BY <4>1 DEF n
      <4>3. x \in Seq(V) /\ Len(x) = IF k + 1 <= e THEN e - (k + 1) + 1 ELSE 0
        BY <4>1, <4>2, SubSeqProperties
      <4>4. Len(x) <= n
        BY <1>1, <3>1, <4>3
      <4> QED BY <4>3, <4>4 DEF U, Short
    <3> HIDE DEF x, next, e
    <3>5. <<x>> \in Seq(U)
      BY <3>4
    <3>6. f[k] = <<x>> \o f[next]
      BY <1>2, <2>2 DEF SplitFrom, n, x, next, e
    <3> QED BY <3>3, <3>5, <3>6, ConcatProperties
  <2> QED BY <2>1, <2>2
<1>5. \A m \in Nat : m \in T
  <2> HIDE DEF T
  <2> QED BY <1>3, <1>4, Induction
<1>6. n \in T /\ 0 \in 0..n /\ n - n <= 0
  <2> HIDE DEF T
  <2> QED BY <1>1, <1>5
<1>7. f[0] \in Seq(U)
  BY <1>6
<1> QED BY <1>7 DEF U, n

-----------------------------------------------------------------------------
(* The string a buffer holds. *)
Buffers == [0..(BUFFER - 1) -> -128..127]

CEnd(b) == FirstFrom(0, BUFFER, LAMBDA k : k = BUFFER \/ b[k] = NUL)

LEMMA CEndIs ==
    ASSUME NEW b
    PROVE  LET n == CEnd(b)
           IN  /\ n \in 0..BUFFER /\ (n = BUFFER \/ b[n] = NUL)
               /\ \A j \in 0..(n - 1) : j # BUFFER /\ b[j] # NUL
<1> DEFINE P(k) == k = BUFFER \/ b[k] = NUL
           S == {j \in 0..BUFFER : P(j)}
           d == CHOOSE j \in 0..BUFFER : P(j) /\ \A m \in 0..(j - 1) : ~P(m)
<1>1. BUFFER \in Nat \ {0}
  BY SizeAssumption
<1>2. S \in SUBSET Nat /\ BUFFER \in S
  BY <1>1
<1>3. PICK m \in S : \A l \in S : m <= l
  BY <1>2, Least
<1>4. CEnd(b) = d
  BY DEF CEnd, FirstFrom
<1> HIDE DEF P
<1>5. m \in 0..BUFFER /\ P(m) /\ \A j \in 0..(m - 1) : ~P(j)
  <2>1. m \in 0..BUFFER /\ P(m)
    BY <1>1, <1>3
  <2>2. ASSUME NEW j \in 0..(m - 1) PROVE ~P(j)
    <3>1. j \in 0..BUFFER /\ ~(m <= j)
      BY <1>1, <2>1
    <3> QED BY <1>3, <3>1
  <2> QED BY <2>1, <2>2
<1>6. d \in 0..BUFFER /\ P(d) /\ \A j \in 0..(d - 1) : ~P(j)
  BY <1>5
<1> QED BY <1>4, <1>6 DEF P

LEMMA CStringIs ==
    ASSUME NEW b \in Buffers
    PROVE  /\ CString(b) \in Str /\ Len(CString(b)) = CEnd(b) /\ CEnd(b) \in 0..BUFFER
           /\ \A j \in 1..CEnd(b) : CString(b)[j] = b[j - 1]
<1> DEFINE n == CEnd(b)
           c == [k \in 1..n |-> b[k - 1]]
<1>1. CString(b) = c
  BY Zenon DEF CString, CEnd
<1>2. BUFFER \in Nat \ {0}
  BY SizeAssumption
<1>3. n \in 0..BUFFER /\ \A j \in 0..(n - 1) : b[j] # NUL
  BY CEndIs
<1> HIDE DEF n
<1>4. \A k \in 1..n : b[k - 1] \in Letters
  <2> SUFFICES ASSUME NEW k \in 1..n PROVE b[k - 1] \in Letters
    OBVIOUS
  <2>1. k - 1 \in 0..(n - 1) /\ k - 1 \in 0..(BUFFER - 1)
    BY <1>2, <1>3
  <2> QED BY <1>3, <2>1 DEF Buffers, Letters
<1>5. c \in [1..n -> Letters]
  BY <1>4
<1>6. c \in Seq(Letters) /\ Len(c) = n
  BY <1>3, <1>5, SeqDef
<1> QED BY <1>1, <1>3, <1>6 DEF Str, n

(* A buffer that holds a line: its characters, and a NUL behind them. *)
Holds(b, s) ==
    /\ Len(s) < BUFFER
    /\ \A k \in 0..(Len(s) - 1) : b[k] = s[k + 1]
    /\ b[Len(s)] = NUL

LEMMA HoldsLine ==
    ASSUME NEW b \in Buffers, NEW s \in Seq(-128..127), Holds(b, s)
    PROVE  LET t == CString(b)
           IN  /\ Len(t) = LineEnd(s)
               /\ \A j \in 1..Len(t) : t[j] = s[j]
<1> DEFINE n == CEnd(b)
           m == LineEnd(s)
<1>1. BUFFER \in Nat \ {0} /\ Len(s) \in Nat
  BY SizeAssumption, LenProperties
<1>2. /\ n \in 0..BUFFER /\ (n = BUFFER \/ b[n] = NUL)
      /\ \A j \in 0..(n - 1) : b[j] # NUL
  BY CEndIs
<1>3. /\ m \in 0..Len(s) /\ Ch(s, m) = NUL
      /\ \A j \in 0..(m - 1) : Ch(s, j) # NUL
  BY LineEndIs
<1> HIDE DEF n, m
<1>4. \A k \in 0..Len(s) : b[k] = Ch(s, k)
  <2> SUFFICES ASSUME NEW k \in 0..Len(s) PROVE b[k] = Ch(s, k)
    OBVIOUS
  <2>1. CASE k = Len(s)
    BY <1>1, <2>1 DEF Holds, Ch
  <2>2. CASE k # Len(s)
    <3>1. k \in 0..(Len(s) - 1) /\ k < Len(s)
      BY <1>1, <2>2
    <3> QED BY <3>1 DEF Holds, Ch
  <2> QED BY <2>1, <2>2
<1>5. ~(m < n)
  <2> SUFFICES ASSUME m < n PROVE FALSE
    OBVIOUS
  <2>1. m \in 0..(n - 1)
    BY <1>1, <1>2, <1>3
  <2> QED BY <1>2, <1>3, <1>4, <2>1
<1>6. ~(n < m)
  <2> SUFFICES ASSUME n < m PROVE FALSE
    OBVIOUS
  <2>1. n \in 0..(m - 1) /\ n \in 0..Len(s) /\ n < BUFFER
    BY <1>1, <1>2, <1>3 DEF Holds
  <2>2. b[n] = NUL
    BY <1>1, <1>2, <2>1
  <2> QED BY <1>3, <1>4, <2>1, <2>2
<1>7. n = m
  BY <1>1, <1>2, <1>3, <1>5, <1>6
<1>8. Len(CString(b)) = n /\ \A j \in 1..n : CString(b)[j] = b[j - 1]
  BY CStringIs DEF n
<1>9. ASSUME NEW j \in 1..n PROVE b[j - 1] = s[j]
  <2>1. j - 1 \in 0..(Len(s) - 1) /\ (j - 1) + 1 = j
    BY <1>1, <1>3, <1>7
  <2>2. b[j - 1] = s[(j - 1) + 1]
    BY <2>1 DEF Holds
  <2> QED BY <2>1, <2>2
<1> QED BY <1>7, <1>8, <1>9 DEF m

(* What such a buffer is split into: the words of the line. *)
LEMMA LineSplit ==
    ASSUME NEW b \in Buffers, NEW s \in Seq(-128..127), Holds(b, s)
    PROVE  strsplit(CString(b), Separators) = Words(s)
<1>1. CString(b) \in Seq(-128..127)
  <2>1. Letters \in SUBSET (-128..127)
    BY DEF Letters
  <2>2. CString(b) \in Seq(Letters)
    BY CStringIs DEF Str
  <2> QED BY <2>1, <2>2, SeqOfMore
<1>2. Len(CString(b)) = LineEnd(s) /\ \A j \in 1..Len(CString(b)) : CString(b)[j] = s[j]
  BY HoldsLine
<1> QED BY <1>1, <1>2, SplitWords

(* The strings any buffer is split into. *)
LEMMA BufferSplit ==
    ASSUME NEW b \in Buffers
    PROVE  strsplit(CString(b), Separators) \in Seq(Short(Letters, BUFFER))
<1> DEFINE t == CString(b)
<1>1. t \in Seq(Letters) /\ Len(t) \in 0..BUFFER
  BY CStringIs DEF Str
<1> HIDE DEF t
<1>2. Len(t) = LineEnd(t)
  <2>1. LineEnd(t) \in 0..Len(t) /\ Ch(t, LineEnd(t)) = NUL
    BY <1>1, LineEndIs
  <2>2. LineEnd(t) \in Nat /\ ~(LineEnd(t) < Len(t))
    <3>1. t \in Str
      BY <1>1 DEF Str
    <3>2. LineEnd(t) \in Nat
      BY <2>1
    <3>3. NUL \notin Letters
      BY DEF Letters
    <3> QED BY <2>1, <3>1, <3>2, <3>3, ChOf
  <2> QED BY <1>1, <2>1, <2>2
<1>3. IsSplit(t, Blanks, Rests(t, Len(t)))
  BY <1>1, <1>2, SplitRests
<1>4. strsplit(t, Blanks) \in Seq(Short(Letters, Len(t)))
  BY <1>1, <1>3, SplitIs, SplitType
<1>5. Short(Letters, Len(t)) \in SUBSET Short(Letters, BUFFER)
  <2> SUFFICES ASSUME NEW u \in Short(Letters, Len(t)) PROVE u \in Short(Letters, BUFFER)
    OBVIOUS
  <2>1. u \in Seq(Letters) /\ Len(u) <= Len(t) /\ Len(u) \in Nat
    BY LenProperties DEF Short
  <2> QED BY <1>1, <2>1, SizeAssumption DEF Short
<1> QED BY <1>4, <1>5, SeqOfMore DEF t, Separators

ShellType ==
    /\ first_device \in Seq(Devices) /\ cli_list \in Seq(Commands)
    /\ buffer \in Buffers /\ shown \in Seq(-128..127) /\ i \in Nat
    /\ string_array \in Seq(Short(Letters, BUFFER))

(* While gets reads, the buffer holds what is on the screen. *)
Typed ==
    pc \in {"init", "gets"} =>
        /\ ended = "no" /\ i = Len(shown) /\ i <= BUFFER
        /\ \A k \in 0..(i - 1) : buffer[k] = shown[k + 1]

Held ==
    pc = "split" => ended # "no" /\ (ended # "null" => Holds(buffer, shown))

Args ==
    pc \in {"look_up", "wrong", "run"} /\ ended = "newline" => string_array = Words(shown)

(* No command has run since the prompt. *)
Idle ==
    pc \in {"init", "gets", "split", "look_up", "wrong", "run", "overrun"} =>
        device = <<>> /\ result = "none"

Found ==
    BUFFER <= 128 =>
        /\ pc = "run" => command # <<>> /\ FirstNamed(cli_list, argv(0), command)
        /\ pc = "wrong" => FirstNamed(cli_list, argv(0), <<>>)

ShellInv ==
    ShellType /\ Typed /\ Held /\ Args /\ Idle /\ Found /\ ActsOnNamed /\ OverrunByLine

-----------------------------------------------------------------------------
LEMMA ArgvType ==
    ASSUME ShellType
    PROVE  argv(0) \in Str /\ argv(1) \in Str /\ (BUFFER <= 128 => Len(argv(0)) <= 128)
<1>1. /\ string_array \in Seq(Short(Letters, BUFFER)) /\ Len(string_array) \in Nat
      /\ \A k \in 1..Len(string_array) : string_array[k] \in Short(Letters, BUFFER)
  BY LenProperties DEF ShellType
<1>2. BUFFER \in Nat
  BY SizeAssumption
<1>3. \A u \in Short(Letters, BUFFER) : u \in Str /\ Len(u) \in Nat /\ Len(u) <= BUFFER
  BY LenProperties DEF Short, Str
<1>4. << >> \in Str /\ Len(<< >>) = 0
  BY DEF Str
<1>5. ASSUME NEW k \in 0..1
      PROVE  argv(k) = << >> \/ argv(k) \in Short(Letters, BUFFER)
  <2>1. CASE k < Len(string_array)
    <3>1. k + 1 \in 1..Len(string_array)
      BY <1>1, <2>1
    <3> QED BY <1>1, <2>1, <3>1 DEF argv, argn
  <2>2. CASE ~(k < Len(string_array))
    BY <2>2 DEF argv, argn
  <2> QED BY <2>1, <2>2
<1>6. ASSUME NEW a, a = << >> \/ a \in Short(Letters, BUFFER)
      PROVE  a \in Str /\ (BUFFER <= 128 => Len(a) <= 128)
  <2>1. CASE a = << >>
    BY <1>4, <2>1
  <2>2. CASE a \in Short(Letters, BUFFER)
    BY <1>2, <1>3, <2>2
  <2> QED BY <1>6, <2>1, <2>2
<1>7. 0 \in 0..1 /\ 1 \in 0..1
  OBVIOUS
<1> QED BY <1>5, <1>6, <1>7

LEMMA NameType == Seq(1..127) \in SUBSET Str
<1>1. 1..127 \in SUBSET Letters
  BY DEF Letters, NUL
<1> QED BY <1>1, SeqOfMore DEF Str

LEMMA ReversedType ==
    ASSUME NEW V, NEW s \in Seq(V)
    PROVE  Reversed(s) \in Seq(V)
<1>1. Len(s) \in Nat
  BY LenProperties
<1>2. \A k \in 1..Len(s) : s[Len(s) + 1 - k] \in V
  <2> SUFFICES ASSUME NEW k \in 1..Len(s) PROVE s[Len(s) + 1 - k] \in V
    OBVIOUS
  <2>1. Len(s) + 1 - k \in 1..Len(s)
    BY <1>1
  <2> QED BY <2>1
<1>3. Reversed(s) \in [1..Len(s) -> V]
  BY <1>2 DEF Reversed
<1> QED BY <1>1, <1>3, SeqDef

LEMMA RegisteredType ==
    ASSUME NEW V, NEW list \in Seq(V), NEW new \in Seq(V)
    PROVE  Registered(list, new) \in Seq(V)
<1>1. Reversed(new) \in Seq(V)
  BY ReversedType
<1> QED BY <1>1, ConcatProperties DEF Registered

LEMMA ShellStarts == Init => ShellInv
<1> SUFFICES ASSUME Init PROVE ShellInv
  OBVIOUS
<1>1. BUFFER \in Nat \ {0}
  BY SizeAssumption
<1>2. ShellType
  <2>1. HELP \in Str
    BY WordAssumption, NameType
  <2>2. [name |-> HELP, func |-> "help"] \in Commands
    BY <2>1 DEF Commands, Programs
  <2>3. cli_list \in Seq(Commands)
    BY <2>2 DEF Init
  <2>4. first_device \in Seq(Devices) /\ string_array \in Seq(Short(Letters, BUFFER))
    BY DEF Init
  <2>5. buffer \in Buffers
    BY LeftoverAssumption DEF Init, Buffers
  <2>6. shown \in Seq(-128..127) /\ i \in Nat
    BY DEF Init
  <2> QED BY <2>3, <2>4, <2>5, <2>6 DEF ShellType
<1>3. Typed
  BY <1>1 DEF Init, Typed
<1>4. Held /\ Args /\ Idle /\ Found /\ ActsOnNamed /\ OverrunByLine
  BY DEF Init, Held, Args, Idle, Found, ActsOnNamed, OverrunByLine
<1> QED BY <1>2, <1>3, <1>4 DEF ShellInv

LEMMA InitStep ==
    ASSUME ShellInv, \/ \E m \in Pending : mod_init(m)
                     \/ cli_start
    PROVE  ShellInv'
<1> USE DEF ShellInv
<1>1. CASE \E m \in Pending : mod_init(m)
  <2>1. PICK m \in Pending : mod_init(m)
    BY <1>1
  <2>2. /\ pc = "init" /\ pc' = pc /\ UNCHANGED <<line, string_array, run>>
        /\ first_device' = Registered(first_device, m.devices)
        /\ cli_list' = Registered(cli_list, m.commands)
    BY <2>1 DEF mod_init
  <2>3. m.devices \in Seq(Device) /\ m.commands \in Seq(Command)
    BY ModuleAssumption DEF Pending
  <2>4. Device \in SUBSET Devices /\ Command \in SUBSET Commands
    BY NameType DEF Device, Devices, Command, Commands
  <2>5. m.devices \in Seq(Devices) /\ m.commands \in Seq(Commands)
    <3> HIDE DEF ShellInv
    <3> QED BY <2>3, <2>4, SeqOfMore
  <2>6. first_device' \in Seq(Devices)
    <3>1. first_device \in Seq(Devices)
      BY DEF ShellType
    <3> QED BY <2>2, <2>5, <3>1, RegisteredType
  <2>7. cli_list' \in Seq(Commands)
    <3>1. cli_list \in Seq(Commands)
      BY DEF ShellType
    <3> QED BY <2>2, <2>5, <3>1, RegisteredType
  <2>8. ShellType'
    BY <2>2, <2>6, <2>7 DEF ShellType, line
  <2>9. Typed' /\ Held' /\ Args' /\ Idle' /\ Found' /\ OverrunByLine'
    BY <2>2 DEF Typed, Held, Args, Idle, Found, OverrunByLine, line, run
  <2>10. ActsOnNamed'
    BY <2>2 DEF Idle, ActsOnNamed, run
  <2> QED BY <2>8, <2>9, <2>10
<1>2. CASE cli_start
  <2>1. pc = "init" /\ pc' = "gets" /\ UNCHANGED <<lists, line, string_array, run>>
    BY <1>2 DEF cli_start
  <2> QED BY <2>1 DEF ShellType, Typed, Held, Args, Idle, Found, OverrunByLine, ActsOnNamed,
                      lists, line, run
<1> QED BY <1>1, <1>2

(* What a key that does not end the line leaves as it was. *)
LEMMA TypedOn ==
    ASSUME ShellInv, pc = "gets", UNCHANGED <<lists, string_array, run>>,
           pc' \in {"gets", "split", "overrun"}, ShellType', Typed', Held', OverrunByLine'
    PROVE  ShellInv'
<1>1. Args' /\ Found'
  BY DEF Args, Found
<1>2. device' = <<>> /\ result' = "none" /\ Idle'
  BY DEF ShellInv, Idle, run
<1>3. ActsOnNamed'
  BY <1>2 DEF ActsOnNamed
<1> QED BY <1>1, <1>2, <1>3 DEF ShellInv

LEMMA TypeStep ==
    ASSUME ShellInv, NEW c \in Typeable, Type(c)
    PROVE  ShellInv'
<1>1. /\ pc = "gets" /\ UNCHANGED <<lists, string_array, run>>
      /\ \/ Negative(c)
         \/ c = BS /\ Delete
         \/ c = NEWLINE /\ EndOfLine
         \/ c >= 0 /\ c \notin {BS, NEWLINE} /\ Insert(c)
  BY DEF Type
<1>2. /\ ended = "no" /\ i = Len(shown) /\ i <= BUFFER
      /\ \A k \in 0..(i - 1) : buffer[k] = shown[k + 1]
  BY <1>1 DEF ShellInv, Typed
<1>3. BUFFER \in Nat \ {0} /\ c \in -128..127 /\ NUL \in -128..127
  BY SizeAssumption, CharAssumption DEF NUL
<1>4. /\ first_device' \in Seq(Devices) /\ cli_list' \in Seq(Commands)
      /\ string_array' \in Seq(Short(Letters, BUFFER))
      /\ buffer \in Buffers /\ shown \in Seq(-128..127) /\ i \in Nat
  BY <1>1 DEF ShellInv, ShellType, lists
<1>5. ASSUME NEW k \in Nat, NEW d \in -128..127, Store(k, d)
      PROVE  /\ buffer' \in Buffers
             /\ k < BUFFER => buffer'[k] = d
             /\ \A j \in 0..(BUFFER - 1) : j # k => buffer'[j] = buffer[j]
  <2>1. CASE k < BUFFER
    <3>1. buffer' = [buffer EXCEPT ![k] = d]
      BY <1>5, <2>1 DEF Store
    <3>2. k \in 0..(BUFFER - 1) /\ buffer \in [0..(BUFFER - 1) -> -128..127]
      BY <1>3, <1>4, <2>1 DEF Buffers
    <3> QED BY <3>1, <3>2, Updated DEF Buffers
  <2>2. CASE ~(k < BUFFER)
    BY <1>3, <1>4, <1>5, <2>2 DEF Store, Buffers
  <2> QED BY <2>1, <2>2
<1>6. CASE Negative(c)
  <2>1. pc' = "split" /\ ended' = "null" /\ UNCHANGED <<buffer, i, shown>>
    BY <1>6 DEF Negative
  <2>2. ShellType' /\ Typed' /\ Held' /\ OverrunByLine'
    BY <1>4, <2>1 DEF ShellType, Typed, Held, OverrunByLine
  <2> QED BY <1>1, <2>1, <2>2, TypedOn
<1>7. CASE Delete
  <2>1. pc' = pc /\ ended' = ended
    BY <1>7 DEF Delete
  <2>2. CASE i > 0
    <3>1. i' = i - 1 /\ Store(i - 1, NUL) /\ shown' = SubSeq(shown, 1, Len(shown) - 1)
      BY <1>7, <2>2 DEF Delete
    <3>2. i - 1 \in Nat /\ i - 1 < BUFFER
      BY <1>2, <1>3, <1>4, <2>2
    <3>3. /\ buffer' \in Buffers
          /\ \A j \in 0..(BUFFER - 1) : j # i - 1 => buffer'[j] = buffer[j]
      BY <1>3, <1>5, <3>1, <3>2
    <3>4. /\ shown' \in Seq(-128..127) /\ Len(shown') = i - 1
          /\ \A k \in 1..(i - 1) : shown'[k] = shown[k]
      <4>0. \A k \in 1..Len(shown) : shown[k] \in -128..127
        <5>1. shown \in Seq(-128..127)
          BY <1>4
        <5>2. \A V : \A s \in Seq(V) : \A k \in 1..Len(s) : s[k] \in V
          OBVIOUS
        <5> QED BY <5>1, <5>2
      <4>1. 1 \in Int /\ i - 1 \in Int /\ \A k \in 1..(i - 1) : shown[k] \in -128..127
        <5>1. \A k \in 1..(i - 1) : k \in 1..Len(shown)
          BY <1>2, <1>4
        <5>2. 1 \in Int /\ i - 1 \in Int
          BY <1>4
        <5> QED BY <4>0, <5>1, <5>2
      <4>2. /\ SubSeq(shown, 1, i - 1) \in Seq(-128..127)
            /\ Len(SubSeq(shown, 1, i - 1)) = IF 1 <= i - 1 THEN i - 1 - 1 + 1 ELSE 0
            /\ \A k \in 1..(i - 1 - 1 + 1) : SubSeq(shown, 1, i - 1)[k] = shown[1 + k - 1]
        BY ONLY <4>1, SubSeqProperties
      <4>3. Len(SubSeq(shown, 1, i - 1)) = i - 1
        BY <3>2, <4>2
      <4>4. \A k \in 1..(i - 1) : 1 + k - 1 = k /\ k \in 1..(i - 1 - 1 + 1)
        BY <3>2
      <4> QED BY <1>2, <3>1, <4>2, <4>3, <4>4
    <3>5. \A k \in 0..(i' - 1) : buffer'[k] = shown'[k + 1]
      <4>0. 0..(i' - 1) = 0..(i - 2)
        BY <1>4, <3>1
      <4> SUFFICES ASSUME NEW k \in 0..(i - 2) PROVE buffer'[k] = shown'[k + 1]
        BY <4>0
      <4>1. k \in 0..(i - 1) /\ k + 1 \in 1..(i - 1) /\ k \in 0..(BUFFER - 1) /\ k # i - 1
        BY <1>3, <1>4, <3>2
      <4> QED BY <1>2, <3>3, <3>4, <4>1
    <3>6. ShellType'
      BY <1>4, <3>1, <3>2, <3>3, <3>4 DEF ShellType
    <3>7. Typed' /\ Held' /\ OverrunByLine'
      <4>1. i' = Len(shown') /\ i' <= BUFFER
        BY <1>3, <1>4, <3>1, <3>2, <3>4
      <4> QED BY <1>1, <1>2, <2>1, <3>5, <4>1 DEF Typed, Held, OverrunByLine
    <3> QED BY <1>1, <2>1, <3>6, <3>7, TypedOn
  <2>3. CASE ~(i > 0)
    <3>1. UNCHANGED <<buffer, i, shown>>
      BY <1>7, <2>3 DEF Delete
    <3>2. ShellType'
      BY <1>4, <3>1 DEF ShellType
    <3>3. Typed' /\ Held' /\ OverrunByLine'
      BY <1>1, <1>2, <2>1, <3>1 DEF Typed, Held, OverrunByLine
    <3> QED BY <1>1, <2>1, <3>2, <3>3, TypedOn
  <2> QED BY <2>2, <2>3
<1>8. CASE EndOfLine
  <2>1. /\ Store(i, NUL) /\ pc' = IF i < BUFFER THEN "split" ELSE "overrun"
        /\ ended' = "newline" /\ i' = i /\ shown' = shown
    BY <1>8 DEF EndOfLine
  <2>2. /\ buffer' \in Buffers
        /\ i < BUFFER => buffer'[i] = NUL
        /\ \A j \in 0..(BUFFER - 1) : j # i => buffer'[j] = buffer[j]
    BY <1>3, <1>4, <1>5, <2>1
  <2>3. ShellType'
    BY <1>4, <2>1, <2>2 DEF ShellType
  <2>4. CASE i < BUFFER
    <3>1. \A k \in 0..(i - 1) : buffer'[k] = shown[k + 1]
      <4> SUFFICES ASSUME NEW k \in 0..(i - 1) PROVE buffer'[k] = shown[k + 1]
        OBVIOUS
      <4>1. k \in 0..(BUFFER - 1) /\ k # i
        BY <1>3, <1>4, <2>4
      <4> QED BY <1>2, <2>2, <4>1
    <3>2. Holds(buffer', shown')
      BY <1>2, <2>1, <2>2, <2>4, <3>1 DEF Holds
    <3>3. Typed' /\ Held' /\ OverrunByLine'
      BY <2>1, <2>4, <3>2 DEF Typed, Held, OverrunByLine
    <3> QED BY <1>1, <2>1, <2>3, <3>3, TypedOn
  <2>5. CASE ~(i < BUFFER)
    <3>1. Len(shown') >= BUFFER
      BY <1>2, <1>3, <1>4, <2>1, <2>5
    <3>2. Typed' /\ Held' /\ OverrunByLine'
      BY <2>1, <2>5, <3>1 DEF Typed, Held, OverrunByLine
    <3> QED BY <1>1, <2>1, <2>3, <3>2, TypedOn
  <2> QED BY <2>4, <2>5
<1>9. CASE Insert(c)
  <2>1. /\ Store(i, c) /\ i' = i + 1 /\ shown' = Append(shown, c)
        /\ pc' = (IF i < BUFFER THEN pc ELSE "overrun") /\ ended' = ended
    BY <1>9 DEF Insert
  <2>2. /\ buffer' \in Buffers
        /\ i < BUFFER => buffer'[i] = c
        /\ \A j \in 0..(BUFFER - 1) : j # i => buffer'[j] = buffer[j]
    BY <1>3, <1>4, <1>5, <2>1
  <2>3. /\ shown' \in Seq(-128..127) /\ Len(shown') = i + 1 /\ shown'[i + 1] = c
        /\ \A k \in 1..i : shown'[k] = shown[k]
    BY <1>2, <1>3, <1>4, <2>1, AppendProperties
  <2>4. ShellType'
    BY <1>4, <2>1, <2>2, <2>3 DEF ShellType
  <2>5. CASE i < BUFFER
    <3>1. \A k \in 0..i : buffer'[k] = shown'[k + 1]
      <4> SUFFICES ASSUME NEW k \in 0..i PROVE buffer'[k] = shown'[k + 1]
        OBVIOUS
      <4>1. CASE k = i
        BY <2>2, <2>3, <2>5, <4>1
      <4>2. CASE k # i
        <5>1. k \in 0..(i - 1) /\ k \in 0..(BUFFER - 1) /\ k + 1 \in 1..i
          BY <1>3, <1>4, <2>5, <4>2
        <5> QED BY <1>2, <2>2, <2>3, <4>2, <5>1
      <4> QED BY <4>1, <4>2
    <3>2. i' = Len(shown') /\ i' <= BUFFER /\ i' - 1 = i
      BY <1>3, <1>4, <2>1, <2>3, <2>5
    <3>3. Typed' /\ Held' /\ OverrunByLine'
      BY <1>1, <1>2, <2>1, <2>5, <3>1, <3>2 DEF Typed, Held, OverrunByLine
    <3> QED BY <1>1, <2>1, <2>4, <2>5, <3>3, TypedOn
  <2>6. CASE ~(i < BUFFER)
    <3>1. Len(shown') >= BUFFER
      BY <1>2, <1>3, <1>4, <2>3, <2>6
    <3>2. Typed' /\ Held' /\ OverrunByLine'
      BY <2>1, <2>6, <3>1 DEF Typed, Held, OverrunByLine
    <3> QED BY <1>1, <2>1, <2>4, <2>6, <3>2, TypedOn
  <2> QED BY <2>5, <2>6
<1> QED BY <1>1, <1>6, <1>7, <1>8, <1>9

LEMMA SplitStep ==
    ASSUME ShellInv, Split
    PROVE  ShellInv'
<1> DEFINE words == strsplit(CString(buffer), Separators)
<1>1. /\ pc = "split" /\ UNCHANGED <<lists, line, run>>
      /\ IF Len(words) < SLOTS
         THEN string_array' = words /\ pc' = "look_up"
         ELSE pc' = "overrun" /\ UNCHANGED string_array
  BY DEF Split
<1>2. /\ buffer \in Buffers /\ shown \in Seq(-128..127)
      /\ string_array \in Seq(Short(Letters, BUFFER))
  BY DEF ShellInv, ShellType
<1>3. words \in Seq(Short(Letters, BUFFER))
  BY <1>2, BufferSplit
<1>4. ended # "null" => words = Words(shown)
  <2>1. ended # "null" => Holds(buffer, shown)
    BY <1>1 DEF ShellInv, Held
  <2> QED BY <1>2, <2>1, LineSplit
<1>5. device = <<>> /\ result = "none"
  BY <1>1 DEF ShellInv, Idle
<1> HIDE DEF words
<1>6. pc' \in {"look_up", "overrun"} /\ string_array' \in Seq(Short(Letters, BUFFER))
  BY <1>1, <1>2, <1>3
<1>7. ShellType'
  BY <1>1, <1>6 DEF ShellInv, ShellType, lists, line
<1>8. Typed' /\ Held' /\ Found'
  BY <1>6 DEF Typed, Held, Found
<1>9. Idle' /\ ActsOnNamed'
  BY <1>1, <1>5 DEF Idle, ActsOnNamed, run
<1>10. Args'
  BY <1>1, <1>4 DEF Args, line
<1>11. OverrunByLine'
  <2>1. CASE Len(words) < SLOTS
    BY <1>1, <2>1 DEF OverrunByLine
  <2>2. CASE ~(Len(words) < SLOTS)
    <3>1. Len(words) >= SLOTS
      <4>1. Len(words) \in Nat /\ SLOTS \in Nat
        BY <1>3, LenProperties, SizeAssumption
      <4> QED BY <2>2, <4>1
    <3> QED BY <1>1, <1>4, <3>1 DEF OverrunByLine, line
  <2> QED BY <2>1, <2>2
<1> QED BY <1>7, <1>8, <1>9, <1>10, <1>11 DEF ShellInv

LEMMA LookUpStep ==
    ASSUME ShellInv, LookUp
    PROVE  ShellInv'
<1>1. /\ pc = "look_up" /\ command' = ByName(cli_list, Named)
      /\ pc' = (IF command' = <<>> THEN "wrong" ELSE "run")
      /\ UNCHANGED <<lists, line, string_array, device, result>>
  BY DEF LookUp
<1>2. ShellType /\ ShellType'
  BY <1>1 DEF ShellInv, ShellType, lists, line
<1>3. BUFFER <= 128 => FirstNamed(cli_list, argv(0), command')
  <2>1. cli_list \in Seq(Commands) /\ argv(0) \in Str /\ (BUFFER <= 128 => Len(argv(0)) <= 128)
    BY <1>2, ArgvType DEF ShellType
  <2> QED BY <1>1, <2>1, CommandFound
<1>4. cli_list' = cli_list /\ argv(0)' = argv(0)
  BY <1>1 DEF lists, argv, argn
<1>5. Found'
  BY <1>1, <1>3, <1>4 DEF Found
<1>6. Typed' /\ Held' /\ OverrunByLine'
  BY <1>1 DEF Typed, Held, OverrunByLine
<1>7. Args'
  BY <1>1 DEF ShellInv, Args, line
<1>8. Idle' /\ ActsOnNamed'
  BY <1>1 DEF ShellInv, Idle, ActsOnNamed
<1> QED BY <1>2, <1>5, <1>6, <1>7, <1>8 DEF ShellInv

(* A command leaves what it works on as it is, and gets a device from the     *)
(* list by its name, or none.                                                *)
LEMMA ExecuteEnds ==
    ASSUME ShellInv, Execute
    PROVE  /\ pc = "run" /\ pc' \in {"done", "gone"} /\ Frame
           /\ device' # <<>> => /\ device' = Target /\ Target # <<>>
                                /\ command[1].func = "read" => "read" \in Target[1].ops
           /\ result' = "ENOENT" => Target = <<>>
<1>1. pc = "run" => device = <<>> /\ result = "none"
  BY DEF ShellInv, Idle
<1>2. CASE help \/ echo \/ reboot
  BY <1>1, <1>2 DEF help, echo, reboot, Running, End
<1>3. CASE read
  BY <1>1, <1>3 DEF read, Running, End, NoDevice, OneOperation, Can
<1>4. CASE seek
  BY <1>1, <1>4 DEF seek, Running, End, NoDevice, OneOperation, Can
<1>5. CASE root
  BY <1>1, <1>5 DEF root, Running, End, NoDevice, Can
<1>6. CASE chainload
  BY <1>1, <1>6 DEF chainload, Running, End, NoDevice, Can
<1> QED BY <1>2, <1>3, <1>4, <1>5, <1>6 DEF Execute

LEMMA ExecuteStep ==
    ASSUME ShellInv, Execute
    PROVE  ShellInv'
<1>1. /\ pc = "run" /\ pc' \in {"done", "gone"} /\ UNCHANGED <<lists, line, string_array, command>>
      /\ device' # <<>> => /\ device' = Target /\ Target # <<>>
                           /\ command[1].func = "read" => "read" \in Target[1].ops
      /\ result' = "ENOENT" => Target = <<>>
  BY ExecuteEnds DEF Frame
<1>2. ShellType /\ ShellType'
  BY <1>1 DEF ShellInv, ShellType, lists, line
<1>3. Typed' /\ Held' /\ Args' /\ Idle' /\ Found' /\ OverrunByLine'
  BY <1>1 DEF Typed, Held, Args, Idle, Found, OverrunByLine
<1>4. FirstNamed(first_device, argv(1), Target)
  <2>1. first_device \in Seq(Devices) /\ argv(1) \in Str
    BY <1>2, ArgvType DEF ShellType
  <2> QED BY <2>1, TargetFound
<1>5. first_device' = first_device /\ argv(1)' = argv(1) /\ command' = command
  BY <1>1 DEF lists, argv, argn
<1>6. ActsOnNamed'
  <2>1. ASSUME device' # <<>>
        PROVE  \E k \in DOMAIN first_device :
                   /\ device'[1] = first_device[k] /\ first_device[k].name = argv(1)
                   /\ \A n \in 1..(k - 1) : first_device[n].name # argv(1)
                   /\ command[1].func = "read" => "read" \in device'[1].ops
    <3>1. device' = Target /\ Target # <<>> /\ (command[1].func = "read" => "read" \in Target[1].ops)
      BY <1>1, <2>1
    <3>2. PICK k \in DOMAIN first_device :
              /\ Target = <<first_device[k]>> /\ first_device[k].name = argv(1)
              /\ \A n \in 1..(k - 1) : first_device[n].name # argv(1)
      BY <1>4, <3>1 DEF FirstNamed
    <3>3. device'[1] = first_device[k]
      BY <3>1, <3>2
    <3> QED BY <3>1, <3>2, <3>3
  <2>2. ASSUME result' = "ENOENT"
        PROVE  \A k \in DOMAIN first_device : first_device[k].name # argv(1)
    BY <1>1, <1>4, <2>2 DEF FirstNamed
  <2> QED BY <1>5, <2>1, <2>2 DEF ActsOnNamed
<1> QED BY <1>2, <1>3, <1>6 DEF ShellInv

LEMMA PromptStep ==
    ASSUME ShellInv, Prompt
    PROVE  ShellInv'
<1>1. /\ pc' = "gets" /\ i' = 0 /\ shown' = <<>> /\ ended' = "no"
      /\ string_array' = <<>> /\ device' = <<>> /\ result' = "none"
      /\ UNCHANGED <<lists, buffer>>
  BY DEF Prompt
<1>2. BUFFER \in Nat
  BY SizeAssumption
<1>3. ShellType'
  BY <1>1 DEF ShellInv, ShellType, lists
<1>4. Typed'
  BY <1>1, <1>2 DEF Typed
<1>5. Held' /\ Args' /\ Idle' /\ Found' /\ OverrunByLine' /\ ActsOnNamed'
  BY <1>1 DEF Held, Args, Idle, Found, OverrunByLine, ActsOnNamed
<1> QED BY <1>3, <1>4, <1>5 DEF ShellInv

LEMMA ShellStays == ShellInv /\ [Next]_vars => ShellInv'
<1> SUFFICES ASSUME ShellInv, [Next]_vars PROVE ShellInv'
  OBVIOUS
<1>1. CASE UNCHANGED vars
  BY <1>1 DEF ShellInv, ShellType, Typed, Held, Args, Idle, Found, OverrunByLine, ActsOnNamed,
              argv, argn, vars, lists, line, run
<1>2. CASE Next
  <2>1. CASE \/ \E m \in Pending : mod_init(m)
             \/ cli_start
    BY <2>1, InitStep
  <2>2. CASE \E c \in Typeable : Type(c)
    BY <2>2, TypeStep
  <2> QED BY <1>2, <2>1, <2>2, SplitStep, LookUpStep, ExecuteStep, PromptStep DEF Next
<1> QED BY <1>1, <1>2

LEMMA ShellInvariant == Spec => []ShellInv
<1> QED BY ShellStarts, ShellStays, PTL DEF Spec

(* An operation is carried out by the newest device of the name that was      *)
(* given, which has it, and a device that is registered is found, whatever is *)
(* typed, whatever is registered and however wide the buffer is.              *)
THEOREM NamedDeviceActs == Spec => []ActsOnNamed
<1>1. ShellInv => ActsOnNamed
  BY DEF ShellInv
<1> QED BY <1>1, ShellInvariant, PTL

(* gets and the splitting of its line write outside of their arrays only when *)
(* the line on the screen fills the one or has too many words for the other.  *)
THEOREM LineOverruns == Spec => []OverrunByLine
<1>1. ShellInv => OverrunByLine
  BY DEF ShellInv
<1> QED BY <1>1, ShellInvariant, PTL

(* The line on the screen is run as the words that a user sees, by the        *)
(* command that the first of them names, as long as the 128 characters that   *)
(* are compared are all that the buffer has.                                 *)
THEOREM LineRuns == BUFFER <= 128 => (Spec => []RunsTheLine)
<1> SUFFICES ASSUME BUFFER <= 128 PROVE Spec => []RunsTheLine
  OBVIOUS
<1>1. ShellInv => RunsTheLine
  <2> SUFFICES ASSUME ShellInv, pc \in {"run", "wrong"}, ended = "newline"
               PROVE  /\ string_array = Words(shown)
                      /\ pc = "run" => command[1].name = argv(0)
                      /\ pc = "wrong" => \A k \in DOMAIN cli_list : cli_list[k].name # argv(0)
    BY DEF RunsTheLine
  <2>1. string_array = Words(shown)
    BY DEF ShellInv, Args
  <2>2. ASSUME pc = "run" PROVE command[1].name = argv(0)
    <3>1. command # <<>> /\ FirstNamed(cli_list, argv(0), command)
      BY <2>2 DEF ShellInv, Found
    <3>2. PICK k \in DOMAIN cli_list : command = <<cli_list[k]>> /\ cli_list[k].name = argv(0)
      BY <3>1 DEF FirstNamed
    <3> QED BY <3>2
  <2>3. ASSUME pc = "wrong" PROVE \A k \in DOMAIN cli_list : cli_list[k].name # argv(0)
    BY <2>3 DEF ShellInv, Found, FirstNamed
  <2> QED BY <2>1, <2>2, <2>3
<1> QED BY <1>1, ShellInvariant, PTL
=============================================================================

------------------------------ MODULE Arithmetic ------------------------------
(***************************************************************************)
(* Facts about natural numbers, sequences and sums: quotients and           *)
(* remainders by numbers that are not constants, the least number of a set, *)
(* induction and recursion, a sequence with an element before it, and the   *)
(* sum of weights over a finite set.  Induction is stated of a set and      *)
(* recursion of a function that gives the steps, so that the provers can    *)
(* instantiate them.                                                        *)
(***************************************************************************)
EXTENDS Integers, FiniteSetTheorems, SequenceTheorems, WellFoundedInduction, TLAPS

(* Quotient and remainder of a number. *)
LEMMA DivMod ==
    ASSUME NEW a \in Nat, NEW n \in Nat \ {0}
    PROVE  /\ a = (n * (a \div n)) + (a % n)
           /\ a \div n \in Nat
           /\ a % n \in 0..(n - 1)
<1> DEFINE q == a \div n
           r == a % n
<1>1. q \in Int /\ r \in 0..(n - 1) /\ a = (n * q) + r
  OBVIOUS
<1> HIDE DEF q, r
<1>2. q >= 0
  <2> SUFFICES ASSUME q <= -1 PROVE FALSE
    BY <1>1
  <2>1. n * q <= -n
    BY <1>1
  <2> QED BY <2>1, <1>1
<1> QED BY <1>1, <1>2 DEF q, r

(* No other pair has their property. *)
LEMMA DivModUnique ==
    ASSUME NEW n \in Nat \ {0}, NEW q \in Nat, NEW r \in 0..(n - 1)
    PROVE  ((n * q) + r) \div n = q /\ ((n * q) + r) % n = r
<1> DEFINE a == (n * q) + r
           k == a \div n
           j == a % n
<1>1. n * q \in Nat /\ a \in Nat
  OBVIOUS
<1>2. k \in Nat /\ j \in 0..(n - 1) /\ a = (n * k) + j
  BY <1>1, DivMod
<1>3. a = (n * q) + r
  OBVIOUS
<1> HIDE DEF a, k, j
<1>4. n * (k - q) = r - j
  BY <1>1, <1>2, <1>3
<1>5. k - q < 1
  <2> SUFFICES ASSUME k - q >= 1 PROVE FALSE
    BY <1>2
  <2>1. n * (k - q) >= n
    BY <1>2
  <2> QED BY <2>1, <1>2, <1>4
<1>6. k - q > -1
  <2> SUFFICES ASSUME k - q <= -1 PROVE FALSE
    BY <1>2
  <2>1. n * (k - q) <= -n
    BY <1>2
  <2> QED BY <2>1, <1>2, <1>4
<1>7. k = q
  BY <1>2, <1>5, <1>6
<1>8. j = r
  BY <1>2, <1>3, <1>7
<1> QED BY <1>7, <1>8 DEF a, k, j

(* A set of numbers that is not empty has a least one. *)
LEMMA Least ==
    ASSUME NEW S \in SUBSET Nat, S # {}
    PROVE  \E n \in S : \A m \in S : n <= m
<1>1. PICK n \in S : \A m \in S : <<m, n>> \notin OpToRel(<, Nat)
  BY NatLessThanWellFounded, WFMin
<1>2. \A m \in S : ~(m < n)
  BY <1>1 DEF OpToRel
<1> QED BY <1>2

-----------------------------------------------------------------------------
(* Induction up to a number: what holds of 0, and of every successor of a     *)
(* number below n of which it holds, holds up to n.                          *)
LEMMA UpTo ==
    ASSUME NEW n \in Nat, NEW S, 0 \in S, \A k \in 0..(n - 1) : k \in S => k + 1 \in S
    PROVE  \A k \in 0..n : k \in S
<1> DEFINE Missing == {k \in 0..n : k \notin S}
<1> SUFFICES ASSUME Missing # {} PROVE FALSE
  OBVIOUS
<1>1. Missing \in SUBSET Nat
  OBVIOUS
<1>2. PICK m \in Missing : \A k \in Missing : m <= k
  BY <1>1, Least
<1>3. m \in 1..n
  BY <1>2
<1>4. m - 1 \in 0..(n - 1) /\ m - 1 \notin Missing
  BY <1>2, <1>3
<1>5. m - 1 \in S
  BY <1>4
<1>6. (m - 1) + 1 \in S
  BY <1>4, <1>5
<1> QED BY <1>2, <1>3, <1>6

(* Induction over all numbers. *)
LEMMA Induction ==
    ASSUME NEW S, 0 \in S, \A k \in Nat : k \in S => k + 1 \in S
    PROVE  \A k \in Nat : k \in S
<1> SUFFICES ASSUME NEW n \in Nat PROVE n \in S
  OBVIOUS
<1>1. \A k \in 0..(n - 1) : k \in S => k + 1 \in S
  OBVIOUS
<1>2. \A k \in 0..n : k \in S
  BY <1>1, UpTo
<1> QED BY <1>2

(* Induction over sequences: what holds of the empty one, and with a sequence *)
(* of all that are longer by an element, holds of all.                       *)
LEMMA SeqInduction ==
    ASSUME NEW V, NEW S, <<>> \in S,
           \A s \in Seq(V), e \in V : s \in S => Append(s, e) \in S
    PROVE  \A s \in Seq(V) : s \in S
<1> DEFINE T == {n \in Nat : \A s \in Seq(V) : Len(s) = n => s \in S}
<1>1. 0 \in T
  <2>1. \A s \in Seq(V) : Len(s) = 0 => s = <<>>
    BY EmptySeq
  <2> QED BY <2>1
<1>2. ASSUME NEW n \in Nat, n \in T PROVE n + 1 \in T
  <2> SUFFICES ASSUME NEW s \in Seq(V), Len(s) = n + 1 PROVE s \in S
    OBVIOUS
  <2>1. PICK t \in Seq(V), e \in V : s = Append(t, e)
    BY SequenceEmptyOrAppend, EmptySeq
  <2>2. Len(t) = n
    BY <2>1, AppendProperties, LenProperties
  <2> QED BY <1>2, <2>1, <2>2
<1>3. \A n \in Nat : n \in T
  <2> HIDE DEF T
  <2> QED BY <1>1, <1>2, Induction
<1> QED BY <1>3, LenProperties

(* A function with one value changed. *)
LEMMA Updated ==
    ASSUME NEW D, NEW V, NEW f \in [D -> V], NEW k \in D, NEW v \in V
    PROVE  LET g == [f EXCEPT ![k] = v]
           IN  g \in [D -> V] /\ g[k] = v /\ \A j \in D : j # k => g[j] = f[j]
OBVIOUS

(* A function on 0..n is given by its first value and its steps.  The two     *)
(* definitions keep the lemma small where it is cited.                       *)
StepsOn(step, n, V) == step \in [1..n -> [V -> V]]

Iterates(f, n, V, base, step) ==
    f \in [0..n -> V] /\ f[0] = base /\ \A k \in 1..n : f[k] = step[k][f[k - 1]]

LEMMA Recursion ==
    ASSUME NEW n \in Nat, NEW V, NEW base \in V, NEW step, StepsOn(step, n, V)
    PROVE  \E f : Iterates(f, n, V, base, step)
<1> USE DEF StepsOn, Iterates
<1> DEFINE Upto(m, f) == f[0] = base /\ \A k \in 1..m : f[k] = step[k][f[k - 1]]
           S == {m \in 0..n : \E f \in [0..n -> V] : Upto(m, f)}
<1>1. 0 \in S
  <2> DEFINE f == [k \in 0..n |-> base]
  <2>1. f \in [0..n -> V] /\ Upto(0, f)
    OBVIOUS
  <2> HIDE DEF f, Upto
  <2> QED BY <2>1
<1>2. ASSUME NEW m \in 0..(n - 1), m \in S PROVE m + 1 \in S
  <2>1. PICK f \in [0..n -> V] : Upto(m, f)
    BY <1>2
  <2> DEFINE v == step[m + 1][f[m]]
             g == [f EXCEPT ![m + 1] = v]
  <2>2. m + 1 \in 1..n /\ m \in 0..n
    OBVIOUS
  <2>3. v \in V
    BY <2>2
  <2>4. g \in [0..n -> V]
    BY <2>3
  <2>5. \A k \in 0..n : g[k] = IF k = m + 1 THEN v ELSE f[k]
    BY <2>1
  <2>6. Upto(m + 1, g)
    <3>1. g[0] = base
      BY <2>1, <2>5
    <3>2. \A k \in 1..m : g[k] = step[k][g[k - 1]]
      BY <2>1, <2>5
    <3>3. g[m + 1] = step[m + 1][g[m]]
      BY <2>2, <2>5
    <3> HIDE DEF g, v
    <3>4. ASSUME NEW k \in 1..(m + 1) PROVE g[k] = step[k][g[k - 1]]
      <4>1. CASE k = m + 1
        BY <3>3, <4>1
      <4>2. CASE k # m + 1
        BY <3>2, <4>2
      <4> QED BY <4>1, <4>2
    <3> QED BY <3>1, <3>4
  <2> HIDE DEF Upto, g, v
  <2> QED BY <2>2, <2>4, <2>6
<1>3. \A m \in 0..n : m \in S
  <2> HIDE DEF S
  <2> QED BY <1>1, <1>2, UpTo
<1>4. n \in S
  BY <1>3
<1> QED BY <1>4

(* The function by which a fold over a finite set is defined exists, when the *)
(* element ch[s] it takes out of a set s is one of s.                        *)
Takes(ch, S) == \A s \in SUBSET S : s # {} => ch[s] \in s

FoldsOver(f, S, V, base, step, ch) ==
    /\ f \in [SUBSET S -> V]
    /\ \A s \in SUBSET S : f[s] = IF s = {} THEN base ELSE step[ch[s]][f[s \ {ch[s]}]]

(* A finite set without one of its elements. *)
LEMMA OneLess ==
    ASSUME NEW s, IsFiniteSet(s), NEW x \in s
    PROVE  Cardinality(s \ {x}) = Cardinality(s) - 1
BY FS_RemoveElement

LEMMA FoldRecursion ==
    ASSUME NEW V, NEW base \in V, NEW S, IsFiniteSet(S),
           NEW step \in [S -> [V -> V]], NEW ch, Takes(ch, S)
    PROVE  \E f : FoldsOver(f, S, V, base, step, ch)
<1> USE DEF Takes, FoldsOver
<1> DEFINE Good(s, f) == f[s] = IF s = {} THEN base ELSE step[ch[s]][f[s \ {ch[s]}]]
           Small(k) == {s \in SUBSET S : Cardinality(s) <= k}
           T == {k \in Nat : \E f \in [SUBSET S -> V] : \A s \in Small(k) : Good(s, f)}
<1>1. \A s \in SUBSET S : IsFiniteSet(s) /\ Cardinality(s) \in Nat
  BY FS_Subset, FS_CardinalityType
<1>2. 0 \in T
  <2> DEFINE f == [s \in SUBSET S |-> base]
  <2>1. ASSUME NEW s \in Small(0) PROVE s = {}
    <3>1. s \in SUBSET S /\ Cardinality(s) <= 0
      OBVIOUS
    <3> HIDE DEF Small
    <3>2. IsFiniteSet(s) /\ Cardinality(s) = 0
      BY <3>1, <1>1
    <3> QED BY <3>2, FS_EmptySet
  <2>2. \A s \in Small(0) : Good(s, f)
    BY <2>1
  <2>3. f \in [SUBSET S -> V]
    OBVIOUS
  <2> QED BY <2>2, <2>3
<1>3. ASSUME NEW k \in Nat, k \in T PROVE k + 1 \in T
  <2>1. PICK f \in [SUBSET S -> V] : \A s \in Small(k) : Good(s, f)
    BY <1>3
  <2> DEFINE g == [s \in SUBSET S |-> IF s = {} THEN base ELSE step[ch[s]][f[s \ {ch[s]}]]]
  <2>2. g \in [SUBSET S -> V]
    <3> SUFFICES ASSUME NEW s \in SUBSET S, s # {} PROVE step[ch[s]][f[s \ {ch[s]}]] \in V
      OBVIOUS
    <3>1. ch[s] \in S /\ s \ {ch[s]} \in SUBSET S
      OBVIOUS
    <3> QED BY <3>1
  <2>3. \A s \in Small(k) : g[s] = f[s]
    BY <2>1
  <2>4. \A s \in Small(k + 1) : s # {} => s \ {ch[s]} \in Small(k)
    <3> SUFFICES ASSUME NEW s \in Small(k + 1), s # {} PROVE s \ {ch[s]} \in Small(k)
      OBVIOUS
    <3>1. IsFiniteSet(s) /\ Cardinality(s) \in Nat /\ ch[s] \in s
      BY <1>1
    <3>2. Cardinality(s \ {ch[s]}) = Cardinality(s) - 1
      BY <3>1, OneLess
    <3>3. Cardinality(s) <= k + 1 /\ s \ {ch[s]} \in SUBSET S
      OBVIOUS
    <3> QED BY <3>1, <3>2, <3>3
  <2>5. \A s \in Small(k + 1) : Good(s, g)
    <3> SUFFICES ASSUME NEW s \in Small(k + 1) PROVE Good(s, g)
      OBVIOUS
    <3>1. s \in SUBSET S
      OBVIOUS
    <3>2. g[s] = IF s = {} THEN base ELSE step[ch[s]][f[s \ {ch[s]}]]
      BY <3>1
    <3>3. s # {} => g[s \ {ch[s]}] = f[s \ {ch[s]}]
      BY <2>3, <2>4
    <3> HIDE DEF g
    <3> QED BY <3>2, <3>3
  <2> HIDE DEF Good, g, Small
  <2> QED BY <2>2, <2>5
<1>4. Cardinality(S) \in T
  <2> HIDE DEF T
  <2>1. \A k \in Nat : k \in T
    BY <1>2, <1>3, Induction
  <2> QED BY <1>1, <2>1
<1>5. PICK f \in [SUBSET S -> V] : \A s \in Small(Cardinality(S)) : Good(s, f)
  BY <1>4
<1>6. \A s \in SUBSET S : s \in Small(Cardinality(S))
  BY FS_Subset
<1> HIDE DEF Small
<1> QED BY <1>5, <1>6

(* A function on all numbers, given by its values on some of them and, on the *)
(* others, by its value at a smaller one.                                    *)
Descent(f, n, stops, base, step, down) ==
    f[n] = IF n \in stops THEN base[n] ELSE step[n][f[down[n]]]

Descends(f, V, stops, base, step, down) ==
    f \in [Nat -> V] /\ \A n \in Nat : Descent(f, n, stops, base, step, down)

Falls(stops, down) == down \in [Nat -> Nat] /\ \A n \in Nat : n \notin stops => down[n] < n

LEMMA NatRecursion ==
    ASSUME NEW V, NEW stops, NEW base \in [Nat -> V],
           NEW step \in [Nat -> [V -> V]], NEW down, Falls(stops, down)
    PROVE  \E f : Descends(f, V, stops, base, step, down)
<1> DEFINE Upto(f, n) == \A m \in 0..n : Descent(f, m, stops, base, step, down)
           T == {n \in Nat : \E f \in [Nat -> V] : Upto(f, n)}
<1>1. \A n \in Nat : down[n] \in Nat /\ (n \notin stops => down[n] < n)
  BY DEF Falls
<1>2. ASSUME NEW n \in Nat, NEW f \in [Nat -> V], NEW v \in V,
             \A m \in 0..(n - 1) : Descent(f, m, stops, base, step, down),
             v = IF n \in stops THEN base[n] ELSE step[n][f[down[n]]]
      PROVE  n \in T
  <2> DEFINE g == [f EXCEPT ![n] = v]
  <2>1. g \in [Nat -> V] /\ g[n] = v /\ \A m \in Nat : m # n => g[m] = f[m]
    BY Updated
  <2> HIDE DEF g
  <2>2. ASSUME NEW m \in 0..n PROVE Descent(g, m, stops, base, step, down)
    <3>1. m \in Nat /\ (m \notin stops => down[m] \in Nat /\ down[m] # n /\ g[down[m]] = f[down[m]])
      BY <1>1, <2>1
    <3>2. CASE m = n
      BY <1>2, <2>1, <3>1, <3>2 DEF Descent
    <3>3. CASE m # n
      <4>1. m \in 0..(n - 1) /\ g[m] = f[m]
        BY <2>1, <3>1, <3>3
      <4>2. Descent(f, m, stops, base, step, down)
        BY <1>2, <4>1
      <4> QED BY <3>1, <4>1, <4>2 DEF Descent
    <3> QED BY <3>2, <3>3
  <2> QED BY <2>1, <2>2
<1>3. 0 \in T
  <2>1. PICK f \in [Nat -> V] : f = base
    OBVIOUS
  <2>2. 0 \in stops
    BY <1>1
  <2>3. base[0] \in V /\ \A m \in 0..(0 - 1) : FALSE
    OBVIOUS
  <2> HIDE DEF T
  <2> QED BY <1>2, <2>2, <2>3
<1>4. ASSUME NEW n \in Nat, n \in T PROVE n + 1 \in T
  <2>1. PICK f \in [Nat -> V] : Upto(f, n)
    BY <1>4
  <2> DEFINE v == IF n + 1 \in stops THEN base[n + 1] ELSE step[n + 1][f[down[n + 1]]]
  <2>2. n + 1 \in Nat /\ (n + 1) - 1 = n /\ v \in V
    BY <1>1
  <2> HIDE DEF T, v
  <2>3. v = IF n + 1 \in stops THEN base[n + 1] ELSE step[n + 1][f[down[n + 1]]]
    BY DEF v
  <2> QED BY <1>2, <2>1, <2>2, <2>3
<1>5. \A n \in Nat : n \in T
  <2> HIDE DEF T
  <2> QED BY <1>3, <1>4, Induction
<1>6. ASSUME NEW n \in Nat, NEW f \in [Nat -> V], NEW g \in [Nat -> V], Upto(f, n), Upto(g, n)
      PROVE  \A m \in 0..n : f[m] = g[m]
  <2> DEFINE Apart == {m \in 0..n : f[m] # g[m]}
  <2> SUFFICES ASSUME Apart # {} PROVE FALSE
    OBVIOUS
  <2>1. PICK m \in Apart : \A l \in Apart : m <= l
    <3>1. Apart \in SUBSET Nat
      OBVIOUS
    <3> QED BY <3>1, Least
  <2>2. m \in 0..n /\ f[m] # g[m]
    OBVIOUS
  <2>3. m \notin stops => down[m] \in 0..n /\ ~(m <= down[m])
    BY <1>1, <2>2
  <2>4. m \notin stops => f[down[m]] = g[down[m]]
    BY <2>1, <2>3
  <2>5. Descent(f, m, stops, base, step, down) /\ Descent(g, m, stops, base, step, down)
    BY <1>6, <2>2
  <2> QED BY <2>2, <2>4, <2>5 DEF Descent
<1> DEFINE Part(n) == CHOOSE f \in [Nat -> V] : Upto(f, n)
           F == [n \in Nat |-> Part(n)[n]]
<1>7. \A n \in Nat : Part(n) \in [Nat -> V] /\ Upto(Part(n), n)
  BY <1>5
<1> HIDE DEF T, Part
<1>8. F \in [Nat -> V]
  BY <1>7
<1>9. ASSUME NEW n \in Nat PROVE Descent(F, n, stops, base, step, down)
  <2>1. F[n] = Part(n)[n] /\ Descent(Part(n), n, stops, base, step, down)
    BY <1>7
  <2>2. n \notin stops => F[down[n]] = Part(n)[down[n]]
    <3> SUFFICES ASSUME n \notin stops PROVE F[down[n]] = Part(n)[down[n]]
      OBVIOUS
    <3> DEFINE d == down[n]
    <3>1. d \in Nat /\ d < n
      BY <1>1
    <3> HIDE DEF d
    <3>2. Upto(Part(n), d)
      BY <1>7, <3>1
    <3>3. F[d] = Part(d)[d] /\ d \in 0..d
      BY <3>1
    <3> HIDE DEF F, Upto
    <3>4. \A m \in 0..d : Part(d)[m] = Part(n)[m]
      BY <1>6, <1>7, <3>1, <3>2
    <3> QED BY <3>3, <3>4 DEF d
  <2> HIDE DEF F
  <2> QED BY <2>1, <2>2 DEF Descent
<1> HIDE DEF F
<1> QED BY <1>8, <1>9 DEF Descends

-----------------------------------------------------------------------------
(* A sequence with an element before it. *)
LEMMA PrependIs ==
    ASSUME NEW V, NEW x \in V, NEW y \in Seq(V), NEW z \in Seq(V), Len(z) = Len(y) + 1,
           z[1] = x, \A j \in 1..Len(y) : z[j + 1] = y[j]
    PROVE  z = <<x>> \o y
<1> DEFINE w == <<x>>
<1>1. w \in Seq(V) /\ Len(w) = 1 /\ w[1] = x
  OBVIOUS
<1>2. Len(y) \in Nat
  BY LenProperties
<1> HIDE DEF w
<1>3. /\ w \o y \in Seq(V) /\ Len(w \o y) = 1 + Len(y)
      /\ \A j \in 1..(1 + Len(y)) : (w \o y)[j] = IF j <= 1 THEN w[j] ELSE y[j - 1]
  <2>1. /\ w \o y \in Seq(V) /\ Len(w \o y) = Len(w) + Len(y)
        /\ \A j \in 1..(Len(w) + Len(y)) :
               (w \o y)[j] = IF j <= Len(w) THEN w[j] ELSE y[j - Len(w)]
    BY <1>1, ConcatProperties
  <2> QED BY <1>1, <2>1
<1>4. \A j \in 1..(1 + Len(y)) : (w \o y)[j] = z[j]
  <2> SUFFICES ASSUME NEW j \in 1..(1 + Len(y)) PROVE (w \o y)[j] = z[j]
    OBVIOUS
  <2>1. CASE j = 1
    BY <1>1, <1>2, <1>3, <2>1
  <2>2. CASE j # 1
    <3>1. j - 1 \in 1..Len(y) /\ (j - 1) + 1 = j /\ ~(j <= 1)
      BY <1>2, <2>2
    <3>2. z[(j - 1) + 1] = y[j - 1]
      BY <3>1
    <3> QED BY <1>3, <3>1, <3>2
  <2> QED BY <2>1, <2>2
<1>5. w \o y = z
  BY <1>2, <1>3, <1>4, SeqEqual
<1> QED BY <1>5 DEF w

(* A sequence as a function of its places. *)
Places(f, m) == f = [j \in 1..m |-> f[j]]

(* The same for sequences given by their places. *)
LEMMA Prepended ==
    ASSUME NEW x, NEW m \in Nat, NEW y, Places(y, m), NEW z, Places(z, m + 1),
           z[1] = x, \A j \in 1..m : z[j + 1] = y[j]
    PROVE  z = <<x>> \o y
<1> DEFINE V == {x} \cup {y[j] : j \in 1..m}
<1>1. x \in V /\ \A j \in 1..m : y[j] \in V
  OBVIOUS
<1>2. \A j \in 1..(m + 1) : z[j] \in V
  <2> SUFFICES ASSUME NEW j \in 1..(m + 1) PROVE z[j] \in V
    OBVIOUS
  <2>1. CASE j = 1
    BY <1>1, <2>1
  <2>2. CASE j # 1
    <3>1. j - 1 \in 1..m /\ (j - 1) + 1 = j
      BY <2>2
    <3> QED BY <1>1, <3>1
  <2> QED BY <2>1, <2>2
<1> HIDE DEF V
<1>3. y \in [1..m -> V] /\ z \in [1..(m + 1) -> V]
  BY <1>1, <1>2 DEF Places
<1>4. y \in Seq(V) /\ Len(y) = m
  BY <1>3, SeqDef
<1>5. z \in Seq(V) /\ Len(z) = m + 1
  BY <1>3, SeqDef
<1> QED BY <1>1, <1>4, <1>5, PrependIs

(* The string that a string begins with has the same parts. *)
LEMMA SameParts ==
    ASSUME NEW V, NEW s \in Seq(V), NEW t \in Seq(V), Len(t) <= Len(s),
           \A j \in 1..Len(t) : t[j] = s[j],
           NEW a \in Nat \ {0}, NEW b \in 0..Len(t)
    PROVE  SubSeq(t, a, b) = SubSeq(s, a, b)
<1>1. Len(s) \in Nat /\ Len(t) \in Nat
  BY LenProperties
<1>2. CASE a <= b
  <2> DEFINE m == b - a + 1
             x == SubSeq(t, a, b)
             y == SubSeq(s, a, b)
  <2>0. a \in 1..(Len(t) + 1) /\ b \in (a - 1)..Len(t) /\ a \in 1..(Len(s) + 1) /\ b \in (a - 1)..Len(s)
    BY <1>1, <1>2
  <2>1. /\ x \in Seq(V) /\ Len(x) = m
        /\ \A j \in 1..m : x[j] = t[a + j - 1]
    BY <2>0, SubSeqProperties
  <2>2. /\ y \in Seq(V) /\ Len(y) = m
        /\ \A j \in 1..m : y[j] = s[a + j - 1]
    BY <2>0, SubSeqProperties
  <2>3. \A j \in 1..m : a + j - 1 \in 1..Len(t)
    BY <1>1, <1>2
  <2> HIDE DEF x, y
  <2>4. x = y
    BY <2>1, <2>2, <2>3, SeqEqual
  <2> QED BY <2>4 DEF x, y
<1>3. CASE ~(a <= b)
  <2>1. SubSeq(t, a, b) = << >> /\ SubSeq(s, a, b) = << >>
    BY <1>1, <1>3, SubSeqEmpty
  <2> QED BY <2>1
<1> QED BY <1>2, <1>3

(* A sequence of elements of a set is one of elements of a greater one. *)
LEMMA SeqOfMore ==
    ASSUME NEW V, NEW U \in SUBSET V, NEW s \in Seq(U)
    PROVE  s \in Seq(V)
OBVIOUS

-----------------------------------------------------------------------------
(* A sum over a finite set, as the folds define it: the elements are taken    *)
(* out in the order in which they are chosen.                                *)
Picked(s) == CHOOSE x \in s : TRUE
Sums(f, S, w) == \A s \in SUBSET S : f[s] = IF s = {} THEN 0 ELSE w[Picked(s)] + f[s \ {Picked(s)}]
Weighs(w, S) == \A x \in S : w[x] \in Nat

LEMMA PickedIs == ASSUME NEW s, s # {} PROVE Picked(s) \in s
BY DEF Picked

(* What is proved of the empty set, and of every set of which it is known for *)
(* the smaller ones, holds of every finite one.                              *)
LEMMA SetInduction ==
    ASSUME NEW S, IsFiniteSet(S), NEW G,
           \A s \in SUBSET S : (\A x \in s : s \ {x} \in G) => s \in G
    PROVE  \A s \in SUBSET S : s \in G
<1> DEFINE T == {k \in Nat : \A s \in SUBSET S : Cardinality(s) = k => s \in G}
<1>1. \A s \in SUBSET S : IsFiniteSet(s) /\ Cardinality(s) \in Nat
  BY FS_Subset, FS_CardinalityType
<1>2. 0 \in T
  <2> SUFFICES ASSUME NEW s \in SUBSET S, Cardinality(s) = 0 PROVE s \in G
    OBVIOUS
  <2>1. s = {}
    BY <1>1, FS_EmptySet
  <2> QED BY <2>1
<1>3. ASSUME NEW k \in Nat, k \in T PROVE k + 1 \in T
  <2> SUFFICES ASSUME NEW s \in SUBSET S, Cardinality(s) = k + 1 PROVE s \in G
    OBVIOUS
  <2>1. ASSUME NEW x \in s PROVE s \ {x} \in G
    <3>0. IsFiniteSet(s)
      BY <1>1
    <3>1. Cardinality(s \ {x}) = Cardinality(s) - 1
      BY <3>0, OneLess
    <3>2. s \ {x} \in SUBSET S /\ Cardinality(s \ {x}) = k
      BY <3>1
    <3> QED BY <1>3, <3>2
  <2> QED BY <2>1
<1>4. \A k \in Nat : k \in T
  <2> HIDE DEF T
  <2> QED BY <1>2, <1>3, Induction
<1> QED BY <1>1, <1>4

LEMMA SumsExist ==
    ASSUME NEW S, IsFiniteSet(S), NEW w, Weighs(w, S)
    PROVE  \E f : f \in [SUBSET S -> Nat] /\ Sums(f, S, w)
<1> DEFINE step == [x \in S |-> [v \in Nat |-> w[x] + v]]
           ch == [s \in SUBSET S |-> Picked(s)]
<1>1. step \in [S -> [Nat -> Nat]]
  BY DEF Weighs
<1>2. Takes(ch, S)
  BY PickedIs DEF Takes
<1>3. \A x \in S : \A v \in Nat : step[x][v] = w[x] + v
  OBVIOUS
<1>4. \A s \in SUBSET S : ch[s] = Picked(s)
  OBVIOUS
<1> HIDE DEF step, ch
<1>5. 0 \in Nat
  OBVIOUS
<1>6. PICK f : FoldsOver(f, S, Nat, 0, step, ch)
  BY <1>1, <1>2, <1>5, FoldRecursion
<1>7. f \in [SUBSET S -> Nat]
  BY <1>6 DEF FoldsOver
<1>8. Sums(f, S, w)
  <2> SUFFICES ASSUME NEW s \in SUBSET S
               PROVE  f[s] = IF s = {} THEN 0 ELSE w[Picked(s)] + f[s \ {Picked(s)}]
    BY DEF Sums
  <2>1. f[s] = IF s = {} THEN 0 ELSE step[ch[s]][f[s \ {ch[s]}]]
    BY <1>6 DEF FoldsOver
  <2>2. CASE s = {}
    BY <2>1, <2>2
  <2>3. CASE s # {}
    <3>1. Picked(s) \in S /\ s \ {Picked(s)} \in SUBSET S
      BY <2>3, PickedIs
    <3>2. f[s \ {Picked(s)}] \in Nat
      BY <1>7, <3>1
    <3> QED BY <1>3, <1>4, <2>1, <2>3, <3>1, <3>2
  <2> QED BY <2>2, <2>3
<1> QED BY <1>7, <1>8

(* Two sums over a set agree, if the weights are the same on it. *)
LEMMA SumsAgree ==
    ASSUME NEW S, IsFiniteSet(S), NEW f, NEW g, NEW w, NEW v,
           Sums(f, S, w), Sums(g, S, v), \A x \in S : w[x] = v[x]
    PROVE  \A s \in SUBSET S : f[s] = g[s]
<1> DEFINE G == {s \in SUBSET S : f[s] = g[s]}
<1>1. ASSUME NEW s \in SUBSET S, \A x \in s : s \ {x} \in G PROVE s \in G
  <2>1. /\ f[s] = IF s = {} THEN 0 ELSE w[Picked(s)] + f[s \ {Picked(s)}]
        /\ g[s] = IF s = {} THEN 0 ELSE v[Picked(s)] + g[s \ {Picked(s)}]
    BY DEF Sums
  <2>2. CASE s = {}
    BY <2>1, <2>2
  <2>3. CASE s # {}
    <3>1. Picked(s) \in s
      BY <2>3, PickedIs
    <3>2. f[s \ {Picked(s)}] = g[s \ {Picked(s)}] /\ w[Picked(s)] = v[Picked(s)]
      BY <1>1, <3>1
    <3> QED BY <2>1, <2>3, <3>2
  <2> QED BY <2>2, <2>3
<1> HIDE DEF G
<1>2. \A s \in SUBSET S : s \in G
  BY <1>1, SetInduction
<1> QED BY <1>2 DEF G

(* Any element may be taken out first. *)
AnyFirst(f, S, w) == \A s \in SUBSET S : \A x \in s : f[s] = w[x] + f[s \ {x}]

LEMMA SumsTake ==
    ASSUME NEW S, IsFiniteSet(S), NEW f, f \in [SUBSET S -> Nat], NEW w, Weighs(w, S), Sums(f, S, w)
    PROVE  AnyFirst(f, S, w)
<1> DEFINE G == {s \in SUBSET S : \A y \in s : f[s] = w[y] + f[s \ {y}]}
<1>1. ASSUME NEW s \in SUBSET S, \A x \in s : s \ {x} \in G PROVE s \in G
  <2> SUFFICES ASSUME NEW x \in s PROVE f[s] = w[x] + f[s \ {x}]
    OBVIOUS
  <2> DEFINE p == Picked(s)
  <2>1. f[s] = w[p] + f[s \ {p}] /\ p \in s
    BY PickedIs DEF Sums
  <2> HIDE DEF p
  <2>2. CASE x = p
    BY <2>1, <2>2
  <2>3. CASE x # p
    <3>1. s \ {p} \in G /\ x \in s \ {p} /\ s \ {x} \in G /\ p \in s \ {x}
      BY <1>1, <2>1, <2>3
    <3>2. f[s \ {p}] = w[x] + f[(s \ {p}) \ {x}] /\ f[s \ {x}] = w[p] + f[(s \ {x}) \ {p}]
      BY <3>1
    <3>3. (s \ {p}) \ {x} = (s \ {x}) \ {p} /\ (s \ {x}) \ {p} \in SUBSET S
      OBVIOUS
    <3>4. w[x] \in Nat /\ w[p] \in Nat /\ f[(s \ {x}) \ {p}] \in Nat
      BY <2>1, <3>3 DEF Weighs
    <3> DEFINE a == f[(s \ {x}) \ {p}]
    <3>5. f[s \ {p}] = w[x] + a /\ f[s \ {x}] = w[p] + a /\ a \in Nat
      BY <3>2, <3>3, <3>4
    <3> HIDE DEF a
    <3>6. w[p] + (w[x] + a) = w[x] + (w[p] + a)
      BY <3>4, <3>5
    <3> QED BY <2>1, <3>5, <3>6
  <2> QED BY <2>2, <2>3
<1> HIDE DEF G
<1>2. \A s \in SUBSET S : s \in G
  BY <1>1, SetInduction
<1> QED BY <1>2 DEF G, AnyFirst

(* The sum of the weights of a set. *)
Total(S, w) == (CHOOSE f : f \in [SUBSET S -> Nat] /\ Sums(f, S, w))[S]

LEMMA TotalIs ==
    ASSUME NEW S, IsFiniteSet(S), NEW w, Weighs(w, S), NEW f, Sums(f, S, w)
    PROVE  f[S] = Total(S, w)
<1> DEFINE g == CHOOSE h : h \in [SUBSET S -> Nat] /\ Sums(h, S, w)
<1>1. g \in [SUBSET S -> Nat] /\ Sums(g, S, w)
  BY SumsExist
<1>2. Total(S, w) = g[S]
  BY DEF Total
<1> HIDE DEF g
<1>3. S \in SUBSET S /\ \A x \in S : w[x] = w[x]
  OBVIOUS
<1>4. \A s \in SUBSET S : f[s] = g[s]
  BY <1>1, <1>3, SumsAgree
<1> QED BY <1>2, <1>3, <1>4

LEMMA TotalType ==
    ASSUME NEW S, IsFiniteSet(S), NEW w, Weighs(w, S)
    PROVE  Total(S, w) \in Nat
<1>1. PICK f : f \in [SUBSET S -> Nat] /\ Sums(f, S, w)
  BY SumsExist
<1>2. f[S] = Total(S, w)
  BY <1>1, TotalIs
<1> QED BY <1>1, <1>2

LEMMA TotalNone == ASSUME NEW w PROVE Total({}, w) = 0
<1>1. IsFiniteSet({}) /\ Weighs(w, {})
  BY FS_EmptySet DEF Weighs
<1>2. PICK f : Sums(f, {}, w)
  BY <1>1, SumsExist
<1>3. f[{}] = Total({}, w)
  BY <1>1, <1>2, TotalIs
<1> QED BY <1>2, <1>3 DEF Sums

(* The weights count on the set only. *)
LEMMA TotalSame ==
    ASSUME NEW S, IsFiniteSet(S), NEW w, NEW v, Weighs(w, S), \A x \in S : w[x] = v[x]
    PROVE  Total(S, w) = Total(S, v)
<1>1. Weighs(v, S)
  BY DEF Weighs
<1>2. PICK f : Sums(f, S, w)
  BY SumsExist
<1>3. PICK g : Sums(g, S, v)
  BY <1>1, SumsExist
<1>4. S \in SUBSET S
  OBVIOUS
<1>5. \A s \in SUBSET S : f[s] = g[s]
  BY <1>2, <1>3, <1>4, SumsAgree
<1>6. f[S] = Total(S, w)
  BY <1>2, TotalIs
<1>7. g[S] = Total(S, v)
  BY <1>1, <1>3, TotalIs
<1> QED BY <1>4, <1>5, <1>6, <1>7

(* An element more. *)
LEMMA TotalTake ==
    ASSUME NEW S, IsFiniteSet(S), NEW w, Weighs(w, S), NEW x \in S
    PROVE  Total(S, w) = w[x] + Total(S \ {x}, w) /\ Total(S \ {x}, w) \in Nat
<1> DEFINE R == S \ {x}
<1>1. R \in SUBSET S /\ IsFiniteSet(R) /\ Weighs(w, R)
  BY FS_Subset DEF Weighs
<1>2. PICK f : f \in [SUBSET S -> Nat] /\ Sums(f, S, w)
  BY SumsExist
<1>3. PICK g : Sums(g, R, w)
  BY <1>1, SumsExist
<1>4. f[S] = w[x] + f[R]
  <2>0. f \in [SUBSET S -> Nat] /\ Sums(f, S, w)
    BY <1>2
  <2>1. AnyFirst(f, S, w)
    BY <2>0, SumsTake
  <2>2. S \in SUBSET S
    OBVIOUS
  <2> QED BY <2>1, <2>2 DEF AnyFirst
<1> HIDE DEF R
<1>5. \A s \in SUBSET R : g[s] = f[s]
  <2>1. Sums(f, R, w)
    BY <1>1, <1>2 DEF Sums
  <2>2. \A y \in R : w[y] = w[y]
    OBVIOUS
  <2> QED BY <1>1, <1>3, <2>1, <2>2, SumsAgree
<1>6. R \in SUBSET R
  OBVIOUS
<1>7. f[S] = Total(S, w)
  BY <1>2, TotalIs
<1>8. g[R] = Total(R, w)
  BY <1>1, <1>3, TotalIs
<1>9. f[R] = Total(R, w)
  BY <1>5, <1>6, <1>8
<1>10. Total(R, w) \in Nat
  BY <1>1, TotalType
<1> QED BY <1>4, <1>7, <1>9, <1>10 DEF R

LEMMA TotalAdd ==
    ASSUME NEW S, IsFiniteSet(S), NEW w, Weighs(w, S), NEW x, x \notin S, w[x] \in Nat
    PROVE  Total(S \cup {x}, w) = w[x] + Total(S, w)
<1> DEFINE R == S \cup {x}
<1>1. IsFiniteSet(R) /\ Weighs(w, R) /\ x \in R /\ R \ {x} = S
  BY FS_AddElement DEF Weighs
<1> HIDE DEF R
<1>2. Total(R, w) = w[x] + Total(R \ {x}, w)
  BY <1>1, TotalTake
<1> QED BY <1>1, <1>2 DEF R

(* One weight changed. *)
LEMMA TotalChange ==
    ASSUME NEW S, IsFiniteSet(S), NEW w, NEW v, Weighs(w, S), Weighs(v, S), NEW x \in S,
           \A y \in S : y # x => w[y] = v[y]
    PROVE  Total(S, w) + v[x] = Total(S, v) + w[x]
<1> DEFINE R == S \ {x}
<1>1. Total(S, w) = w[x] + Total(R, w) /\ Total(R, w) \in Nat
  BY TotalTake
<1>2. Total(S, v) = v[x] + Total(R, v) /\ Total(R, v) \in Nat
  BY TotalTake
<1>3. IsFiniteSet(R) /\ Weighs(w, R) /\ \A y \in R : w[y] = v[y]
  BY FS_Subset DEF Weighs
<1> HIDE DEF R
<1>4. Total(R, w) = Total(R, v)
  BY <1>3, TotalSame
<1>5. w[x] \in Nat /\ v[x] \in Nat
  BY DEF Weighs
<1> QED BY <1>1, <1>2, <1>4, <1>5

(* The weights of a sequence, with one before them. *)
LEMMA TotalShift ==
    ASSUME NEW n \in Nat, NEW w, NEW v, Weighs(w, 1..n), v[1] \in Nat,
           \A k \in 1..n : v[k + 1] = w[k]
    PROVE  Total(1..(n + 1), v) = v[1] + Total(1..n, w)
<1> DEFINE T == {k \in 0..n : Total(1..(k + 1), v) = v[1] + Total(1..k, w)}
<1>1. \A k \in 0..n : IsFiniteSet(1..k) /\ IsFiniteSet(1..(k + 1))
  <2>1. \A k \in 0..n : k \in Int /\ k + 1 \in Int /\ 1 \in Int
    OBVIOUS
  <2> QED BY <2>1, FS_Interval
<1>2. \A k \in 1..(n + 1) : v[k] \in Nat
  <2> SUFFICES ASSUME NEW k \in 1..(n + 1) PROVE v[k] \in Nat
    OBVIOUS
  <2>1. CASE k = 1
    BY <2>1
  <2>2. CASE k # 1
    <3>1. k - 1 \in 1..n /\ (k - 1) + 1 = k
      BY <2>2
    <3>2. v[(k - 1) + 1] = w[k - 1] /\ w[k - 1] \in Nat
      BY <3>1 DEF Weighs
    <3> QED BY <3>1, <3>2
  <2> QED BY <2>1, <2>2
<1>3. 0 \in T
  <2>1. 1..0 = {} /\ 1..(0 + 1) = {} \cup {1} /\ 1 \notin {}
    OBVIOUS
  <2>2. IsFiniteSet({}) /\ Weighs(v, {})
    BY FS_EmptySet DEF Weighs
  <2>3. Total({} \cup {1}, v) = v[1] + Total({}, v)
    BY <2>1, <2>2, TotalAdd
  <2>4. Total({}, v) = 0 /\ Total({}, w) = 0
    BY TotalNone
  <2> QED BY <2>1, <2>3, <2>4
<1>4. ASSUME NEW k \in 0..(n - 1), k \in T PROVE k + 1 \in T
  <2>1. k \in 0..n /\ k + 1 \in 0..n /\ k + 1 \in 1..n /\ (k + 1) + 1 \in 1..(n + 1)
    OBVIOUS
  <2>2. 1..(k + 1) = (1..k) \cup {k + 1} /\ k + 1 \notin 1..k
    OBVIOUS
  <2>3. 1..((k + 1) + 1) = (1..(k + 1)) \cup {(k + 1) + 1} /\ (k + 1) + 1 \notin 1..(k + 1)
    OBVIOUS
  <2>4. Weighs(w, 1..k) /\ w[k + 1] \in Nat
    BY DEF Weighs
  <2>5. Weighs(v, 1..(k + 1)) /\ v[(k + 1) + 1] \in Nat
    BY <1>2, <2>1 DEF Weighs
  <2>6. Total(1..(k + 1), w) = w[k + 1] + Total(1..k, w)
    BY <1>1, <2>1, <2>2, <2>4, TotalAdd
  <2>7. Total(1..((k + 1) + 1), v) = v[(k + 1) + 1] + Total(1..(k + 1), v)
    BY <1>1, <2>1, <2>3, <2>5, TotalAdd
  <2>8. v[(k + 1) + 1] = w[k + 1] /\ Total(1..(k + 1), v) = v[1] + Total(1..k, w)
    BY <1>4, <2>1
  <2>9. Total(1..k, w) \in Nat
    BY <1>1, <2>1, <2>4, TotalType
  <2> QED BY <2>1, <2>4, <2>6, <2>7, <2>8, <2>9
<1>5. \A k \in 0..n : k \in T
  <2> HIDE DEF T
  <2> QED BY <1>3, <1>4, UpTo
<1>6. n \in T
  BY <1>5
<1> QED BY <1>6
=============================================================================

--------------------------- MODULE SequenceLemmas ---------------------------
(***************************************************************************)
(* What proofs about several components need to know of sequences and      *)
(* tables: stacks, induction along a table, sequences that are cut and put *)
(* together, and how often a value occurs.                                 *)
(***************************************************************************)
EXTENDS Integers, Sequences, FiniteSets, SequencesExt, FiniteSetTheorems, SequenceTheorems,
        WellFoundedInduction, TLAPS

(* The last element is replaced.                                           *)
LEMMA LastReplaced ==
  ASSUME NEW S, NEW s \in Seq(S), s # <<>>, NEW e \in S
  PROVE  LET t == [s EXCEPT ![Len(s)] = e] IN
         /\ t \in Seq(S) /\ Len(t) = Len(s) /\ t[Len(s)] = e
         /\ \A n \in 1 .. Len(s) - 1 : t[n] = s[n]
OBVIOUS

(* The last element is removed.                                            *)
LEMMA LastRemoved ==
  ASSUME NEW S, NEW s \in Seq(S), s # <<>>
  PROVE  LET t == SubSeq(s, 1, Len(s) - 1) IN
         /\ t \in Seq(S) /\ Len(t) = Len(s) - 1
         /\ \A n \in 1 .. Len(s) - 1 : t[n] = s[n]
<1>1. PICK k \in Nat : k = Len(s) - 1
  OBVIOUS
<1>2. \A n \in 1 .. k : s[n] \in S
  BY <1>1
<1>3. /\ SubSeq(s, 1, k) \in Seq(S)
      /\ Len(SubSeq(s, 1, k)) = IF 1 <= k THEN k - 1 + 1 ELSE 0
      /\ \A n \in 1 .. k - 1 + 1 : SubSeq(s, 1, k)[n] = s[1 + n - 1]
  BY <1>2, SubSeqProperties
<1>4. \A n \in 1 .. k : SubSeq(s, 1, k)[n] = s[n]
  BY <1>3
<1> QED BY <1>1, <1>3, <1>4

(* A sequence is the function of its elements.                             *)
LEMMA SequenceIsFunction ==
  ASSUME NEW S, NEW s \in Seq(S)
  PROVE  s = [n \in 1 .. Len(s) |-> s[n]]
OBVIOUS

-----------------------------------------------------------------------------

(* A set of natural numbers has a least element.                           *)
LEMMA LeastElement ==
  ASSUME NEW S \in SUBSET Nat, S # {}
  PROVE  \E x \in S : \A y \in S : x <= y
<1> DEFINE R == {ss \in Nat \X Nat : ss[1] < ss[2]}
<1>1. IsWellFoundedOn(R, Nat)
  BY NatLessThanWellFounded DEF OpToRel
<1>2. PICK x \in S : \A y \in S : <<y, x>> \notin R
  <2> HIDE DEF R
  <2> QED BY <1>1, WFMin
<1>3. \A y \in S : (<<y, x>> \in R) <=> y < x
  OBVIOUS
<1> HIDE DEF R
<1>4. ASSUME NEW y \in S
      PROVE  x <= y
  <2>1. ~(y < x)
    BY <1>2, <1>3, Zenon
  <2> QED BY <2>1
<1> QED BY <1>4

(* What holds of the first value of a table, and of each if it holds of    *)
(* the one before, holds of all.  S is the set of values of which it holds. *)
LEMMA StaysAlong ==
  ASSUME NEW S, NEW n \in Nat, NEW f,
         f[0] \in S,
         \A i \in 1 .. n : f[i - 1] \in S => f[i] \in S
  PROVE  \A i \in 0 .. n : f[i] \in S
<1> DEFINE Bad == {i \in 0 .. n : f[i] \notin S}
<1>1. SUFFICES ASSUME Bad # {} PROVE FALSE
  OBVIOUS
<1>2. PICK m \in Bad : \A y \in Bad : m <= y
  <2>1. Bad \in SUBSET Nat
    OBVIOUS
  <2> HIDE DEF Bad
  <2> QED BY <1>1, <2>1, LeastElement
<1>3. m \in 1 .. n
  OBVIOUS
<1>4. m - 1 \in 0 .. n /\ m - 1 \notin Bad
  BY <1>2, <1>3
<1> QED BY <1>2, <1>3, <1>4

(* A table in which each value is made of the one before exists.           *)
IsTable(f, n, first, step) == f[0] = first /\ \A i \in 1 .. n : f[i] = step[i][f[i - 1]]

LEMMA TableExists ==
  ASSUME NEW S, NEW n \in Nat, NEW first \in S, NEW step \in [1 .. n -> [S -> S]]
  PROVE  \E f \in [0 .. n -> S] : IsTable(f, n, first, step)
<1> USE DEF IsTable
<1> DEFINE Table(m, f) == f[0] = first /\ \A i \in 1 .. m : f[i] = step[i][f[i - 1]]
           Bad == {m \in 0 .. n : ~\E f \in [0 .. m -> S] : Table(m, f)}
<1>1. SUFFICES ASSUME Bad # {} PROVE FALSE
  <2>1. n \in 0 .. n
    OBVIOUS
  <2> QED BY <2>1
<1>2. PICK m \in Bad : \A y \in Bad : m <= y
  <2>1. Bad \in SUBSET Nat
    OBVIOUS
  <2> HIDE DEF Bad
  <2> QED BY <1>1, <2>1, LeastElement
<1>3. CASE m = 0
  <2>1. [i \in 0 .. 0 |-> first] \in [0 .. 0 -> S]
    OBVIOUS
  <2>2. Table(0, [i \in 0 .. 0 |-> first])
    OBVIOUS
  <2> QED BY <1>2, <1>3, <2>1, <2>2
<1>4. CASE m # 0
  <2>1. m - 1 \in 0 .. n /\ ~(m <= m - 1)
    BY <1>4
  <2>2. m - 1 \notin Bad
    BY <1>2, <2>1
  <2>3. PICK f \in [0 .. m - 1 -> S] : Table(m - 1, f)
    BY <2>1, <2>2
  <2> DEFINE g == [i \in 0 .. m |-> IF i = m THEN step[m][f[m - 1]] ELSE f[i]]
  <2>4. g \in [0 .. m -> S]
    BY <1>2, <1>4
  <2>5. ASSUME NEW i \in 1 .. m
        PROVE  g[i] = step[i][g[i - 1]]
    <3>1. CASE i = m
      BY <1>4, <3>1
    <3>2. CASE i # m
      <4>1. i \in 1 .. m - 1 /\ g[i] = f[i] /\ g[i - 1] = f[i - 1]
        BY <3>2
      <4> QED BY <2>3, <4>1
    <3> QED BY <3>1, <3>2
  <2>6. g[0] = first
    BY <1>4, <2>3
  <2> QED BY <1>2, <2>4, <2>5, <2>6
<1> QED BY <1>3, <1>4

-----------------------------------------------------------------------------

LEMMA Widened ==
  ASSUME NEW T, NEW U, NEW s \in Seq(U), U \subseteq T
  PROVE  s \in Seq(T)
BY SeqDef

(* A sequence that begins as s does, up to o, and ends as s does, behind   *)
(* o + n, with e in between.                                               *)
Splice(s, o, n, e) == (SubSeq(s, 1, o) \o e) \o SubSeq(s, o + n + 1, Len(s))

IsSplice(t, s, o, n, e) ==
  /\ Len(t) = Len(s) - n + Len(e)
  /\ \A k \in 1 .. o : t[k] = s[k]
  /\ \A k \in 1 .. Len(e) : t[o + k] = e[k]
  /\ \A k \in o + n + 1 .. Len(s) : t[k - n + Len(e)] = s[k]

LEMMA Spliced ==
  ASSUME NEW T, NEW s \in Seq(T), NEW o \in Nat, NEW n \in Nat, o + n <= Len(s), NEW e \in Seq(T)
  PROVE  Splice(s, o, n, e) \in Seq(T) /\ IsSplice(Splice(s, o, n, e), s, o, n, e)
<1>1. PICK a : a = SubSeq(s, 1, o)
  OBVIOUS
<1>2. PICK b : b = SubSeq(s, o + n + 1, Len(s))
  OBVIOUS
<1>3. Len(s) \in Nat /\ Len(e) \in Nat
  BY LenProperties
<1>4. a \in Seq(T) /\ Len(a) = o /\ \A k \in 1 .. o : a[k] = s[k]
  <2>1. 1 \in 1 .. Len(s) + 1 /\ o \in 1 - 1 .. Len(s) /\ o - 1 + 1 = o
    BY <1>3
  <2>2. /\ a \in Seq(T) /\ Len(a) = o - 1 + 1
        /\ \A k \in 1 .. o - 1 + 1 : a[k] = s[1 + k - 1]
    BY <1>1, <2>1, SubSeqProperties
  <2> QED BY <2>1, <2>2
<1>5. b \in Seq(T) /\ Len(b) = Len(s) - o - n /\ \A k \in o + n + 1 .. Len(s) : b[k - o - n] = s[k]
  <2>1. PICK m, z : m = o + n + 1 /\ z = Len(s)
    OBVIOUS
  <2>2. m \in 1 .. Len(s) + 1 /\ z \in m - 1 .. Len(s) /\ z - m + 1 = Len(s) - o - n /\ m \in Nat
    BY <1>3, <2>1
  <2>3. b = SubSeq(s, m, z)
    BY <1>2, <2>1
  <2>4. b \in Seq(T) /\ Len(b) = z - m + 1 /\ \A k \in 1 .. z - m + 1 : b[k] = s[m + k - 1]
    BY <2>2, <2>3, SubSeqProperties
  <2>5. ASSUME NEW k \in o + n + 1 .. Len(s)
        PROVE  b[k - o - n] = s[k]
    <3>1. PICK j : j = k - o - n
      OBVIOUS
    <3>2. j \in 1 .. z - m + 1 /\ m + j - 1 = k
      BY <1>3, <2>1, <3>1
    <3>3. b[j] = s[m + j - 1]
      BY <2>4, <3>2
    <3> QED BY <3>1, <3>2, <3>3
  <2> QED BY <2>2, <2>4, <2>5
<1>6. PICK c : c = a \o e
  OBVIOUS
<1>7. /\ c \in Seq(T) /\ Len(c) = o + Len(e)
      /\ \A k \in 1 .. o + Len(e) : c[k] = IF k <= o THEN a[k] ELSE e[k - o]
  BY <1>4, <1>6, ConcatProperties
<1>8. PICK t : t = c \o b
  OBVIOUS
<1>9. /\ t \in Seq(T) /\ Len(t) = Len(c) + Len(b)
      /\ \A k \in 1 .. Len(c) + Len(b) : t[k] = IF k <= Len(c) THEN c[k] ELSE b[k - Len(c)]
  <2>1. c \in Seq(T) /\ b \in Seq(T)
    BY <1>5, <1>7
  <2>2. /\ c \o b \in Seq(T) /\ Len(c \o b) = Len(c) + Len(b)
        /\ \A k \in 1 .. Len(c) + Len(b) : (c \o b)[k] = IF k <= Len(c) THEN c[k] ELSE b[k - Len(c)]
    BY ONLY <2>1, ConcatProperties
  <2> QED BY ONLY <2>2, <1>8
<1>10. Splice(s, o, n, e) = t
  BY <1>1, <1>2, <1>6, <1>8 DEF Splice
<1>11. Len(t) = Len(s) - n + Len(e)
  BY <1>3, <1>5, <1>7, <1>9
<1>12. ASSUME NEW k \in 1 .. o
       PROVE  t[k] = s[k]
  <2>1. k \in 1 .. Len(c) + Len(b) /\ k \in 1 .. o + Len(e) /\ k <= o /\ k <= Len(c)
    BY <1>3, <1>5, <1>7
  <2>2. t[k] = c[k]
    BY <1>9, <2>1
  <2>3. c[k] = a[k]
    BY <1>7, <2>1
  <2> QED BY <1>4, <2>2, <2>3
<1>13. ASSUME NEW k \in 1 .. Len(e)
       PROVE  t[o + k] = e[k]
  <2>1. PICK j : j = o + k
    OBVIOUS
  <2>2. j \in 1 .. Len(c) + Len(b) /\ j \in 1 .. o + Len(e) /\ ~(j <= o) /\ j <= Len(c) /\ j - o = k
    BY <1>3, <1>5, <1>7, <2>1
  <2>3. t[j] = c[j]
    BY <1>9, <2>2
  <2>4. c[j] = e[j - o]
    BY <1>7, <2>2
  <2> QED BY <2>1, <2>2, <2>3, <2>4
<1>14. ASSUME NEW k \in o + n + 1 .. Len(s)
       PROVE  t[k - n + Len(e)] = s[k]
  <2>1. PICK j : j = k - n + Len(e)
    OBVIOUS
  <2>2. j \in 1 .. Len(c) + Len(b) /\ ~(j <= Len(c)) /\ j - Len(c) = k - o - n
    BY <1>3, <1>5, <1>7, <2>1
  <2>3. t[j] = b[j - Len(c)]
    BY <1>9, <2>2
  <2> QED BY <1>5, <2>1, <2>2, <2>3
<1>15. IsSplice(t, s, o, n, e)
  BY <1>11, <1>12, <1>13, <1>14 DEF IsSplice
<1> QED BY <1>9, <1>10, <1>15

(* Sequences one behind the other (FlattenSeq of SequencesExt).            *)
LEMMA Flattened ==
  ASSUME NEW T, NEW ss \in Seq(Seq(T))
  PROVE  FlattenSeq(ss) \in Seq(T)
<1>1. Len(ss) \in Nat /\ \A i \in 1 .. Len(ss) : ss[i] \in Seq(T)
  OBVIOUS
<1>2. CASE Len(ss) = 0
  <2>1. FlattenSeq(ss) = ss
    BY <1>2 DEF FlattenSeq
  <2>2. ss = <<>>
    BY <1>2
  <2> QED BY <2>1, <2>2
<1>3. CASE Len(ss) # 0
  <2>2. PICK n \in Nat : n = Len(ss) - 1
    <3>1. PICK l : l = Len(ss)
      OBVIOUS
    <3>2. l \in Nat /\ l # 0
      BY <1>1, <1>3, <3>1
    <3>3. l - 1 \in Nat
      BY ONLY <3>2
    <3> QED BY ONLY <3>1, <3>3
  <2> DEFINE Flat(f) == [i \in 1 .. Len(ss) |-> IF i = 1 THEN ss[i] ELSE f[i - 1] \o ss[i]]
             flatten == CHOOSE f : f = Flat(f)
  <2>1. FlattenSeq(ss) = flatten[Len(ss)]
    BY <1>3, Zenon DEF FlattenSeq
  <2> HIDE DEF Flat, flatten
  <2>3. ASSUME NEW s \in Seq(T), NEW i \in 1 .. n
        PROVE  s \o ss[i + 1] \in Seq(T)
    <3>1. ss[i + 1] \in Seq(T)
      BY <1>1, <2>2
    <3> QED BY <3>1, ConcatProperties
  <2>4. PICK S : S = Seq(T)
    OBVIOUS
  <2>5. PICK step \in [1 .. n -> [S -> S]] : \A i \in 1 .. n, s \in S : step[i][s] = s \o ss[i + 1]
    <3>1. [i \in 1 .. n |-> [s \in S |-> s \o ss[i + 1]]] \in [1 .. n -> [S -> S]]
      BY <2>3, <2>4
    <3> QED BY <3>1
  <2>6. PICK g \in [0 .. n -> S] : g[0] = ss[1] /\ \A i \in 1 .. n : g[i] = step[i][g[i - 1]]
    <3>1. PICK first \in S : first = ss[1]
      BY <1>1, <1>3, <2>4
    <3>2. \E g \in [0 .. n -> S] : IsTable(g, n, first, step)
      BY TableExists
    <3> QED BY ONLY <3>1, <3>2 DEF IsTable
  <2>7. PICK h : h = [i \in 1 .. Len(ss) |-> g[i - 1]]
    OBVIOUS
  <2>8. h = Flat(h)
    <3>1. ASSUME NEW i \in 1 .. Len(ss)
          PROVE  h[i] = IF i = 1 THEN ss[i] ELSE h[i - 1] \o ss[i]
      <4>1. CASE i = 1
        BY <2>2, <2>6, <2>7, <4>1
      <4>2. CASE i # 1
        <5>1. PICK j \in 1 .. n : j = i - 1
          BY <1>1, <2>2, <4>2
        <5>2. h[i] = g[j] /\ h[i - 1] = g[j - 1] /\ j + 1 = i
          <6>1. i - 1 \in 1 .. Len(ss)
            BY <1>1, <4>2
          <6> QED BY <2>7, <5>1, <6>1
        <5>3. g[j] = step[j][g[j - 1]] /\ g[j - 1] \in S
          <6>1. j - 1 \in 0 .. n
            OBVIOUS
          <6> QED BY <2>6, <6>1
        <5>4. step[j][g[j - 1]] = g[j - 1] \o ss[j + 1]
          BY <2>5, <5>3
        <5> QED BY <4>2, <5>2, <5>3, <5>4
      <4> QED BY <4>1, <4>2
    <3>2. h = [i \in 1 .. Len(ss) |-> h[i]]
      BY <2>7
    <3> QED BY <3>1, <3>2 DEF Flat
  <2>9. flatten = Flat(flatten)
    <3>1. \E f : f = Flat(f)
      BY <2>8
    <3> QED BY <3>1, Zenon DEF flatten
  <2>10. \A i \in 1 .. Len(ss) : flatten[i] = IF i = 1 THEN ss[i] ELSE flatten[i - 1] \o ss[i]
    <3>1. flatten = [i \in 1 .. Len(ss) |-> IF i = 1 THEN ss[i] ELSE flatten[i - 1] \o ss[i]]
      BY <2>9 DEF Flat
    <3> QED BY ONLY <3>1
  <2>11. PICK f : f = [i \in 0 .. n |-> flatten[i + 1]]
    OBVIOUS
  <2>12. f[0] \in Seq(T)
    BY <1>1, <1>3, <2>2, <2>10, <2>11
  <2>13. ASSUME NEW i \in 1 .. n, f[i - 1] \in Seq(T)
         PROVE  f[i] \in Seq(T)
    <3>1. f[i] = flatten[i + 1] /\ f[i - 1] = flatten[i]
      BY <2>2, <2>11
    <3>2. i + 1 \in 1 .. Len(ss) /\ i + 1 # 1 /\ i + 1 - 1 = i
      BY <2>2
    <3>3. flatten[i + 1] = flatten[i] \o ss[i + 1]
      <4>1. PICK j \in 1 .. Len(ss) : j = i + 1
        BY <3>2
      <4>2. flatten[j] = flatten[j - 1] \o ss[j]
        BY <2>10, <3>2, <4>1
      <4>3. j - 1 = i
        BY <4>1
      <4> QED BY <4>1, <4>2, <4>3
    <3>4. ss[i + 1] \in Seq(T)
      BY <1>1, <3>2
    <3> QED BY <2>13, <3>1, <3>3, <3>4, ConcatProperties
  <2>14. f[n] \in Seq(T)
    <3>1. \A i \in 0 .. n : f[i] \in Seq(T)
      BY <2>12, <2>13, StaysAlong
    <3> QED BY <2>2, <3>1
  <2> QED BY <2>1, <2>2, <2>11, <2>14
<1> QED BY <1>2, <1>3

-----------------------------------------------------------------------------

(* How often a value occurs in a table: a function with a finite domain.   *)
Occurs(f, b) == {k \in DOMAIN f : f[k] = b}
Count(f, b) == Cardinality(Occurs(f, b))
One(x, b) == IF x = b THEN 1 ELSE 0

LEMMA CountNat ==
  ASSUME NEW f, IsFiniteSet(DOMAIN f), NEW b
  PROVE  /\ IsFiniteSet(Occurs(f, b)) /\ Count(f, b) \in Nat
         /\ Count(f, b) = 0 <=> \A k \in DOMAIN f : f[k] # b
<1>1. Occurs(f, b) \in SUBSET DOMAIN f
  BY DEF Occurs
<1>2. IsFiniteSet(Occurs(f, b))
  BY <1>1, FS_Subset
<1>3. Count(f, b) \in Nat /\ (Count(f, b) = 0 <=> Occurs(f, b) = {})
  BY <1>2, FS_CardinalityType, FS_EmptySet DEF Count
<1>4. Occurs(f, b) = {} <=> \A k \in DOMAIN f : f[k] # b
  BY DEF Occurs
<1> QED BY <1>2, <1>3, <1>4

\* The table g is f and one more entry.
LEMMA CountExtend ==
  ASSUME NEW f, IsFiniteSet(DOMAIN f), NEW g, NEW i, i \notin DOMAIN f,
         DOMAIN g = DOMAIN f \cup {i}, \A k \in DOMAIN f : g[k] = f[k], NEW b
  PROVE  Count(g, b) = Count(f, b) + One(g[i], b)
<1>1. IsFiniteSet(Occurs(f, b)) /\ Count(f, b) \in Nat /\ i \notin Occurs(f, b)
  BY CountNat DEF Occurs
<1>2. CASE g[i] = b
  <2>1. Occurs(g, b) = Occurs(f, b) \cup {i}
    BY <1>2 DEF Occurs
  <2>2. Cardinality(Occurs(f, b) \cup {i}) = Cardinality(Occurs(f, b)) + 1
    BY <1>1, FS_AddElement
  <2> QED BY <1>2, <2>1, <2>2 DEF Count, One
<1>3. CASE g[i] # b
  <2>1. Occurs(g, b) = Occurs(f, b)
    BY <1>3 DEF Occurs
  <2> QED BY <1>1, <1>3, <2>1 DEF Count, One
<1> QED BY <1>2, <1>3

LEMMA CountReplace ==
  ASSUME NEW f, IsFiniteSet(DOMAIN f), NEW g, NEW i \in DOMAIN f,
         DOMAIN g = DOMAIN f, \A k \in DOMAIN f \ {i} : g[k] = f[k], NEW b
  PROVE  Count(g, b) = Count(f, b) - One(f[i], b) + One(g[i], b)
<1> DEFINE h == [k \in DOMAIN f \ {i} |-> f[k]]
<1>1. /\ DOMAIN h = DOMAIN f \ {i} /\ i \notin DOMAIN h
      /\ DOMAIN f = DOMAIN h \cup {i} /\ DOMAIN g = DOMAIN h \cup {i}
      /\ \A k \in DOMAIN h : f[k] = h[k]
      /\ \A k \in DOMAIN h : g[k] = h[k]
  OBVIOUS
<1>2. IsFiniteSet(DOMAIN h)
  <2>1. DOMAIN h \in SUBSET DOMAIN f
    OBVIOUS
  <2> QED BY <2>1, FS_Subset
<1> HIDE DEF h
<1>3. Count(f, b) = Count(h, b) + One(f[i], b)
  <2>1. /\ i \notin DOMAIN h /\ DOMAIN f = DOMAIN h \cup {i}
        /\ \A k \in DOMAIN h : f[k] = h[k]
    BY <1>1
  <2> HIDE <1>1
  <2> QED BY ONLY <2>1, <1>2, CountExtend
<1>4. Count(g, b) = Count(h, b) + One(g[i], b)
  BY <1>1, <1>2, CountExtend
<1>5. Count(h, b) \in Nat /\ One(f[i], b) \in Nat /\ One(g[i], b) \in Nat
  BY <1>2, CountNat DEF One
<1> QED BY <1>3, <1>4, <1>5

LEMMA CountSame ==
  ASSUME NEW f, NEW g, DOMAIN g = DOMAIN f, \A k \in DOMAIN f : g[k] = f[k], NEW b
  PROVE  Count(g, b) = Count(f, b)
<1>1. Occurs(g, b) = Occurs(f, b)
  BY DEF Occurs
<1> QED BY <1>1 DEF Count

(* Behind s come n values that are numbered from m on.                     *)
Numbered(g, s, n, m) ==
  /\ DOMAIN g = 1 .. Len(s) + n
  /\ \A k \in 1 .. Len(s) : g[k] = s[k]
  /\ \A k \in 1 .. n : g[Len(s) + k] = m + k

LEMMA CountNumbered ==
  ASSUME NEW S, NEW s \in Seq(S), NEW g, NEW n \in Nat, NEW m \in Int, Numbered(g, s, n, m), NEW b
  PROVE  Count(g, b) = Count(s, b) + (IF b \in m + 1 .. m + n THEN 1 ELSE 0)
<1> USE DEF Numbered
<1>1. IsFiniteSet(DOMAIN s) /\ DOMAIN s = 1 .. Len(s) /\ Len(s) \in Nat
  BY FS_Interval
<1>2. IsFiniteSet(Occurs(s, b)) /\ Count(s, b) \in Nat
  BY <1>1, CountNat
<1>3. CASE b \in m + 1 .. m + n
  <2>1. PICK i \in 1 .. n : b = m + i
    <3>1. b - m \in 1 .. n /\ b = m + (b - m)
      BY <1>3
    <3> QED BY <3>1
  <2>2. Len(s) + i \notin Occurs(s, b)
    BY <1>1 DEF Occurs
  <2>3. Occurs(g, b) = Occurs(s, b) \cup {Len(s) + i}
    <3>1. ASSUME NEW k \in DOMAIN g
          PROVE  g[k] = b <=> k = Len(s) + i \/ (k \in 1 .. Len(s) /\ s[k] = b)
      <4>1. CASE k \in 1 .. Len(s)
        BY <1>1, <4>1
      <4>2. CASE k \notin 1 .. Len(s)
        <5>1. k - Len(s) \in 1 .. n /\ k = Len(s) + (k - Len(s))
          BY <1>1, <3>1, <4>2
        <5>2. PICK j \in 1 .. n : k = Len(s) + j
          BY <5>1
        <5>3. g[k] = m + j
          BY <5>2
        <5>4. g[k] = b <=> j = i
          BY <2>1, <5>3
        <5>5. k = Len(s) + i <=> j = i
          BY <1>1, <5>2
        <5> QED BY <4>2, <5>4, <5>5
      <4> QED BY <4>1, <4>2
    <3>2. Len(s) + i \in DOMAIN g /\ 1 .. Len(s) \subseteq DOMAIN g
      BY <1>1
    <3>3. \A k : k \in Occurs(g, b) <=> k \in Occurs(s, b) \cup {Len(s) + i}
      BY <1>1, <3>1, <3>2 DEF Occurs
    <3> QED BY <3>3
  <2> QED BY <1>2, <1>3, <2>2, <2>3, FS_AddElement DEF Count
<1>4. CASE b \notin m + 1 .. m + n
  <2>1. ASSUME NEW k \in DOMAIN g, k \notin 1 .. Len(s)
        PROVE  g[k] # b
    <3>1. k - Len(s) \in 1 .. n /\ k = Len(s) + (k - Len(s))
      BY <1>1, <2>1
    <3>2. g[k] = m + (k - Len(s))
      BY <3>1
    <3> QED BY <1>4, <3>1, <3>2
  <2>2. Occurs(g, b) = Occurs(s, b)
    BY <1>1, <2>1 DEF Occurs
  <2> QED BY <1>2, <1>4, <2>2 DEF Count
<1> QED BY <1>3, <1>4

(***************************************************************************)
(* The same in a set of tuples that begin with a value.                    *)
(***************************************************************************)
Of(H, b) == {h \in H : h[1] = b}
Weight(H, b) == Cardinality(Of(H, b))

LEMMA WeightNat ==
  ASSUME NEW H, IsFiniteSet(H), NEW b
  PROVE  IsFiniteSet(Of(H, b)) /\ Weight(H, b) \in Nat
<1>1. Of(H, b) \in SUBSET H
  BY DEF Of
<1>2. IsFiniteSet(Of(H, b))
  BY <1>1, FS_Subset
<1> QED BY <1>2, FS_CardinalityType DEF Weight

LEMMA WeightUnion ==
  ASSUME NEW H, IsFiniteSet(H), NEW G, IsFiniteSet(G), H \cap G = {}, NEW b
  PROVE  IsFiniteSet(H \cup G) /\ Weight(H \cup G, b) = Weight(H, b) + Weight(G, b)
<1>1. Of(H \cup G, b) = Of(H, b) \cup Of(G, b) /\ Of(H, b) \cap Of(G, b) = {}
  BY DEF Of
<1>2. /\ IsFiniteSet(Of(H, b)) /\ Weight(H, b) \in Nat
      /\ IsFiniteSet(Of(G, b)) /\ Weight(G, b) \in Nat
  BY WeightNat
<1>3. Weight(H \cup G, b) = Weight(H, b) + Weight(G, b) - 0
  <2> DEFINE X == Of(H, b)
             Y == Of(G, b)
  <2>1. Cardinality(X \cup Y) = Cardinality(X) + Cardinality(Y) - Cardinality(X \cap Y)
    <3> HIDE DEF X, Y
    <3> QED BY <1>2, FS_Union DEF X, Y
  <2>2. Cardinality(X \cap Y) = 0
    BY <1>1, FS_EmptySet
  <2> QED BY <1>1, <2>1, <2>2 DEF Weight
<1>4. IsFiniteSet(H \cup G)
  BY FS_Union
<1> QED BY <1>2, <1>3, <1>4

\* What a table numbers in order occurs once.
Rank(P, a) == Cardinality({x \in P : x <= a})

LEMMA RankGrows ==
  ASSUME NEW n \in Nat, NEW P \in SUBSET (1 .. n)
  PROVE  /\ IsFiniteSet(P) /\ Cardinality(P) \in Nat
         /\ \A a \in P : Rank(P, a) \in 1 .. Cardinality(P)
         /\ \A a, c \in P : a < c => Rank(P, a) < Rank(P, c)
<1>1. IsFiniteSet(1 .. n)
  BY FS_Interval
<1>2. IsFiniteSet(P) /\ Cardinality(P) \in Nat
  BY <1>1, FS_Subset, FS_CardinalityType
<1>3. ASSUME NEW a
      PROVE  IsFiniteSet({x \in P : x <= a}) /\ Rank(P, a) \in Nat /\ Rank(P, a) <= Cardinality(P)
  <2>1. PICK S : S = {x \in P : x <= a}
    OBVIOUS
  <2>2. S \subseteq P
    BY <2>1
  <2>3. IsFiniteSet(S) /\ Cardinality(S) <= Cardinality(P) /\ Cardinality(S) \in Nat
    BY <1>2, <2>2, FS_Subset, FS_CardinalityType
  <2> QED BY <2>1, <2>3 DEF Rank
<1>4. ASSUME NEW a \in P
      PROVE  Rank(P, a) >= 1
  <2>1. a \in {x \in P : x <= a}
    OBVIOUS
  <2>2. Cardinality({x \in P : x <= a}) # 0
    BY <1>3, <2>1, FS_EmptySet
  <2> QED BY <1>3, <2>2 DEF Rank
<1>5. ASSUME NEW a \in P, NEW c \in P, a < c
      PROVE  Rank(P, a) < Rank(P, c)
  <2>1. PICK S, T : S = {x \in P : x <= a} /\ T = {x \in P : x <= c}
    OBVIOUS
  <2>2. S \cup {c} \subseteq T /\ c \notin S
    <3>1. a \in Int /\ c \in Int /\ \A x \in P : x \in Int
      OBVIOUS
    <3>2. \A x \in P : x <= a => x <= c
      BY <1>5, <3>1
    <3>3. S \subseteq T
      BY <2>1, <3>2
    <3>4. c \in P /\ c <= c /\ ~(c <= a)
      BY <1>5, <3>1
    <3>5. c \in T /\ c \notin S
      BY <2>1, <3>4
    <3> QED BY <3>3, <3>5
  <2>3. IsFiniteSet(S) /\ IsFiniteSet(T) /\ Cardinality(S) \in Nat /\ Cardinality(T) \in Nat
    BY <1>3, <2>1, FS_CardinalityType
  <2>4. Cardinality(S \cup {c}) = Cardinality(S) + 1
    BY <2>2, <2>3, FS_AddElement
  <2>5. Cardinality(S \cup {c}) <= Cardinality(T)
    BY <2>2, <2>3, FS_Subset
  <2> QED BY <2>1, <2>3, <2>4, <2>5 DEF Rank
<1>6. \A a \in P : Rank(P, a) \in 1 .. Cardinality(P)
  <2> TAKE a \in P
  <2>1. Rank(P, a) \in Nat /\ Rank(P, a) <= Cardinality(P) /\ Rank(P, a) >= 1
    BY <1>3, <1>4
  <2> QED BY <1>2, <2>1
<1> QED BY <1>2, <1>5, <1>6

RankedTable(g, n, P, m) ==
  /\ DOMAIN g = 1 .. n
  /\ \A a \in P : g[a] = m + Rank(P, a)
  /\ \A a \in (1 .. n) \ P : g[a] = 0

LEMMA CountRanked ==
  ASSUME NEW n \in Nat, NEW P \in SUBSET (1 .. n), NEW m \in Nat, NEW g, RankedTable(g, n, P, m),
         NEW b \in Nat \ {0}
  PROVE  Count(g, b) = IF b \in m + 1 .. m + Cardinality(P) THEN 1 ELSE 0
<1> USE DEF RankedTable
<1>1. PICK c \in Nat : c = Cardinality(P)
  BY RankGrows
<1>2. /\ IsFiniteSet(P) /\ \A a \in P : Rank(P, a) \in 1 .. c
      /\ \A a, d \in P : a < d => Rank(P, a) < Rank(P, d)
  BY <1>1, RankGrows
<1>3. IsFiniteSet(DOMAIN g)
  BY FS_Interval
<1>4. \A a \in DOMAIN g : g[a] = b => a \in P
  OBVIOUS
<1>5. CASE b \in m + 1 .. m + c
  <2> DEFINE r == [a \in P |-> Rank(P, a)]
  <2>1. r \in Injection(P, 1 .. c)
    <3>1. r \in [P -> 1 .. c]
      BY <1>2
    <3>2. \A a, d \in P : r[a] = r[d] => a = d
      <4> TAKE a, d \in P
      <4>1. a < d \/ d < a \/ a = d
        OBVIOUS
      <4>2. Rank(P, a) \in Int /\ Rank(P, d) \in Int
        BY <1>2
      <4> QED BY <1>2, <4>1, <4>2
    <3> QED BY <3>1, <3>2 DEF Injection, IsInjective
  <2> HIDE DEF r
  <2>2. IsFiniteSet(1 .. c) /\ Cardinality(1 .. c) = c
    BY FS_Interval
  <2>3. r \in Surjection(P, 1 .. c)
    BY <1>1, <2>1, <2>2, FS_Injection
  <2>4. PICK j \in 1 .. c : b = m + j
    <3>1. b - m \in 1 .. c /\ b = m + (b - m)
      BY <1>5
    <3> QED BY <3>1
  <2>5. PICK a \in P : r[a] = j
    BY <2>3 DEF Surjection
  <2>6. \A d \in P : r[d] = j => d = a
    BY <2>1, <2>5 DEF Injection, IsInjective
  <2>7. \A d \in P : Rank(P, d) = r[d]
    BY DEF r
  <2>8. \A d \in P : g[d] = b <=> d = a
    <3> TAKE d \in P
    <3>1. Rank(P, d) \in Int /\ g[d] = m + Rank(P, d)
      BY <1>2
    <3> QED BY <2>4, <2>5, <2>6, <2>7, <3>1
  <2>9. Occurs(g, b) = {a}
    BY <1>4, <2>8 DEF Occurs
  <2> QED BY <1>1, <1>5, <2>9, FS_Singleton DEF Count
<1>6. CASE b \notin m + 1 .. m + c
  <2>1. \A a \in DOMAIN g : g[a] # b
    <3>1. \A a \in P : g[a] \in m + 1 .. m + c
      <4> TAKE a \in P
      <4>1. Rank(P, a) \in 1 .. c /\ g[a] = m + Rank(P, a)
        BY <1>2
      <4> QED BY <4>1
    <3> QED BY <1>4, <1>6, <3>1
  <2>2. Count(g, b) = 0
    BY <1>3, <2>1, CountNat
  <2> QED BY <1>1, <1>6, <2>2
<1> QED BY <1>5, <1>6

\* One sequence behind the other.
LEMMA CountConcat ==
  ASSUME NEW S, NEW s \in Seq(S), NEW T, NEW t \in Seq(T), NEW b
  PROVE  /\ IsFiniteSet(DOMAIN (s \o t))
         /\ Count(s \o t, b) = Count(s, b) + Count(t, b)
<1>1. PICK g, p, q : g = s \o t /\ p = Len(s) /\ q = Len(t)
  OBVIOUS
<1>2. /\ p \in Nat /\ q \in Nat /\ DOMAIN s = 1 .. p /\ DOMAIN t = 1 .. q /\ DOMAIN g = 1 .. p + q
      /\ \A k \in 1 .. p : g[k] = s[k]
      /\ \A k \in p + 1 .. p + q : g[k] = t[k - p]
  BY <1>1
<1>3. IsFiniteSet(DOMAIN s) /\ IsFiniteSet(DOMAIN t) /\ IsFiniteSet(DOMAIN g)
  BY <1>2, FS_Interval
<1>4. /\ IsFiniteSet(Occurs(s, b)) /\ Count(s, b) \in Nat
      /\ IsFiniteSet(Occurs(t, b)) /\ Count(t, b) \in Nat
  BY <1>3, CountNat
<1> DEFINE X == {k \in p + 1 .. p + q : g[k] = b}
           h == [k \in Occurs(t, b) |-> p + k]
<1>5. Occurs(g, b) = Occurs(s, b) \cup X /\ Occurs(s, b) \cap X = {}
  BY <1>2 DEF Occurs
<1>6. h \in Bijection(Occurs(t, b), X)
  <2>1. \A k \in Occurs(t, b) : k \in 1 .. q /\ t[k] = b
    BY <1>2 DEF Occurs
  <2>2. \A k \in Occurs(t, b) : p + k \in X
    <3> TAKE k \in Occurs(t, b)
    <3>1. p + k \in p + 1 .. p + q /\ (p + k) - p = k
      BY <1>2, <2>1
    <3> QED BY <1>2, <2>1, <3>1
  <2>3. h \in [Occurs(t, b) -> X]
    BY <2>2
  <2>4. \A i \in Occurs(t, b) : \A j \in Occurs(t, b) : h[i] = h[j] => i = j
    BY <1>2, <2>1
  <2>5. \A x \in X : \E k \in Occurs(t, b) : h[k] = x
    <3> TAKE x \in X
    <3>1. x - p \in 1 .. q /\ t[x - p] = b /\ p + (x - p) = x
      BY <1>2
    <3>2. x - p \in Occurs(t, b)
      BY <1>2, <3>1 DEF Occurs
    <3> QED BY <3>1, <3>2
  <2> QED BY <2>3, <2>4, <2>5 DEF Bijection, Injection, Surjection, IsInjective
<1> HIDE DEF X, h
<1>7. IsFiniteSet(X) /\ Cardinality(X) = Cardinality(Occurs(t, b))
  <2>1. ExistsBijection(Occurs(t, b), X)
    BY <1>6 DEF ExistsBijection
  <2> QED BY <1>4, <2>1, FS_Bijection
<1>8. Cardinality(Occurs(g, b)) = Cardinality(Occurs(s, b)) + Cardinality(X)
  <2>1. Cardinality(Occurs(s, b) \cap X) = 0
    BY <1>5, FS_EmptySet
  <2>2. /\ Cardinality(Occurs(s, b) \cup X) =
             Cardinality(Occurs(s, b)) + Cardinality(X) - Cardinality(Occurs(s, b) \cap X)
    BY <1>4, <1>7, FS_Union
  <2>3. Cardinality(Occurs(s, b)) \in Nat /\ Cardinality(X) \in Nat
    BY <1>4, <1>7 DEF Count
  <2> QED BY <1>5, <2>1, <2>2, <2>3
<1> QED BY <1>1, <1>3, <1>7, <1>8 DEF Count

=============================================================================

---------------------------- MODULE NumExp_proofs ----------------------------
(***************************************************************************)
(* For all widths of the integers and formats of the floats, all           *)
(* expressions and all values of their names: the numbers of an evaluation *)
(* stay within their types (TypeCorrect), every operator finds its         *)
(* operands and one value is left (OperandsAreThere), the tables of cmp.h  *)
(* order all numbers of all types (NumbersAreOrdered), and those of        *)
(* basic.h, bin.h, bool.h and cast.h compute what they should, of integers *)
(* (IntegersAreExact) and of all numbers (TablesAreExact).                 *)
(***************************************************************************)
EXTENDS NumExp, SequenceLemmas, TLAPS

(* What the formats of the floating types leave room for.                  *)
LEMMA FormatIs ==
  /\ Fraction \in Nat /\ W64 \in Nat \ {0} /\ Highest \in Nat /\ Fraction + W64 < Highest
  /\ \A t \in Floats :
       /\ Format[t].digits \in Nat \ {0} /\ Format[t].low \in Nat /\ Format[t].high \in Nat
       /\ Format[t].low <= Fraction /\ Format[t].low + Format[t].digits <= Format[t].high
       /\ Fraction + W64 < Format[t].high /\ Format[t].high <= Highest
<1>1. {"FLOAT", "DOUBLE", "LONG_DOUBLE"} = Floats
  BY DEF Floats
<1>2. /\ Fraction \in Nat /\ W64 \in Nat \ {0}
      /\ \A t \in Floats :
           /\ Format[t].digits \in Nat \ {0} /\ Format[t].low \in Nat /\ Format[t].high \in Nat
           /\ Format[t].low <= Fraction /\ Format[t].low + Format[t].digits <= Format[t].high
           /\ Fraction + W64 < Format[t].high
  BY WidthsAssumption, FormatsAssumption
<1>3. \A t \in Floats : Format[t].high <= Highest
  BY <1>1, <1>2, FormatsAssumption DEF Highest, Below
<1>4. Highest \in Nat /\ Fraction + W64 < Highest
  BY <1>1, <1>2 DEF Highest
<1> QED BY <1>2, <1>3, <1>4

(* Power is what its definition says: a table that doubles.                *)
LEMMA PowerDoubles ==
  /\ \A n \in 0 .. Highest : Power[n] \in Nat \ {0}
  /\ Power[0] = 1
  /\ \A n \in 1 .. Highest : Power[n] = 2 * Power[n - 1]
  /\ Highest \in Nat /\ W64 \in 1 .. Highest
<1> DEFINE S == Nat \ {0}
           Fits(p) == p = [n \in 0 .. Highest |-> IF n = 0 THEN 1 ELSE 2 * p[n - 1]]
           power == CHOOSE p : Fits(p)
           twice == [m \in S |-> 2 * m]
           step == [k \in 1 .. Highest |-> twice]
<1>1. Highest \in Nat /\ W64 \in 1 .. Highest
  BY FormatIs
<1>2. Power = [n \in 0 .. Highest |-> power[n]]
  BY Zenon DEF Power
<1>3. twice \in [S -> S]
  OBVIOUS
<1>4. PICK f \in [0 .. Highest -> S] : IsTable(f, Highest, 1, step)
  <2>1. step \in [1 .. Highest -> [S -> S]]
    BY <1>3
  <2>2. 1 \in S
    OBVIOUS
  <2> HIDE DEF S, step
  <2> QED BY <1>1, <2>1, <2>2, TableExists
<1>5. /\ f[0] = 1
      /\ \A k \in 1 .. Highest : f[k] = 2 * f[k - 1]
  <2>1. ASSUME NEW k \in 1 .. Highest
        PROVE  f[k] = 2 * f[k - 1]
    <3>1. f[k - 1] \in S
      BY <1>1
    <3>2. f[k] = step[k][f[k - 1]]
      BY <1>4 DEF IsTable
    <3> QED BY <3>1, <3>2
  <2> QED BY <1>4, <2>1 DEF IsTable
<1>6. Fits(f)
  <2>1. ASSUME NEW n \in 0 .. Highest
        PROVE  f[n] = IF n = 0 THEN 1 ELSE 2 * f[n - 1]
    BY <1>1, <1>5
  <2> QED BY <2>1
<1>7. PICK p : p = power /\ Fits(p)
  <2> HIDE DEF Fits
  <2> QED BY <1>6, Zenon
<1>8. p[0] = 1 /\ \A n \in 1 .. Highest : p[n] = 2 * p[n - 1]
  <2>1. p = [n \in 0 .. Highest |-> IF n = 0 THEN 1 ELSE 2 * p[n - 1]]
    BY <1>7
  <2>2. \A n \in 0 .. Highest : p[n] = IF n = 0 THEN 1 ELSE 2 * p[n - 1]
    <3> HIDE DEF Fits, power
    <3> QED BY <2>1
  <2>3. 0 \in 0 .. Highest /\ \A n \in 1 .. Highest : n \in 0 .. Highest /\ n # 0
    BY <1>1
  <2> HIDE DEF Fits, power
  <2> QED BY <2>2, <2>3
<1>9. \A n \in 0 .. Highest : p[n] \in S
  <2>1. \A n \in 1 .. Highest : p[n - 1] \in S => p[n] \in S
    BY <1>8
  <2>2. p[0] \in S
    BY <1>8
  <2> HIDE DEF S
  <2> QED BY <1>1, <2>1, <2>2, StaysAlong
<1>10. Power = [n \in 0 .. Highest |-> p[n]]
  <2> HIDE DEF Fits
  <2> QED BY <1>2, <1>7
<1> HIDE DEF power, Fits, step, twice
<1>11. Power \in [0 .. Highest -> S] /\ \A n \in 0 .. Highest : Power[n] = p[n]
  BY <1>9, <1>10
<1>12. 0 \in 0 .. Highest /\ \A n \in 1 .. Highest : n \in 0 .. Highest /\ n - 1 \in 0 .. Highest
  BY <1>1
<1>13. Power[0] = 1 /\ \A n \in 1 .. Highest : Power[n] = 2 * Power[n - 1]
  BY <1>8, <1>11, <1>12
<1> QED BY <1>1, <1>11, <1>13

LEMMA PowerGrows ==
  ASSUME NEW i \in 0 .. Highest, NEW j \in Nat, i + j <= Highest
  PROVE  Power[i] * Power[j] = Power[i + j]
<1>1. Highest \in Nat /\ j <= Highest
  BY PowerDoubles
<1> DEFINE S == {0}
           off == [k \in 0 .. j |-> Power[i] * Power[k] - Power[i + k]]
<1>2. \A k \in 0 .. j : k \in 0 .. Highest /\ i + k \in 0 .. Highest
  BY <1>1
<1>3. off[0] \in S
  <2>1. 0 \in 0 .. j /\ i + 0 = i /\ Power[0] = 1 /\ Power[i] \in Nat
    BY <1>1, PowerDoubles
  <2> QED BY <2>1
<1>4. ASSUME NEW k \in 1 .. j, off[k - 1] \in S
      PROVE  off[k] \in S
  <2>1. k - 1 \in 0 .. j /\ k \in 1 .. Highest /\ i + k \in 1 .. Highest /\ k \in 0 .. j
    BY <1>1
  <2>2. Power[i] * Power[k - 1] - Power[i + (k - 1)] = 0
    BY <1>4, <2>1
  <2>3. PICK a \in Nat, b \in Nat, c \in Nat : a = Power[i] /\ b = Power[k - 1] /\ c = Power[i + (k - 1)]
    BY <1>2, <2>1, PowerDoubles
  <2>4. i + (k - 1) = i + k - 1
    BY <2>1
  <2>5. Power[k] = 2 * b /\ Power[i + k] = 2 * c
    BY <2>1, <2>3, <2>4, PowerDoubles
  <2>6. a * b - c = 0
    BY <2>2, <2>3
  <2>7. a * (2 * b) - 2 * c = 0
    BY <2>6
  <2>8. off[k] = Power[i] * Power[k] - Power[i + k]
    BY <2>1
  <2> QED BY <2>3, <2>5, <2>7, <2>8
<1>5. \A k \in 0 .. j : off[k] \in S
  <2> HIDE DEF S, off
  <2> QED BY <1>3, <1>4, StaysAlong
<1>6. Power[i] * Power[j] - Power[i + j] = 0
  BY <1>5
<1>7. PICK p \in Nat, q \in Nat : p = Power[i] * Power[j] /\ q = Power[i + j]
  <2>1. i \in 0 .. Highest /\ j \in 0 .. Highest /\ i + j \in 0 .. Highest
    BY <1>1, <1>2
  <2> QED BY <2>1, PowerDoubles
<1> QED BY <1>6, <1>7

LEMMA PowerOrdered ==
  ASSUME NEW i \in 0 .. Highest, NEW j \in 0 .. Highest, i <= j
  PROVE  Power[i] <= Power[j]
<1>1. PICK k \in Nat : k = j - i
  OBVIOUS
<1>2. k \in 0 .. Highest /\ i + k = j
  BY <1>1, PowerDoubles
<1>3. Power[i] * Power[k] = Power[j]
  BY <1>2, PowerGrows
<1>4. Power[i] \in Nat \ {0} /\ Power[k] \in Nat \ {0}
  BY <1>2, PowerDoubles
<1> QED BY <1>3, <1>4

(* Half of what the widths hold: the least negative number of each.        *)
LEMMA Sizes ==
  \E b, s, i, l \in Nat \ {0} :
    /\ Power[W8] = 2 * b /\ Power[W16] = 2 * s /\ Power[W32] = 2 * i /\ Power[W64] = 2 * l
    /\ Power[W8 - 1] = b /\ Power[W16 - 1] = s /\ Power[W32 - 1] = i /\ Power[W64 - 1] = l
    /\ 2 * (b * b) <= s /\ 2 * (s * s) <= i /\ 2 * i <= l
<1>1. /\ W8 \in 1 .. Highest /\ W16 \in 1 .. Highest /\ W32 \in 1 .. Highest /\ W64 \in 1 .. Highest /\ Highest \in Nat
      /\ 2 * W8 <= W16 /\ 2 * W16 <= W32 /\ W32 < W64
  BY WidthsAssumption, PowerDoubles
<1>2. PICK b, s, i, l \in Nat \ {0} :
        b = Power[W8 - 1] /\ s = Power[W16 - 1] /\ i = Power[W32 - 1] /\ l = Power[W64 - 1]
  <2>1. \A w \in 1 .. Highest : w - 1 \in 0 .. Highest
    BY <1>1
  <2> QED BY <1>1, <2>1, PowerDoubles
<1>3. Power[W8] = 2 * b /\ Power[W16] = 2 * s /\ Power[W32] = 2 * i /\ Power[W64] = 2 * l
  BY <1>1, <1>2, PowerDoubles
<1>4. ASSUME NEW v \in 1 .. Highest, NEW w \in 1 .. Highest, 2 * v <= w
      PROVE  2 * (Power[v - 1] * Power[v - 1]) <= Power[w - 1]
  <2>1. /\ v - 1 \in 0 .. Highest /\ v - 1 \in Nat /\ v \in 0 .. Highest /\ v \in Nat /\ v + (v - 1) \in 0 .. Highest
        /\ w - 1 \in 0 .. Highest /\ v + (v - 1) <= w - 1 /\ v + (v - 1) <= Highest
    BY <1>1, <1>4
  <2>2. Power[v] * Power[v - 1] = Power[v + (v - 1)]
    BY <2>1, PowerGrows
  <2>3. Power[v + (v - 1)] <= Power[w - 1]
    BY <2>1, PowerOrdered
  <2>4. PICK p \in Nat : p = Power[v - 1] /\ Power[v] = 2 * p
    BY <2>1, PowerDoubles
  <2>5. (2 * p) * p = 2 * (p * p)
    OBVIOUS
  <2> QED BY <2>2, <2>3, <2>4, <2>5
<1>5. 2 * (b * b) <= s
  BY <1>1, <1>2, <1>4
<1>6. 2 * (s * s) <= i
  BY <1>1, <1>2, <1>4
<1>7. 2 * i <= l
  <2>1. W32 \in 0 .. Highest /\ W64 - 1 \in 0 .. Highest /\ W32 <= W64 - 1
    BY <1>1
  <2>2. Power[W32] <= Power[W64 - 1]
    BY <2>1, PowerOrdered
  <2> QED BY <1>2, <1>3, <2>2
<1> QED BY <1>2, <1>3, <1>5, <1>6, <1>7

(* The greatest power of two that the positive numbers of a type stop at.  *)
Half(t) == Power[Width(t) - 1]

LEMMA TypesAre ==
  /\ Types = {"INT8", "UINT8", "INT16", "UINT16", "INT32", "UINT32", "INT64", "UINT64",
              "FLOAT", "DOUBLE", "LONG_DOUBLE"}
  /\ Whole = {"INT8", "UINT8", "INT16", "UINT16", "INT32", "UINT32", "INT64", "UINT64"}
  /\ Whole \cap Floats = {}
BY DEF Types, Whole, Narrow, Bytes, Shorts, Ints, Longs, Floats

LEMMA Widths ==
  /\ \A t \in Bytes : Width(t) = W8
  /\ \A t \in Shorts : Width(t) = W16
  /\ \A t \in Ints : Width(t) = W32
  /\ \A t \in Longs : Width(t) = W64
<1>1. /\ \A t \in Shorts : t \notin Bytes
      /\ \A t \in Ints : t \notin Bytes /\ t \notin Shorts
      /\ \A t \in Longs : t \notin Bytes /\ t \notin Shorts /\ t \notin Ints
  BY DEF Bytes, Shorts, Ints, Longs
<1> QED BY <1>1, Zenon DEF Width

(* What the types hold, told by the powers of two.                         *)
LEMMA Halves ==
  ASSUME NEW t \in Whole
  PROVE  /\ Half(t) \in Nat \ {0} /\ Power[Width(t)] = 2 * Half(t)
         /\ t \in Unsigned => Least(t) = 0 /\ Greatest(t) = 2 * Half(t) - 1
         /\ t \notin Unsigned => Least(t) = -Half(t) /\ Greatest(t) = Half(t) - 1
<1>1. Width(t) \in {W8, W16, W32, W64}
  BY Widths DEF Whole, Narrow
<1>2. Width(t) \in 1 .. Highest /\ Width(t) - 1 \in 0 .. Highest
  BY <1>1, WidthsAssumption, PowerDoubles
<1>3. Half(t) \in Nat \ {0} /\ Power[Width(t)] = 2 * Half(t)
  BY <1>2, PowerDoubles DEF Half
<1> QED BY <1>3 DEF Least, Greatest, Half

(* A type can hold the product of two numbers of types of half its width,  *)
(* and twice as much; it takes bytes of two bits at least.                 *)
LEMMA Doubled ==
  \E b \in Nat \ {0, 1}, s \in Nat \ {0}, i \in Nat \ {0}, l \in Nat \ {0} :
    /\ 2 * (b * b) <= s /\ 2 * (s * s) <= i /\ 2 * i <= l
    /\ \A t \in Bytes : Half(t) = b
    /\ \A t \in Shorts : Half(t) = s
    /\ \A t \in Ints : Half(t) = i
    /\ \A t \in Longs : Half(t) = l
<1>1. PICK b, s, i, l \in Nat \ {0} :
        /\ Power[W8 - 1] = b /\ Power[W16 - 1] = s /\ Power[W32 - 1] = i /\ Power[W64 - 1] = l
        /\ 2 * (b * b) <= s /\ 2 * (s * s) <= i /\ 2 * i <= l
  BY Sizes
<1>2. b # 1
  <2>1. W8 - 1 \in 1 .. Highest /\ W8 - 1 - 1 \in 0 .. Highest
    BY WidthsAssumption, PowerDoubles
  <2>2. PICK p \in Nat : Power[W8 - 1] = 2 * p
    BY <2>1, PowerDoubles
  <2>3. 2 * p # 1
    OBVIOUS
  <2> QED BY <1>1, <2>2, <2>3
<1> QED BY <1>1, <1>2, Widths DEF Half

-----------------------------------------------------------------------------
(* Conversions.                                                            *)

LEMMA Modulo ==
  ASSUME NEW m \in Nat \ {0}, NEW n \in Int
  PROVE  n % m \in 0 .. m - 1 /\ n = (n \div m) * m + (n % m) /\ n \div m \in Int
OBVIOUS

LEMMA Multiple ==
  ASSUME NEW m \in Nat \ {0}, NEW k \in Int
  PROVE  (k * m) % m = 0
OBVIOUS

LEMMA Product ==
  ASSUME NEW m \in Int, NEW n \in Int
  PROVE  m * n \in Int /\ n * m = m * n /\ (m \in Nat /\ n \in Nat => m * n \in Nat)
OBVIOUS

LEMMA NoZero ==
  ASSUME NEW k \in Nat \ {0}, NEW n \in Int
  PROVE  k * n \in Int /\ (k * n = 0 <=> n = 0)
OBVIOUS

LEMMA SignKept ==
  ASSUME NEW k \in Nat \ {0}, NEW n \in Int
  PROVE  /\ k * n = 0 <=> n = 0
         /\ k * n < 0 <=> n < 0
         /\ k * n > 0 <=> n > 0
         /\ k * n <= 0 <=> n <= 0
         /\ k * n >= 0 <=> n >= 0
OBVIOUS

LEMMA Scaled ==
  ASSUME NEW m \in Int, NEW n \in Int, NEW d \in Nat \ {0}, m < n
  PROVE  m * d < n * d
OBVIOUS

LEMMA Regrouped ==
  ASSUME NEW k \in Int, NEW l \in Int, NEW m \in Int, NEW n \in Int
  PROVE  (k * m) * (l * n) = (k * l) * (m * n) /\ (l * n) * (k * m) = (k * l) * (n * m)
OBVIOUS

LEMMA Quotient ==
  ASSUME NEW m \in Nat \ {0}, NEW k \in Int
  PROVE  (k * m) \div m = k
OBVIOUS

LEMMA Wrapped ==
  ASSUME NEW t \in Whole, NEW n \in Int
  PROVE  /\ Wrap(t, n) \in Least(t) .. Greatest(t)
         /\ n \in Least(t) .. Greatest(t) => Wrap(t, n) = n
         /\ (n - Wrap(t, n)) % Power[Width(t)] = 0
<1>1. PICK h \in Nat \ {0} : h = Half(t) /\ Power[Width(t)] = 2 * h
  BY Halves
<1>2. PICK m \in Nat \ {0} : m = 2 * h
  OBVIOUS
<1>3. PICK r \in Int, q \in Int : r = n % m /\ r \in 0 .. m - 1 /\ n = q * m + r
  <2>1. /\ n % m \in 0 .. m - 1 /\ n % m \in Int /\ n \div m \in Int
        /\ n = (n \div m) * m + (n % m)
    BY Modulo
  <2> QED BY <2>1, Zenon
<1>4. Wrap(t, n) = IF r > Greatest(t) THEN r - m ELSE r
  BY <1>1, <1>2, <1>3 DEF Wrap
<1>5. (n - r) % m = 0 /\ (n - (r - m)) % m = 0
  <2>1. n - r = q * m /\ n - (r - m) = (q + 1) * m /\ q + 1 \in Int
    BY <1>3
  <2> QED BY <2>1, Multiple
<1>6. CASE t \in Unsigned
  <2>1. Least(t) = 0 /\ Greatest(t) = 2 * h - 1
    BY <1>1, <1>6, Halves
  <2>2. Wrap(t, n) = r
    BY <1>2, <1>3, <1>4, <2>1
  <2>3. n \in 0 .. 2 * h - 1 => r = n
    BY <1>2, <1>3
  <2> QED BY <1>1, <1>2, <1>3, <1>5, <2>1, <2>2, <2>3
<1>7. CASE t \notin Unsigned
  <2>1. Least(t) = -h /\ Greatest(t) = h - 1
    BY <1>1, <1>7, Halves
  <2>2. Wrap(t, n) = IF r > h - 1 THEN r - m ELSE r
    BY <1>2, <1>4, <2>1
  <2>3. CASE r > h - 1
    <3>1. Wrap(t, n) = r - m /\ r - m \in -h .. -1
      BY <1>2, <1>3, <2>2, <2>3
    <3>2. n \in -h .. h - 1 => n = r - m
      BY <1>2, <1>3, <2>3
    <3> QED BY <1>1, <1>2, <1>5, <2>1, <3>1, <3>2
  <2>4. CASE ~(r > h - 1)
    <3>1. Wrap(t, n) = r /\ r \in 0 .. h - 1
      BY <1>3, <2>2, <2>4
    <3>2. n \in -h .. h - 1 => n = r
      BY <1>2, <1>3, <2>4
    <3> QED BY <1>1, <1>2, <1>5, <2>1, <3>1, <3>2
  <2> QED BY <2>3, <2>4
<1> QED BY <1>6, <1>7

(* Whatever an operation in type t makes: a number of that type, or what   *)
(* stands for undefined behaviour.                                         *)
IsResult(v, t) == v = Undefined(t) \/ (IsNumber(v) /\ v.t = t)

LEMMA Truncated ==
  ASSUME NEW n \in Int, NEW d \in Int \ {0}
  PROVE  \E q \in Int :
           /\ q = Truncate(n, d)
           /\ d > 0 => n - q * d < d /\ n - q * d > -d
           /\ n >= 0 => q <= n /\ q >= -n
           /\ n <= 0 => q <= -n /\ q >= n
           /\ n >= 0 => n - q * d >= 0 /\ n - q * d <= n
           /\ n <= 0 => n - q * d <= 0 /\ n - q * d >= n
<1>1. ASSUME NEW k \in Nat, NEW m \in Nat \ {0}
      PROVE  /\ k \div m \in 0 .. k
             /\ k - (k \div m) * m \in 0 .. m - 1
  <2>1. k \div m \in Nat
    OBVIOUS
  <2>2. PICK p \in Nat : p = k \div m
    BY <2>1
  <2>3. k - p * m \in 0 .. m - 1
    BY <2>2, Modulo
  <2>4. p <= k
    BY <2>3
  <2> QED BY <2>2, <2>3, <2>4
<1>2. PICK k \in Nat, m \in Nat \ {0} : k = Magnitude(n) /\ m = Magnitude(d)
  BY DEF Magnitude
<1>3. PICK p \in Nat : p = k \div m /\ p <= k /\ k - p * m \in 0 .. m - 1
  <2>1. k \div m \in 0 .. k /\ k - (k \div m) * m \in 0 .. m - 1
    BY <1>1
  <2>2. PICK p \in Nat : p = k \div m
    BY <2>1
  <2> QED BY <2>1, <2>2
<1>4. Truncate(n, d) = IF n < 0 <=> d < 0 THEN p ELSE -p
  BY <1>2, <1>3 DEF Truncate
<1>5. PICK e \in Nat : e = p * m /\ e <= k /\ k - e \in 0 .. m - 1
  <2>1. p * m \in Nat
    OBVIOUS
  <2> QED BY <1>3, <2>1
<1>6. /\ p * (-m) = -e /\ (-p) * m = -e /\ (-p) * (-m) = e
  BY <1>5
<1>7. (n = k \/ n = -k) /\ (d = m \/ d = -m) /\ (n < 0 => n = -k) /\ (n >= 0 => n = k)
      /\ (d < 0 => d = -m) /\ (d >= 0 => d = m)
  BY <1>2 DEF Magnitude
<1>8. PICK q \in Int : q = Truncate(n, d) /\ q = IF n < 0 <=> d < 0 THEN p ELSE -p
  BY <1>4
<1>9. n - q * d = IF n < 0 THEN -(k - e) ELSE k - e
  <2>1. CASE n < 0 /\ d < 0
    BY <1>5, <1>6, <1>7, <1>8, <2>1
  <2>2. CASE n < 0 /\ ~(d < 0)
    BY <1>5, <1>6, <1>7, <1>8, <2>2
  <2>3. CASE ~(n < 0) /\ d < 0
    BY <1>5, <1>6, <1>7, <1>8, <2>3
  <2>4. CASE ~(n < 0) /\ ~(d < 0)
    BY <1>5, <1>6, <1>7, <1>8, <2>4
  <2> QED BY <2>1, <2>2, <2>3, <2>4
<1>10. PICK z \in Int : z = n - q * d
  OBVIOUS
<1>11. /\ d > 0 => z < d /\ z > -d
       /\ n >= 0 => q <= n /\ q >= -n /\ z >= 0 /\ z <= n
       /\ n <= 0 => q <= -n /\ q >= n /\ z <= 0 /\ z >= n
  BY <1>3, <1>5, <1>7, <1>8, <1>9, <1>10
<1> QED BY <1>8, <1>10, <1>11

LEMMA NumberIs ==
  ASSUME NEW a, IsNumber(a)
  PROVE  /\ a = [t |-> a.t, n |-> a.n, d |-> a.d]
         /\ a.t \in Types /\ a.n \in Int /\ a.d \in Nat /\ IsDefined(a)
         /\ a.t \in Whole => a.d = 1 /\ a.n \in Least(a.t) .. Greatest(a.t)
         /\ a.t \in Floats => IsFloat(a)
<1>1. a.t \in Types /\ a.t \in Whole => a.t \notin Floats
  BY TypesAre
<1> QED BY <1>1 DEF IsNumber, IsDefined, Types

LEMMA WholeNumber ==
  ASSUME NEW t \in Whole, NEW n \in Least(t) .. Greatest(t)
  PROVE  IsNumber(Value(t, n)) /\ n \in Int
<1>1. Least(t) \in Int /\ Greatest(t) \in Int
  BY Halves
<1>2. n \in Int
  BY <1>1
<1> QED BY <1>2, TypesAre DEF IsNumber, Value, Types

-----------------------------------------------------------------------------
(* Floats.  A fraction is rounded to one of the numbers of the type, and   *)
(* to itself if the type has it.                                           *)

LEMMA NearestIs ==
  ASSUME NEW n \in Nat, NEW d \in Nat \ {0}
  PROVE  /\ Nearest(n, d) \in Nat
         /\ \A k \in Nat : n = k * d => Nearest(n, d) = k
         /\ \A m \in Nat : n < d * m => Nearest(n, d) <= m
<1>1. PICK q \in Int, r \in Int : q = n \div d /\ r = n % d /\ r \in 0 .. d - 1 /\ n = q * d + r
  <2>1. n \div d \in Int /\ n % d \in 0 .. d - 1 /\ n % d \in Int /\ n = (n \div d) * d + (n % d)
    BY Modulo
  <2> QED BY <2>1, Zenon
<1>2. q \in Nat
  BY <1>1
<1>3. Nearest(n, d) = IF 2 * r > d \/ (2 * r = d /\ q % 2 = 1) THEN q + 1 ELSE q
  BY <1>1 DEF Nearest
<1>4. ASSUME NEW k \in Nat, n = k * d
      PROVE  Nearest(n, d) = k
  <2>1. (k - q) * d = r
    BY <1>1, <1>4
  <2>2. k = q
    <3>1. PICK e \in Int : e = k - q
      OBVIOUS
    <3>2. e * d \in 0 .. d - 1
      BY <1>1, <2>1, <3>1
    <3>3. e < 1
      <4>1. e >= 1 => e * d >= d
        OBVIOUS
      <4> QED BY <3>1, <3>2, <4>1
    <3>4. e > -1
      <4>1. e <= -1 => e * d <= -d
        OBVIOUS
      <4> QED BY <3>1, <3>2, <4>1
    <3> QED BY <3>1, <3>3, <3>4
  <2>3. r = 0
    BY <1>1, <1>4, <2>2
  <2> QED BY <1>3, <2>2, <2>3
<1>5. ASSUME NEW m \in Nat, n < d * m
      PROVE  Nearest(n, d) <= m
  <2>1. q < m
    <3>1. q >= m => q * d >= m * d
      BY <1>2
    <3>2. m * d = d * m /\ q * d <= n /\ q * d \in Int /\ m * d \in Int
      BY <1>1, <1>2
    <3> QED BY <1>1, <1>5, <3>1, <3>2
  <2> QED BY <1>2, <1>3, <2>1
<1> QED BY <1>2, <1>3, <1>4, <1>5

(* The powers of two that a format names.                                  *)
FormatRoom(t, g, l, h) ==
  /\ g = Format[t].digits /\ l = Format[t].low /\ h = Format[t].high
  /\ l + g <= h /\ h <= Highest
  /\ Power[g] \in Nat \ {0} /\ Power[h] \in Nat \ {0}
  /\ \A i \in 0 .. h - g :
       /\ Power[i] \in Nat \ {0} /\ Power[g + i] \in Nat \ {0}
       /\ Power[g + i] = Power[g] * Power[i]

LEMMA FormatPowers ==
  ASSUME NEW t \in Floats
  PROVE  /\ \E g \in Nat \ {0}, l \in Nat, h \in Nat : FormatRoom(t, g, l, h)
         /\ Power[Format[t].digits] \in Nat \ {0} /\ Power[Format[t].high] \in Nat \ {0}
<1>1. PICK g \in Nat \ {0}, l \in Nat, h \in Nat :
        /\ g = Format[t].digits /\ l = Format[t].low /\ h = Format[t].high
        /\ l <= Fraction /\ l + g <= h /\ Fraction + W64 < h /\ h <= Highest
  BY FormatIs
<1>2. Highest \in Nat /\ \A n \in 0 .. Highest : Power[n] \in Nat \ {0}
  BY PowerDoubles
<1>3. Power[g] \in Nat \ {0} /\ Power[h] \in Nat \ {0}
  BY <1>1, <1>2
<1>4. ASSUME NEW i \in 0 .. h - g
      PROVE  /\ Power[i] \in Nat \ {0} /\ Power[g + i] \in Nat \ {0}
             /\ Power[g + i] = Power[g] * Power[i]
  <2>1. i \in 0 .. Highest /\ i \in Nat /\ g + i \in 0 .. Highest /\ g \in 0 .. Highest
    BY <1>1, <1>2
  <2> QED BY <1>2, <2>1, PowerGrows
<1>5. FormatRoom(t, g, l, h)
  BY <1>1, <1>3, <1>4, Zenon DEF FormatRoom
<1> QED BY <1>1, <1>3, <1>5, Zenon

(* The digits that are rounded off: no more than it takes.                 *)
LEMMA CutIs ==
  ASSUME NEW t \in Floats, NEW n \in Nat, NEW d \in Nat \ {0}, n < d * Power[Format[t].high]
  PROVE  LET f == Format[t]
             i == Cut(t, n, d)
         IN  /\ i \in f.low .. f.high - f.digits
             /\ n < d * Power[f.digits + i]
             /\ i = f.low \/ n >= d * Power[f.digits + i - 1]
<1>1. PICK g \in Nat \ {0}, l \in Nat, h \in Nat :
        /\ g = Format[t].digits /\ l = Format[t].low /\ h = Format[t].high /\ l + g <= h
        /\ \A i \in 0 .. h - g : Power[g + i] \in Nat \ {0}
  <2>1. PICK g \in Nat \ {0}, l \in Nat, h \in Nat : FormatRoom(t, g, l, h)
    BY FormatPowers, Zenon
  <2> QED BY <2>1, Zenon DEF FormatRoom
<1> DEFINE Room(i) == n < d * Power[g + i]
           Least_(i) == Room(i) /\ (i = l \/ n >= d * Power[g + i - 1])
           S == {i \in l .. h - g : Room(i)}
<1>2. h - g \in S
  BY <1>1
<1>3. PICK m \in S : \A k \in S : m <= k
  <2>1. S \subseteq Nat /\ S # {}
    BY <1>1, <1>2
  <2> HIDE DEF S
  <2> QED BY <2>1, LeastElement
<1>4. Least_(m)
  <2>1. CASE m = l
    BY <1>3, <2>1
  <2>2. CASE m # l
    <3>1. m - 1 \in l .. h - g /\ m - 1 \notin S
      BY <1>1, <1>3, <2>2
    <3>2. ~ Room(m - 1)
      BY <3>1
    <3>3. m - 1 \in 0 .. h - g /\ g + (m - 1) = g + m - 1
      BY <1>1, <3>1
    <3>4. PICK p \in Nat : p = Power[g + (m - 1)]
      BY <1>1, <3>3
    <3>5. ~(n < d * p) /\ d * p \in Nat
      BY <3>2, <3>4
    <3> QED BY <1>3, <3>3, <3>4, <3>5
  <2> QED BY <2>1, <2>2
<1>5. Cut(t, n, d) = CHOOSE i \in l .. h - g : Least_(i)
  BY <1>1, Zenon DEF Cut
<1>6. PICK i : i = Cut(t, n, d) /\ i \in l .. h - g /\ Least_(i)
  <2>1. m \in l .. h - g
    BY <1>3
  <2> HIDE DEF Least_
  <2> QED BY <1>4, <1>5, <2>1, Zenon
<1> QED BY <1>1, <1>6

LEMMA RoundedHolds ==
  ASSUME NEW t \in Floats, NEW n \in Nat, NEW d \in Nat \ {0}
  PROVE  /\ Rounded(t, n, d) \in Nat
         /\ Rounded(t, n, d) < Power[Format[t].high] => Held(t, Rounded(t, n, d))
<1>1. PICK g \in Nat \ {0}, l \in Nat, h \in Nat :
        /\ g = Format[t].digits /\ l = Format[t].low /\ h = Format[t].high
        /\ l + g <= h /\ h <= Highest
        /\ Power[g] \in Nat \ {0} /\ Power[h] \in Nat \ {0}
        /\ \A i \in 0 .. h - g :
             /\ Power[i] \in Nat \ {0} /\ Power[g + i] \in Nat \ {0}
             /\ Power[g + i] = Power[g] * Power[i]
  <2>1. PICK g \in Nat \ {0}, l \in Nat, h \in Nat : FormatRoom(t, g, l, h)
    BY FormatPowers, Zenon
  <2> QED BY <2>1, Zenon DEF FormatRoom
<1>2. CASE n >= d * Power[h]
  <2>1. Rounded(t, n, d) = Power[h]
    BY <1>1, <1>2 DEF Rounded
  <2> QED BY <1>1, <2>1
<1>3. CASE ~(n >= d * Power[h])
  <2>1. PICK p \in Nat : p = Power[h]
    BY <1>1
  <2>2. n < d * Power[h]
    <3>1. d * p \in Nat
      OBVIOUS
    <3> QED BY <1>3, <2>1, <3>1
  <2>3. PICK i \in l .. h - g : i = Cut(t, n, d) /\ n < d * Power[g + i]
    BY <1>1, <2>2, CutIs
  <2>4. i \in 0 .. h - g
    BY <2>3
  <2>5. PICK u \in Nat \ {0}, w \in Nat \ {0} : u = Power[i] /\ w = Power[g] /\ Power[g + i] = w * u
    BY <1>1, <2>4
  <2>6. d * u \in Nat \ {0} /\ d * (w * u) = (d * u) * w
    OBVIOUS
  <2>7. PICK k \in Nat : k = Nearest(n, d * u) /\ k <= w
    <3>1. PICK e \in Nat \ {0} : e = d * u
      BY <2>6
    <3>2. n < e * w
      BY <2>3, <2>5, <2>6, <3>1
    <3>3. Nearest(n, e) \in Nat /\ Nearest(n, e) <= w
      BY <3>2, NearestIs
    <3> QED BY <3>1, <3>3
  <2>8. Rounded(t, n, d) = u * k
    BY <1>1, <1>3, <2>3, <2>5, <2>7 DEF Rounded, RoundedAt
  <2>9. CASE k < w
    <3>1. u * k = k * u /\ (k * u) % u = 0 /\ (k * u) \div u = k
      BY Multiple, Quotient
    <3>2. Held(t, u * k)
      BY <1>1, <2>3, <2>5, <2>9, <3>1 DEF Held
    <3> QED BY <2>8, <3>2
  <2>10. CASE k = w /\ i = h - g
    <3>1. u * k = Power[h]
      BY <1>1, <2>4, <2>5, <2>10
    <3> QED BY <1>1, <2>8, <3>1
  <2>11. CASE k = w /\ i # h - g
    <3>1. i + 1 \in 0 .. h - g /\ i + 1 \in l .. h - g /\ i + 1 \in 1 .. Highest /\ g \in 1 .. Highest
          /\ g - 1 \in 0 .. Highest
      <4>1. Highest \in Nat
        BY PowerDoubles
      <4>2. l + g <= h /\ h <= Highest
        BY <1>1
      <4> QED BY <2>3, <2>11, <4>1, <4>2
    <3>2. PICK x \in Nat \ {0} : x = Power[g - 1] /\ w = 2 * x
      BY <2>5, <3>1, PowerDoubles
    <3>3. Power[i + 1] = 2 * u
      <4>1. i + 1 - 1 = i
        BY <2>4
      <4> QED BY <2>5, <3>1, <4>1, PowerDoubles
    <3>4. u * k = x * (2 * u) /\ 2 * u \in Nat \ {0}
      BY <2>11, <3>2
    <3>5. (x * (2 * u)) % (2 * u) = 0 /\ (x * (2 * u)) \div (2 * u) = x /\ x < w
      <4>1. PICK e \in Nat \ {0} : e = 2 * u
        BY <3>4
      <4>2. (x * e) % e = 0 /\ (x * e) \div e = x
        BY Multiple, Quotient
      <4> QED BY <3>2, <4>1, <4>2
    <3>6. Held(t, u * k)
      BY <1>1, <2>5, <3>1, <3>3, <3>4, <3>5 DEF Held
    <3> QED BY <2>8, <3>6
  <2> QED BY <2>7, <2>9, <2>10, <2>11
<1> QED BY <1>2, <1>3

LEMMA RoundsToItself ==
  ASSUME NEW t \in Floats, NEW d \in Nat \ {0}, NEW m \in Nat, NEW j \in 0 .. Highest,
         Format[t].low <= j, m < Power[Format[t].digits],
         NEW M \in Nat, M = m * Power[j], M < Power[Format[t].high]
  PROVE  Rounded(t, M * d, d) = M
<1>1. PICK g \in Nat \ {0}, l \in Nat, h \in Nat :
        /\ g = Format[t].digits /\ l = Format[t].low /\ h = Format[t].high
        /\ l + g <= h /\ h <= Highest
        /\ Power[g] \in Nat \ {0} /\ Power[h] \in Nat \ {0}
        /\ \A i \in 0 .. h - g :
             /\ Power[i] \in Nat \ {0} /\ Power[g + i] \in Nat \ {0}
             /\ Power[g + i] = Power[g] * Power[i]
  <2>1. PICK g \in Nat \ {0}, l \in Nat, h \in Nat : FormatRoom(t, g, l, h)
    BY FormatPowers, Zenon
  <2> QED BY <2>1, Zenon DEF FormatRoom
<1>2. PICK n \in Nat : n = M * d
  BY Product
<1>3. PICK p \in Nat : p = Power[h] /\ M < p
  BY <1>1
<1>4. n < d * p /\ d * p \in Nat
  <2>1. M * d < p * d /\ p * d = d * p /\ d * p \in Nat
    BY <1>3, Scaled, Product
  <2> QED BY <1>2, <2>1
<1>5. PICK i \in l .. h - g : i = Cut(t, n, d) /\ (i = l \/ n >= d * Power[g + i - 1])
  BY <1>1, <1>3, <1>4, CutIs
<1>6. i \in Nat /\ l <= j /\ l + g <= h /\ h <= Highest /\ Highest \in Nat
  BY <1>1, <1>5, PowerDoubles
<1>7. i <= j
  <2>1. SUFFICES ASSUME i > j PROVE FALSE
    BY <1>6
  <2>2. n >= d * Power[g + i - 1]
    BY <1>5, <1>6, <2>1
  <2>3. i <= h - g
    OBVIOUS
  <2>4. /\ j \in 0 .. h - g /\ i - 1 \in 0 .. h - g /\ g + (i - 1) = g + i - 1 /\ g + j <= g + (i - 1)
        /\ g + j \in 0 .. Highest /\ g + (i - 1) \in 0 .. Highest
    BY <1>6, <2>1, <2>3
  <2>5. PICK w \in Nat \ {0}, u \in Nat \ {0}, v \in Nat \ {0} :
          w = Power[g] /\ u = Power[j] /\ v = Power[g + i - 1] /\ w * u <= v
    <3>1. Power[g + j] <= Power[g + i - 1]
      BY <2>4, PowerOrdered
    <3>2. Power[g] \in Nat \ {0} /\ Power[j] \in Nat \ {0} /\ Power[g + j] = Power[g] * Power[j]
      BY <1>1, <2>4
    <3>3. Power[g + i - 1] \in Nat \ {0}
      BY <1>1, <2>4
    <3> QED BY <3>1, <3>2, <3>3
  <2>6. M < w * u
    <3>1. m < w
      BY <1>1, <2>5
    <3>2. m * u < w * u
      BY <3>1, Scaled
    <3> QED BY <2>5, <3>2
  <2>7. M < v
    BY <2>5, <2>6
  <2>8. M * d < v * d /\ v * d = d * v /\ v * d \in Nat
    BY <2>7, Scaled, Product
  <2> QED BY <1>2, <2>2, <2>5, <2>8
<1>8. PICK u \in Nat \ {0}, v \in Nat \ {0} : u = Power[i] /\ v = Power[j - i] /\ Power[j] = u * v
  <2>1. i \in 0 .. Highest /\ j - i \in 0 .. Highest /\ j - i \in Nat /\ i + (j - i) = j
        /\ i + (j - i) <= Highest
    BY <1>6, <1>7
  <2>2. Power[i] \in Nat \ {0} /\ Power[j - i] \in Nat \ {0}
    BY <2>1, PowerDoubles
  <2>3. Power[i] * Power[j - i] = Power[i + (j - i)]
    BY <2>1, PowerGrows
  <2> QED BY <2>1, <2>2, <2>3
<1>9. PICK k \in Nat : k = m * v
  OBVIOUS
<1>10. M = u * k /\ n = k * (d * u) /\ d * u \in Nat \ {0}
  <2>1. m * (u * v) = u * (m * v) /\ (u * k) * d = k * (d * u)
    OBVIOUS
  <2>2. M = u * k
    BY <1>8, <1>9, <2>1
  <2>3. d * u \in Nat \ {0}
    BY NoZero, Product
  <2> QED BY <1>2, <2>1, <2>2, <2>3
<1>11. Nearest(n, d * u) = k
  BY <1>2, <1>9, <1>10, NearestIs
<1>12. Rounded(t, n, d) = RoundedAt(i, n, d)
  BY <1>1, <1>3, <1>4, <1>5 DEF Rounded
<1> QED BY <1>2, <1>8, <1>10, <1>11, <1>12 DEF RoundedAt

LEMMA UnitIs == Unit \in Nat \ {0}
BY PowerDoubles, FormatIs DEF Unit

LEMMA FloatNumber ==
  ASSUME NEW t \in Floats, NEW neg \in BOOLEAN, NEW m \in Nat,
         m < Power[Format[t].high] => Held(t, m)
  PROVE  IsNumber(Signed(t, neg, m)) /\ Signed(t, neg, m).t = t
<1>1. t \in Types /\ Unit \in Nat \ {0}
  BY UnitIs DEF Types
<1>2. PICK p \in Nat : p = Power[Format[t].high]
  BY FormatPowers
<1>3. CASE m = 0
  BY <1>1, <1>3 DEF Signed, Zero, IsNumber, IsFloat
<1>4. CASE m # 0 /\ m >= p
  BY <1>1, <1>2, <1>4 DEF Signed, Infinity, IsNumber, IsFloat
<1>5. CASE m # 0 /\ m < p
  <2>1. PICK k \in Int : k = (IF neg THEN -m ELSE m) /\ Magnitude(k) = m /\ k # 0
    BY <1>5 DEF Magnitude
  <2>2. Signed(t, neg, m) = [t |-> t, n |-> k, d |-> Unit]
    BY <1>2, <1>5, <2>1 DEF Signed
  <2>3. Held(t, m)
    BY <1>2, <1>5
  <2> QED BY <1>1, <2>1, <2>2, <2>3 DEF IsNumber, IsFloat
<1> QED BY <1>3, <1>4, <1>5

LEMMA FloatOfIs ==
  ASSUME NEW t \in Floats, NEW neg \in BOOLEAN, NEW n \in Nat, NEW d \in Nat
  PROVE  /\ FloatOf(t, neg, n, d) =
              IF d = 0 THEN IF n = 0 THEN NaN(t) ELSE Infinity(t, neg)
              ELSE Signed(t, neg, Rounded(t, n * Unit, d))
         /\ IsNumber(FloatOf(t, neg, n, d)) /\ FloatOf(t, neg, n, d).t = t
<1>1. FloatOf(t, neg, n, d) =
        IF d = 0 THEN IF n = 0 THEN NaN(t) ELSE Infinity(t, neg)
        ELSE Signed(t, neg, Rounded(t, n * Unit, d))
  BY DEF FloatOf, NearestFloat
<1>2. t \in Types
  BY DEF Types
<1>3. CASE d = 0
  BY <1>1, <1>2, <1>3 DEF NaN, Infinity, IsNumber, IsFloat
<1>4. CASE d # 0
  <2>1. PICK m \in Nat : m = n * Unit
    BY PowerDoubles, FormatIs DEF Unit
  <2>2. PICK r \in Nat : r = Rounded(t, m, d) /\ (r < Power[Format[t].high] => Held(t, r))
    <3>1. d \in Nat \ {0}
      BY <1>4
    <3> QED BY <3>1, RoundedHolds
  <2>3. FloatOf(t, neg, n, d) = Signed(t, neg, r)
    BY <1>1, <1>4, <2>1, <2>2
  <2>4. IsNumber(Signed(t, neg, r)) /\ Signed(t, neg, r).t = t
    BY <2>2, FloatNumber
  <2> QED BY <1>1, <2>3, <2>4
<1> QED BY <1>1, <1>3, <1>4

(* x is the number that a is, or no number as a is none; fractions are     *)
(* extended.                                                               *)
Same(a, x) ==
  \E k \in Nat \ {0} : x.n = k * a.n /\ x.d = k * a.d /\ (a.d = 0 => k = 1)

(* An integer of few digits becomes a float and stays the number it is.    *)
LEMMA IntegerKept ==
  ASSUME NEW a, IsNumber(a), a.t \in Whole, NEW t \in Floats, ~ TooLong(a, t)
  PROVE  Same(a, Convert(a, t))
<1>1. PICK n \in Int, m \in Nat : n = a.n /\ m = Magnitude(n)
  BY NumberIs DEF Magnitude
<1>2. a.d = 1 /\ a.t # t
  BY NumberIs, TypesAre
<1>3. PICK neg \in BOOLEAN : neg = Negative(a) /\ (neg <=> n < 0)
  <2>1. Negative(a) <=> n < 0
    BY <1>1, <1>2 DEF Negative
  <2>2. Negative(a) \in BOOLEAN
    BY DEF Negative
  <2> QED BY <2>1, <2>2, Zenon
<1>4. PICK u \in Nat \ {0}, g \in Nat, p \in Nat :
        u = Unit /\ g = Power[Format[t].digits] /\ p = Power[Format[t].high]
  <2>1. Power[Format[t].digits] \in Nat /\ Power[Format[t].high] \in Nat
    BY FormatPowers
  <2> QED BY <2>1, UnitIs
<1>5. m < g
  BY <1>1, <1>4 DEF TooLong
<1>6. PICK M \in Nat : M = m * u
  OBVIOUS
<1>7. M < p
  <2>1. PICK w \in Nat \ {0} : w = Power[W64] /\ m < w
    <3>1. PICK h \in Nat \ {0} : h = Half(a.t) /\ Power[Width(a.t)] = 2 * h
      BY Halves
    <3>2. m <= 2 * h - 1 \/ m <= h
      BY <1>1, <3>1, Halves, NumberIs DEF Magnitude
    <3>3. Width(a.t) \in 0 .. Highest /\ Width(a.t) <= W64 /\ W64 \in 0 .. Highest
      BY Widths, WidthsAssumption, PowerDoubles DEF Whole, Narrow
    <3>4. Power[Width(a.t)] <= Power[W64] /\ Power[W64] \in Nat \ {0}
      BY <3>3, PowerOrdered, PowerDoubles
    <3> QED BY <3>1, <3>2, <3>4
  <2>2. W64 \in 0 .. Highest /\ Fraction \in Nat /\ W64 + Fraction <= Highest /\ W64 + Fraction \in 0 .. Highest
        /\ Format[t].high \in 0 .. Highest /\ W64 + Fraction <= Format[t].high
    BY FormatIs
  <2>3. w * u = Power[W64 + Fraction]
    BY <1>4, <2>1, <2>2, PowerGrows DEF Unit
  <2>4. Power[W64 + Fraction] <= p
    BY <1>4, <2>2, PowerOrdered
  <2>5. m * u < w * u
    BY <2>1
  <2> QED BY <1>6, <2>3, <2>4, <2>5
<1>8. Rounded(t, M * 1, 1) = M
  <2>1. Fraction \in 0 .. Highest /\ Format[t].low <= Fraction
    BY FormatIs
  <2>2. M = m * Power[Fraction] /\ 1 \in Nat \ {0}
    BY <1>4, <1>6 DEF Unit
  <2> QED BY <1>4, <1>5, <1>7, <2>1, <2>2, RoundsToItself
<1>9. Convert(a, t) = Signed(t, neg, M)
  <2>1. Convert(a, t) = FloatOf(t, neg, m, 1)
    BY <1>1, <1>2, <1>3, Zenon DEF Convert
  <2>2. FloatOf(t, neg, m, 1) = Signed(t, neg, Rounded(t, m * u, 1))
    BY <1>4, FloatOfIs
  <2>3. M * 1 = m * u
    BY <1>6
  <2> QED BY <1>8, <2>1, <2>2, <2>3
<1>10. CASE n = 0
  <2>1. M = 0 /\ ~ neg
    BY <1>1, <1>3, <1>6, <1>10 DEF Magnitude
  <2>2. Convert(a, t).n = 1 * a.n /\ Convert(a, t).d = 1 * a.d /\ 1 \in Nat \ {0}
    BY <1>1, <1>2, <1>9, <1>10, <2>1 DEF Signed, Zero
  <2> QED BY <2>2, Zenon DEF Same
<1>11. CASE n # 0
  <2>1. M # 0
    <3>1. m # 0
      BY <1>1, <1>11 DEF Magnitude
    <3> QED BY <1>6, <3>1
  <2>2. Convert(a, t) = [t |-> t, n |-> IF neg THEN -M ELSE M, d |-> u]
    BY <1>4, <1>7, <1>9, <2>1 DEF Signed
  <2>3. (IF neg THEN -M ELSE M) = u * n
    <3>1. CASE n < 0
      <4>1. m = -n /\ (-n) * u = -(u * n)
        BY <1>1, <3>1 DEF Magnitude
      <4> QED BY <1>3, <1>6, <3>1, <4>1
    <3>2. CASE ~(n < 0)
      BY <1>1, <1>3, <1>6, <3>2 DEF Magnitude
    <3> QED BY <3>1, <3>2
  <2>4. Convert(a, t).n = u * a.n /\ Convert(a, t).d = u * a.d /\ a.d # 0
    BY <1>1, <1>2, <2>2, <2>3
  <2> QED BY <2>4, Zenon DEF Same
<1> QED BY <1>10, <1>11

(* Formats of types hold all numbers of narrower ones.                     *)
LEMMA WiderIs ==
  ASSUME NEW s \in Floats, NEW t \in Wider(s)
  PROVE  /\ t \in Floats
         /\ Format[s].digits <= Format[t].digits /\ Format[t].low <= Format[s].low
         /\ Format[s].high <= Format[t].high
<1>1. Floats = {"FLOAT", "DOUBLE", "LONG_DOUBLE"}
  BY DEF Floats
<1>2. \A u \in Floats : /\ Format[u].digits \in Nat /\ Format[u].low \in Nat /\ Format[u].high \in Nat
  BY FormatIs
<1>3. t \in Floats /\ \/ s = t
                      \/ s = "FLOAT" /\ t \in {"DOUBLE", "LONG_DOUBLE"}
                      \/ s = "DOUBLE" /\ t = "LONG_DOUBLE"
  BY <1>1 DEF Wider
<1> QED BY <1>1, <1>2, <1>3, FormatsAssumption DEF Below

(* A float becomes one of a wider type and stays the number it is.         *)
LEMMA FloatKept ==
  ASSUME NEW a, IsNumber(a), a.t \in Floats, NEW t \in Wider(a.t)
  PROVE  Convert(a, t).n = a.n /\ Convert(a, t).d = a.d
<1>1. t \in Floats /\ IsFloat(a) /\ a.n \in Int /\ a.d \in Nat
  BY WiderIs, NumberIs
<1>2. SUFFICES ASSUME a.t # t PROVE Convert(a, t).n = a.n /\ Convert(a, t).d = a.d
  BY Zenon DEF Convert
<1>3. PICK neg \in BOOLEAN : neg = Negative(a) /\ (neg <=> a.n < 0 \/ (a.n = 0 /\ a.d = 2))
  BY <1>1 DEF Negative
<1>4. PICK n \in Int, m \in Nat : n = a.n /\ m = Magnitude(n)
  BY <1>1 DEF Magnitude
<1>5. Convert(a, t) = FloatOf(t, neg, m, a.d)
  BY <1>1, <1>2, <1>3, <1>4, Zenon DEF Convert
<1>6. PICK u \in Nat \ {0}, p \in Nat : u = Unit /\ p = Power[Format[t].high]
  BY <1>1, PowerDoubles, FormatIs, FormatPowers DEF Unit
<1>7. CASE a.d = 0
  <2>1. Convert(a, t) = IF m = 0 THEN NaN(t) ELSE Infinity(t, neg)
    BY <1>1, <1>5, <1>7, FloatOfIs
  <2>2. n \in {-1, 0, 1}
    BY <1>1, <1>4, <1>7, <1>6 DEF IsFloat
  <2> QED BY <1>3, <1>4, <1>7, <2>1, <2>2 DEF Magnitude, NaN, Infinity
<1>8. CASE a.d # 0
  <2>1. Convert(a, t) = Signed(t, neg, Rounded(t, m * u, a.d))
    BY <1>1, <1>5, <1>6, <1>8, FloatOfIs
  <2>2. CASE n = 0
    <3>1. m = 0 /\ a.d \in {1, 2} /\ a.d \in Nat \ {0}
      BY <1>1, <1>4, <1>8, <2>2 DEF IsFloat, Magnitude
    <3>2. Format[t].low \in 0 .. Highest
      BY <1>1, FormatIs
    <3>3. PICK g \in Nat \ {0}, x \in Nat \ {0}, q \in Nat \ {0} :
            g = Power[Format[t].digits] /\ x = Power[Format[t].low] /\ q = Power[Format[t].high]
      BY <1>1, <3>2, FormatPowers, PowerDoubles
    <3>4. 0 = 0 * Power[Format[t].low] /\ 0 < Power[Format[t].digits] /\ 0 < Power[Format[t].high]
          /\ Format[t].low <= Format[t].low
      BY <3>2, <3>3
    <3>5. Rounded(t, 0 * a.d, a.d) = 0
      BY <1>1, <3>1, <3>2, <3>4, RoundsToItself
    <3>6. m * u = 0 * a.d
      BY <3>1
    <3>7. Convert(a, t) = Zero(t, neg)
      BY <2>1, <3>5, <3>6 DEF Signed
    <3> QED BY <1>3, <1>4, <2>2, <3>1, <3>7 DEF Zero
  <2>3. CASE n # 0
    <3>1. a.d = u /\ Held(a.t, m) /\ m # 0
      BY <1>1, <1>4, <1>6, <1>8, <2>3 DEF IsFloat, Magnitude
    <3>2. PICK g \in Nat \ {0}, l \in Nat, h \in Nat :
            /\ g = Format[a.t].digits /\ l = Format[a.t].low /\ h = Format[a.t].high
            /\ l + g <= h /\ h <= Highest
            /\ Power[g] \in Nat \ {0} /\ Power[h] \in Nat \ {0}
            /\ \A i \in 0 .. h - g :
                 /\ Power[i] \in Nat \ {0} /\ Power[g + i] \in Nat \ {0}
                 /\ Power[g + i] = Power[g] * Power[i]
      <4>1. PICK g \in Nat \ {0}, l \in Nat, h \in Nat : FormatRoom(a.t, g, l, h)
        BY FormatPowers, Zenon
      <4> QED BY <4>1, Zenon DEF FormatRoom
    <3>3. PICK i \in l .. h - g : m % Power[i] = 0 /\ m \div Power[i] < Power[g]
      BY <3>1, <3>2 DEF Held
    <3>4. i \in 0 .. h - g /\ i \in 0 .. Highest
      <4>1. h <= Highest /\ Highest \in Nat
        BY <3>2, PowerDoubles
      <4> QED BY <4>1
    <3>5. PICK x \in Nat \ {0}, w \in Nat \ {0}, k \in Nat :
            x = Power[i] /\ w = Power[g] /\ k = m \div x /\ m = k * x /\ k < w /\ Power[g + i] = w * x
      <4>1. PICK x \in Nat \ {0}, w \in Nat \ {0} : x = Power[i] /\ w = Power[g] /\ Power[g + i] = w * x
        BY <3>2, <3>4
      <4>2. m \div x \in Nat /\ m = (m \div x) * x + (m % x)
        BY Modulo
      <4>3. PICK k \in Nat : k = m \div x /\ m = k * x + (m % x)
        BY <4>2
      <4>4. m % x = 0 /\ k < w
        BY <3>3, <4>1, <4>3
      <4>5. m = k * x
        BY <4>3, <4>4
      <4> QED BY <4>1, <4>3, <4>4, <4>5
    <3>6. Format[t].low <= i /\ g <= Format[t].digits /\ h <= Format[t].high
          /\ Format[t].low \in Nat /\ Format[t].digits \in 0 .. Highest /\ Format[t].high \in 0 .. Highest
          /\ g \in 0 .. Highest /\ h \in 0 .. Highest /\ g + i \in 0 .. Highest /\ g + i <= Format[t].high
      BY <1>1, <3>2, <3>3, WiderIs, FormatIs
    <3>7. k < Power[Format[t].digits] /\ Power[g + i] <= p /\ Power[Format[t].digits] \in Nat
      BY <1>6, <3>5, <3>6, PowerOrdered, PowerDoubles
    <3>8. m < p
      <4>1. k * x < w * x
        BY <3>5
      <4> QED BY <3>5, <3>7, <4>1
    <3>9. Rounded(t, m * u, u) = m
      BY <1>1, <1>6, <3>4, <3>5, <3>6, <3>7, <3>8, RoundsToItself
    <3>10. Convert(a, t) = [t |-> t, n |-> IF neg THEN -m ELSE m, d |-> u]
      BY <1>6, <2>1, <3>1, <3>8, <3>9 DEF Signed
    <3>11. (IF neg THEN -m ELSE m) = n
      BY <1>3, <1>4, <2>3 DEF Magnitude
    <3> QED BY <1>4, <3>1, <3>10, <3>11
  <2> QED BY <2>2, <2>3
<1> QED BY <1>7, <1>8

(* What a conversion makes of a number.                                    *)
LEMMA Converted ==
  ASSUME NEW a, IsNumber(a), NEW t \in Types
  PROVE  /\ IsResult(Convert(a, t), t)
         /\ a.t \in Whole /\ t \in Whole => Convert(a, t) = Value(t, Wrap(t, a.n))
         /\ a.t \in Whole \/ t \in Floats => IsNumber(Convert(a, t)) /\ Convert(a, t).t = t
<1>1. CASE t \in Floats
  <2>1. a.n \in Int /\ Magnitude(a.n) \in Nat /\ a.d \in Nat /\ Negative(a) \in BOOLEAN
    BY NumberIs DEF Magnitude, Negative
  <2>2. IsNumber(FloatOf(t, Negative(a), Magnitude(a.n), a.d))
        /\ FloatOf(t, Negative(a), Magnitude(a.n), a.d).t = t
    BY <1>1, <2>1, FloatOfIs
  <2>3. IsNumber(Convert(a, t)) /\ Convert(a, t).t = t
    BY <1>1, <2>2 DEF Convert
  <2> QED BY <1>1, <2>3, TypesAre DEF IsResult
<1>2. CASE t \notin Floats /\ a.t \in Whole
  <2>1. t \in Whole /\ a.t \notin Floats
    BY <1>2, TypesAre DEF Types
  <2>2. /\ a.n \in Least(a.t) .. Greatest(a.t) /\ a.n \in Int /\ a.d = 1
        /\ a = [t |-> a.t, n |-> a.n, d |-> a.d]
    BY <1>2, NumberIs
  <2>3. Convert(a, t) = Value(t, Wrap(t, a.n))
    <3>1. a.t = t => a = Value(t, Wrap(t, a.n))
      BY <2>1, <2>2, Wrapped DEF Value
    <3>2. a.t # t => Convert(a, t) = Value(t, Wrap(t, a.n))
      BY <1>2 DEF Convert
    <3>3. a.t = t => Convert(a, t) = a
      BY DEF Convert
    <3> QED BY <3>1, <3>2, <3>3
  <2>4. IsNumber(Value(t, Wrap(t, a.n)))
    BY <2>1, <2>2, Wrapped, WholeNumber
  <2> QED BY <1>2, <2>3, <2>4 DEF IsResult, Value
<1>3. CASE t \notin Floats /\ a.t \notin Whole
  <2>1. t \in Whole /\ a.t # t
    BY <1>3 DEF Types
  <2>2. a.n \in Int /\ a.d \in Nat
    BY NumberIs
  <2>3. Convert(a, t) = IF a.d # 0 /\ Truncate(a.n, a.d) \in Least(t) .. Greatest(t)
                        THEN Value(t, Truncate(a.n, a.d)) ELSE Undefined(t)
    BY <1>3, <2>1 DEF Convert
  <2>4. ASSUME a.d # 0, Truncate(a.n, a.d) \in Least(t) .. Greatest(t)
        PROVE  IsNumber(Value(t, Truncate(a.n, a.d)))
    BY <2>1, <2>4, WholeNumber
  <2> QED BY <1>3, <2>1, <2>3, <2>4 DEF IsResult, Value
<1> QED BY <1>1, <1>2, <1>3

(* A number that is within another integer type is kept by a conversion.   *)
LEMMA ConvertKeeps ==
  ASSUME NEW a, IsNumber(a), a.t \in Whole, NEW t \in Whole, a.n \in Least(t) .. Greatest(t)
  PROVE  Convert(a, t) = Value(t, a.n)
<1>1. a.n \in Int /\ t \in Types
  BY NumberIs, TypesAre
<1>2. Wrap(t, a.n) = a.n
  BY <1>1, Wrapped
<1> QED BY <1>1, <1>2, Converted

LEMMA Fitted ==
  ASSUME NEW c \in Whole, NEW n \in Int
  PROVE  /\ IsResult(Fit(c, n), c)
         /\ c \notin Unsigned =>
              IF n \in Least(c) .. Greatest(c) THEN Fit(c, n) = Value(c, n)
                                               ELSE Fit(c, n) = Undefined(c)
<1>1. CASE c \in Unsigned
  <2>1. Fit(c, n) = Value(c, Wrap(c, n))
    BY <1>1 DEF Fit
  <2>2. IsNumber(Value(c, Wrap(c, n)))
    BY Wrapped, WholeNumber
  <2> QED BY <1>1, <2>1, <2>2 DEF IsResult, Value
<1>2. CASE c \notin Unsigned
  <2>1. Fit(c, n) = IF n \in Least(c) .. Greatest(c) THEN Value(c, n) ELSE Undefined(c)
    BY <1>2 DEF Fit
  <2> QED BY <1>2, <2>1, WholeNumber DEF IsResult, Value
<1> QED BY <1>1, <1>2

LEMMA FloatNumbers ==
  ASSUME NEW a, IsNumber(a), a.t \in Floats
  PROVE  /\ a.n \in Int /\ a.d \in Nat /\ Magnitude(a.n) \in Nat
         /\ Negative(a) \in BOOLEAN /\ IsNumber(Opposite(a)) /\ Opposite(a).t = a.t
<1>1. a \in [t : Types, n : Int, d : Nat] /\ a.t \in Types /\ a.n \in Int /\ a.d \in Nat /\ IsFloat(a)
  BY NumberIs DEF IsNumber
<1>2. IsNumber(Opposite(a)) /\ Opposite(a).t = a.t
  <2>1. PICK e : e = IF IsZero(a) THEN 3 - a.d ELSE a.d
    OBVIOUS
  <2>2. Opposite(a) = [a EXCEPT !.n = -a.n, !.d = e]
    BY <2>1, Zenon DEF Opposite
  <2>3. e \in Int /\ -a.n \in Int
    BY <1>1, <2>1
  <2>4. PICK b : b = [a EXCEPT !.n = -a.n, !.d = e]
    OBVIOUS
  <2>5. b = [t |-> a.t, n |-> -a.n, d |-> e]
    BY <1>1, <2>3, <2>4
  <2>6. b.t = a.t /\ b.n = -a.n /\ b.d = e
    BY <2>5
  <2>7. b.n \in Int /\ Magnitude(b.n) = Magnitude(a.n)
    BY <1>1, <2>6 DEF Magnitude
  <2>8. IsFloat(b) /\ e \in Nat
    <3>1. CASE a.d = 0
      <4>1. e = 0 /\ a.n \in {-1, 0, 1}
        BY <1>1, <2>1, <3>1, UnitIs DEF IsZero, IsFloat
      <4>2. b.n \in {-1, 0, 1}
        BY <2>6, <4>1
      <4> QED BY <2>6, <4>1, <4>2 DEF IsFloat
    <3>2. CASE a.d # 0 /\ a.n = 0
      <4>1. a.d \in {1, 2}
        BY <1>1, <3>2 DEF IsFloat
      <4>2. e = 3 - a.d
        BY <2>1, <3>2 DEF IsZero
      <4>3. (a.d = 1 => e = 2) /\ (a.d = 2 => e = 1)
        BY <4>2
      <4>4. b.n = -a.n /\ (\A k \in Int : k = 0 => -k = 0)
        BY <2>6
      <4>5. b.n = 0
        BY <1>1, <3>2, <4>4, Zenon
      <4> QED BY <2>6, <4>1, <4>3, <4>5 DEF IsFloat
    <3>3. CASE a.d # 0 /\ a.n # 0
      <4>1. b.d = a.d /\ b.n # 0
        BY <1>1, <2>1, <2>6, <3>3 DEF IsZero
      <4>2. a.d = Unit /\ Held(a.t, Magnitude(a.n))
        BY <1>1, <3>3 DEF IsFloat
      <4>3. Held(b.t, Magnitude(b.n))
        BY <2>6, <2>7, <4>2
      <4> QED BY <1>1, <2>6, <4>1, <4>2, <4>3 DEF IsFloat
    <3> QED BY <3>1, <3>2, <3>3
  <2>9. IsNumber(b) /\ b.t = a.t
    BY <1>1, <2>5, <2>6, <2>7, <2>8 DEF IsNumber
  <2> QED BY <2>2, <2>4, <2>9
<1>3. Magnitude(a.n) \in Nat /\ Negative(a) \in BOOLEAN
  BY <1>1 DEF Magnitude, Negative
<1> QED BY <1>1, <1>2, <1>3

(* The operators on two numbers of one type.                               *)
LEMMA FloatsOperated ==
  ASSUME NEW c \in Floats, NEW x, IsNumber(x), x.t = c, NEW y, IsNumber(y), y.t = c
  PROVE  /\ IsNumber(FloatPlus(c, x, y)) /\ FloatPlus(c, x, y).t = c
         /\ IsNumber(FloatTimes(c, x, y)) /\ FloatTimes(c, x, y).t = c
         /\ IsNumber(FloatOver(c, x, y)) /\ FloatOver(c, x, y).t = c
<1>1. /\ x.n \in Int /\ x.d \in Nat /\ Magnitude(x.n) \in Nat /\ Negative(x) \in BOOLEAN
      /\ y.n \in Int /\ y.d \in Nat /\ Magnitude(y.n) \in Nat /\ Negative(y) \in BOOLEAN
  BY FloatNumbers
<1>2. /\ x.d * y.d \in Nat /\ Magnitude(x.n) * Magnitude(y.n) \in Nat
      /\ Magnitude(x.n) * y.d \in Nat /\ x.d * Magnitude(y.n) \in Nat
      /\ x.n * y.d \in Int /\ y.n * x.d \in Int
  BY <1>1, Product
<1>3. ASSUME NEW s, s \in BOOLEAN, NEW n \in Nat, NEW d \in Nat
      PROVE  IsNumber(FloatOf(c, s, n, d)) /\ FloatOf(c, s, n, d).t = c
  BY <1>3, FloatOfIs
<1>4. IsNumber(FloatPlus(c, x, y)) /\ FloatPlus(c, x, y).t = c
  <2>1. CASE x.d = 0 /\ x = y
    BY <2>1 DEF FloatPlus
  <2>2. CASE ~ (x.d = 0 /\ x = y)
    <3>1. PICK n : n = x.n * y.d + y.n * x.d
      OBVIOUS
    <3>2. n \in Int
      BY <1>2, <3>1
    <3>3. Magnitude(n) \in Nat
      BY <3>2 DEF Magnitude
    <3>4. PICK s : s = (n < 0 \/ (Negative(x) /\ Negative(y)))
      OBVIOUS
    <3>5. (n < 0) \in BOOLEAN
      BY <3>2
    <3>6. s \in BOOLEAN
      BY <3>4, Zenon
    <3>7. FloatPlus(c, x, y) = FloatOf(c, s, Magnitude(n), x.d * y.d)
      BY <2>2, <3>1, <3>4, Zenon DEF FloatPlus
    <3> QED BY <1>2, <1>3, <3>3, <3>6, <3>7, Zenon
  <2> QED BY <2>1, <2>2
<1>5. (Negative(x) # Negative(y)) \in BOOLEAN
  BY Zenon
<1>6. IsNumber(FloatTimes(c, x, y)) /\ FloatTimes(c, x, y).t = c
  BY <1>2, <1>3, <1>5, Zenon DEF FloatTimes
<1>7. IsNumber(FloatOver(c, x, y)) /\ FloatOver(c, x, y).t = c
  BY <1>2, <1>3, <1>5, Zenon DEF FloatOver
<1> QED BY <1>4, <1>6, <1>7

LEMMA Operated ==
  ASSUME NEW c \in Types, NEW x, IsNumber(x), x.t = c, NEW y, IsNumber(y), y.t = c
  PROVE  /\ IsResult(Plus(c, x, y), c) /\ IsResult(Minus(c, x, y), c)
         /\ IsResult(Times(c, x, y), c) /\ IsResult(Over(c, x, y), c)
<1>1. CASE c \in Floats
  <2>1. IsNumber(Opposite(y)) /\ Opposite(y).t = c
    BY <1>1, FloatNumbers
  <2>2. /\ Plus(c, x, y) = FloatPlus(c, x, y) /\ Minus(c, x, y) = FloatPlus(c, x, Opposite(y))
        /\ Times(c, x, y) = FloatTimes(c, x, y) /\ Over(c, x, y) = FloatOver(c, x, y)
    BY <1>1 DEF Plus, Minus, Times, Over
  <2>3. IsNumber(FloatPlus(c, x, Opposite(y))) /\ FloatPlus(c, x, Opposite(y)).t = c
    BY <1>1, <2>1, FloatsOperated
  <2> QED BY <1>1, <2>2, <2>3, FloatsOperated DEF IsResult
<1>2. CASE c \in Whole
  <2>1. c \notin Floats /\ x.n \in Int /\ y.n \in Int
    BY <1>2, NumberIs, TypesAre
  <2>2. x.n + y.n \in Int /\ x.n - y.n \in Int /\ x.n * y.n \in Int
    BY <2>1, Product
  <2>3. IsResult(Plus(c, x, y), c) /\ IsResult(Minus(c, x, y), c) /\ IsResult(Times(c, x, y), c)
    BY <1>2, <2>1, <2>2, Fitted DEF Plus, Minus, Times
  <2>4. IsResult(Over(c, x, y), c)
    <3>1. CASE y.n = 0
      BY <2>1, <3>1 DEF Over, IsResult
    <3>2. CASE y.n # 0
      <4>1. Truncate(x.n, y.n) \in Int
        BY <2>1, <3>2, Truncated
      <4> QED BY <1>2, <2>1, <3>2, <4>1, Fitted DEF Over
    <3> QED BY <3>1, <3>2
  <2> QED BY <2>3, <2>4
<1> QED BY <1>1, <1>2 DEF Types

LEMMA OneBlock ==
  /\ \A u \in Shorts : u \notin Bytes
  /\ \A u \in Ints : u \notin Bytes /\ u \notin Shorts
  /\ \A u \in Longs : u \notin Bytes /\ u \notin Shorts /\ u \notin Ints
  /\ \A u \in Floats : u \notin Bytes /\ u \notin Shorts /\ u \notin Ints /\ u \notin Longs
BY DEF Bytes, Shorts, Ints, Longs, Floats

LEMMA BlockIs ==
  ASSUME NEW t, NEW b, NEW s, NEW i, NEW l, NEW f
  PROVE  /\ t \in Bytes => Block(t, b, s, i, l, f) = b
         /\ t \in Shorts => Block(t, b, s, i, l, f) = s
         /\ t \in Ints => Block(t, b, s, i, l, f) = i
         /\ t \in Longs => Block(t, b, s, i, l, f) = l
         /\ t \in Floats => Block(t, b, s, i, l, f) = f
BY OneBlock, Zenon DEF Block

LEMMA InABlock ==
  ASSUME NEW t \in Types
  PROVE  t \in Bytes \/ t \in Shorts \/ t \in Ints \/ t \in Longs \/ t \in Floats
BY DEF Types, Whole, Narrow

(* The type in which C computes with two operands.                         *)
Common(t1, t2) ==
  IF t1 \in Narrow THEN CommonNarrow(t2)
  ELSE IF t1 \in Ints THEN CommonInt(t1, t2)
  ELSE IF t1 \in Longs THEN CommonLong(t1, t2) ELSE CommonFloat(t1, t2)

LEMMA CommonInBlock ==
  ASSUME NEW t1 \in Types, NEW t2
  PROVE  /\ t1 \in Bytes \cup Shorts => Common(t1, t2) = CommonNarrow(t2)
         /\ t1 \in Ints => Common(t1, t2) = CommonInt(t1, t2)
         /\ t1 \in Longs => Common(t1, t2) = CommonLong(t1, t2)
         /\ t1 \in Floats => Common(t1, t2) = CommonFloat(t1, t2)
BY DEF Common, Narrow, Bytes, Shorts, Ints, Longs, Floats

(* It does not depend on their order.                                      *)
LEMMA CommonType ==
  ASSUME NEW t1 \in Types, NEW t2 \in Types
  PROVE  /\ Common(t1, t2) \in Types
         /\ Common(t1, t2) = Common(t2, t1)
         /\ Common(t1, t2) \in Floats <=> (t1 \in Floats \/ t2 \in Floats)
         /\ Common(t1, t2) \in Whole <=> (t1 \in Whole /\ t2 \in Whole)
<1> USE TypesAre DEF Common, CommonNarrow, CommonInt, CommonLong, CommonFloat,
                     Narrow, Bytes, Shorts, Ints, Longs, Floats
<1>1. CASE t1 \in Narrow
  BY <1>1
<1>2. CASE t1 \in Ints
  BY <1>2
<1>3. CASE t1 \in Longs
  BY <1>3
<1>4. CASE t1 \in Floats
  BY <1>4
<1> QED BY <1>1, <1>2, <1>3, <1>4, InABlock

(* The operands of an operator, as C converts them.                        *)
LEMMA InCommon ==
  ASSUME NEW a, IsNumber(a), NEW b, IsNumber(b)
  PROVE  LET c == Common(a.t, b.t) IN
         /\ IsNumber(Convert(a, c)) /\ Convert(a, c).t = c
         /\ IsNumber(Convert(b, c)) /\ Convert(b, c).t = c
<1>1. a.t \in Types /\ b.t \in Types
  BY NumberIs
<1>2. PICK c \in Types : c = Common(a.t, b.t)
  BY <1>1, CommonType
<1>3. (a.t \in Whole /\ b.t \in Whole) \/ c \in Floats
  BY <1>1, <1>2, CommonType DEF Types
<1> QED BY <1>2, <1>3, Converted

-----------------------------------------------------------------------------
(* Comparisons.  Each of the six tables compares in the common type.       *)

(* The blocks of a table, each for a type of the left operand.             *)
LEMMA CommonBlocks ==
  ASSUME NEW t1 \in Types, NEW t2
  PROVE  Block(t1, CommonNarrow(t2), CommonNarrow(t2), CommonInt(t1, t2),
               CommonLong(t1, t2), CommonFloat(t1, t2)) = Common(t1, t2)
<1>1. PICK n, i, l, f : /\ n = CommonNarrow(t2) /\ i = CommonInt(t1, t2)
                        /\ l = CommonLong(t1, t2) /\ f = CommonFloat(t1, t2)
  OBVIOUS
<1>2. /\ t1 \in Bytes => Block(t1, n, n, i, l, f) = n
      /\ t1 \in Shorts => Block(t1, n, n, i, l, f) = n
      /\ t1 \in Ints => Block(t1, n, n, i, l, f) = i
      /\ t1 \in Longs => Block(t1, n, n, i, l, f) = l
      /\ t1 \in Floats => Block(t1, n, n, i, l, f) = f
  BY BlockIs
<1>3. /\ t1 \in Bytes => Common(t1, t2) = n
      /\ t1 \in Shorts => Common(t1, t2) = n
      /\ t1 \in Ints => Common(t1, t2) = i
      /\ t1 \in Longs => Common(t1, t2) = l
      /\ t1 \in Floats => Common(t1, t2) = f
  BY <1>1, CommonInBlock
<1>4. Block(t1, n, n, i, l, f) = Common(t1, t2)
  BY <1>2, <1>3, InABlock
<1> QED BY <1>1, <1>4, Zenon

LEMMA ComparesEq ==
  ASSUME NEW a, IsNumber(a), NEW b, IsNumber(b), NEW c, c = Common(a.t, b.t)
  PROVE  psi_calc_cmp_eq(a, b) = Truth(Equal(Convert(a, c), Convert(b, c)))
<1>1. a.t \in Types
  BY NumberIs
<1> QED BY <1>1, CommonBlocks, Zenon
        DEF psi_calc_cmp_eq, Test, EqNarrow, EqInts, EqLongs, EqFloats

LEMMA ComparesNe ==
  ASSUME NEW a, IsNumber(a), NEW b, IsNumber(b), NEW c, c = Common(a.t, b.t)
  PROVE  psi_calc_cmp_ne(a, b) = Truth(NotEqual(Convert(a, c), Convert(b, c)))
<1>1. a.t \in Types
  BY NumberIs
<1> QED BY <1>1, CommonBlocks, Zenon
        DEF psi_calc_cmp_ne, Test, NeNarrow, NeInts, NeLongs, NeFloats

LEMMA ComparesLt ==
  ASSUME NEW a, IsNumber(a), NEW b, IsNumber(b), NEW c, c = Common(a.t, b.t)
  PROVE  psi_calc_cmp_lt(a, b) = Truth(Less(Convert(a, c), Convert(b, c)))
<1>1. a.t \in Types
  BY NumberIs
<1> QED BY <1>1, CommonBlocks, Zenon
        DEF psi_calc_cmp_lt, Test, LtNarrow, LtInts, LtLongs, LtFloats

LEMMA ComparesGt ==
  ASSUME NEW a, IsNumber(a), NEW b, IsNumber(b), NEW c, c = Common(a.t, b.t)
  PROVE  psi_calc_cmp_gt(a, b) = Truth(More(Convert(a, c), Convert(b, c)))
<1>1. a.t \in Types
  BY NumberIs
<1> QED BY <1>1, CommonBlocks, Zenon
        DEF psi_calc_cmp_gt, Test, GtNarrow, GtInts, GtLongs, GtFloats

LEMMA ComparesLe ==
  ASSUME NEW a, IsNumber(a), NEW b, IsNumber(b), NEW c, c = Common(a.t, b.t)
  PROVE  psi_calc_cmp_le(a, b) = Truth(AtMost(Convert(a, c), Convert(b, c)))
<1>1. a.t \in Types
  BY NumberIs
<1> QED BY <1>1, CommonBlocks, Zenon
        DEF psi_calc_cmp_le, Test, LeNarrow, LeInts, LeLongs, LeFloats

LEMMA ComparesGe ==
  ASSUME NEW a, IsNumber(a), NEW b, IsNumber(b), NEW c, c = Common(a.t, b.t)
  PROVE  psi_calc_cmp_ge(a, b) = Truth(AtLeast(Convert(a, c), Convert(b, c)))
<1>1. a.t \in Types
  BY NumberIs
<1> QED BY <1>1, CommonBlocks, Zenon
        DEF psi_calc_cmp_ge, Test, GeNarrow, GeInts, GeLongs, GeFloats

LEMMA Answers ==
  ASSUME NEW a, IsNumber(a), NEW b, IsNumber(b), NEW c, c = Common(a.t, b.t)
  PROVE  LET x == Convert(a, c)
             y == Convert(b, c)
         IN  /\ Holds(psi_calc_cmp_eq(a, b)) <=> Equal(x, y)
             /\ Holds(psi_calc_cmp_ne(a, b)) <=> NotEqual(x, y)
             /\ Holds(psi_calc_cmp_lt(a, b)) <=> Less(x, y)
             /\ Holds(psi_calc_cmp_gt(a, b)) <=> More(x, y)
             /\ Holds(psi_calc_cmp_le(a, b)) <=> AtMost(x, y)
             /\ Holds(psi_calc_cmp_ge(a, b)) <=> AtLeast(x, y)
<1>1. Holds(psi_calc_cmp_eq(a, b)) <=> Equal(Convert(a, c), Convert(b, c))
  BY ComparesEq DEF Holds, Truth, Value
<1>2. Holds(psi_calc_cmp_ne(a, b)) <=> NotEqual(Convert(a, c), Convert(b, c))
  BY ComparesNe DEF Holds, Truth, Value
<1>3. Holds(psi_calc_cmp_lt(a, b)) <=> Less(Convert(a, c), Convert(b, c))
  BY ComparesLt DEF Holds, Truth, Value
<1>4. Holds(psi_calc_cmp_gt(a, b)) <=> More(Convert(a, c), Convert(b, c))
  BY ComparesGt DEF Holds, Truth, Value
<1>5. Holds(psi_calc_cmp_le(a, b)) <=> AtMost(Convert(a, c), Convert(b, c))
  BY ComparesLe DEF Holds, Truth, Value
<1>6. Holds(psi_calc_cmp_ge(a, b)) <=> AtLeast(Convert(a, c), Convert(b, c))
  BY ComparesGe DEF Holds, Truth, Value
<1> QED BY <1>1, <1>2, <1>3, <1>4, <1>5, <1>6

(* What is no number stays that, and nothing else becomes it.              *)
LEMMA NaNKept ==
  ASSUME NEW a, IsNumber(a), NEW t \in Types, a.t \in Whole \/ t \in Floats
  PROVE  IsNaN(Convert(a, t)) <=> IsNaN(a)
<1>1. a.t \in Types /\ a.n \in Int /\ a.d \in Nat /\ (a.t \in Whole => a.d = 1)
  BY NumberIs
<1>2. CASE a.t = t
  BY <1>2 DEF Convert
<1>3. CASE a.t # t /\ t \in Whole
  <2>1. a.t \in Whole
    BY <1>3, TypesAre
  <2>2. Convert(a, t).d = 1
    BY <1>3, <2>1, Converted DEF Value
  <2> QED BY <1>1, <2>1, <2>2 DEF IsNaN
<1>4. CASE a.t # t /\ t \in Floats
  <2>1. PICK neg \in BOOLEAN, m \in Nat :
          neg = Negative(a) /\ m = Magnitude(a.n) /\ (m = 0 <=> a.n = 0)
    <3>1. Negative(a) \in BOOLEAN
      BY DEF Negative
    <3>2. Magnitude(a.n) \in Nat /\ (Magnitude(a.n) = 0 <=> a.n = 0)
      BY <1>1 DEF Magnitude
    <3> QED BY <3>1, <3>2, Zenon
  <2>2. Convert(a, t) = FloatOf(t, neg, m, a.d)
    BY <1>4, <2>1 DEF Convert
  <2>3. FloatOf(t, neg, m, a.d) =
          IF a.d = 0 THEN IF m = 0 THEN NaN(t) ELSE Infinity(t, neg)
          ELSE Signed(t, neg, Rounded(t, m * Unit, a.d))
    BY <1>1, <1>4, FloatOfIs
  <2>4. CASE a.d = 0
    BY <2>1, <2>2, <2>3, <2>4 DEF IsNaN, NaN, Infinity
  <2>5. CASE a.d # 0
    <3>1. m * Unit \in Nat /\ a.d \in Nat \ {0}
      BY <1>1, <2>5, UnitIs, Product
    <3>2. PICK r \in Nat : r = Rounded(t, m * Unit, a.d)
      BY <1>4, <3>1, RoundedHolds
    <3>3. PICK s : s = Signed(t, neg, r) /\ ~(s.n = 0 /\ s.d = 0)
      <4>1. CASE r = 0
        <5>1. Signed(t, neg, r) = Zero(t, neg)
          BY <4>1, Zenon DEF Signed
        <5>2. Zero(t, neg).d # 0
          BY DEF Zero
        <5> QED BY <5>1, <5>2, Zenon
      <4>2. CASE r # 0 /\ r >= Power[Format[t].high]
        <5>1. Signed(t, neg, r) = Infinity(t, neg)
          BY <4>2, Zenon DEF Signed
        <5>2. Infinity(t, neg).n # 0
          BY DEF Infinity
        <5> QED BY <5>1, <5>2, Zenon
      <4>3. CASE r # 0 /\ ~ (r >= Power[Format[t].high])
        <5>1. Signed(t, neg, r) = [t |-> t, n |-> IF neg THEN -r ELSE r, d |-> Unit]
          BY <4>3, Zenon DEF Signed
        <5>2. Signed(t, neg, r).d = Unit
          BY <5>1
        <5> QED BY <5>2, UnitIs, Zenon
      <4> QED BY <4>1, <4>2, <4>3, Zenon
    <3> QED BY <2>2, <2>3, <2>5, <3>2, <3>3 DEF IsNaN
  <2> QED BY <2>4, <2>5
<1> QED BY <1>2, <1>3, <1>4 DEF Types

LEMMA Differences ==
  ASSUME NEW x, IsNumber(x), NEW y, IsNumber(y)
  PROVE  Difference(x, y) \in Int /\ Difference(y, x) \in Int /\ Difference(y, x) = -Difference(x, y)
<1>1. x.n \in Int /\ x.d \in Nat /\ y.n \in Int /\ y.d \in Nat
  BY NumberIs
<1>2. PICK m \in Int, n \in Int : m = x.n * y.d /\ n = y.n * x.d
  BY <1>1, Product
<1>3. CASE x.d = 0 /\ y.d = 0
  BY <1>1, <1>3 DEF Difference
<1>4. CASE ~ (x.d = 0 /\ y.d = 0)
  <2>1. Difference(x, y) = m - n /\ Difference(y, x) = n - m
    BY <1>2, <1>4 DEF Difference
  <2> QED BY <2>1
<1> QED BY <1>3, <1>4

(* Of any two numbers just one is less, or they are equal.                 *)
LEMMA Trichotomous ==
  ASSUME NEW a, IsNumber(a), NEW b, IsNumber(b)
  PROVE  LET lt == Holds(psi_calc_cmp_lt(a, b))
             gt == Holds(psi_calc_cmp_gt(a, b))
             eq == Holds(psi_calc_cmp_eq(a, b))
         IN  /\ Cardinality({p \in {1, 2, 3} : <<lt, gt, eq>>[p]}) =
                  IF IsNaN(a) \/ IsNaN(b) THEN 0 ELSE 1
             /\ Holds(psi_calc_cmp_le(a, b)) = (lt \/ eq)
             /\ Holds(psi_calc_cmp_ge(a, b)) = (gt \/ eq)
             /\ Holds(psi_calc_cmp_ne(a, b)) = ~ eq
             /\ lt = Holds(psi_calc_cmp_gt(b, a))
             /\ eq = Holds(psi_calc_cmp_eq(b, a))
<1>1. a.t \in Types /\ b.t \in Types
  BY NumberIs
<1>2. PICK c \in Types : c = Common(a.t, b.t) /\ c = Common(b.t, a.t)
  BY <1>1, CommonType
<1>3. PICK x, y : x = Convert(a, c) /\ y = Convert(b, c) /\ IsNumber(x) /\ IsNumber(y)
  BY <1>2, InCommon
<1>4. PICK m \in Int, n \in Int : m = Difference(x, y) /\ n = Difference(y, x) /\ n = -m
  BY <1>3, Differences
<1>5. PICK N \in BOOLEAN : N <=> (IsNaN(a) \/ IsNaN(b))
  BY DEF IsNaN
<1>6. (Ordered(x, y) <=> ~N) /\ (Ordered(y, x) <=> ~N)
  <2>1. (a.t \in Whole \/ c \in Floats) /\ (b.t \in Whole \/ c \in Floats)
    BY <1>1, <1>2, CommonType DEF Types
  <2>2. (IsNaN(x) <=> IsNaN(a)) /\ (IsNaN(y) <=> IsNaN(b))
    BY <1>3, <2>1, NaNKept
  <2> QED BY <1>5, <2>2 DEF Ordered
<1>7. /\ Holds(psi_calc_cmp_lt(a, b)) <=> (~N /\ m < 0)
      /\ Holds(psi_calc_cmp_gt(a, b)) <=> (~N /\ m > 0)
      /\ Holds(psi_calc_cmp_eq(a, b)) <=> (~N /\ m = 0)
      /\ Holds(psi_calc_cmp_le(a, b)) <=> (~N /\ m <= 0)
      /\ Holds(psi_calc_cmp_ge(a, b)) <=> (~N /\ m >= 0)
      /\ Holds(psi_calc_cmp_ne(a, b)) <=> ~(~N /\ m = 0)
  BY <1>2, <1>3, <1>4, <1>6, Answers DEF Less, More, Equal, AtMost, AtLeast, NotEqual
<1>8. /\ Holds(psi_calc_cmp_gt(b, a)) <=> (~N /\ n > 0)
      /\ Holds(psi_calc_cmp_eq(b, a)) <=> (~N /\ n = 0)
  BY <1>2, <1>3, <1>4, <1>6, Answers DEF More, Equal
<1>9. PICK lt \in BOOLEAN, gt \in BOOLEAN, eq \in BOOLEAN :
        /\ lt = Holds(psi_calc_cmp_lt(a, b)) /\ gt = Holds(psi_calc_cmp_gt(a, b))
        /\ eq = Holds(psi_calc_cmp_eq(a, b))
  <2>1. /\ Holds(psi_calc_cmp_lt(a, b)) \in BOOLEAN /\ Holds(psi_calc_cmp_gt(a, b)) \in BOOLEAN
        /\ Holds(psi_calc_cmp_eq(a, b)) \in BOOLEAN
    BY Zenon DEF Holds
  <2> QED BY <2>1, Zenon
<1>10. (lt <=> (~N /\ m < 0)) /\ (gt <=> (~N /\ m > 0)) /\ (eq <=> (~N /\ m = 0))
  BY <1>7, <1>9, Zenon
<1>11. Cardinality({p \in {1, 2, 3} : <<lt, gt, eq>>[p]}) = IF IsNaN(a) \/ IsNaN(b) THEN 0 ELSE 1
  <2>1. PICK P : P = {p \in {1, 2, 3} : <<lt, gt, eq>>[p]}
    OBVIOUS
  <2>2. (1 \in P <=> lt) /\ (2 \in P <=> gt) /\ (3 \in P <=> eq) /\ P \subseteq {1, 2, 3}
    BY <2>1
  <2>3. CASE N
    <3>1. P = {}
      BY <1>10, <2>2, <2>3
    <3> QED BY <1>5, <2>1, <2>3, <3>1, FS_EmptySet
  <2>4. CASE ~N
    <3>1. \/ lt /\ ~gt /\ ~eq
          \/ ~lt /\ gt /\ ~eq
          \/ ~lt /\ ~gt /\ eq
      BY <1>10, <2>4
    <3>2. P = {1} \/ P = {2} \/ P = {3}
      BY <2>2, <3>1
    <3> QED BY <1>5, <2>1, <2>4, <3>2, FS_Singleton
  <2> QED BY <2>3, <2>4
<1>12. /\ Holds(psi_calc_cmp_le(a, b)) = (lt \/ eq)
       /\ Holds(psi_calc_cmp_ge(a, b)) = (gt \/ eq)
       /\ Holds(psi_calc_cmp_ne(a, b)) = ~ eq
       /\ lt = Holds(psi_calc_cmp_gt(b, a))
       /\ eq = Holds(psi_calc_cmp_eq(b, a))
  <2>1. /\ Holds(psi_calc_cmp_le(a, b)) \in BOOLEAN /\ Holds(psi_calc_cmp_ge(a, b)) \in BOOLEAN
        /\ Holds(psi_calc_cmp_ne(a, b)) \in BOOLEAN /\ Holds(psi_calc_cmp_gt(b, a)) \in BOOLEAN
        /\ Holds(psi_calc_cmp_eq(b, a)) \in BOOLEAN
    BY Zenon DEF Holds
  <2>2. /\ (m <= 0 <=> m < 0 \/ m = 0) /\ (m >= 0 <=> m > 0 \/ m = 0)
        /\ (n > 0 <=> m < 0) /\ (n = 0 <=> m = 0)
    BY <1>4
  <2> QED BY <1>7, <1>8, <1>10, <2>1, <2>2, Zenon
<1> QED BY <1>9, <1>11, <1>12, Zenon

(* A number loses nothing when it becomes one of the common type, but for  *)
(* its sign, or some digits of an integer.                                 *)
LEMMA KeptInCommon ==
  ASSUME NEW a, IsNumber(a), NEW b, IsNumber(b), NEW c, c = Common(a.t, b.t),
         ~ SignLost(a, b), ~ TooLong(a, b.t)
  PROVE  Same(a, Convert(a, c))
<1>1. a.t \in Types /\ b.t \in Types /\ c \in Types
  BY NumberIs, CommonType
<1>2. CASE c \in Floats
  <2>1. CASE a.t \in Whole
    <3>1. b.t \in Floats /\ a.t \notin Floats
      BY <1>1, <1>2, <2>1, CommonType, TypesAre
    <3>2. c = b.t
      BY <1>1, <2>1, <3>1, TypesAre
      DEF Common, CommonNarrow, CommonInt, CommonLong, Narrow, Bytes, Shorts, Ints, Longs, Floats
    <3> QED BY <1>2, <2>1, <3>2, IntegerKept
  <2>2. CASE a.t \in Floats
    <3>1. c \in Wider(a.t)
      BY <1>1, <2>2, TypesAre
      DEF Common, CommonFloat, Wider, Narrow, Bytes, Shorts, Ints, Longs, Floats
    <3>2. PICK x : x = Convert(a, c) /\ x.n = a.n /\ x.d = a.d
      BY <2>2, <3>1, FloatKept
    <3>3. x.n = 1 * a.n /\ x.d = 1 * a.d
      BY <3>2, NumberIs
    <3> QED BY <3>2, <3>3 DEF Same
  <2> QED BY <1>1, <2>1, <2>2 DEF Types
<1>3. CASE c \notin Floats
  <2>1. a.t \in Whole /\ b.t \in Whole /\ c \in Whole
    BY <1>1, <1>3, CommonType DEF Types
  <2>2. a.d = 1 /\ a.n \in Least(a.t) .. Greatest(a.t)
    BY <2>1, NumberIs
  <2>3. PICK p \in Nat \ {0, 1}, s \in Nat \ {0}, i \in Nat \ {0}, l \in Nat \ {0} :
          /\ 2 * (p * p) <= s /\ 2 * (s * s) <= i /\ 2 * i <= l
          /\ \A t \in Bytes : Half(t) = p
          /\ \A t \in Shorts : Half(t) = s
          /\ \A t \in Ints : Half(t) = i
          /\ \A t \in Longs : Half(t) = l
    BY Doubled
  <2>4. 2 * p <= s /\ 2 * s <= i
    <3>1. p <= p * p /\ s <= s * s
      OBVIOUS
    <3> QED BY <2>3, <3>1
  <2>5. a.n \in Least(c) .. Greatest(c)
    <3>1. /\ a.t \in Unsigned => Least(a.t) = 0 /\ Greatest(a.t) = 2 * Half(a.t) - 1
          /\ a.t \notin Unsigned => Least(a.t) = -Half(a.t) /\ Greatest(a.t) = Half(a.t) - 1
          /\ c \in Unsigned => Least(c) = 0 /\ Greatest(c) = 2 * Half(c) - 1
          /\ c \notin Unsigned => Least(c) = -Half(c) /\ Greatest(c) = Half(c) - 1
          /\ Half(a.t) \in Nat /\ Half(c) \in Nat
      BY <2>1, Halves
    <3>2. PICK h \in Nat, k \in Nat : h = Half(a.t) /\ k = Half(c)
      BY <3>1
    <3>3. a.n \in Int
      BY NumberIs
    <3>4. /\ h <= k /\ Width(a.t) <= Width(c)
          /\ c \notin Unsigned => a.t \notin Unsigned \/ 2 * h <= k
          /\ c \in Unsigned => a.t \in Unsigned \/ (b.t = c /\ c \in {"UINT32", "UINT64"})
      <4> USE <1>1, <2>1, <2>3, <2>4, <3>2, TypesAre, Widths, WidthsAssumption
          DEF Common, CommonNarrow, CommonInt, CommonLong, Narrow, Bytes, Shorts, Ints, Longs, Floats,
              Unsigned
      <4>1. CASE a.t \in Bytes
        BY <4>1
      <4>2. CASE a.t \in Shorts
        BY <4>2
      <4>3. CASE a.t \in Ints
        BY <4>3
      <4>4. CASE a.t \in Longs
        BY <4>4
      <4> QED BY <4>1, <4>2, <4>3, <4>4
    <3>5. CASE c \in Unsigned
      <4>1. a.t \in Unsigned \/ a.n >= 0
        BY <2>1, <3>3, <3>4, <3>5 DEF SignLost
      <4> QED BY <2>2, <3>1, <3>2, <3>3, <3>4, <3>5, <4>1
    <3>6. CASE c \notin Unsigned
      BY <2>2, <3>1, <3>2, <3>3, <3>4, <3>6
    <3> QED BY <3>5, <3>6
  <2>6. PICK x : x = Convert(a, c) /\ x.n = a.n /\ x.d = a.d
    BY <2>1, <2>2, <2>5, ConvertKeeps DEF Value
  <2>7. x.n = 1 * a.n /\ x.d = 1 * a.d
    BY <2>6, NumberIs
  <2> QED BY <2>6, <2>7 DEF Same
<1> QED BY <1>2, <1>3

(* How two numbers compare does not depend on how their fractions are      *)
(* extended.                                                               *)
LEMMA SameDifference ==
  ASSUME NEW a, IsNumber(a), NEW b, IsNumber(b), NEW x, Same(a, x), NEW y, Same(b, y)
  PROVE  \E p \in Nat \ {0}, e \in Int :
           /\ e = Difference(a, b) /\ Difference(x, y) = p * e
           /\ Ordered(x, y) <=> Ordered(a, b)
<1>1. a.n \in Int /\ a.d \in Nat /\ b.n \in Int /\ b.d \in Nat
  BY NumberIs
<1>2. PICK k \in Nat \ {0} : x.n = k * a.n /\ x.d = k * a.d /\ (a.d = 0 => k = 1)
  BY DEF Same
<1>3. PICK l \in Nat \ {0} : y.n = l * b.n /\ y.d = l * b.d /\ (b.d = 0 => l = 1)
  BY DEF Same
<1>4. (x.n = 0 <=> a.n = 0) /\ (x.d = 0 <=> a.d = 0) /\ (y.n = 0 <=> b.n = 0) /\ (y.d = 0 <=> b.d = 0)
  BY <1>1, <1>2, <1>3, NoZero
<1>5. Ordered(x, y) <=> Ordered(a, b)
  BY <1>4 DEF Ordered, IsNaN
<1>6. PICK e \in Int : e = Difference(a, b)
  BY Differences
<1>7. CASE a.d = 0 /\ b.d = 0
  <2>1. x.n = a.n /\ y.n = b.n /\ x.d = 0 /\ y.d = 0
    BY <1>1, <1>2, <1>3, <1>7
  <2>2. Difference(x, y) = 1 * e
    BY <1>1, <1>6, <1>7, <2>1 DEF Difference
  <2> QED BY <1>5, <1>6, <2>2
<1>8. CASE ~ (a.d = 0 /\ b.d = 0)
  <2>1. PICK m \in Int, n \in Int : m = a.n * b.d /\ n = b.n * a.d /\ e = m - n
    BY <1>1, <1>6, <1>8, Product DEF Difference
  <2>2. PICK p \in Nat \ {0} : p = k * l
    BY NoZero, Product
  <2>3. x.n * y.d = p * m /\ y.n * x.d = p * n
    BY <1>1, <1>2, <1>3, <2>1, <2>2, Regrouped
  <2>4. Difference(x, y) = p * m - p * n
    BY <1>4, <1>8, <2>3 DEF Difference
  <2>5. p * m - p * n = p * (m - n)
    OBVIOUS
  <2> QED BY <1>5, <1>6, <2>1, <2>4, <2>5
<1> QED BY <1>7, <1>8

LEMMA SamesCompare ==
  ASSUME NEW a, IsNumber(a), NEW b, IsNumber(b), NEW x, Same(a, x), NEW y, Same(b, y)
  PROVE  /\ Equal(x, y) <=> Equal(a, b)
         /\ NotEqual(x, y) <=> NotEqual(a, b)
         /\ Less(x, y) <=> Less(a, b)
         /\ More(x, y) <=> More(a, b)
         /\ AtMost(x, y) <=> AtMost(a, b)
         /\ AtLeast(x, y) <=> AtLeast(a, b)
<1>1. PICK p \in Nat \ {0}, e \in Int :
        /\ e = Difference(a, b) /\ Difference(x, y) = p * e
        /\ Ordered(x, y) <=> Ordered(a, b)
  BY SameDifference
<1>2. /\ p * e = 0 <=> e = 0
      /\ p * e < 0 <=> e < 0
      /\ p * e > 0 <=> e > 0
      /\ p * e <= 0 <=> e <= 0
      /\ p * e >= 0 <=> e >= 0
  BY SignKept
<1> QED BY <1>1, <1>2 DEF Equal, NotEqual, Less, More, AtMost, AtLeast

(* A comparison is that of the numbers, unless one of them loses its sign  *)
(* or is an integer that is rounded.                                       *)
LEMMA ComparesTheNumbers ==
  ASSUME NEW a, IsNumber(a), NEW b, IsNumber(b), ~ SignLost(a, b), ~ SignLost(b, a),
         ~ TooLong(a, b.t), ~ TooLong(b, a.t)
  PROVE  /\ psi_calc_cmp_eq(a, b) = Truth(Equal(a, b))
         /\ psi_calc_cmp_ne(a, b) = Truth(NotEqual(a, b))
         /\ psi_calc_cmp_lt(a, b) = Truth(Less(a, b))
         /\ psi_calc_cmp_gt(a, b) = Truth(More(a, b))
         /\ psi_calc_cmp_le(a, b) = Truth(AtMost(a, b))
         /\ psi_calc_cmp_ge(a, b) = Truth(AtLeast(a, b))
<1>1. PICK c : c = Common(a.t, b.t) /\ c = Common(b.t, a.t)
  BY NumberIs, CommonType
<1>2. PICK x, y : x = Convert(a, c) /\ y = Convert(b, c)
  OBVIOUS
<1>3. Same(a, x) /\ Same(b, y)
  BY <1>1, <1>2, KeptInCommon
<1>4. psi_calc_cmp_eq(a, b) = Truth(Equal(a, b))
  <2>1. psi_calc_cmp_eq(a, b) = Truth(Equal(x, y))
    BY <1>1, <1>2, ComparesEq
  <2>2. Equal(x, y) <=> Equal(a, b)
    BY <1>3, SamesCompare
  <2> QED BY <2>1, <2>2 DEF Truth, Value
<1>5. psi_calc_cmp_ne(a, b) = Truth(NotEqual(a, b))
  <2>1. psi_calc_cmp_ne(a, b) = Truth(NotEqual(x, y))
    BY <1>1, <1>2, ComparesNe
  <2>2. NotEqual(x, y) <=> NotEqual(a, b)
    BY <1>3, SamesCompare
  <2> QED BY <2>1, <2>2 DEF Truth, Value
<1>6. psi_calc_cmp_lt(a, b) = Truth(Less(a, b))
  <2>1. psi_calc_cmp_lt(a, b) = Truth(Less(x, y))
    BY <1>1, <1>2, ComparesLt
  <2>2. Less(x, y) <=> Less(a, b)
    BY <1>3, SamesCompare
  <2> QED BY <2>1, <2>2 DEF Truth, Value
<1>7. psi_calc_cmp_gt(a, b) = Truth(More(a, b))
  <2>1. psi_calc_cmp_gt(a, b) = Truth(More(x, y))
    BY <1>1, <1>2, ComparesGt
  <2>2. More(x, y) <=> More(a, b)
    BY <1>3, SamesCompare
  <2> QED BY <2>1, <2>2 DEF Truth, Value
<1>8. psi_calc_cmp_le(a, b) = Truth(AtMost(a, b))
  <2>1. psi_calc_cmp_le(a, b) = Truth(AtMost(x, y))
    BY <1>1, <1>2, ComparesLe
  <2>2. AtMost(x, y) <=> AtMost(a, b)
    BY <1>3, SamesCompare
  <2> QED BY <2>1, <2>2 DEF Truth, Value
<1>9. psi_calc_cmp_ge(a, b) = Truth(AtLeast(a, b))
  <2>1. psi_calc_cmp_ge(a, b) = Truth(AtLeast(x, y))
    BY <1>1, <1>2, ComparesGe
  <2>2. AtLeast(x, y) <=> AtLeast(a, b)
    BY <1>3, SamesCompare
  <2> QED BY <2>1, <2>2 DEF Truth, Value
<1> QED BY <1>4, <1>5, <1>6, <1>7, <1>8, <1>9

-----------------------------------------------------------------------------
(* Arithmetic.  What an operation made is stored in the type of its result. *)

(* The type of the result of basic.h.                                      *)
ResultType(t1, t2) ==
  IF t1 \in Bytes THEN ResultOfByte(t1, t2)
  ELSE IF t1 \in Shorts THEN ResultOfShort(t1, t2)
  ELSE IF t1 \in Floats THEN CommonFloat(t1, t2) ELSE ResultOfWide(t1, t2)

(* What the tables of types say, block by block.                           *)
LEMMA ResultOf ==
  ASSUME NEW t1 \in Types, NEW t2 \in Types
  PROVE  /\ ResultOfByte(t1, t2) =
              IF t2 \in Bytes THEN Sized("INT16", "UINT16", t1, t2)
              ELSE IF t2 \in Shorts THEN Sized("INT32", "UINT32", t1, t2)
              ELSE IF t2 \in Floats THEN t2 ELSE Sized("INT64", "UINT64", t1, t2)
         /\ ResultOfShort(t1, t2) =
              IF t2 \in Narrow THEN Sized("INT32", "UINT32", t1, t2)
              ELSE IF t2 \in Floats THEN t2 ELSE Sized("INT64", "UINT64", t1, t2)
<1>1. /\ \A u \in Shorts : u \notin Bytes
      /\ \A u \in Floats : u \notin Bytes /\ u \notin Shorts /\ u \notin Narrow
  BY DEF Bytes, Shorts, Floats, Narrow
<1>2. CASE t2 \in Bytes
  BY <1>1, <1>2, Zenon DEF ResultOfByte, ResultOfShort
<1> QED BY <1>1, Zenon DEF ResultOfByte, ResultOfShort

LEMMA ResultInBlock ==
  ASSUME NEW t1 \in Types, NEW t2
  PROVE  /\ t1 \in Bytes => ResultType(t1, t2) = ResultOfByte(t1, t2)
         /\ t1 \in Shorts => ResultType(t1, t2) = ResultOfShort(t1, t2)
         /\ t1 \in Ints \cup Longs => ResultType(t1, t2) = ResultOfWide(t1, t2)
         /\ t1 \in Floats => ResultType(t1, t2) = CommonFloat(t1, t2)
BY DEF ResultType, Bytes, Shorts, Ints, Longs, Floats

LEMMA ResultTypes ==
  ASSUME NEW t1 \in Types, NEW t2 \in Types
  PROVE  /\ ResultType(t1, t2) \in Types
         /\ ResultType(t1, t2) = ResultType(t2, t1)
         /\ ResultType(t1, t2) \in Floats <=> (t1 \in Floats \/ t2 \in Floats)
<1> USE TypesAre, ResultOf DEF ResultType, ResultOfWide, CommonFloat, Sized, Unsigned,
                     Narrow, Bytes, Shorts, Ints, Longs, Floats
<1>1. CASE t1 \in Bytes
  BY <1>1
<1>2. CASE t1 \in Shorts
  BY <1>2
<1>3. CASE t1 \in Ints
  BY <1>3
<1>4. CASE t1 \in Longs
  BY <1>4
<1>5. CASE t1 \in Floats
  BY <1>5
<1> QED BY <1>1, <1>2, <1>3, <1>4, <1>5, InABlock

LEMMA BasicBlocks ==
  ASSUME NEW t1 \in Types, NEW t2
  PROVE  LET z == Block(t1, Case(ResultOfByte(t1, t2), CommonNarrow(t2)),
                        Case(ResultOfShort(t1, t2), CommonNarrow(t2)),
                        Case(ResultOfWide(t1, t2), CommonInt(t1, t2)),
                        Case(ResultOfWide(t1, t2), CommonLong(t1, t2)),
                        Case(CommonFloat(t1, t2), CommonFloat(t1, t2)))
         IN  z.res = ResultType(t1, t2) /\ z.in = Common(t1, t2)
<1> DEFINE z == Block(t1, Case(ResultOfByte(t1, t2), CommonNarrow(t2)),
                      Case(ResultOfShort(t1, t2), CommonNarrow(t2)),
                      Case(ResultOfWide(t1, t2), CommonInt(t1, t2)),
                      Case(ResultOfWide(t1, t2), CommonLong(t1, t2)),
                      Case(CommonFloat(t1, t2), CommonFloat(t1, t2)))
<1>1. PICK b, s, i, l, f : /\ b = Case(ResultOfByte(t1, t2), CommonNarrow(t2))
                           /\ s = Case(ResultOfShort(t1, t2), CommonNarrow(t2))
                           /\ i = Case(ResultOfWide(t1, t2), CommonInt(t1, t2))
                           /\ l = Case(ResultOfWide(t1, t2), CommonLong(t1, t2))
                           /\ f = Case(CommonFloat(t1, t2), CommonFloat(t1, t2))
  OBVIOUS
<1>2. PICK y : y = Block(t1, b, s, i, l, f)
  OBVIOUS
<1>3. /\ t1 \in Bytes => y = b
      /\ t1 \in Shorts => y = s
      /\ t1 \in Ints => y = i
      /\ t1 \in Longs => y = l
      /\ t1 \in Floats => y = f
  BY <1>2, BlockIs
<1>4. y = z
  BY <1>1, <1>2, Zenon
<1>5. /\ t1 \in Bytes => b.res = ResultType(t1, t2) /\ b.in = Common(t1, t2)
      /\ t1 \in Shorts => s.res = ResultType(t1, t2) /\ s.in = Common(t1, t2)
      /\ t1 \in Ints => i.res = ResultType(t1, t2) /\ i.in = Common(t1, t2)
      /\ t1 \in Longs => l.res = ResultType(t1, t2) /\ l.in = Common(t1, t2)
      /\ t1 \in Floats => f.res = ResultType(t1, t2) /\ f.in = Common(t1, t2)
  BY <1>1, CommonInBlock, ResultInBlock DEF Case
<1>6. y.res = ResultType(t1, t2) /\ y.in = Common(t1, t2)
  BY <1>3, <1>5, InABlock
<1> QED BY <1>4, <1>6, Zenon

LEMMA AddIs ==
  ASSUME NEW a, IsNumber(a), NEW b, IsNumber(b), NEW c, c = Common(a.t, b.t),
         NEW r, r = ResultType(a.t, b.t)
  PROVE  psi_calc_add(a, b) = Stored(Plus(c, Convert(a, c), Convert(b, c)), r)
<1>1. a.t \in Types
  BY NumberIs
<1> QED BY <1>1, BasicBlocks, Zenon
        DEF psi_calc_add, Into, AddBytes, AddShorts, AddInts, AddLongs, AddFloats

LEMMA SubIs ==
  ASSUME NEW a, IsNumber(a), NEW b, IsNumber(b), NEW c, c = Common(a.t, b.t),
         NEW r, r = ResultType(a.t, b.t)
  PROVE  psi_calc_sub(a, b) = Stored(Minus(c, Convert(a, c), Convert(b, c)), r)
<1>1. a.t \in Types
  BY NumberIs
<1> QED BY <1>1, BasicBlocks, Zenon
        DEF psi_calc_sub, Into, SubBytes, SubShorts, SubInts, SubLongs, SubFloats

LEMMA MulIs ==
  ASSUME NEW a, IsNumber(a), NEW b, IsNumber(b), NEW c, c = Common(a.t, b.t),
         NEW r, r = ResultType(a.t, b.t)
  PROVE  psi_calc_mul(a, b) = Stored(Times(c, Convert(a, c), Convert(b, c)), r)
<1>1. a.t \in Types
  BY NumberIs
<1> QED BY <1>1, BasicBlocks, Zenon
        DEF psi_calc_mul, Into, MulBytes, MulShorts, MulInts, MulLongs, MulFloats

LEMMA DivIs ==
  ASSUME NEW a, IsNumber(a), NEW b, IsNumber(b), NEW c, c = Common(a.t, b.t),
         NEW r, r = ResultType(a.t, b.t)
  PROVE  psi_calc_div(a, b) = Stored(Over(c, Convert(a, c), Convert(b, c)), r)
<1>1. a.t \in Types
  BY NumberIs
<1> QED BY <1>1, BasicBlocks, Zenon
        DEF psi_calc_div, Into, DivBytes, DivShorts, DivInts, DivLongs, DivFloats

LEMMA ResultDefined ==
  ASSUME NEW c \in Types, NEW z, IsResult(z, c), IsDefined(z)
  PROVE  IsNumber(z) /\ z.t = c
<1>1. CASE z = Undefined(c)
  <2>1. z.t = c /\ z.n = 0 /\ z.d = 0 /\ z = [t |-> c, n |-> 0, d |-> 0]
    BY <1>1 DEF Undefined
  <2>2. c \in Floats
    BY <2>1 DEF IsDefined
  <2> QED BY <2>1, <2>2 DEF IsNumber, IsFloat
<1>2. CASE z # Undefined(c)
  BY <1>2 DEF IsResult
<1> QED BY <1>1, <1>2

LEMMA StoredIs ==
  ASSUME NEW c \in Types, NEW r \in Types, c \in Whole \/ r \in Floats, NEW z, IsResult(z, c)
  PROVE  IsResult(Stored(z, r), r)
<1>1. CASE IsDefined(z)
  <2>1. IsNumber(z) /\ z.t = c
    BY <1>1, ResultDefined
  <2> QED BY <1>1, <2>1, Converted DEF Stored
<1>2. CASE ~ IsDefined(z)
  BY <1>2 DEF Stored, IsResult
<1> QED BY <1>1, <1>2

(* The results of basic.h are of the types that its tables say.            *)
LEMMA BasicResults ==
  ASSUME NEW a, IsNumber(a), NEW b, IsNumber(b), NEW r, r = ResultType(a.t, b.t)
  PROVE  /\ IsResult(psi_calc_add(a, b), r) /\ IsResult(psi_calc_sub(a, b), r)
         /\ IsResult(psi_calc_mul(a, b), r) /\ IsResult(psi_calc_div(a, b), r)
<1>1. a.t \in Types /\ b.t \in Types
  BY NumberIs
<1>2. r \in Types
  BY <1>1, ResultTypes
<1>3. PICK c \in Types : c = Common(a.t, b.t) /\ (c \in Whole \/ r \in Floats)
  BY <1>1, CommonType, ResultTypes DEF Types
<1>4. PICK x, y : /\ x = Convert(a, c) /\ y = Convert(b, c)
                  /\ IsNumber(x) /\ x.t = c /\ IsNumber(y) /\ y.t = c
  BY <1>3, InCommon
<1>5. /\ IsResult(Plus(c, x, y), c) /\ IsResult(Minus(c, x, y), c)
      /\ IsResult(Times(c, x, y), c) /\ IsResult(Over(c, x, y), c)
  BY <1>4, Operated
<1>6. IsResult(psi_calc_add(a, b), r)
  BY <1>2, <1>3, <1>4, <1>5, AddIs, StoredIs
<1>7. IsResult(psi_calc_sub(a, b), r)
  BY <1>2, <1>3, <1>4, <1>5, SubIs, StoredIs
<1>8. IsResult(psi_calc_mul(a, b), r)
  BY <1>2, <1>3, <1>4, <1>5, MulIs, StoredIs
<1>9. IsResult(psi_calc_div(a, b), r)
  BY <1>2, <1>3, <1>4, <1>5, DivIs, StoredIs
<1> QED BY <1>6, <1>7, <1>8, <1>9

LEMMA FloatsCommute ==
  ASSUME NEW c \in Floats, NEW x, IsNumber(x), x.t = c, NEW y, IsNumber(y), y.t = c
  PROVE  FloatPlus(c, x, y) = FloatPlus(c, y, x) /\ FloatTimes(c, x, y) = FloatTimes(c, y, x)
<1>1. /\ x.n \in Int /\ x.d \in Nat /\ Magnitude(x.n) \in Nat
      /\ y.n \in Int /\ y.d \in Nat /\ Magnitude(y.n) \in Nat
  BY FloatNumbers
<1>2. PICK d \in Nat, m \in Nat : /\ d = x.d * y.d /\ d = y.d * x.d
                                  /\ m = Magnitude(x.n) * Magnitude(y.n)
                                  /\ m = Magnitude(y.n) * Magnitude(x.n)
  BY <1>1, Product
<1>3. PICK n : n = x.n * y.d + y.n * x.d /\ n = y.n * x.d + x.n * y.d
  <2>1. x.n * y.d \in Int /\ y.n * x.d \in Int
    BY <1>1, Product
  <2> QED BY <2>1
<1>4. FloatPlus(c, x, y) = FloatPlus(c, y, x)
  <2>1. CASE x.d = 0 /\ x = y
    BY <2>1
  <2>2. CASE ~ (x.d = 0 /\ x = y)
    <3>1. ~ (y.d = 0 /\ y = x)
      BY <2>2
    <3>2. PICK s : s = (n < 0 \/ (Negative(x) /\ Negative(y))) /\ s = (n < 0 \/ (Negative(y) /\ Negative(x)))
      BY Zenon
    <3>3. FloatPlus(c, x, y) = FloatOf(c, s, Magnitude(n), d)
      BY <1>2, <1>3, <2>2, <3>2 DEF FloatPlus
    <3>4. FloatPlus(c, y, x) = FloatOf(c, s, Magnitude(n), d)
      BY <1>2, <1>3, <3>1, <3>2 DEF FloatPlus
    <3> QED BY <3>3, <3>4
  <2> QED BY <2>1, <2>2
<1>5. FloatTimes(c, x, y) = FloatTimes(c, y, x)
  <2>1. PICK s : s = (Negative(x) # Negative(y)) /\ s = (Negative(y) # Negative(x))
    BY Zenon
  <2>2. FloatTimes(c, x, y) = FloatOf(c, s, m, d)
    BY <1>2, <2>1 DEF FloatTimes
  <2>3. FloatTimes(c, y, x) = FloatOf(c, s, m, d)
    BY <1>2, <2>1 DEF FloatTimes
  <2> QED BY <2>2, <2>3
<1> QED BY <1>4, <1>5

LEMMA SumsCommute ==
  ASSUME NEW a, IsNumber(a), NEW b, IsNumber(b)
  PROVE  psi_calc_add(a, b) = psi_calc_add(b, a) /\ psi_calc_mul(a, b) = psi_calc_mul(b, a)
<1>1. a.t \in Types /\ b.t \in Types
  BY NumberIs
<1>2. PICK c \in Types : c = Common(a.t, b.t) /\ c = Common(b.t, a.t)
  BY <1>1, CommonType
<1>3. PICK r \in Types : r = ResultType(a.t, b.t) /\ r = ResultType(b.t, a.t)
  BY <1>1, ResultTypes
<1>4. PICK x, y : /\ x = Convert(a, c) /\ y = Convert(b, c)
                  /\ IsNumber(x) /\ x.t = c /\ IsNumber(y) /\ y.t = c
  <2>1. c = Common(a.t, b.t)
    BY <1>2
  <2> QED BY <2>1, InCommon
<1>5. x.n \in Int /\ y.n \in Int /\ x.d \in Nat /\ y.d \in Nat
  BY <1>4, NumberIs
<1>6. Plus(c, x, y) = Plus(c, y, x) /\ Times(c, x, y) = Times(c, y, x)
  <2>1. CASE c \in Floats
    BY <1>4, <2>1, FloatsCommute DEF Plus, Times
  <2>2. CASE c \notin Floats
    <3>1. x.n + y.n = y.n + x.n /\ x.n * y.n = y.n * x.n
      BY <1>5, Product
    <3> QED BY <2>2, <3>1 DEF Plus, Times
  <2> QED BY <2>1, <2>2
<1>7. psi_calc_add(a, b) = psi_calc_add(b, a)
  <2>1. psi_calc_add(a, b) = Stored(Plus(c, x, y), r)
    <3>1. c = Common(a.t, b.t) /\ r = ResultType(a.t, b.t)
      BY <1>2, <1>3, Zenon
    <3>2. psi_calc_add(a, b) = Stored(Plus(c, Convert(a, c), Convert(b, c)), r)
      BY <3>1, AddIs
    <3> QED BY <1>4, <3>2, Zenon
  <2>2. psi_calc_add(b, a) = Stored(Plus(c, y, x), r)
    <3>1. c = Common(b.t, a.t) /\ r = ResultType(b.t, a.t)
      BY <1>2, <1>3, Zenon
    <3>2. psi_calc_add(b, a) = Stored(Plus(c, Convert(b, c), Convert(a, c)), r)
      BY <3>1, AddIs
    <3> QED BY <1>4, <3>2, Zenon
  <2> QED BY <1>6, <2>1, <2>2
<1>8. psi_calc_mul(a, b) = psi_calc_mul(b, a)
  <2>1. psi_calc_mul(a, b) = Stored(Times(c, x, y), r)
    <3>1. c = Common(a.t, b.t) /\ r = ResultType(a.t, b.t)
      BY <1>2, <1>3, Zenon
    <3>2. psi_calc_mul(a, b) = Stored(Times(c, Convert(a, c), Convert(b, c)), r)
      BY <3>1, MulIs
    <3> QED BY <1>4, <3>2, Zenon
  <2>2. psi_calc_mul(b, a) = Stored(Times(c, y, x), r)
    <3>1. c = Common(b.t, a.t) /\ r = ResultType(b.t, a.t)
      BY <1>2, <1>3, Zenon
    <3>2. psi_calc_mul(b, a) = Stored(Times(c, Convert(b, c), Convert(a, c)), r)
      BY <3>1, MulIs
    <3> QED BY <1>4, <3>2, Zenon
  <2> QED BY <1>6, <2>1, <2>2
<1> QED BY <1>7, <1>8

-----------------------------------------------------------------------------
(* Bits.                                                                   *)

LEMMA Words ==
  ASSUME NEW bits \in [0 .. W64 - 1 -> {0, 1}]
  PROVE  Word(bits) \in 0 .. Greatest("UINT64")
<1> DEFINE Fits(p) == p = [i \in 0 .. W64 |-> IF i = 0 THEN 0 ELSE p[i - 1] + Power[i - 1] * bits[i - 1]]
           low == CHOOSE p : Fits(p)
           step == [k \in 1 .. W64 |-> [m \in Nat |-> m + Power[k - 1] * bits[k - 1]]]
<1>1. W64 \in Nat /\ \A k \in 1 .. W64 : k - 1 \in 0 .. W64 /\ k - 1 \in 0 .. W64 - 1
  BY WidthsAssumption
<1>2. \A k \in 1 .. W64 : Power[k - 1] \in Nat \ {0} /\ bits[k - 1] \in {0, 1}
  BY <1>1, PowerDoubles
<1>3. step \in [1 .. W64 -> [Nat -> Nat]]
  <2>1. \A k \in 1 .. W64 : \A m \in Nat : m + Power[k - 1] * bits[k - 1] \in Nat
    BY <1>2
  <2> QED BY <2>1
<1>4. PICK f \in [0 .. W64 -> Nat] : IsTable(f, W64, 0, step)
  <2> HIDE DEF step
  <2> QED BY <1>1, <1>3, TableExists
<1>5. /\ f[0] = 0
      /\ \A k \in 1 .. W64 : f[k] = f[k - 1] + Power[k - 1] * bits[k - 1]
  <2>1. ASSUME NEW k \in 1 .. W64
        PROVE  f[k] = f[k - 1] + Power[k - 1] * bits[k - 1]
    <3>1. f[k - 1] \in Nat
      BY <1>1
    <3>2. f[k] = step[k][f[k - 1]]
      BY <1>4 DEF IsTable
    <3> QED BY <3>1, <3>2
  <2> QED BY <1>4, <2>1 DEF IsTable
<1>6. Fits(f)
  <2>1. ASSUME NEW n \in 0 .. W64
        PROVE  f[n] = IF n = 0 THEN 0 ELSE f[n - 1] + Power[n - 1] * bits[n - 1]
    BY <1>1, <1>5
  <2> QED BY <2>1
<1>7. PICK p : p = low /\ Fits(p)
  <2> HIDE DEF Fits
  <2> QED BY <1>6, Zenon
<1>8. p[0] = 0 /\ \A n \in 1 .. W64 : p[n] = p[n - 1] + Power[n - 1] * bits[n - 1]
  <2>1. p = [n \in 0 .. W64 |-> IF n = 0 THEN 0 ELSE p[n - 1] + Power[n - 1] * bits[n - 1]]
    BY <1>7
  <2>2. \A n \in 0 .. W64 : p[n] = IF n = 0 THEN 0 ELSE p[n - 1] + Power[n - 1] * bits[n - 1]
    <3> HIDE DEF Fits, low
    <3> QED BY <2>1
  <2>3. 0 \in 0 .. W64 /\ \A n \in 1 .. W64 : n \in 0 .. W64 /\ n # 0
    BY <1>1
  <2> HIDE DEF Fits, low
  <2> QED BY <2>2, <2>3
<1> HIDE DEF Fits, low, step
<1> DEFINE over == [n \in 0 .. W64 |-> IF p[n] \in 0 .. Power[n] - 1 THEN 0 ELSE 1]
           S == {0}
<1>9. over[0] \in S
  BY <1>1, <1>8, PowerDoubles
<1>10. ASSUME NEW n \in 1 .. W64, over[n - 1] \in S
       PROVE  over[n] \in S
  <2>1. n - 1 \in 0 .. W64 /\ n \in 0 .. W64
    BY <1>1
  <2>2. p[n - 1] \in 0 .. Power[n - 1] - 1
    BY <1>10, <2>1
  <2>3. PICK w \in Nat, m \in Nat, b \in {0, 1} : w = Power[n - 1] /\ m = p[n - 1] /\ b = bits[n - 1]
    BY <1>2, <2>2
  <2>4. Power[n] = 2 * w /\ p[n] = m + w * b /\ m \in 0 .. w - 1
    BY <1>8, <2>2, <2>3, PowerDoubles
  <2>5. m + w * b \in 0 .. 2 * w - 1
    BY <2>4
  <2> QED BY <2>1, <2>4, <2>5
<1>11. \A n \in 0 .. W64 : over[n] \in S
  <2> HIDE DEF over, S
  <2> QED BY <1>1, <1>9, <1>10, StaysAlong
<1>12. p[W64] \in 0 .. Power[W64] - 1
  BY <1>1, <1>11
<1>13. Word(bits) = p[W64]
  BY <1>7, Zenon DEF Word, low, Fits
<1>14. Greatest("UINT64") = Power[W64] - 1
  BY Widths DEF Greatest, Unsigned, Longs
<1> QED BY <1>12, <1>13, <1>14

(* The words on which bin.h works.                                         *)
LEMMA AsWord ==
  ASSUME NEW a, IsNumber(a), NEW x, x = Convert(a, "UINT64")
  PROVE  IsDefined(x) => x.n \in 0 .. Greatest("UINT64") /\ x.n \in Nat
<1>1. "UINT64" \in Whole /\ "UINT64" \in Types /\ "UINT64" \in Unsigned
  BY TypesAre DEF Unsigned
<1>2. IsResult(x, "UINT64")
  BY <1>1, Converted
<1>3. Least("UINT64") = 0 /\ Greatest("UINT64") \in Int
  BY <1>1, Halves
<1>4. ASSUME IsDefined(x)
      PROVE  x.n \in 0 .. Greatest("UINT64")
  <2>1. IsNumber(x) /\ x.t = "UINT64"
    BY <1>1, <1>2, <1>4, ResultDefined
  <2> QED BY <1>1, <1>3, <2>1, NumberIs
<1> QED BY <1>3, <1>4

LEMMA WordResult ==
  ASSUME NEW n \in 0 .. Greatest("UINT64")
  PROVE  IsResult(Value("UINT64", n), "UINT64")
<1>1. "UINT64" \in Whole /\ "UINT64" \in Unsigned
  BY TypesAre DEF Unsigned
<1>2. Least("UINT64") = 0
  BY <1>1, Halves
<1>3. IsNumber(Value("UINT64", n))
  BY <1>1, <1>2, WholeNumber
<1> QED BY <1>3 DEF IsResult, Value

LEMMA BitIs ==
  ASSUME NEW x \in Nat, NEW i \in 0 .. W64 - 1
  PROVE  Bit(x, i) \in {0, 1}
<1>1. i \in 0 .. W64
  BY WidthsAssumption
<1>2. PICK p \in Nat \ {0} : p = Power[i]
  BY <1>1, PowerDoubles
<1>3. x \div p \in Int
  OBVIOUS
<1>4. 2 \in Nat \ {0} /\ (x \div p) % 2 \in 0 .. 2 - 1
  BY <1>3, Modulo
<1> QED BY <1>2, <1>4 DEF Bit

LEMMA AndWords ==
  ASSUME NEW a, IsNumber(a), NEW b, IsNumber(b)
  PROVE  /\ IsResult(psi_calc_bin_and(a, b), "UINT64")
         /\ psi_calc_bin_and(a, b) = psi_calc_bin_and(b, a)
<1>1. PICK x, y : x = Convert(a, "UINT64") /\ y = Convert(b, "UINT64")
  OBVIOUS
<1>2. /\ IsDefined(x) => x.n \in Nat
      /\ IsDefined(y) => y.n \in Nat
  BY <1>1, AsWord
<1> DEFINE bits(u, v) == [i \in 0 .. W64 - 1 |-> BitAnd(Bit(u, i), Bit(v, i))]
<1>3. /\ psi_calc_bin_and(a, b) =
           IF IsDefined(x) /\ IsDefined(y) THEN Value("UINT64", Word(bits(x.n, y.n)))
           ELSE Undefined("UINT64")
      /\ psi_calc_bin_and(b, a) =
           IF IsDefined(y) /\ IsDefined(x) THEN Value("UINT64", Word(bits(y.n, x.n)))
           ELSE Undefined("UINT64")
  BY <1>1, Zenon DEF psi_calc_bin_and, OnWords, Bitwise2
<1>4. ASSUME NEW u \in Nat, NEW v \in Nat
      PROVE  bits(u, v) \in [0 .. W64 - 1 -> {0, 1}] /\ bits(u, v) = bits(v, u)
  <2>1. ASSUME NEW i \in 0 .. W64 - 1
        PROVE  /\ BitAnd(Bit(u, i), Bit(v, i)) \in {0, 1}
               /\ BitAnd(Bit(u, i), Bit(v, i)) = BitAnd(Bit(v, i), Bit(u, i))
    <3>1. PICK m \in {0, 1}, n \in {0, 1} : m = Bit(u, i) /\ n = Bit(v, i)
      BY BitIs
    <3> QED BY <3>1 DEF BitAnd
  <2> QED BY <2>1
<1>5. CASE IsDefined(x) /\ IsDefined(y)
  <2>1. PICK p, q : p = bits(x.n, y.n) /\ q = bits(y.n, x.n)
    OBVIOUS
  <2>2. p \in [0 .. W64 - 1 -> {0, 1}] /\ p = q
    BY <1>2, <1>4, <1>5, <2>1
  <2>3. psi_calc_bin_and(a, b) = Value("UINT64", Word(p)) /\ psi_calc_bin_and(b, a) = Value("UINT64", Word(q))
    BY <1>3, <1>5, <2>1, Zenon
  <2> QED BY <2>2, <2>3, Words, WordResult
<1>6. CASE ~(IsDefined(x) /\ IsDefined(y))
  BY <1>3, <1>6 DEF IsResult
<1> QED BY <1>5, <1>6

LEMMA XorWords ==
  ASSUME NEW a, IsNumber(a), NEW b, IsNumber(b)
  PROVE  /\ IsResult(psi_calc_bin_xor(a, b), "UINT64")
         /\ psi_calc_bin_xor(a, b) = psi_calc_bin_xor(b, a)
<1>1. PICK x, y : x = Convert(a, "UINT64") /\ y = Convert(b, "UINT64")
  OBVIOUS
<1>2. /\ IsDefined(x) => x.n \in Nat
      /\ IsDefined(y) => y.n \in Nat
  BY <1>1, AsWord
<1> DEFINE bits(u, v) == [i \in 0 .. W64 - 1 |-> BitXor(Bit(u, i), Bit(v, i))]
<1>3. /\ psi_calc_bin_xor(a, b) =
           IF IsDefined(x) /\ IsDefined(y) THEN Value("UINT64", Word(bits(x.n, y.n)))
           ELSE Undefined("UINT64")
      /\ psi_calc_bin_xor(b, a) =
           IF IsDefined(y) /\ IsDefined(x) THEN Value("UINT64", Word(bits(y.n, x.n)))
           ELSE Undefined("UINT64")
  BY <1>1, Zenon DEF psi_calc_bin_xor, OnWords, Bitwise2
<1>4. ASSUME NEW u \in Nat, NEW v \in Nat
      PROVE  bits(u, v) \in [0 .. W64 - 1 -> {0, 1}] /\ bits(u, v) = bits(v, u)
  <2>1. ASSUME NEW i \in 0 .. W64 - 1
        PROVE  /\ BitXor(Bit(u, i), Bit(v, i)) \in {0, 1}
               /\ BitXor(Bit(u, i), Bit(v, i)) = BitXor(Bit(v, i), Bit(u, i))
    <3>1. PICK m \in {0, 1}, n \in {0, 1} : m = Bit(u, i) /\ n = Bit(v, i)
      BY BitIs
    <3> QED BY <3>1 DEF BitXor
  <2> QED BY <2>1
<1>5. CASE IsDefined(x) /\ IsDefined(y)
  <2>1. PICK p, q : p = bits(x.n, y.n) /\ q = bits(y.n, x.n)
    OBVIOUS
  <2>2. p \in [0 .. W64 - 1 -> {0, 1}] /\ p = q
    BY <1>2, <1>4, <1>5, <2>1
  <2>3. psi_calc_bin_xor(a, b) = Value("UINT64", Word(p)) /\ psi_calc_bin_xor(b, a) = Value("UINT64", Word(q))
    BY <1>3, <1>5, <2>1, Zenon
  <2> QED BY <2>2, <2>3, Words, WordResult
<1>6. CASE ~(IsDefined(x) /\ IsDefined(y))
  BY <1>3, <1>6 DEF IsResult
<1> QED BY <1>5, <1>6

LEMMA OrWords ==
  ASSUME NEW a, IsNumber(a), NEW b, IsNumber(b)
  PROVE  /\ IsResult(psi_calc_bin_or(a, b), "UINT64")
         /\ psi_calc_bin_or(a, b) = psi_calc_bin_or(b, a)
<1>1. PICK x, y : x = Convert(a, "UINT64") /\ y = Convert(b, "UINT64")
  OBVIOUS
<1>2. /\ IsDefined(x) => x.n \in Nat
      /\ IsDefined(y) => y.n \in Nat
  BY <1>1, AsWord
<1> DEFINE bits(u, v) == [i \in 0 .. W64 - 1 |-> BitOr(Bit(u, i), Bit(v, i))]
<1>3. /\ psi_calc_bin_or(a, b) =
           IF IsDefined(x) /\ IsDefined(y) THEN Value("UINT64", Word(bits(x.n, y.n)))
           ELSE Undefined("UINT64")
      /\ psi_calc_bin_or(b, a) =
           IF IsDefined(y) /\ IsDefined(x) THEN Value("UINT64", Word(bits(y.n, x.n)))
           ELSE Undefined("UINT64")
  BY <1>1, Zenon DEF psi_calc_bin_or, OnWords, Bitwise2
<1>4. ASSUME NEW u \in Nat, NEW v \in Nat
      PROVE  bits(u, v) \in [0 .. W64 - 1 -> {0, 1}] /\ bits(u, v) = bits(v, u)
  <2>1. ASSUME NEW i \in 0 .. W64 - 1
        PROVE  /\ BitOr(Bit(u, i), Bit(v, i)) \in {0, 1}
               /\ BitOr(Bit(u, i), Bit(v, i)) = BitOr(Bit(v, i), Bit(u, i))
    <3>1. PICK m \in {0, 1}, n \in {0, 1} : m = Bit(u, i) /\ n = Bit(v, i)
      BY BitIs
    <3> QED BY <3>1 DEF BitOr
  <2> QED BY <2>1
<1>5. CASE IsDefined(x) /\ IsDefined(y)
  <2>1. PICK p, q : p = bits(x.n, y.n) /\ q = bits(y.n, x.n)
    OBVIOUS
  <2>2. p \in [0 .. W64 - 1 -> {0, 1}] /\ p = q
    BY <1>2, <1>4, <1>5, <2>1
  <2>3. psi_calc_bin_or(a, b) = Value("UINT64", Word(p)) /\ psi_calc_bin_or(b, a) = Value("UINT64", Word(q))
    BY <1>3, <1>5, <2>1, Zenon
  <2> QED BY <2>2, <2>3, Words, WordResult
<1>6. CASE ~(IsDefined(x) /\ IsDefined(y))
  BY <1>3, <1>6 DEF IsResult
<1> QED BY <1>5, <1>6

LEMMA ShiftResults ==
  ASSUME NEW a, IsNumber(a), NEW b, IsNumber(b)
  PROVE  /\ IsResult(psi_calc_bin_lshift(a, b), "UINT64")
         /\ IsResult(psi_calc_bin_rshift(a, b), "UINT64")
<1>1. PICK x, y : x = Convert(a, "UINT64") /\ y = Convert(b, "UINT64")
  OBVIOUS
<1>2. /\ IsDefined(x) => x.n \in 0 .. Greatest("UINT64") /\ x.n \in Nat
      /\ IsDefined(y) => y.n \in Nat
  BY <1>1, AsWord
<1>3. /\ psi_calc_bin_lshift(a, b) =
           IF IsDefined(x) /\ IsDefined(y)
           THEN Shifted(x.n, y.n, Wrap("UINT64", x.n * Power[y.n % W64]))
           ELSE Undefined("UINT64")
      /\ psi_calc_bin_rshift(a, b) =
           IF IsDefined(x) /\ IsDefined(y)
           THEN Shifted(x.n, y.n, x.n \div Power[y.n % W64])
           ELSE Undefined("UINT64")
  BY <1>1, Zenon DEF psi_calc_bin_lshift, psi_calc_bin_rshift, OnWords
<1>4. CASE IsDefined(x) /\ IsDefined(y)
  <2>1. PICK m \in Nat, k \in Nat : m = x.n /\ k = y.n % W64 /\ k \in 0 .. W64
    <3>1. W64 \in Nat \ {0}
      BY WidthsAssumption
    <3>2. PICK v \in Nat : v = y.n
      BY <1>2, <1>4
    <3>3. v % W64 \in 0 .. W64 - 1
      BY <3>1, Modulo
    <3> QED BY <1>2, <1>4, <3>1, <3>2, <3>3
  <2>2. PICK p \in Nat \ {0} : p = Power[y.n % W64]
    BY <2>1, PowerDoubles
  <2>3. "UINT64" \in Whole /\ Least("UINT64") = 0
    BY Halves, TypesAre DEF Unsigned
  <2>4. Wrap("UINT64", m * p) \in 0 .. Greatest("UINT64")
    BY <2>3, Wrapped
  <2>5. m \div p \in 0 .. Greatest("UINT64")
    <3>1. m \div p \in Nat /\ m \div p <= m
      <4>1. PICK q \in Int : q = m \div p /\ m = q * p + (m % p) /\ m % p \in 0 .. p - 1
        <5>1. m \div p \in Int /\ m = (m \div p) * p + (m % p) /\ m % p \in 0 .. p - 1
          BY Modulo
        <5> QED BY <5>1, Zenon
      <4>2. q >= 0
        BY <4>1
      <4>3. q <= q * p
        BY <4>2
      <4> QED BY <4>1, <4>2, <4>3
    <3>2. m \in 0 .. Greatest("UINT64") /\ Greatest("UINT64") \in Int
      BY <1>2, <1>4, <2>1, <2>3, Halves
    <3> QED BY <3>1, <3>2
  <2>6. /\ IsResult(Shifted(x.n, y.n, Wrap("UINT64", m * p)), "UINT64")
        /\ IsResult(Shifted(x.n, y.n, m \div p), "UINT64")
    BY <2>4, <2>5, WordResult DEF Shifted, IsResult
  <2> QED BY <1>3, <1>4, <2>1, <2>2, <2>6
<1>5. CASE ~(IsDefined(x) /\ IsDefined(y))
  BY <1>3, <1>5 DEF IsResult
<1> QED BY <1>4, <1>5

LEMMA NotResult ==
  ASSUME NEW a, IsNumber(a)
  PROVE  IsResult(psi_calc_bin_not(a), "UINT64")
<1>1. PICK x : x = Convert(a, "UINT64")
  OBVIOUS
<1>2. psi_calc_bin_not(a) =
        IF IsDefined(x) /\ IsDefined(x) THEN Value("UINT64", Greatest("UINT64") - x.n)
        ELSE Undefined("UINT64")
  BY <1>1, Zenon DEF psi_calc_bin_not, OnWords
<1>3. CASE IsDefined(x)
  <2>1. x.n \in 0 .. Greatest("UINT64") /\ x.n \in Nat
    BY <1>1, <1>3, AsWord
  <2>2. "UINT64" \in Whole
    BY TypesAre
  <2>3. Greatest("UINT64") \in Int
    BY <2>2, Halves
  <2>4. Greatest("UINT64") - x.n \in 0 .. Greatest("UINT64")
    BY <2>1, <2>3
  <2> QED BY <1>2, <1>3, <2>4, WordResult
<1>4. CASE ~ IsDefined(x)
  BY <1>2, <1>4 DEF IsResult
<1> QED BY <1>3, <1>4

LEMMA TruthResult ==
  ASSUME NEW p
  PROVE  IsResult(Truth(p), "UINT8") /\ IsNumber(Truth(p))
<1>1. "UINT8" \in Whole /\ "UINT8" \in Unsigned
  BY TypesAre DEF Unsigned
<1>2. PICK n \in {0, 1} : Truth(p) = Value("UINT8", n)
  BY DEF Truth
<1>3. n \in Least("UINT8") .. Greatest("UINT8")
  <2>1. PICK h \in Nat \ {0} : Least("UINT8") = 0 /\ Greatest("UINT8") = 2 * h - 1
    BY <1>1, Halves
  <2> QED BY <2>1
<1>4. IsNumber(Value("UINT8", n))
  BY <1>1, <1>3, WholeNumber
<1> QED BY <1>2, <1>4 DEF IsResult, Value

(* The remainder is that of the quotient.                                  *)
LEMMA ModIs ==
  ASSUME NEW a, IsNumber(a), NEW b, IsNumber(b)
  PROVE  /\ IsResult(psi_calc_mod(a, b), "INT64")
         /\ IsDefined(psi_calc_mod(a, b)) =>
              \E x, y : /\ x = Convert(a, "INT64") /\ y = Convert(b, "INT64")
                       /\ IsNumber(x) /\ IsNumber(y) /\ y.n # 0
                       /\ psi_calc_mod(a, b).n = x.n - y.n * Truncate(x.n, y.n)
<1>1. "INT64" \in Whole /\ "INT64" \in Types /\ "INT64" \notin Unsigned /\ "INT64" \notin Floats
  BY TypesAre DEF Unsigned, Floats
<1>2. PICK x, y : x = Convert(a, "INT64") /\ y = Convert(b, "INT64")
  OBVIOUS
<1>3. PICK q : q = Over("INT64", x, y)
  OBVIOUS
<1>4. psi_calc_mod(a, b) =
        IF IsDefined(x) /\ IsDefined(y) /\ IsDefined(q) THEN Value("INT64", x.n - y.n * q.n)
        ELSE Undefined("INT64")
  BY <1>2, <1>3, Zenon DEF psi_calc_mod
<1>5. CASE IsDefined(x) /\ IsDefined(y) /\ IsDefined(q)
  <2>1. IsNumber(x) /\ x.t = "INT64" /\ IsNumber(y) /\ y.t = "INT64"
    <3>1. IsResult(x, "INT64") /\ IsResult(y, "INT64")
      BY <1>1, <1>2, Converted
    <3> QED BY <1>1, <1>5, <3>1, ResultDefined
  <2>2. x.n \in Int /\ y.n \in Int
    BY <2>1, NumberIs
  <2>3. y.n # 0
    <3>1. SUFFICES ASSUME y.n = 0 PROVE FALSE
      OBVIOUS
    <3>2. q = Undefined("INT64")
      BY <1>1, <1>3, <3>1 DEF Over
    <3> QED BY <1>1, <1>5, <3>2 DEF Undefined, IsDefined
  <2>4. PICK p \in Int : /\ p = Truncate(x.n, y.n)
                         /\ x.n >= 0 => x.n - p * y.n >= 0 /\ x.n - p * y.n <= x.n
                         /\ x.n <= 0 => x.n - p * y.n <= 0 /\ x.n - p * y.n >= x.n
    BY <2>2, <2>3, Truncated
  <2>5. q = Fit("INT64", p)
    BY <1>1, <1>3, <2>3, <2>4 DEF Over
  <2>6. q = Value("INT64", p) /\ p \in Least("INT64") .. Greatest("INT64")
    <3>1. q # Undefined("INT64")
      BY <1>1, <1>5 DEF IsDefined, Undefined
    <3> QED BY <1>1, <2>5, <3>1, Fitted
  <2>7. q.n = p
    BY <2>6 DEF Value
  <2>8. psi_calc_mod(a, b) = Value("INT64", x.n - y.n * p)
    BY <1>4, <1>5, <2>7
  <2>9. x.n - y.n * p \in Least("INT64") .. Greatest("INT64")
    <3>1. PICK h \in Nat \ {0} : Least("INT64") = -h /\ Greatest("INT64") = h - 1
      BY <1>1, Halves
    <3>2. x.n \in -h .. h - 1
      BY <1>1, <2>1, <3>1, NumberIs
    <3>3. p * y.n = y.n * p /\ y.n * p \in Int
      BY <2>2
    <3> QED BY <2>2, <2>4, <3>1, <3>2, <3>3
  <2>10. IsNumber(Value("INT64", x.n - y.n * p))
    BY <1>1, <2>9, WholeNumber
  <2> QED BY <1>2, <2>1, <2>3, <2>4, <2>8, <2>10 DEF IsResult, Value
<1>6. CASE ~(IsDefined(x) /\ IsDefined(y) /\ IsDefined(q))
  BY <1>1, <1>4, <1>6 DEF IsResult, IsDefined, Undefined
<1> QED BY <1>5, <1>6

LEMMA BinaryOpsAre ==
  BinaryOps = {"PLUS", "MINUS", "ASTERISK", "SLASH", "MODULO", "LSHIFT", "RSHIFT", "AMPERSAND", "CARET", "PIPE", "AND", "OR", "CMP_EQ", "CMP_NE", "LCHEVR", "RCHEVR", "CMP_LE", "CMP_GE"}
<1>1. Tiers = <<Tiers[1], Tiers[2], Tiers[3], Tiers[4], Tiers[5], Tiers[6], Tiers[7], Tiers[8],
                Tiers[9], Tiers[10], Tiers[11]>>
  BY DEF Tiers
<1>2. BinaryOps = Tiers[2] \cup Tiers[3] \cup Tiers[4] \cup Tiers[5] \cup Tiers[6] \cup Tiers[7]
                  \cup Tiers[8] \cup Tiers[9] \cup Tiers[10] \cup Tiers[11]
  BY DEF BinaryOps
<1> QED BY <1>2 DEF Tiers, Multiplicative, Additive, Shifts, Relations, Ampersand, Equalities, Caret,
                    Pipe, And, Or

(* Each operator has its table.                                            *)
LEMMA CalculateIs ==
  ASSUME NEW a, NEW b
  PROVE  /\ Calculate("PLUS", a, b) = psi_calc_add(a, b)
         /\ Calculate("MINUS", a, b) = psi_calc_sub(a, b)
         /\ Calculate("ASTERISK", a, b) = psi_calc_mul(a, b)
         /\ Calculate("SLASH", a, b) = psi_calc_div(a, b)
         /\ Calculate("MODULO", a, b) = psi_calc_mod(a, b)
         /\ Calculate("LSHIFT", a, b) = psi_calc_bin_lshift(a, b)
         /\ Calculate("RSHIFT", a, b) = psi_calc_bin_rshift(a, b)
         /\ Calculate("AMPERSAND", a, b) = psi_calc_bin_and(a, b)
         /\ Calculate("CARET", a, b) = psi_calc_bin_xor(a, b)
         /\ Calculate("PIPE", a, b) = psi_calc_bin_or(a, b)
         /\ Calculate("AND", a, b) = psi_calc_bool_and(a, b)
         /\ Calculate("OR", a, b) = psi_calc_bool_or(a, b)
         /\ Calculate("CMP_EQ", a, b) = psi_calc_cmp_eq(a, b)
         /\ Calculate("CMP_NE", a, b) = psi_calc_cmp_ne(a, b)
         /\ Calculate("LCHEVR", a, b) = psi_calc_cmp_lt(a, b)
         /\ Calculate("RCHEVR", a, b) = psi_calc_cmp_gt(a, b)
         /\ Calculate("CMP_LE", a, b) = psi_calc_cmp_le(a, b)
         /\ Calculate("CMP_GE", a, b) = psi_calc_cmp_ge(a, b)
BY Zenon DEF Calculate

(* What any operator makes of two numbers.                                 *)
LEMMA Calculated ==
  ASSUME NEW op \in BinaryOps, NEW a, IsNumber(a), NEW b, IsNumber(b)
  PROVE  \E t \in Types : IsResult(Calculate(op, a, b), t)
<1>1. a.t \in Types /\ b.t \in Types
  BY NumberIs
<1>2. ResultType(a.t, b.t) \in Types /\ "INT64" \in Types /\ "UINT64" \in Types /\ "UINT8" \in Types
  BY <1>1, ResultTypes, TypesAre
<1>3. CASE op = "PLUS"
  <2>1. IsResult(psi_calc_add(a, b), ResultType(a.t, b.t))
    BY BasicResults
  <2> QED BY <1>2, <1>3, <2>1, CalculateIs
<1>4. CASE op = "MINUS"
  <2>1. IsResult(psi_calc_sub(a, b), ResultType(a.t, b.t))
    BY BasicResults
  <2> QED BY <1>2, <1>4, <2>1, CalculateIs
<1>5. CASE op = "ASTERISK"
  <2>1. IsResult(psi_calc_mul(a, b), ResultType(a.t, b.t))
    BY BasicResults
  <2> QED BY <1>2, <1>5, <2>1, CalculateIs
<1>6. CASE op = "SLASH"
  <2>1. IsResult(psi_calc_div(a, b), ResultType(a.t, b.t))
    BY BasicResults
  <2> QED BY <1>2, <1>6, <2>1, CalculateIs
<1>7. CASE op = "MODULO"
  <2>1. IsResult(psi_calc_mod(a, b), "INT64")
    BY ModIs
  <2> QED BY <1>2, <1>7, <2>1, CalculateIs
<1>8. CASE op = "LSHIFT"
  <2>1. IsResult(psi_calc_bin_lshift(a, b), "UINT64")
    BY ShiftResults
  <2> QED BY <1>2, <1>8, <2>1, CalculateIs
<1>9. CASE op = "RSHIFT"
  <2>1. IsResult(psi_calc_bin_rshift(a, b), "UINT64")
    BY ShiftResults
  <2> QED BY <1>2, <1>9, <2>1, CalculateIs
<1>10. CASE op = "AMPERSAND"
  <2>1. IsResult(psi_calc_bin_and(a, b), "UINT64")
    BY AndWords
  <2> QED BY <1>2, <1>10, <2>1, CalculateIs
<1>11. CASE op = "CARET"
  <2>1. IsResult(psi_calc_bin_xor(a, b), "UINT64")
    BY XorWords
  <2> QED BY <1>2, <1>11, <2>1, CalculateIs
<1>12. CASE op = "PIPE"
  <2>1. IsResult(psi_calc_bin_or(a, b), "UINT64")
    BY OrWords
  <2> QED BY <1>2, <1>12, <2>1, CalculateIs
<1>13. CASE op = "AND"
  <2>1. IsResult(psi_calc_bool_and(a, b), "UINT8")
    BY TruthResult DEF psi_calc_bool_and
  <2> QED BY <1>2, <1>13, <2>1, CalculateIs
<1>14. CASE op = "OR"
  <2>1. IsResult(psi_calc_bool_or(a, b), "UINT8")
    BY TruthResult DEF psi_calc_bool_or
  <2> QED BY <1>2, <1>14, <2>1, CalculateIs
<1>15. CASE op = "CMP_EQ"
  <2>1. IsResult(psi_calc_cmp_eq(a, b), "UINT8")
    BY TruthResult, ComparesEq
  <2> QED BY <1>2, <1>15, <2>1, CalculateIs
<1>16. CASE op = "CMP_NE"
  <2>1. IsResult(psi_calc_cmp_ne(a, b), "UINT8")
    BY TruthResult, ComparesNe
  <2> QED BY <1>2, <1>16, <2>1, CalculateIs
<1>17. CASE op = "LCHEVR"
  <2>1. IsResult(psi_calc_cmp_lt(a, b), "UINT8")
    BY TruthResult, ComparesLt
  <2> QED BY <1>2, <1>17, <2>1, CalculateIs
<1>18. CASE op = "RCHEVR"
  <2>1. IsResult(psi_calc_cmp_gt(a, b), "UINT8")
    BY TruthResult, ComparesGt
  <2> QED BY <1>2, <1>18, <2>1, CalculateIs
<1>19. CASE op = "CMP_LE"
  <2>1. IsResult(psi_calc_cmp_le(a, b), "UINT8")
    BY TruthResult, ComparesLe
  <2> QED BY <1>2, <1>19, <2>1, CalculateIs
<1>20. CASE op = "CMP_GE"
  <2>1. IsResult(psi_calc_cmp_ge(a, b), "UINT8")
    BY TruthResult, ComparesGe
  <2> QED BY <1>2, <1>20, <2>1, CalculateIs
<1> QED BY <1>3, <1>4, <1>5, <1>6, <1>7, <1>8, <1>9, <1>10, <1>11, <1>12, <1>13, <1>14, <1>15, <1>16, <1>17, <1>18, <1>19, <1>20, BinaryOpsAre

LEMMA Calculated1 ==
  ASSUME NEW op \in {"NOT", "TILDE"}, NEW a, IsNumber(a)
  PROVE  \E t \in Types : IsResult(Calculate1(op, a), t)
<1>1. "UINT64" \in Types /\ "UINT8" \in Types
  BY TypesAre
<1>2. IsResult(psi_calc_bool_not(a), "UINT8") /\ IsResult(psi_calc_bin_not(a), "UINT64")
  BY NotResult, TruthResult DEF psi_calc_bool_not
<1> QED BY <1>1, <1>2 DEF Calculate1

LEMMA CastIs ==
  ASSUME NEW a, NEW t \in Types
  PROVE  psi_calc_cast(a, t) = Convert(a, t)
<1>1. PICK v : v = Convert(a, t)
  OBVIOUS
<1>2. /\ CastToBytes(a, t) = v /\ CastToShorts(a, t) = v /\ CastToInts(a, t) = v
      /\ CastToLongs(a, t) = v /\ CastToFloats(a, t) = v
  BY <1>1 DEF CastToBytes, CastToShorts, CastToInts, CastToLongs, CastToFloats
<1>3. Block(t, v, v, v, v, v) = v
  BY BlockIs, InABlock
<1>4. psi_calc_cast(a, t) = v
  BY <1>2, <1>3, Zenon DEF psi_calc_cast
<1> QED BY <1>1, <1>4

(* Which operand is on the left makes no difference.                       *)
LEMMA OperandsCommute ==
  ASSUME NEW a, IsNumber(a), NEW b, IsNumber(b),
         NEW op \in {"PLUS", "ASTERISK", "AMPERSAND", "CARET", "PIPE", "AND", "OR"}
  PROVE  Calculate(op, a, b) = Calculate(op, b, a)
<1>1. /\ psi_calc_bool_and(a, b) = psi_calc_bool_and(b, a)
      /\ psi_calc_bool_or(a, b) = psi_calc_bool_or(b, a)
  BY DEF psi_calc_bool_and, psi_calc_bool_or, Truth
<1>2. /\ psi_calc_add(a, b) = psi_calc_add(b, a) /\ psi_calc_mul(a, b) = psi_calc_mul(b, a)
      /\ psi_calc_bin_and(a, b) = psi_calc_bin_and(b, a) /\ psi_calc_bin_xor(a, b) = psi_calc_bin_xor(b, a)
      /\ psi_calc_bin_or(a, b) = psi_calc_bin_or(b, a)
  BY SumsCommute, AndWords, XorWords, OrWords
<1> QED BY <1>1, <1>2, CalculateIs

(* A cast to an integer cuts off a fraction or wraps.                      *)
LEMMA CastToInteger ==
  ASSUME NEW a, IsNumber(a), NEW t \in Whole, NEW r, r = Convert(a, t), IsDefined(r)
  PROVE  /\ r.t = t
         /\ a.t \in Floats => Magnitude(a.n - r.n * a.d) < a.d
         /\ a.t \in Whole => /\ (a.n - r.n) % Power[Width(t)] = 0
                             /\ a.n \in Least(t) .. Greatest(t) => r.n = a.n
<1>1. a.t \in Types /\ a.n \in Int /\ a.d \in Nat /\ t \notin Floats
  BY NumberIs, TypesAre
<1>2. CASE a.t \in Whole
  <2>1. r.t = t /\ r.n = Wrap(t, a.n)
    <3>1. t \in Types
      BY TypesAre
    <3>2. r = Value(t, Wrap(t, a.n))
      BY <1>2, <3>1, Converted
    <3> QED BY <3>2 DEF Value
  <2>2. a.t \notin Floats
    BY <1>2, TypesAre
  <2> QED BY <1>1, <1>2, <2>1, <2>2, Wrapped
<1>3. CASE a.t \in Floats
  <2>1. a.t \notin Whole /\ a.t # t
    BY <1>1, <1>3, TypesAre
  <2>2. r = IF a.d # 0 /\ Truncate(a.n, a.d) \in Least(t) .. Greatest(t)
            THEN Value(t, Truncate(a.n, a.d)) ELSE Undefined(t)
    BY <1>1, <2>1, Zenon DEF Convert
  <2>3. ~ IsDefined(Undefined(t))
    BY <1>1 DEF Undefined, IsDefined
  <2>4. a.d # 0 /\ r = Value(t, Truncate(a.n, a.d))
    BY <2>2, <2>3, Zenon
  <2>5. PICK n \in Int, d \in Nat \ {0} : n = a.n /\ d = a.d
    BY <1>1, <2>4
  <2>6. d \in Int \ {0} /\ d > 0
    OBVIOUS
  <2>7. PICK q \in Int : q = Truncate(n, d) /\ n - q * d < d /\ n - q * d > -d
    BY <2>6, Truncated
  <2>8. r.n = q /\ r.t = t
    BY <2>4, <2>5, <2>7 DEF Value
  <2>9. PICK z \in Int : z = n - q * d /\ z < d /\ z > -d
    BY <2>7
  <2>10. Magnitude(z) < d
    BY <2>9 DEF Magnitude
  <2> QED BY <2>1, <2>5, <2>8, <2>9, <2>10
<1> QED BY <1>1, <1>2, <1>3 DEF Types

(* A cast to a floating type keeps what the type can hold.                 *)
LEMMA CastToFloat ==
  ASSUME NEW a, IsNumber(a), NEW t \in Floats, NEW r, r = Convert(a, t),
         IF a.t \in Whole THEN ~ TooLong(a, t) ELSE t \in Wider(a.t)
  PROVE  Equal(a, r) \/ (IsNaN(a) /\ IsNaN(r))
<1>1. a.t \in Types /\ a.n \in Int /\ a.d \in Nat
  BY NumberIs
<1>2. PICK n \in Int, d \in Nat : n = a.n /\ d = a.d
  BY <1>1
<1>3. CASE a.t \in Whole
  <2>1. Same(a, r)
    BY <1>3, IntegerKept
  <2>2. PICK k \in Nat \ {0} : r.n = k * n /\ r.d = k * d
    BY <1>2, <2>1 DEF Same
  <2>3. d = 1
    BY <1>2, <1>3, NumberIs
  <2>4. r.d = k /\ k * n \in Int /\ n * k = k * n
    BY <2>2, <2>3
  <2>5. a.n * r.d - r.n * a.d = 0
    <3>1. PICK p \in Int : p = n * k /\ p = k * n
      BY <2>4
    <3>2. a.n * r.d = p /\ r.n * a.d = p
      BY <1>2, <2>2, <2>3, <2>4, <3>1
    <3> QED BY <3>2
  <2> QED BY <1>2, <2>3, <2>4, <2>5 DEF Equal, Ordered, IsNaN, Difference
<1>4. CASE a.t \notin Whole
  <2>1. a.t \in Floats /\ t \in Wider(a.t)
    BY <1>1, <1>4 DEF Types
  <2>2. r.n = n /\ r.d = d
    BY <1>2, <2>1, FloatKept
  <2>3. n * d - n * d = 0 /\ n - n = 0
    <3>1. PICK p \in Int : p = n * d
      OBVIOUS
    <3> QED BY <3>1
  <2> QED BY <1>2, <2>2, <2>3 DEF Equal, Ordered, IsNaN, Difference
<1> QED BY <1>3, <1>4

(* The integer types but for unsigned ints and longs: C computes with two  *)
(* of them in a signed type that holds both.                               *)
Safe == Whole \ {"UINT32", "UINT64"}

LEMMA SafeCommon ==
  ASSUME NEW a, IsNumber(a), NEW b, IsNumber(b), a.t \in Safe, b.t \in Safe,
         NEW c, c = Common(a.t, b.t)
  PROVE  /\ c \in {"INT32", "INT64"} /\ c \in Whole \ Unsigned /\ c \in Types
         /\ Convert(a, c) = Value(c, a.n) /\ Convert(b, c) = Value(c, b.n)
<1>1. c \in {"INT32", "INT64"}
  <2> USE TypesAre DEF Safe, Common, CommonNarrow, CommonInt, CommonLong, Narrow, Bytes, Shorts, Ints,
                       Longs, Floats
  <2>1. CASE a.t \in Narrow
    BY <2>1
  <2>2. CASE a.t \in Ints
    BY <2>2
  <2>3. CASE a.t \in Longs
    BY <2>3
  <2> QED BY <2>1, <2>2, <2>3
<1>2. c \in Whole \ Unsigned /\ c \in Types /\ c = Common(b.t, a.t)
  BY <1>1, TypesAre, NumberIs, CommonType DEF Unsigned
<1>3. ~ SignLost(a, b) /\ ~ SignLost(b, a)
  BY DEF SignLost, Safe
<1>4. ASSUME NEW x, IsNumber(x), x.t \in Whole, Same(x, Convert(x, c)),
             IsNumber(Convert(x, c)), Convert(x, c).t = c
      PROVE  Convert(x, c) = Value(c, x.n)
  <2>1. PICK z : z = Convert(x, c)
    OBVIOUS
  <2>2. z = [t |-> z.t, n |-> z.n, d |-> z.d] /\ z.d = 1 /\ z.t = c
    BY <1>2, <1>4, <2>1, NumberIs
  <2>3. x.d = 1 /\ x.n \in Int
    BY <1>4, NumberIs
  <2>4. PICK k \in Nat \ {0} : z.n = k * x.n /\ z.d = k * x.d
    BY <1>4, <2>1 DEF Same
  <2>5. k = 1
    BY <2>2, <2>3, <2>4
  <2>6. z.n = x.n
    BY <2>3, <2>4, <2>5
  <2> QED BY <2>1, <2>2, <2>6 DEF Value
<1>5. /\ IsNumber(Convert(a, c)) /\ Convert(a, c).t = c
      /\ IsNumber(Convert(b, c)) /\ Convert(b, c).t = c
  BY InCommon
<1>6. Same(a, Convert(a, c)) /\ Same(b, Convert(b, c))
  <2>1. a.t \in Whole /\ b.t \in Whole /\ a.t \notin Floats /\ b.t \notin Floats
    BY TypesAre DEF Safe
  <2>2. ~ TooLong(a, b.t) /\ ~ TooLong(b, a.t)
    BY <2>1 DEF TooLong
  <2> QED BY <1>2, <1>3, <2>2, KeptInCommon
<1> QED BY <1>1, <1>2, <1>4, <1>5, <1>6 DEF Safe

(* What is made in a safe type is stored as it is, if the type of the      *)
(* result can hold it.                                                     *)
LEMMA StoredWhole ==
  ASSUME NEW c \in Whole \ Unsigned, NEW n \in Int, NEW r \in Whole, NEW z, z = Fit(c, n),
         IsDefined(Stored(z, r)), n \in Least(c) .. Greatest(c) => n \in Least(r) .. Greatest(r)
  PROVE  Stored(z, r).n = n
<1>1. c \in Types /\ r \in Types /\ c \notin Floats /\ r \notin Floats
  BY TypesAre
<1>2. n \in Least(c) .. Greatest(c) /\ z = Value(c, n)
  <2>1. SUFFICES ASSUME z = Undefined(c) PROVE FALSE
    BY <1>1, Fitted
  <2>2. Stored(z, r) = Undefined(r)
    BY <1>1, <2>1 DEF Stored, IsDefined, Undefined
  <2> QED BY <1>1, <2>2 DEF IsDefined, Undefined
<1>3. IsNumber(Value(c, n))
  BY <1>2, WholeNumber
<1>4. Convert(Value(c, n), r) = Value(r, n)
  BY <1>2, <1>3, ConvertKeeps DEF Value
<1> QED BY <1>2, <1>4 DEF Stored, IsDefined, Value

LEMMA Products ==
  ASSUME NEW h \in Nat \ {0, 1}, NEW m \in Int, NEW n \in Int
  PROVE  /\ m \in 0 .. 2 * h - 1 /\ n \in 0 .. 2 * h - 1 => m * n \in 0 .. 4 * (h * h) - 1
         /\ m \in -h .. h - 1 /\ n \in -h .. 2 * h - 1 => m * n \in -(2 * (h * h)) .. 2 * (h * h) - 1
<1>1. ASSUME m \in 0 .. 2 * h - 1, n \in 0 .. 2 * h - 1
      PROVE  m * n \in 0 .. 4 * (h * h) - 1
  <2>1. m * n >= 0 /\ m * n <= (2 * h - 1) * (2 * h - 1)
    BY <1>1
  <2>2. (2 * h - 1) * (2 * h - 1) = 4 * (h * h) - 4 * h + 1
    OBVIOUS
  <2> QED BY <2>1, <2>2
<1>2. ASSUME m \in -h .. h - 1, n \in -h .. 2 * h - 1
      PROVE  m * n \in -(2 * (h * h)) .. 2 * (h * h) - 1
  <2>1. CASE m >= 0 /\ n >= 0
    <3>1. m * n >= 0 /\ m * n <= (h - 1) * (2 * h - 1)
      BY <1>2, <2>1
    <3>2. (h - 1) * (2 * h - 1) = 2 * (h * h) - 3 * h + 1
      OBVIOUS
    <3> QED BY <3>1, <3>2
  <2>2. CASE m >= 0 /\ n < 0
    <3>1. m * n <= 0 /\ m * n >= -(m * h) /\ m * h <= h * h
      BY <1>2, <2>2
    <3> QED BY <3>1
  <2>3. CASE m < 0 /\ n >= 0
    <3>1. m * n <= 0 /\ m * n >= -(h * n) /\ h * n <= h * (2 * h)
      BY <1>2, <2>3
    <3>2. h * (2 * h) = 2 * (h * h)
      OBVIOUS
    <3> QED BY <3>1, <3>2
  <2>4. CASE m < 0 /\ n < 0
    <3>1. PICK u \in 0 .. h, v \in 0 .. h : u = -m /\ v = -n
      BY <1>2, <2>4
    <3>2. m * n = u * v /\ u * v >= 0 /\ u * v <= h * h
      BY <3>1
    <3>3. h * h >= 1
      OBVIOUS
    <3> QED BY <3>2, <3>3
  <2> QED BY <1>2, <2>1, <2>2, <2>3, <2>4
<1> QED BY <1>1, <1>2

(* The numbers that an operation on two integers makes fit into the type   *)
(* of its result: it is twice as wide as theirs, or the one in which C     *)
(* computed.                                                               *)
LEMMA ResultHolds ==
  ASSUME NEW a, IsNumber(a), NEW b, IsNumber(b), a.t \in Safe, b.t \in Safe,
         NEW c, c = Common(a.t, b.t), NEW r, r = ResultType(a.t, b.t)
  PROVE  /\ r \in Whole
         /\ \A n \in Least(c) .. Greatest(c) :
              (\/ n = a.n + b.n
               \/ n = a.n - b.n /\ ~ {a.t, b.t} \subseteq Unsigned
               \/ n = a.n * b.n)
              => n \in Least(r) .. Greatest(r)
<1>1. PICK p \in Nat \ {0, 1}, s \in Nat \ {0}, i \in Nat \ {0}, l \in Nat \ {0} :
        /\ 2 * (p * p) <= s /\ 2 * (s * s) <= i /\ 2 * i <= l
        /\ \A t \in Bytes : Half(t) = p
        /\ \A t \in Shorts : Half(t) = s
        /\ \A t \in Ints : Half(t) = i
        /\ \A t \in Longs : Half(t) = l
  BY Doubled
<1>2. 2 * p <= s /\ 2 * s <= i /\ s # 1
  <2>1. 2 * p <= p * p * 2 /\ s <= s * s /\ p * p * 2 = 2 * (p * p)
    OBVIOUS
  <2> QED BY <1>1, <2>1
<1>3. a.t \in Types /\ b.t \in Types /\ a.n \in Int /\ b.n \in Int
  BY NumberIs
<1>4. CASE a.t \in Narrow /\ b.t \in Narrow
  <2>1. PICK h \in Nat \ {0, 1}, k \in Nat \ {0} :
          /\ 2 * (h * h) <= k /\ Half(a.t) <= h /\ Half(b.t) <= h /\ Half(r) = k
          /\ r \in Whole
          /\ r \in Unsigned <=> {a.t, b.t} \subseteq Unsigned
    <3> USE <1>1, <1>2, <1>3, <1>4, TypesAre, ResultInBlock, ResultOf
        DEF Sized, Unsigned, Narrow, Bytes, Shorts, Ints, Longs, Floats
    <3>1. CASE a.t \in Bytes /\ b.t \in Bytes
      <4>1. r = Sized("INT16", "UINT16", a.t, b.t)
        BY <3>1
      <4> QED BY <3>1, <4>1
    <3>2. CASE a.t \in Shorts \/ b.t \in Shorts
      <4>1. r = Sized("INT32", "UINT32", a.t, b.t)
        BY <3>2
      <4> QED BY <3>2, <4>1
    <3> QED BY <3>1, <3>2
  <2>2. PICK m \in Int, n \in Int : m = a.n /\ n = b.n
    BY <1>3
  <2>3. /\ a.t \in Whole /\ b.t \in Whole
        /\ a.t \in Unsigned => m \in 0 .. 2 * h - 1
        /\ a.t \notin Unsigned => m \in -h .. h - 1
        /\ b.t \in Unsigned => n \in 0 .. 2 * h - 1
        /\ b.t \notin Unsigned => n \in -h .. h - 1
    <3>1. a.t \in Whole /\ b.t \in Whole
      BY DEF Safe
    <3>2. Half(a.t) \in Nat /\ Half(b.t) \in Nat
      BY <3>1, Halves
    <3> QED BY <2>1, <2>2, <3>1, <3>2, Halves, NumberIs
  <2>4. h * h >= 2 * h /\ h * h \in Nat
    OBVIOUS
  <2>5. CASE a.t \in Unsigned /\ b.t \in Unsigned
    <3>1. Least(r) = 0 /\ Greatest(r) = 2 * k - 1
      BY <2>1, <2>5, Halves
    <3>2. m + n \in 0 .. 2 * k - 1
      BY <2>1, <2>3, <2>4, <2>5
    <3>3. m * n \in 0 .. 2 * k - 1
      BY <2>1, <2>3, <2>4, <2>5, Products
    <3> QED BY <2>1, <2>2, <2>5, <3>1, <3>2, <3>3
  <2>6. CASE ~ {a.t, b.t} \subseteq Unsigned
    <3>1. Least(r) = -k /\ Greatest(r) = k - 1
      BY <2>1, <2>6, Halves
    <3>2. m + n \in -k .. k - 1 /\ m - n \in -k .. k - 1
      BY <2>1, <2>3, <2>4, <2>6
    <3>3. m * n \in -k .. k - 1
      <4>1. CASE a.t \notin Unsigned
        <5>1. m \in -h .. h - 1 /\ n \in -h .. 2 * h - 1
          BY <2>3, <4>1
        <5>2. m * n \in -(2 * (h * h)) .. 2 * (h * h) - 1
          BY <5>1, Products
        <5> QED BY <2>1, <2>4, <5>2
      <4>2. CASE b.t \notin Unsigned
        <5>1. n \in -h .. h - 1 /\ m \in -h .. 2 * h - 1
          BY <2>3, <4>2
        <5>2. n * m \in -(2 * (h * h)) .. 2 * (h * h) - 1 /\ n * m = m * n
          BY <5>1, Products
        <5> QED BY <2>1, <2>4, <5>2
      <4> QED BY <2>6, <4>1, <4>2
    <3> QED BY <2>1, <2>2, <3>1, <3>2, <3>3
  <2> QED BY <2>5, <2>6
<1>5. CASE ~(a.t \in Narrow /\ b.t \in Narrow)
  <2>1. r = "INT64"
    <3> USE <1>3, <1>5, TypesAre, ResultInBlock, ResultOf
        DEF Safe, Sized, ResultOfWide, Unsigned, Narrow, Bytes, Shorts, Ints, Longs, Floats
    <3>1. CASE a.t \in Bytes
      BY <3>1
    <3>2. CASE a.t \in Shorts
      BY <3>2
    <3>3. CASE a.t \in Ints \cup Longs
      BY <3>3
    <3> QED BY <3>1, <3>2, <3>3
  <2>2. c \in {"INT32", "INT64"} /\ c \in Whole \ Unsigned /\ r \in Whole \ Unsigned
    BY <2>1, SafeCommon, TypesAre DEF Unsigned
  <2>3. /\ Least(c) = -Half(c) /\ Greatest(c) = Half(c) - 1
        /\ Least(r) = -Half(r) /\ Greatest(r) = Half(r) - 1
    BY <2>2, Halves
  <2>4. Half(r) = l /\ Half(c) \in {i, l}
    BY <1>1, <2>1, <2>2 DEF Ints, Longs
  <2> QED BY <1>1, <2>2, <2>3, <2>4
<1> QED BY <1>4, <1>5

LEMMA AddExact ==
  ASSUME NEW a, IsNumber(a), NEW b, IsNumber(b), a.t \in Safe, b.t \in Safe,
         IsDefined(psi_calc_add(a, b))
  PROVE  psi_calc_add(a, b).n = a.n + b.n
<1>1. PICK c, r : c = Common(a.t, b.t) /\ r = ResultType(a.t, b.t)
  OBVIOUS
<1>2. PICK m \in Int, n \in Int : m = a.n /\ n = b.n
  BY NumberIs
<1>3. /\ c \in Whole \ Unsigned /\ r \in Whole
      /\ Convert(a, c) = Value(c, m) /\ Convert(b, c) = Value(c, n)
  BY <1>1, <1>2, SafeCommon, ResultHolds
<1>4. PICK k \in Int : k = m + n
  OBVIOUS
<1>5. Plus(c, Value(c, m), Value(c, n)) = Fit(c, k)
  BY <1>3, <1>4, TypesAre DEF Plus, Value
<1>6. psi_calc_add(a, b) = Stored(Fit(c, k), r)
  BY <1>1, <1>3, <1>5, AddIs
<1>7. k \in Least(c) .. Greatest(c) => k \in Least(r) .. Greatest(r)
  BY <1>1, <1>2, <1>4, ResultHolds
<1>8. Stored(Fit(c, k), r).n = k
  BY <1>3, <1>6, <1>7, StoredWhole
<1> QED BY <1>2, <1>4, <1>6, <1>8

LEMMA SubExact ==
  ASSUME NEW a, IsNumber(a), NEW b, IsNumber(b), a.t \in Safe, b.t \in Safe,
         IsDefined(psi_calc_sub(a, b)), ~ {a.t, b.t} \subseteq Unsigned
  PROVE  psi_calc_sub(a, b).n = a.n - b.n
<1>1. PICK c, r : c = Common(a.t, b.t) /\ r = ResultType(a.t, b.t)
  OBVIOUS
<1>2. PICK m \in Int, n \in Int : m = a.n /\ n = b.n
  BY NumberIs
<1>3. /\ c \in Whole \ Unsigned /\ r \in Whole
      /\ Convert(a, c) = Value(c, m) /\ Convert(b, c) = Value(c, n)
  BY <1>1, <1>2, SafeCommon, ResultHolds
<1>4. PICK k \in Int : k = m - n
  OBVIOUS
<1>5. Minus(c, Value(c, m), Value(c, n)) = Fit(c, k)
  BY <1>3, <1>4, TypesAre DEF Minus, Value
<1>6. psi_calc_sub(a, b) = Stored(Fit(c, k), r)
  BY <1>1, <1>3, <1>5, SubIs
<1>7. k \in Least(c) .. Greatest(c) => k \in Least(r) .. Greatest(r)
  BY <1>1, <1>2, <1>4, ResultHolds
<1>8. Stored(Fit(c, k), r).n = k
  BY <1>3, <1>6, <1>7, StoredWhole
<1> QED BY <1>2, <1>4, <1>6, <1>8

LEMMA MulExact ==
  ASSUME NEW a, IsNumber(a), NEW b, IsNumber(b), a.t \in Safe, b.t \in Safe,
         IsDefined(psi_calc_mul(a, b))
  PROVE  psi_calc_mul(a, b).n = a.n * b.n
<1>1. PICK c, r : c = Common(a.t, b.t) /\ r = ResultType(a.t, b.t)
  OBVIOUS
<1>2. PICK m \in Int, n \in Int : m = a.n /\ n = b.n
  BY NumberIs
<1>3. /\ c \in Whole \ Unsigned /\ r \in Whole
      /\ Convert(a, c) = Value(c, m) /\ Convert(b, c) = Value(c, n)
  BY <1>1, <1>2, SafeCommon, ResultHolds
<1>4. PICK k \in Int : k = m * n
  OBVIOUS
<1>5. Times(c, Value(c, m), Value(c, n)) = Fit(c, k)
  BY <1>3, <1>4, TypesAre DEF Times, Value
<1>6. psi_calc_mul(a, b) = Stored(Fit(c, k), r)
  BY <1>1, <1>3, <1>5, MulIs
<1>7. k \in Least(c) .. Greatest(c) => k \in Least(r) .. Greatest(r)
  BY <1>1, <1>2, <1>4, ResultHolds
<1>8. Stored(Fit(c, k), r).n = k
  BY <1>3, <1>6, <1>7, StoredWhole
<1> QED BY <1>2, <1>4, <1>6, <1>8

(* The quotient and the remainder are of two tables, with different types. *)
LEMMA QuotientAndRemainder ==
  ASSUME NEW a, IsNumber(a), NEW b, IsNumber(b), a.t \in Whole \ Unsigned, b.t \in Whole \ Unsigned,
         IsDefined(psi_calc_mod(a, b)), IsDefined(psi_calc_div(a, b))
  PROVE  a.n = psi_calc_div(a, b).n * b.n + psi_calc_mod(a, b).n
<1>1. PICK c, r : c = Common(a.t, b.t) /\ r = ResultType(a.t, b.t)
  OBVIOUS
<1>2. PICK m \in Int, n \in Int : m = a.n /\ n = b.n
  BY NumberIs
<1>3. a.t \in Safe /\ b.t \in Safe
  BY DEF Safe, Unsigned
<1>4. /\ c \in Whole \ Unsigned /\ r \in Whole
      /\ Convert(a, c) = Value(c, m) /\ Convert(b, c) = Value(c, n)
  BY <1>1, <1>2, <1>3, SafeCommon, ResultHolds
<1>5. "INT64" \in Whole \ Unsigned
  BY TypesAre DEF Unsigned
<1>6. PICK p \in Nat \ {0, 1}, s \in Nat \ {0}, i \in Nat \ {0}, l \in Nat \ {0} :
        /\ 2 * (p * p) <= s /\ 2 * (s * s) <= i /\ 2 * i <= l
        /\ \A t \in Bytes : Half(t) = p
        /\ \A t \in Shorts : Half(t) = s
        /\ \A t \in Ints : Half(t) = i
        /\ \A t \in Longs : Half(t) = l
  BY Doubled
<1>7. p <= s /\ s <= i /\ i <= l
  <2>1. p <= p * p /\ s <= s * s
    OBVIOUS
  <2> QED BY <1>6, <2>1
<1>8. ASSUME NEW t \in Whole \ Unsigned
      PROVE  Least(t) = -Half(t) /\ Greatest(t) = Half(t) - 1 /\ Half(t) \in Nat \ {0} /\ Half(t) <= l
  BY <1>6, <1>7, Halves DEF Whole, Narrow
<1>9. Half("INT64") = l
  BY <1>6 DEF Longs
<1>10. Convert(a, "INT64").n = m /\ Convert(b, "INT64").n = n
  <2>1. ASSUME NEW v, IsNumber(v), v.t \in Whole \ Unsigned
        PROVE  Convert(v, "INT64") = Value("INT64", v.n)
    <3>1. v.n \in -Half(v.t) .. Half(v.t) - 1
      BY <1>8, <2>1, NumberIs
    <3>2. v.n \in Least("INT64") .. Greatest("INT64")
      BY <1>5, <1>8, <1>9, <2>1, <3>1
    <3> QED BY <1>5, <2>1, <3>2, ConvertKeeps
  <2> QED BY <1>2, <2>1 DEF Value
<1>11. n # 0 /\ psi_calc_mod(a, b).n = m - n * Truncate(m, n)
  BY <1>10, ModIs
<1>12. PICK k \in Int : /\ k = Truncate(m, n)
                        /\ m >= 0 => k <= m /\ k >= -m
                        /\ m <= 0 => k <= -m /\ k >= m
  BY <1>11, Truncated
<1>13. Over(c, Value(c, m), Value(c, n)) = Fit(c, k)
  BY <1>4, <1>11, <1>12, TypesAre DEF Over, Value
<1>14. psi_calc_div(a, b) = Stored(Fit(c, k), r)
  BY <1>1, <1>4, <1>13, DivIs
<1>15. k \in Least(c) .. Greatest(c) => k \in Least(r) .. Greatest(r)
  <2>1. r \in Whole \ Unsigned /\ (2 * Half(a.t) <= Half(r) \/ r = "INT64")
    <3>1. 2 * p <= s /\ 2 * s <= i
      <4>1. 2 * p <= 2 * (p * p) /\ 2 * s <= 2 * (s * s)
        OBVIOUS
      <4> QED BY <1>6, <4>1
    <3>2. a.t \in Types /\ b.t \in Types
      BY NumberIs
    <3> USE <1>1, <1>6, <3>1, <3>2, TypesAre, ResultInBlock, ResultOf
        DEF Sized, ResultOfWide, Unsigned, Narrow, Bytes, Shorts, Ints, Longs, Floats
    <3>3. CASE a.t \in Bytes
      BY <3>3
    <3>4. CASE a.t \in Shorts
      BY <3>4
    <3>5. CASE a.t \in Ints \cup Longs
      BY <3>5
    <3> QED BY <3>3, <3>4, <3>5
  <2>2. m \in -Half(a.t) .. Half(a.t) - 1 /\ Half(a.t) \in Nat \ {0}
    BY <1>2, <1>8, NumberIs
  <2>3. k \in -Half(a.t) .. Half(a.t)
    BY <1>12, <2>2
  <2>4. /\ Least(r) = -Half(r) /\ Greatest(r) = Half(r) - 1 /\ Half(r) \in Nat
        /\ Least(c) = -Half(c) /\ Greatest(c) = Half(c) - 1 /\ Half(c) <= l /\ Half(c) \in Nat
    BY <1>4, <1>8, <2>1
  <2> QED BY <1>9, <2>1, <2>2, <2>3, <2>4
<1>16. psi_calc_div(a, b).n = k
  BY <1>4, <1>14, <1>15, StoredWhole
<1>17. n * k = k * n /\ n * k \in Int
  OBVIOUS
<1> QED BY <1>2, <1>11, <1>12, <1>16, <1>17

(* Numbers, and what stands for undefined behaviour.                       *)
Results == {v \in [t : Types, n : Int, d : Nat] : IsNumber(v) \/ (v.t \in Whole /\ v.d = 0)}

LEMMA InResults ==
  ASSUME NEW v
  PROVE  /\ IsNumber(v) => v \in Results
         /\ \A t \in Types : IsResult(v, t) => v \in Results
         /\ v \in Results /\ IsDefined(v) => IsNumber(v)
         /\ v \in Results => v.t \in Types
<1>1. IsNumber(v) => v \in Results
  BY DEF Results, IsNumber
<1>2. ASSUME NEW t \in Types, IsResult(v, t)
      PROVE  v \in Results
  <2>1. CASE t \in Floats /\ v = Undefined(t)
    <3>1. v.t = t /\ v.n = 0 /\ v.d = 0 /\ v = [t |-> t, n |-> 0, d |-> 0]
      BY <2>1 DEF Undefined
    <3>2. IsNumber(v)
      BY <2>1, <3>1 DEF IsNumber, IsFloat
    <3> QED BY <1>1, <3>2
  <2>2. CASE t \notin Floats /\ v = Undefined(t)
    BY <2>2 DEF Results, Undefined, Types
  <2> QED BY <1>1, <1>2, <2>1, <2>2 DEF IsResult
<1>3. v \in Results /\ IsDefined(v) => IsNumber(v)
  BY TypesAre DEF Results, IsDefined
<1>4. v \in Results => v.t \in Types
  BY DEF Results
<1> QED BY <1>1, <1>2, <1>3, <1>4

LEMMA AddCharIs ==
  ASSUME NEW char \in Int, NEW lvl \in Nat, NEW rest \in Results
  PROVE  AddChar(char, lvl, rest) \in Results
<1>1. "INT8" \in Whole /\ "INT32" \in Whole /\ "INT64" \in Types
  BY TypesAre
<1>2. CASE W8 * lvl >= W32 \/ ~ IsDefined(rest)
  BY <1>1, <1>2, InResults DEF AddChar, IsResult
<1>3. CASE ~(W8 * lvl >= W32 \/ ~ IsDefined(rest))
  <2>1. PICK w \in Int : w = W8 * lvl
    BY WidthsAssumption
  <2>2. w \in 0 .. W64
    BY <1>3, <2>1, WidthsAssumption
  <2>3. PICK p \in Nat : p = Power[W8 * lvl]
    BY <2>1, <2>2, PowerDoubles
  <2>4. PICK byte \in Int : byte = Wrap("INT8", char)
    BY <1>1, Wrapped, WholeNumber
  <2>5. PICK k \in Int : k = Wrap("INT32", byte * p) /\ k \in Least("INT32") .. Greatest("INT32")
    <3>1. byte * p \in Int
      OBVIOUS
    <3> QED BY <1>1, <3>1, Wrapped, WholeNumber
  <2>6. IsNumber(Value("INT32", k)) /\ IsNumber(rest)
    BY <1>1, <1>3, <2>5, WholeNumber, InResults
  <2>7. AddChar(char, lvl, rest) = psi_calc_add(Value("INT32", k), rest)
    BY <1>3, <2>3, <2>4, <2>5 DEF AddChar
  <2>8. PICK x : x = Value("INT32", k)
    OBVIOUS
  <2>9. ResultType(x.t, rest.t) \in Types
    BY <2>6, <2>8, NumberIs, ResultTypes
  <2>10. IsResult(psi_calc_add(x, rest), ResultType(x.t, rest.t))
    BY <2>6, <2>8, BasicResults
  <2> QED BY <2>7, <2>8, <2>9, <2>10, InResults
<1> QED BY <1>2, <1>3

(* A character constant is a number, or undefined when it has too many     *)
(* characters.                                                             *)
LEMMA CharIs ==
  ASSUME NEW chars \in Seq(Int), chars # <<>>
  PROVE  validate_char(chars) \in Results
<1> DEFINE n == Len(chars)
           Fits(p) == p = [lvl \in 1 .. n |->
                             IF lvl = 1 THEN Value("INT8", Wrap("INT8", chars[n]))
                             ELSE AddChar(chars[n - lvl + 1], lvl, p[lvl - 1])]
           last_ == CHOOSE p : Fits(p)
           step == [k \in 1 .. n - 1 |-> [v \in Results |-> AddChar(chars[n - k], k + 1, v)]]
<1>1. n \in Nat \ {0} /\ \A i \in 1 .. n : chars[i] \in Int
  OBVIOUS
<1>2. validate_char(chars) = last_[n]
  BY Zenon DEF validate_char
<1> HIDE DEF n
<1>3. PICK first : first = Value("INT8", Wrap("INT8", chars[n]))
  OBVIOUS
<1>4. first \in Results
  <2>1. chars[n] \in Int
    BY <1>1
  <2>2. "INT8" \in Whole
    BY TypesAre
  <2>3. IsNumber(first)
    BY <1>3, <2>1, <2>2, Wrapped, WholeNumber
  <2> QED BY <2>3, InResults
<1>5. \A k \in 1 .. n - 1 : \A v \in Results : AddChar(chars[n - k], k + 1, v) \in Results
  <2>1. \A k \in 1 .. n - 1 : n - k \in 1 .. n /\ k + 1 \in Nat
    BY <1>1
  <2> QED BY <1>1, <2>1, AddCharIs
<1>6. step \in [1 .. n - 1 -> [Results -> Results]]
  BY <1>5
<1>7. PICK f \in [0 .. n - 1 -> Results] : IsTable(f, n - 1, first, step)
  <2>1. n - 1 \in Nat
    BY <1>1
  <2> HIDE DEF step
  <2> QED BY <1>4, <1>6, <2>1, TableExists
<1>8. f[0] = first /\ \A k \in 1 .. n - 1 : f[k] = AddChar(chars[n - k], k + 1, f[k - 1])
  <2>1. ASSUME NEW k \in 1 .. n - 1
        PROVE  f[k] = AddChar(chars[n - k], k + 1, f[k - 1])
    <3>1. f[k - 1] \in Results
      BY <1>1
    <3>2. f[k] = step[k][f[k - 1]]
      BY <1>7 DEF IsTable
    <3> QED BY <3>1, <3>2
  <2> QED BY <1>7, <2>1 DEF IsTable
<1> HIDE DEF step
<1> DEFINE g == [lvl \in 1 .. n |-> f[lvl - 1]]
<1>9. Fits(g)
  <2>1. ASSUME NEW lvl \in 1 .. n
        PROVE  g[lvl] = IF lvl = 1 THEN Value("INT8", Wrap("INT8", chars[n]))
                        ELSE AddChar(chars[n - lvl + 1], lvl, g[lvl - 1])
    <3>1. CASE lvl = 1
      BY <1>1, <1>3, <1>8, <3>1
    <3>2. CASE lvl # 1
      <4>1. PICK k \in 1 .. n - 1 : k = lvl - 1
        BY <1>1, <3>2
      <4>2. lvl - 1 \in 1 .. n /\ g[lvl - 1] = f[k - 1] /\ g[lvl] = f[k] /\ n - lvl + 1 = n - k /\ lvl = k + 1
        BY <1>1, <4>1
      <4> QED BY <1>8, <3>2, <4>2
    <3> QED BY <3>1, <3>2
  <2> QED BY <2>1
<1>10. PICK p : p = last_ /\ Fits(p)
  <2> HIDE DEF Fits
  <2> QED BY <1>9, Zenon
<1>11. \A lvl \in 1 .. n : p[lvl] = IF lvl = 1 THEN Value("INT8", Wrap("INT8", chars[n]))
                                    ELSE AddChar(chars[n - lvl + 1], lvl, p[lvl - 1])
  <2>1. p = [lvl \in 1 .. n |-> IF lvl = 1 THEN Value("INT8", Wrap("INT8", chars[n]))
                                ELSE AddChar(chars[n - lvl + 1], lvl, p[lvl - 1])]
    BY <1>10
  <2> HIDE DEF Fits, last_
  <2> QED BY <2>1
<1> HIDE DEF Fits, last_, g
<1> DEFINE h == [k \in 0 .. n - 1 |-> p[k + 1]]
<1>12. h[0] \in Results
  BY <1>1, <1>3, <1>4, <1>11
<1>13. ASSUME NEW k \in 1 .. n - 1, h[k - 1] \in Results
       PROVE  h[k] \in Results
  <2>1. PICK lvl \in 1 .. n : lvl = k + 1
    BY <1>1
  <2>2. h[k] = p[lvl] /\ h[k - 1] = p[lvl - 1] /\ lvl # 1 /\ lvl \in Nat /\ n - lvl + 1 \in 1 .. n
    BY <1>1, <2>1
  <2>3. p[lvl] = AddChar(chars[n - lvl + 1], lvl, p[lvl - 1])
    BY <1>11, <2>2
  <2>4. chars[n - lvl + 1] \in Int
    BY <1>1, <2>2
  <2> QED BY <1>13, <2>2, <2>3, <2>4, AddCharIs
<1>14. \A k \in 0 .. n - 1 : h[k] \in Results
  <2>1. n - 1 \in Nat
    BY <1>1
  <2> HIDE DEF h
  <2> QED BY <1>12, <1>13, <2>1, StaysAlong
<1>15. p[n] \in Results
  <2>1. n - 1 \in 0 .. n - 1 /\ (n - 1) + 1 = n
    BY <1>1
  <2> QED BY <1>14, <2>1
<1> QED BY <1>2, <1>10, <1>15

LEMMA ClampedIs ==
  ASSUME NEW t \in Whole, NEW n \in Int
  PROVE  IsNumber(Value(t, Clamped(t, n)))
<1>1. PICK l \in Int, g \in Int : l = Least(t) /\ g = Greatest(t) /\ l <= g
  BY Halves
<1>2. /\ n > g => Clamped(t, n) = g
      /\ ~(n > g) /\ n < l => Clamped(t, n) = l
      /\ ~(n > g) /\ ~(n < l) => Clamped(t, n) = n
  <2>1. ~(n > g /\ n < l)
    BY <1>1
  <2> QED BY <1>1, <2>1, Zenon DEF Clamped
<1>3. Clamped(t, n) \in Least(t) .. Greatest(t)
  BY <1>1, <1>2
<1> QED BY <1>3, WholeNumber

LEMMA LiteralIs ==
  ASSUME NEW num, num.n \in Int, num.d \in Nat \ {0}
  PROVE  IsNumber(psi_number_validate_number(num))
<1>1. "UINT64" \in Whole /\ "INT64" \in Whole /\ {"FLOAT", "DOUBLE", "LONG_DOUBLE"} \subseteq Floats
  BY TypesAre DEF Floats
<1>2. Wrap("UINT64", num.n) \in Int
  BY <1>1, Wrapped, WholeNumber
<1>3. /\ IsNumber(Value("UINT64", Clamped("UINT64", Wrap("UINT64", num.n))))
      /\ IsNumber(Value("INT64", Clamped("INT64", num.n)))
  BY <1>1, <1>2, ClampedIs
<1>4. \A t \in Floats : IsNumber(FloatRead(t, num))
  <2>1. Magnitude(num.n) \in Nat /\ (num.n < 0) \in BOOLEAN
    BY DEF Magnitude
  <2> QED BY <2>1, FloatOfIs DEF FloatRead
<1> QED BY <1>1, <1>3, <1>4 DEF psi_number_validate_number

(* What each kind of number is validated to, and then evaluated to.        *)
LEMMA ValidateIs ==
  ASSUME NEW num
  PROVE  /\ num.type = "NUMBER" => psi_number_validate(data, num) =
              [type |-> "VALUE", v |-> psi_number_validate_number(num)]
         /\ num.type = "QUOTED_CHAR" => psi_number_validate(data, num) =
              [type |-> "VALUE", v |-> validate_char(num.text)]
         /\ num.type = "SIZEOF" => psi_number_validate(data, num) =
              [type |-> "VALUE", v |-> Value("UINT64", num.size)]
         /\ num.type = "NAME" => psi_number_validate(data, num) =
              IF num.name \in DOMAIN data.enums THEN [type |-> "ENUM", name |-> num.name]
              ELSE Look(num, data.vars, "NAME")
         /\ num.type = "NSNAME" => psi_number_validate(data, num) = Look(num, data.consts, "CONST")
         /\ num.type \in {"DEFINE", "FUNCTION"} => psi_number_validate(data, num) = num
BY Zenon DEF psi_number_validate

LEMMA EvalIs ==
  ASSUME NEW m
  PROVE  /\ m.type = "VALUE" =>
              psi_number_eval(data, m) = IF m.v.t = "FLOAT" THEN Asserts ELSE m.v
         /\ m.type = "ENUM" => psi_number_eval(data, m) = Value("INT64", data.enums[m.name])
         /\ m.type = "CONST" => psi_number_eval(data, m) = psi_number_eval_constant(data, m)
         /\ m.type = "NAME" => psi_number_eval(data, m) = psi_number_eval_decl_var(data, m)
         /\ m.type \in {"DEFINE", "FUNCTION"} => psi_number_eval(data, m) = Value("UINT8", 0)
BY Zenon DEF psi_number_eval

LEMMA LeafIs ==
  ASSUME NEW num, IsLeaf(num)
  PROVE  /\ num.type = "NUMBER" => num.n \in Int /\ num.d \in Nat \ {0}
         /\ num.type = "QUOTED_CHAR" => num.text \in Seq(Int) \ {<<>>}
         /\ num.type = "SIZEOF" => num.size \in 0 .. Greatest("UINT64")
         /\ num.type \in {"NUMBER", "QUOTED_CHAR", "SIZEOF", "NAME", "NSNAME", "DEFINE", "FUNCTION"}
BY Zenon DEF IsLeaf

(* The value of a leaf that was found valid.                               *)
LEMMA LeafEvaluates ==
  ASSUME NEW num, IsLeaf(num), NEW m, m = psi_number_validate(data, num), m.type # "INVALID"
  PROVE  psi_number_eval(data, m) = Asserts \/ psi_number_eval(data, m) \in Results
<1>1. ASSUME NEW v \in Results, m = [type |-> "VALUE", v |-> v]
      PROVE  psi_number_eval(data, m) = Asserts \/ psi_number_eval(data, m) \in Results
  BY <1>1, EvalIs
<1>2. CASE num.type = "NUMBER"
  <2>1. psi_number_validate_number(num) \in Results
    BY <1>2, LeafIs, LiteralIs, InResults
  <2> QED BY <1>1, <1>2, <2>1, ValidateIs
<1>3. CASE num.type = "QUOTED_CHAR"
  <2>1. validate_char(num.text) \in Results
    <3>1. PICK chars : chars = num.text /\ chars \in Seq(Int) /\ chars # <<>>
      BY <1>3, LeafIs
    <3> QED BY <3>1, CharIs
  <2> QED BY <1>1, <1>3, <2>1, ValidateIs
<1>4. CASE num.type = "SIZEOF"
  <2>1. "UINT64" \in Whole /\ Least("UINT64") = 0
    BY Halves, TypesAre DEF Unsigned
  <2>2. Value("UINT64", num.size) \in Results
    BY <1>4, <2>1, LeafIs, WholeNumber, InResults
  <2> QED BY <1>1, <1>4, <2>2, ValidateIs
<1>5. CASE m.type = "ENUM" /\ m.name \in DOMAIN data.enums
  <2>1. IsNumber(Value("INT64", data.enums[m.name]))
    BY <1>5, DataAssumption, WholeNumber, TypesAre
  <2> QED BY <1>5, <2>1, EvalIs, InResults
<1>6. CASE m.type = "NAME" /\ m.name \in DOMAIN data.vars
  <2>1. IsNumber(data.vars[m.name])
    BY <1>6, DataAssumption
  <2> QED BY <1>6, <2>1, EvalIs, InResults DEF psi_number_eval_decl_var
<1>7. CASE m.type = "CONST" /\ m.name \in DOMAIN data.consts
  <2>1. PICK c : c = data.consts[m.name] /\ IsNumber(c)
    BY <1>7, DataAssumption
  <2>2. "DOUBLE" \in Types /\ "INT64" \in Types
    BY TypesAre
  <2>3. IsResult(Convert(c, "DOUBLE"), "DOUBLE") /\ IsResult(Convert(c, "INT64"), "INT64")
    BY <2>1, <2>2, Converted
  <2>4. psi_number_eval_constant(data, m) \in Results
    BY <2>1, <2>2, <2>3, InResults DEF psi_number_eval_constant
  <2> QED BY <1>7, <2>4, EvalIs
<1>8. CASE num.type = "NAME"
  <2>1. m = IF num.name \in DOMAIN data.enums THEN [type |-> "ENUM", name |-> num.name]
            ELSE Look(num, data.vars, "NAME")
    BY <1>8, ValidateIs
  <2>2. \/ m.type = "ENUM" /\ m.name \in DOMAIN data.enums
        \/ m.type = "NAME" /\ m.name \in DOMAIN data.vars
    BY <2>1 DEF Look
  <2> QED BY <1>5, <1>6, <2>2
<1>9. CASE num.type = "NSNAME"
  <2>1. m = Look(num, data.consts, "CONST")
    BY <1>9, ValidateIs
  <2>2. m.type = "CONST" /\ m.name \in DOMAIN data.consts
    BY <2>1 DEF Look
  <2> QED BY <1>7, <2>2
<1>10. CASE num.type \in {"DEFINE", "FUNCTION"}
  <2>1. m.type \in {"DEFINE", "FUNCTION"}
    BY <1>10, ValidateIs
  <2>2. psi_number_eval(data, m) = Truth(FALSE)
    BY <2>1, EvalIs DEF Truth
  <2> QED BY <2>2, TruthResult, InResults
<1> QED BY <1>2, <1>3, <1>4, <1>8, <1>9, <1>10, LeafIs

LEMMA Handle1 ==
  ASSUME NEW p, p.stack \in Seq(Range(p.stack)), NEW k1, Handle(p, <<k1>>)
  PROVE  Len(p.stack) >= 1 /\ At(p, 0).k = k1
BY DEF Handle, At

LEMMA Handle2 ==
  ASSUME NEW p, p.stack \in Seq(Range(p.stack)), NEW k1, NEW k2, Handle(p, <<k1, k2>>)
  PROVE  Len(p.stack) >= 2 /\ At(p, 1).k = k1 /\ At(p, 0).k = k2
BY DEF Handle, At

LEMMA Handle3 ==
  ASSUME NEW p, p.stack \in Seq(Range(p.stack)), NEW k1, NEW k2, NEW k3, Handle(p, <<k1, k2, k3>>)
  PROVE  Len(p.stack) >= 3 /\ At(p, 2).k = k1 /\ At(p, 1).k = k2 /\ At(p, 0).k = k3
BY DEF Handle, At

LEMMA Handle5 ==
  ASSUME NEW p, p.stack \in Seq(Range(p.stack)), NEW k1, NEW k2, NEW k3, NEW k4, NEW k5,
         Handle(p, <<k1, k2, k3, k4, k5>>)
  PROVE  /\ Len(p.stack) >= 5 /\ At(p, 4).k = k1 /\ At(p, 3).k = k2 /\ At(p, 2).k = k3
         /\ At(p, 1).k = k4 /\ At(p, 0).k = k5
BY DEF Handle, At

LEMMA SettledIs ==
  ASSUME NEW p, NEW ahead
  PROVE  \/ Handle(p, <<"num">>) /\ Settled(p, ahead) = Becomes(p, 1, Num(At(p, 0).num))
         \/ /\ Handle(p, <<"(", "exp", ")">>)
            /\ Settled(p, ahead) = Becomes(p, 3, Unary("LPAREN", At(p, 1).e))
         \/ /\ Handle(p, <<"un", "exp">>)
            /\ Settled(p, ahead) = Becomes(p, 2, Unary(At(p, 1).op, At(p, 0).e))
         \/ /\ Handle(p, <<"cast", "exp">>)
            /\ Settled(p, ahead) = Becomes(p, 2, Cast(At(p, 1).to, At(p, 0).e))
         \/ /\ Handle(p, <<"exp", "bin", "exp">>)
            /\ Settled(p, ahead) = Becomes(p, 3, Binary(At(p, 1).op, At(p, 2).e, At(p, 0).e))
         \/ /\ Handle(p, <<"exp", "?", "exp", ":", "exp">>)
            /\ Settled(p, ahead) = Becomes(p, 5, Iif(At(p, 4).e, At(p, 2).e, At(p, 0).e))
         \/ Settled(p, ahead) = p
BY Zenon DEF Settled

PrefixOps == {"NOT", "TILDE", "PLUS", "MINUS"}

LEMMA TokenIs ==
  ASSUME NEW tok, IsToken(tok)
  PROVE  /\ tok.k = "num" => IsLeaf(tok.num)
         /\ tok.k = "bin" => tok.op \in BinaryOps
         /\ tok.k = "un" => tok.op \in PrefixOps
         /\ tok.k = "cast" => tok.to \in Types
         /\ tok.k # "exp"
BY Zenon DEF IsToken, PrefixOps

(* A tree: the parts of the node at i come before it; only an operator of  *)
(* two operands can have none on the right.                                *)
Simple == {"LPAREN", "NOT", "TILDE", "CAST"}
IsNode(e, i) ==
  /\ e.op \in {"NUMBER", "IIF"} \cup Simple \cup BinaryOps
  /\ e.op = "NUMBER" => IsLeaf(e.num)
  /\ e.op \in Simple => e.u \in 1 .. i - 1
  /\ e.op = "CAST" => e.typ \in Types
  /\ e.op \in BinaryOps => e.lhs \in 1 .. i - 1 /\ e.rhs \in 0 .. i - 1
  /\ e.op = "IIF" => /\ e.cond \in 1 .. i - 1 /\ e.truthy \in 1 .. i - 1
                     /\ e.falsy \in 1 .. i - 1

(* A symbol of the parser's stack, with n nodes made.                      *)
IsSymbol(s, n) == IF s.k = "exp" THEN s.e \in 1 .. n ELSE IsToken(s)

(* What the parser makes of the tokens T.                                  *)
Made(T) ==
  {Num(tok.num) : tok \in T} \cup {Unary("LPAREN", u) : u \in Nat}
    \cup {Unary(tok.op, u) : tok \in T, u \in Nat}
    \cup {Cast(tok.to, u) : tok \in T, u \in Nat}
    \cup {Binary(tok.op, l, r) : tok \in T, l \in Nat, r \in Nat}
    \cup {Iif(c, t, f) : c \in Nat, t \in Nat, f \in Nat}
Symbols(T) == T \cup [k : {"exp"}, e : Nat]
IsTree(nodes) == \A i \in DOMAIN nodes : IsNode(nodes[i], i)
ParseStates(T) ==
  {p \in [stack : Seq(Symbols(T)), nodes : Seq(Made(T))] :
     /\ IsTree(p.nodes)
     /\ \A i \in DOMAIN p.stack : IsSymbol(p.stack[i], Len(p.nodes))}

LEMMA BecomesKeeps ==
  ASSUME NEW T, NEW p \in ParseStates(T), NEW i \in Nat, i <= Len(p.stack), NEW node \in Made(T),
         IsNode(node, Len(p.nodes) + 1)
  PROVE  Becomes(p, i, node) \in ParseStates(T)
<1>1. PICK s, nodes, m, n :
        s = p.stack /\ nodes = p.nodes /\ m = Len(nodes) /\ n = Len(s)
  OBVIOUS
<1>2. /\ s \in Seq(Symbols(T)) /\ nodes \in Seq(Made(T)) /\ m \in Nat /\ n \in Nat /\ i <= n
      /\ \A j \in 1 .. m : IsNode(nodes[j], j)
      /\ \A j \in 1 .. n : IsSymbol(s[j], m)
  BY <1>1 DEF ParseStates, IsTree
<1>3. PICK a : a = SubSeq(s, 1, n - i)
  OBVIOUS
<1>4. a \in Seq(Symbols(T)) /\ Len(a) = n - i /\ \A j \in 1 .. n - i : a[j] = s[j]
  <2>1. n - i \in Nat /\ n - i <= n
    BY <1>2
  <2>2. \A j \in 1 .. n - i : s[j] \in Symbols(T)
    BY <1>1, <1>2
  <2> QED BY <1>1, <1>2, <1>3, <2>1, <2>2, SubSeqProperties
<1>5. Exp(m + 1) \in Symbols(T) /\ Exp(m + 1).k = "exp" /\ Exp(m + 1).e = m + 1
  BY <1>2 DEF Exp, Symbols
<1>6. PICK st, nd : st = Append(a, Exp(m + 1)) /\ nd = Append(nodes, node)
  OBVIOUS
<1>7. Becomes(p, i, node) = [stack |-> st, nodes |-> nd]
  BY <1>1, <1>3, <1>6 DEF Becomes
<1>8. /\ st \in Seq(Symbols(T)) /\ Len(st) = n - i + 1 /\ st[n - i + 1] = Exp(m + 1)
      /\ \A j \in 1 .. n - i : st[j] = a[j]
  BY <1>4, <1>5, <1>6
<1>9. nd \in Seq(Made(T)) /\ Len(nd) = m + 1 /\ nd[m + 1] = node /\ \A j \in 1 .. m : nd[j] = nodes[j]
  BY <1>1, <1>2, <1>6
<1>10. \A j \in 1 .. m + 1 : IsNode(nd[j], j)
  BY <1>1, <1>2, <1>9
<1>11. \A j \in 1 .. n - i + 1 : IsSymbol(st[j], m + 1)
  <2>1. ASSUME NEW j \in 1 .. n - i PROVE IsSymbol(st[j], m + 1)
    <3>1. IsSymbol(s[j], m)
      BY <1>2
    <3>2. st[j] = s[j]
      BY <1>4, <1>8
    <3> QED BY <1>2, <3>1, <3>2 DEF IsSymbol
  <2>2. IsSymbol(st[n - i + 1], m + 1)
    BY <1>2, <1>5, <1>8 DEF IsSymbol
  <2>3. \A j \in 1 .. n - i + 1 : j \in 1 .. n - i \/ j = n - i + 1
    BY <1>2
  <2> QED BY <2>1, <2>2, <2>3
<1>12. DOMAIN st = 1 .. n - i + 1 /\ DOMAIN nd = 1 .. m + 1
  BY <1>8, <1>9
<1> QED BY <1>7, <1>8, <1>9, <1>10, <1>11, <1>12 DEF ParseStates, IsTree

(* The symbols at the end of the stack.                                    *)
LEMMA AtIs ==
  ASSUME NEW T, NEW p \in ParseStates(T), NEW i \in Nat, i < Len(p.stack)
  PROVE  /\ At(p, i) \in Symbols(T)
         /\ At(p, i).k = "exp" => At(p, i).e \in 1 .. Len(p.nodes)
         /\ At(p, i).k # "exp" => At(p, i) \in T /\ IsToken(At(p, i))
<1>1. PICK s, n : s = p.stack /\ n = Len(s)
  OBVIOUS
<1>2. s \in Seq(Symbols(T)) /\ n \in Nat /\ \A j \in 1 .. n : IsSymbol(s[j], Len(p.nodes))
  BY <1>1 DEF ParseStates
<1>3. n - i \in 1 .. n /\ At(p, i) = s[n - i] /\ s[n - i] \in Symbols(T)
  BY <1>1, <1>2 DEF At
<1>4. IsSymbol(At(p, i), Len(p.nodes))
  BY <1>2, <1>3
<1> QED BY <1>3, <1>4 DEF IsSymbol, Symbols

LEMMA BinaryDiffer == /\ BinaryOps \cap (Simple \cup {"NUMBER", "IIF"}) = {}
                      /\ PrefixOps \ BinaryOps = {"NOT", "TILDE"}
BY BinaryOpsAre DEF Simple, PrefixOps

LEMMA UnaryNode ==
  ASSUME NEW op, NEW i \in Nat, NEW u \in 1 .. i - 1, op \in PrefixOps \cup {"LPAREN"}
  PROVE  IsNode(Unary(op, u), i)
<1>1. CASE op \in BinaryOps
  <2>1. PICK e : e = Unary(op, u)
    OBVIOUS
  <2>2. e.op = op /\ e.lhs = u /\ e.rhs = 0
    BY <1>1, <2>1 DEF Unary, Null
  <2>3. op \notin Simple /\ op # "NUMBER" /\ op # "IIF" /\ op # "CAST"
    BY <1>1, BinaryDiffer DEF Simple
  <2>4. IsNode(e, i)
    BY <1>1, <2>2, <2>3 DEF IsNode
  <2> QED BY <2>1, <2>4
<1>2. CASE op \notin BinaryOps
  <2>1. PICK e : e = Unary(op, u)
    OBVIOUS
  <2>2. e.op = op /\ e.u = u
    BY <1>2, <2>1 DEF Unary
  <2>3. op \in Simple /\ op # "NUMBER" /\ op # "IIF" /\ op # "CAST"
    BY <1>2, BinaryDiffer DEF Simple
  <2>4. IsNode(e, i)
    BY <1>2, <2>2, <2>3 DEF IsNode
  <2> QED BY <2>1, <2>4
<1> QED BY <1>1, <1>2

LEMMA SettledKeeps ==
  ASSUME NEW T, NEW p \in ParseStates(T), NEW ahead
  PROVE  Settled(p, ahead) \in ParseStates(T)
<1>1. p.stack \in Seq(Range(p.stack)) /\ Len(p.stack) \in Nat /\ Len(p.nodes) \in Nat
  <2>1. p.stack \in Seq(Symbols(T)) /\ p.nodes \in Seq(Made(T))
    BY DEF ParseStates
  <2> QED BY <2>1 DEF Range
<1>2. PICK m \in Nat : m = Len(p.nodes)
  BY <1>1
<1>3. CASE Handle(p, <<"num">>) /\ Settled(p, ahead) = Becomes(p, 1, Num(At(p, 0).num))
  <2>1. 1 <= Len(p.stack) /\ At(p, 0).k = "num"
    BY <1>1, <1>3, Handle1
  <2>2. At(p, 0) \in T /\ IsToken(At(p, 0))
    BY <1>1, <2>1, AtIs
  <2>3. PICK x : x = At(p, 0).num /\ IsLeaf(x) /\ Num(x) \in Made(T)
    BY <2>1, <2>2, TokenIs DEF Made
  <2>4. IsNode(Num(x), m + 1)
    <3>1. "NUMBER" \notin BinaryOps \cup Simple
      BY BinaryDiffer DEF Simple
    <3>2. PICK e : e = Num(x)
      OBVIOUS
    <3>3. e.op = "NUMBER" /\ e.num = x
      BY <3>2 DEF Num
    <3>4. IsNode(e, m + 1)
      BY <2>3, <3>1, <3>3 DEF IsNode
    <3> QED BY <3>2, <3>4
  <2> QED BY <1>2, <1>3, <2>1, <2>3, <2>4, BecomesKeeps
<1>4. CASE Handle(p, <<"(", "exp", ")">>) /\ Settled(p, ahead) = Becomes(p, 3, Unary("LPAREN", At(p, 1).e))
  <2>1. 3 <= Len(p.stack) /\ At(p, 1).k = "exp"
    BY <1>1, <1>4, Handle3
  <2>2. PICK u : u = At(p, 1).e /\ u \in 1 .. m
    BY <1>1, <1>2, <2>1, AtIs
  <2>3. IsNode(Unary("LPAREN", u), m + 1) /\ Unary("LPAREN", u) \in Made(T)
    <3>1. IsNode(Unary("LPAREN", u), m + 1)
      <4>1. m + 1 \in Nat /\ u \in 1 .. (m + 1) - 1
        BY <2>2
      <4> QED BY <4>1, UnaryNode
    <3>2. u \in Nat
      BY <2>2
    <3>3. PICK e : e = Unary("LPAREN", u)
      OBVIOUS
    <3>4. e \in Made(T)
      BY <3>2, <3>3 DEF Made
    <3> QED BY <3>1, <3>3, <3>4
  <2> QED BY <1>2, <1>4, <2>1, <2>2, <2>3, BecomesKeeps
<1>5. CASE Handle(p, <<"un", "exp">>) /\ Settled(p, ahead) = Becomes(p, 2, Unary(At(p, 1).op, At(p, 0).e))
  <2>1. 2 <= Len(p.stack) /\ At(p, 1).k = "un" /\ At(p, 0).k = "exp"
    BY <1>1, <1>5, Handle2
  <2>2. PICK u : u = At(p, 0).e /\ u \in 1 .. m
    BY <1>1, <1>2, <2>1, AtIs
  <2>3. At(p, 1) \in T /\ IsToken(At(p, 1))
    BY <1>1, <2>1, AtIs
  <2>4. PICK op : op = At(p, 1).op /\ op \in PrefixOps /\ Unary(op, u) \in Made(T)
    BY <1>2, <2>1, <2>2, <2>3, TokenIs DEF Made
  <2>5. IsNode(Unary(op, u), m + 1)
    <3>1. m + 1 \in Nat /\ u \in 1 .. (m + 1) - 1
      BY <2>2
    <3> QED BY <2>4, <3>1, UnaryNode
  <2> QED BY <1>2, <1>5, <2>1, <2>2, <2>4, <2>5, BecomesKeeps
<1>6. CASE Handle(p, <<"cast", "exp">>) /\ Settled(p, ahead) = Becomes(p, 2, Cast(At(p, 1).to, At(p, 0).e))
  <2>1. 2 <= Len(p.stack) /\ At(p, 1).k = "cast" /\ At(p, 0).k = "exp"
    BY <1>1, <1>6, Handle2
  <2>2. PICK u : u = At(p, 0).e /\ u \in 1 .. m
    BY <1>1, <1>2, <2>1, AtIs
  <2>3. At(p, 1) \in T /\ IsToken(At(p, 1))
    BY <1>1, <2>1, AtIs
  <2>4. PICK t : t = At(p, 1).to /\ t \in Types /\ Cast(t, u) \in Made(T)
    BY <1>2, <2>1, <2>2, <2>3, TokenIs DEF Made
  <2>5. IsNode(Cast(t, u), m + 1)
    <3>1. "CAST" \notin BinaryOps /\ "CAST" \in Simple
      BY BinaryDiffer DEF Simple
    <3>4. PICK e : e = Cast(t, u)
      OBVIOUS
    <3>2. e.op = "CAST" /\ e.typ = t /\ e.u = u
      BY <3>4 DEF Cast
    <3>3. IsNode(e, m + 1)
      BY <1>2, <2>2, <2>4, <3>1, <3>2 DEF IsNode
    <3> QED BY <3>4, <3>3
  <2> QED BY <1>2, <1>6, <2>1, <2>2, <2>4, <2>5, BecomesKeeps
<1>7. CASE /\ Handle(p, <<"exp", "bin", "exp">>)
           /\ Settled(p, ahead) = Becomes(p, 3, Binary(At(p, 1).op, At(p, 2).e, At(p, 0).e))
  <2>1. 3 <= Len(p.stack) /\ At(p, 2).k = "exp" /\ At(p, 1).k = "bin" /\ At(p, 0).k = "exp"
    BY <1>1, <1>7, Handle3
  <2>2. PICK l, r : l = At(p, 2).e /\ l \in 1 .. m /\ r = At(p, 0).e /\ r \in 1 .. m
    BY <1>1, <1>2, <2>1, AtIs
  <2>3. At(p, 1) \in T /\ IsToken(At(p, 1))
    BY <1>1, <2>1, AtIs
  <2>4. PICK op : op = At(p, 1).op /\ op \in BinaryOps /\ Binary(op, l, r) \in Made(T)
    BY <1>2, <2>1, <2>2, <2>3, TokenIs DEF Made
  <2>5. IsNode(Binary(op, l, r), m + 1)
    <3>1. op \notin Simple /\ op # "NUMBER" /\ op # "IIF" /\ op # "CAST"
      BY <2>4, BinaryDiffer DEF Simple
    <3>4. PICK e : e = Binary(op, l, r)
      OBVIOUS
    <3>2. e.op = op /\ e.lhs = l /\ e.rhs = r
      BY <3>4 DEF Binary
    <3>3. IsNode(e, m + 1)
      BY <1>2, <2>2, <2>4, <3>1, <3>2 DEF IsNode
    <3> QED BY <3>4, <3>3
  <2> QED BY <1>2, <1>7, <2>1, <2>2, <2>4, <2>5, BecomesKeeps
<1>8. CASE /\ Handle(p, <<"exp", "?", "exp", ":", "exp">>)
           /\ Settled(p, ahead) = Becomes(p, 5, Iif(At(p, 4).e, At(p, 2).e, At(p, 0).e))
  <2>1. 5 <= Len(p.stack) /\ At(p, 4).k = "exp" /\ At(p, 2).k = "exp" /\ At(p, 0).k = "exp"
    BY <1>1, <1>8, Handle5
  <2>2. PICK c, t, f : /\ c = At(p, 4).e /\ c \in 1 .. m /\ t = At(p, 2).e /\ t \in 1 .. m
                       /\ f = At(p, 0).e /\ f \in 1 .. m
    BY <1>1, <1>2, <2>1, AtIs
  <2>3. Iif(c, t, f) \in Made(T)
    BY <1>2, <2>2 DEF Made
  <2>4. IsNode(Iif(c, t, f), m + 1)
    <3>1. "IIF" \notin BinaryOps \cup Simple
      BY BinaryDiffer DEF Simple
    <3>4. PICK e : e = Iif(c, t, f)
      OBVIOUS
    <3>2. e.op = "IIF" /\ e.cond = c /\ e.truthy = t /\ e.falsy = f
      BY <3>4 DEF Iif
    <3>3. IsNode(e, m + 1)
      BY <1>2, <2>2, <3>1, <3>2 DEF IsNode
    <3> QED BY <3>4, <3>3
  <2> QED BY <1>2, <1>8, <2>1, <2>2, <2>3, <2>4, BecomesKeeps
<1>9. CASE Settled(p, ahead) = p
  BY <1>9
<1> QED BY <1>3, <1>4, <1>5, <1>6, <1>7, <1>8, <1>9, SettledIs

LEMMA SettleKeeps ==
  ASSUME NEW T, NEW p \in ParseStates(T), NEW ahead
  PROVE  Settle(p, ahead) \in ParseStates(T)
<1> DEFINE n == Len(p.stack)
           S == ParseStates(T)
           Fits(s) == s = [i \in 0 .. n |-> IF i = 0 THEN p ELSE Settled(s[i - 1], ahead)]
           settled == CHOOSE s : Fits(s)
           step == [i \in 1 .. n |-> [q \in S |-> Settled(q, ahead)]]
<1>1. n \in Nat
  BY DEF ParseStates
<1>2. Settle(p, ahead) = settled[n]
  BY Zenon DEF Settle
<1> HIDE DEF n
<1>3. \A q \in S : Settled(q, ahead) \in S
  BY SettledKeeps
<1>4. step \in [1 .. n -> [S -> S]]
  <2> HIDE DEF S
  <2> QED BY <1>3
<1>5. PICK f \in [0 .. n -> S] : IsTable(f, n, p, step)
  <2> HIDE DEF step, S
  <2> QED BY <1>1, <1>4, TableExists DEF S
<1>6. f[0] = p /\ \A i \in 1 .. n : f[i] = Settled(f[i - 1], ahead)
  <2>1. ASSUME NEW i \in 1 .. n PROVE f[i] = Settled(f[i - 1], ahead)
    <3>1. f[i - 1] \in S
      BY <1>1
    <3>2. f[i] = step[i][f[i - 1]]
      BY <1>5 DEF IsTable
    <3> HIDE DEF S
    <3> QED BY <3>1, <3>2
  <2> QED BY <1>5, <2>1 DEF IsTable
<1> HIDE DEF step
<1>7. Fits(f)
  <2>1. \A i \in 0 .. n : f[i] = IF i = 0 THEN p ELSE Settled(f[i - 1], ahead)
    <3>1. \A i \in 0 .. n : i = 0 \/ i \in 1 .. n
      BY <1>1
    <3> QED BY <1>6, <3>1
  <2> HIDE DEF S
  <2> QED BY <2>1
<1>8. PICK g : g = settled /\ Fits(g)
  <2> HIDE DEF Fits
  <2> QED BY <1>7, Zenon
<1>9. g[0] = p /\ \A i \in 1 .. n : g[i] = Settled(g[i - 1], ahead)
  <2>1. g = [i \in 0 .. n |-> IF i = 0 THEN p ELSE Settled(g[i - 1], ahead)]
    BY <1>8
  <2> HIDE DEF Fits, settled
  <2>2. \A i \in 1 .. n : i \in 0 .. n /\ i # 0
    BY <1>1
  <2> QED BY <1>1, <2>1, <2>2
<1> HIDE DEF Fits, settled
<1>10. \A i \in 1 .. n : g[i - 1] \in S => g[i] \in S
  BY <1>3, <1>9
<1>11. \A i \in 0 .. n : g[i] \in S
  <2> HIDE DEF S
  <2> QED BY <1>1, <1>9, <1>10, StaysAlong DEF S
<1>12. g[n] \in S
  BY <1>1, <1>11
<1> QED BY <1>2, <1>8, <1>12

LEMMA ParseKeeps ==
  ASSUME NEW toks \in Texts
  PROVE  Parse(toks) \in ParseStates(Range(toks))
<1> DEFINE n == Len(toks)
           S == ParseStates(Range(toks))
           First == [stack |-> <<>>, nodes |-> <<>>]
           Read(p, i) == Settle(Shift(p, toks[i]), Ahead(toks, i))
           Fits(s) == s = [i \in 0 .. n |-> IF i = 0 THEN First ELSE Read(s[i - 1], i)]
           read_ == CHOOSE s : Fits(s)
           step == [i \in 1 .. n |-> [q \in S |-> Read(q, i)]]
<1>1. n \in Nat /\ \A i \in 1 .. n : toks[i] \in Range(toks) /\ IsToken(toks[i])
  <2>1. toks \in Seq(Range(toks)) /\ \A i \in DOMAIN toks : IsToken(toks[i])
    BY TextsAssumption
  <2> QED BY <2>1 DEF Range
<1>2. Parse(toks) = read_[n]
  BY Zenon DEF Parse
<1>3. First \in S
  <2>1. PICK p : p = First
    OBVIOUS
  <2>2. p.stack = <<>> /\ p.nodes = <<>> /\ p \in [stack : Seq(Symbols(Range(toks))), nodes : Seq(Made(Range(toks)))]
    BY <2>1
  <2>3. p \in ParseStates(Range(toks))
    BY <2>2 DEF ParseStates, IsTree
  <2> QED BY <2>1, <2>3
<1>4. ASSUME NEW p \in S, NEW i \in 1 .. n
      PROVE  Read(p, i) \in S
  <2>1. PICK tok : tok = toks[i] /\ tok \in Range(toks) /\ IsToken(tok)
    BY <1>1
  <2>2. PICK T : T = Range(toks)
    OBVIOUS
  <2>3. PICK s, m : s = p.stack /\ m = Len(p.nodes)
    OBVIOUS
  <2>4. /\ p \in [stack : Seq(Symbols(T)), nodes : Seq(Made(T))] /\ s \in Seq(Symbols(T))
        /\ IsTree(p.nodes) /\ \A j \in 1 .. Len(s) : IsSymbol(s[j], m)
    BY <2>2, <2>3 DEF ParseStates
  <2>5. tok \in Symbols(T) /\ IsSymbol(tok, m)
    BY <2>1, <2>2, TokenIs DEF Symbols, IsSymbol
  <2>6. PICK t : t = Append(s, tok)
    OBVIOUS
  <2>7. t \in Seq(Symbols(T)) /\ Len(t) = Len(s) + 1 /\ \A j \in 1 .. Len(t) : IsSymbol(t[j], m)
    BY <2>4, <2>5, <2>6
  <2>8. PICK q : q = Shift(p, tok)
    OBVIOUS
  <2>9. q \in [stack : Seq(Symbols(T)), nodes : Seq(Made(T))] /\ q.stack = t /\ q.nodes = p.nodes
    BY <2>3, <2>4, <2>6, <2>7, <2>8 DEF Shift
  <2>10. q \in ParseStates(T)
    BY <2>3, <2>4, <2>7, <2>9 DEF ParseStates
  <2>11. Settle(q, Ahead(toks, i)) \in ParseStates(T)
    BY <2>10, SettleKeeps
  <2> QED BY <2>1, <2>2, <2>8, <2>11
<1>5. step \in [1 .. n -> [S -> S]]
  <2> HIDE DEF S, Read, n
  <2> QED BY <1>4
<1> HIDE DEF n
<1>6. PICK f \in [0 .. n -> S] : IsTable(f, n, First, step)
  <2> HIDE DEF step, S, First
  <2> QED BY <1>1, <1>3, <1>5, TableExists
<1> HIDE DEF First, Read
<1>7. f[0] = First /\ \A i \in 1 .. n : f[i] = Read(f[i - 1], i)
  <2>1. ASSUME NEW i \in 1 .. n PROVE f[i] = Read(f[i - 1], i)
    <3>1. f[i - 1] \in S
      BY <1>1
    <3>2. f[i] = step[i][f[i - 1]]
      BY <1>6 DEF IsTable
    <3> HIDE DEF S
    <3> QED BY <3>1, <3>2
  <2> QED BY <1>6, <2>1 DEF IsTable
<1> HIDE DEF step
<1>8. Fits(f)
  <2>1. \A i \in 0 .. n : f[i] = IF i = 0 THEN First ELSE Read(f[i - 1], i)
    <3>1. \A i \in 0 .. n : i = 0 \/ i \in 1 .. n
      BY <1>1
    <3> QED BY <1>7, <3>1
  <2> HIDE DEF S
  <2> QED BY <2>1
<1>9. PICK g : g = read_ /\ Fits(g)
  <2> HIDE DEF Fits
  <2> QED BY <1>8, Zenon
<1>10. g[0] = First /\ \A i \in 1 .. n : g[i] = Read(g[i - 1], i)
  <2>1. g = [i \in 0 .. n |-> IF i = 0 THEN First ELSE Read(g[i - 1], i)]
    BY <1>9
  <2> HIDE DEF Fits, read_
  <2>2. \A i \in 1 .. n : i \in 0 .. n /\ i # 0
    BY <1>1
  <2> QED BY <1>1, <2>1, <2>2
<1> HIDE DEF Fits, read_
<1>11. \A i \in 1 .. n : g[i - 1] \in S => g[i] \in S
  BY <1>4, <1>10
<1>12. \A i \in 0 .. n : g[i] \in S
  <2> HIDE DEF S
  <2> QED BY <1>1, <1>3, <1>10, <1>11, StaysAlong
<1>13. g[n] \in S
  BY <1>1, <1>12
<1> QED BY <1>2, <1>9, <1>13

(* A text that the grammar accepts is a tree with its root.                *)
LEMMA AcceptedIs ==
  ASSUME NEW toks \in Texts, NEW p, p = Parse(toks), Accepted(p)
  PROVE  /\ Len(p.nodes) \in Nat /\ DOMAIN p.nodes = 1 .. Len(p.nodes)
         /\ IsTree(p.nodes) /\ Root(p) \in 1 .. Len(p.nodes)
<1>1. PICK T : T = Range(toks)
  OBVIOUS
<1>2. p \in ParseStates(T)
  BY <1>1, ParseKeeps
<1>3. /\ p.nodes \in Seq(Made(T)) /\ IsTree(p.nodes)
      /\ \A i \in DOMAIN p.stack : IsSymbol(p.stack[i], Len(p.nodes))
      /\ p.stack \in Seq(Symbols(T))
  BY <1>2 DEF ParseStates
<1>4. IsSymbol(p.stack[1], Len(p.nodes)) /\ p.stack[1].k = "exp"
  BY <1>3 DEF Accepted
<1>5. DOMAIN p.nodes = 1 .. Len(p.nodes) /\ Len(p.nodes) \in Nat
  BY <1>3
<1> QED BY <1>3, <1>4, <1>5 DEF IsSymbol, Root

(* In a valid tree, every operator has its operands and every number has   *)
(* one of the values of the program.                                       *)
IsValid(nodes) ==
  \A i \in DOMAIN nodes :
    /\ nodes[i].op = "NUMBER" => psi_number_validate(data, nodes[i].num).type # "INVALID"
    /\ nodes[i].op \in BinaryOps => nodes[i].rhs # Null

LEMMA NodeValidityIs ==
  ASSUME NEW e
  PROVE  /\ e.op = "NUMBER" => NodeValidity(e) =
                IF psi_number_validate(data, e.num).type = "INVALID" THEN "invalid" ELSE "ok"
         /\ e.op \in BinaryOps => NodeValidity(e) = IF e.rhs = Null THEN "null pointer" ELSE "ok"
         /\ NodeValidity(e) \in {"ok", "invalid", "null pointer"}
<1>1. "NUMBER" \notin BinaryOps
  BY BinaryDiffer
<1> QED BY <1>1, Zenon DEF NodeValidity

LEMMA ValidityIs ==
  ASSUME NEW p, DOMAIN p.nodes \in SUBSET Nat
  PROVE  /\ Validity(p) \in {"ok", "invalid", "null pointer"}
         /\ Validity(p) = "ok" => IsValid(p.nodes)
<1> DEFINE bad == {i \in DOMAIN p.nodes : NodeValidity(p.nodes[i]) # "ok"}
<1>1. Validity(p) = IF bad = {} THEN "ok" ELSE NodeValidity(p.nodes[Min(bad)])
  BY DEF Validity
<1>2. CASE bad = {}
  <2>1. \A i \in DOMAIN p.nodes : NodeValidity(p.nodes[i]) = "ok"
    BY <1>2
  <2>2. IsValid(p.nodes)
    BY <2>1, NodeValidityIs DEF IsValid
  <2> QED BY <1>1, <1>2, <2>2
<1>3. CASE bad # {}
  <2>1. bad \in SUBSET Nat
    OBVIOUS
  <2>2. PICK m \in bad : \A y \in bad : m <= y
    <3> HIDE DEF bad
    <3> QED BY <1>3, <2>1, LeastElement
  <2>3. Min(bad) \in bad
    <3>1. Min(bad) = CHOOSE x \in bad : \A y \in bad : x <= y
      BY DEF Min
    <3> HIDE DEF bad
    <3> QED BY <2>2, <3>1, Zenon
  <2>4. NodeValidity(p.nodes[Min(bad)]) # "ok"
    <3>1. \A i \in bad : NodeValidity(p.nodes[i]) # "ok"
      OBVIOUS
    <3> HIDE DEF bad
    <3> QED BY <2>3, <3>1
  <2> HIDE DEF bad
  <2> QED BY <1>1, <1>3, <2>4, NodeValidityIs
<1> QED BY <1>2, <1>3

Numbers == {x \in [t : Types, n : Int, d : Nat] : IsNumber(x)}

(* The elements of the two lists: operators and parentheses in the walk,   *)
(* values and operators in a program.                                      *)
Paren == Element("LPAREN", 0)
Ops == {Element(op, 0) : op \in BinaryOps} \cup {Element(op, 0) : op \in {"NOT", "TILDE"}}
         \cup {Element("CAST", t) : t \in Types}
Values == {Element("VALUE", x) : x \in Numbers}
Elements == Ops \cup Values
Entries == Ops \cup {Paren}

LEMMA ElementsAre ==
  /\ \A e \in Ops : /\ e.type \in BinaryOps \cup UnaryOps
                    /\ e.type = "CAST" => e.x \in Types
                    /\ e.type # "CAST" => e.x = 0
                    /\ e.type # "VALUE" /\ e.type # "LPAREN"
  /\ \A e \in Values : e.type = "VALUE" /\ e.x \in Numbers /\ IsNumber(e.x)
  /\ Paren.type = "LPAREN" /\ Paren.x = 0
  /\ \A x : IsNumber(x) => Element("VALUE", x) \in Values
  /\ \A t \in Types : Element("CAST", t) \in Ops
  /\ \A op \in BinaryOps \cup {"NOT", "TILDE"} : Element(op, 0) \in Ops
  /\ Element("LPAREN", 0) = Paren
<1>1. /\ "CAST" \notin BinaryOps /\ "LPAREN" \notin BinaryOps /\ "VALUE" \notin BinaryOps
  BY BinaryOpsAre
<1>2. ASSUME NEW e \in Ops
      PROVE  /\ e.type \in BinaryOps \cup UnaryOps
             /\ e.type = "CAST" => e.x \in Types
             /\ e.type # "CAST" => e.x = 0
             /\ e.type # "VALUE" /\ e.type # "LPAREN"
  BY <1>1 DEF Ops, Element, UnaryOps
<1>3. ASSUME NEW e \in Values PROVE e.type = "VALUE" /\ e.x \in Numbers /\ IsNumber(e.x)
  BY DEF Values, Element, Numbers
<1>4. Paren.type = "LPAREN" /\ Paren.x = 0 /\ Element("LPAREN", 0) = Paren
  BY DEF Paren, Element
<1>5. ASSUME NEW x, IsNumber(x) PROVE Element("VALUE", x) \in Values
  <2>1. x \in Numbers
    BY <1>5 DEF IsNumber, Numbers
  <2> QED BY <2>1 DEF Values
<1>6. \A t \in Types : Element("CAST", t) \in Ops
  BY DEF Ops
<1>7. \A op \in BinaryOps \cup {"NOT", "TILDE"} : Element(op, 0) \in Ops
  BY DEF Ops
<1> QED BY <1>2, <1>3, <1>4, <1>5, <1>6, <1>7

Arity(e) == IF e.type \in BinaryOps THEN 2 ELSE IF e.type = "VALUE" THEN 0 ELSE 1

LEMMA ArityIs == \A e \in Elements : Arity(e) \in {0, 1, 2}
BY DEF Arity

(* The program s, started with h values, finds its operands at each step   *)
(* and ends with n of them.                                                *)
IsRun(f, s, h, n) ==
  /\ f \in [0 .. Len(s) -> Nat] /\ f[0] = h /\ f[Len(s)] = n
  /\ \A k \in 1 .. Len(s) : f[k - 1] >= Arity(s[k]) /\ f[k] = f[k - 1] + 1 - Arity(s[k])
Runs(s, h, n) == \E f : IsRun(f, s, h, n)

LEMMA RunsJoin ==
  ASSUME NEW s \in Seq(Elements), NEW t \in Seq(Elements), NEW h, NEW m, NEW n,
         Runs(s, h, m), Runs(t, m, n)
  PROVE  Runs(s \o t, h, n)
<1>1. PICK u, a, b : u = s \o t /\ a = Len(s) /\ b = Len(t)
  OBVIOUS
<1>2. /\ a \in Nat /\ b \in Nat /\ Len(u) = a + b
      /\ \A k \in 1 .. a : u[k] = s[k]
      /\ \A k \in 1 .. b : u[a + k] = t[k]
  BY <1>1
<1>3. PICK f : IsRun(f, s, h, m)
  BY DEF Runs
<1>4. PICK g : IsRun(g, t, m, n)
  BY DEF Runs
<1>5. /\ f \in [0 .. a -> Nat] /\ f[0] = h /\ f[a] = m
      /\ \A k \in 1 .. a : f[k - 1] >= Arity(s[k]) /\ f[k] = f[k - 1] + 1 - Arity(s[k])
  BY <1>1, <1>3 DEF IsRun
<1>6. /\ g \in [0 .. b -> Nat] /\ g[0] = m /\ g[b] = n
      /\ \A k \in 1 .. b : g[k - 1] >= Arity(t[k]) /\ g[k] = g[k - 1] + 1 - Arity(t[k])
  BY <1>1, <1>4 DEF IsRun
<1>7. PICK j : j = [k \in 0 .. a + b |-> IF k <= a THEN f[k] ELSE g[k - a]]
  OBVIOUS
<1>12. /\ \A k \in 0 .. a : j[k] = f[k]
       /\ \A k \in 0 .. b : j[a + k] = g[k]
  <2>1. \A k \in 0 .. a : k \in 0 .. a + b /\ k <= a
    BY <1>2
  <2>2. \A k \in 1 .. b : a + k \in 0 .. a + b /\ ~(a + k <= a) /\ (a + k) - a = k
    BY <1>2
  <2>3. \A k \in 0 .. a : j[k] = f[k]
    BY <1>7, <2>1
  <2>4. \A k \in 1 .. b : j[a + k] = g[k]
    BY <1>7, <2>2
  <2>5. j[a + 0] = g[0]
    <3>1. a + 0 = a /\ a \in 0 .. a
      BY <1>2
    <3> QED BY <1>5, <1>6, <2>3, <3>1
  <2>6. \A k \in 0 .. b : k = 0 \/ k \in 1 .. b
    BY <1>2
  <2> QED BY <2>3, <2>4, <2>5, <2>6
<1>8. j \in [0 .. a + b -> Nat] /\ j[0] = h
  BY <1>2, <1>5, <1>6, <1>7
<1>9. j[a + b] = n
  BY <1>2, <1>6, <1>12
<1>10. ASSUME NEW k \in 1 .. a + b
       PROVE  j[k - 1] >= Arity(u[k]) /\ j[k] = j[k - 1] + 1 - Arity(u[k])
  <2>1. CASE k <= a
    BY <1>2, <1>5, <1>7, <2>1
  <2>2. CASE k > a
    <3>1. PICK i \in 1 .. b : i = k - a
      BY <1>2, <2>2
    <3>2. j[k] = g[i] /\ u[k] = t[i]
      BY <1>2, <1>7, <2>2, <3>1
    <3>3. j[k - 1] = g[i - 1]
      <4>1. i - 1 \in 0 .. b /\ a + (i - 1) = k - 1
        BY <1>2, <3>1
      <4> QED BY <1>12, <4>1
    <3> QED BY <1>6, <3>2, <3>3
  <2> QED BY <1>2, <2>1, <2>2
<1>11. IsRun(j, u, h, n)
  BY <1>2, <1>8, <1>9, <1>10 DEF IsRun
<1> QED BY <1>1, <1>11 DEF Runs

(* One value more.                                                         *)
LEMMA RunsValue ==
  ASSUME NEW s \in Seq(Elements), NEW h, NEW n \in Nat, Runs(s, h, n), NEW v \in Values
  PROVE  Runs(Append(s, v), h, n + 1) /\ Append(s, v) \in Seq(Elements)
<1>1. PICK f : IsRun(f, s, h, n)
  BY DEF Runs
<1>2. PICK a, u : a = Len(s) /\ u = Append(s, v)
  OBVIOUS
<1>3. v \in Elements /\ Arity(v) = 0
  BY ElementsAre, BinaryOpsAre DEF Elements, Arity
<1>4. /\ a \in Nat /\ u \in Seq(Elements) /\ Len(u) = a + 1 /\ u[a + 1] = v
      /\ \A k \in 1 .. a : u[k] = s[k]
  BY <1>2, <1>3
<1>5. /\ f \in [0 .. a -> Nat] /\ f[0] = h /\ f[a] = n
      /\ \A k \in 1 .. a : f[k - 1] >= Arity(s[k]) /\ f[k] = f[k - 1] + 1 - Arity(s[k])
  BY <1>1, <1>2 DEF IsRun
<1>6. PICK j : j = [k \in 0 .. a + 1 |-> IF k <= a THEN f[k] ELSE n + 1]
  OBVIOUS
<1>7. j \in [0 .. a + 1 -> Nat] /\ j[0] = h /\ j[a + 1] = n + 1 /\ j[a] = n
  BY <1>4, <1>5, <1>6
<1>8. ASSUME NEW k \in 1 .. a + 1
      PROVE  j[k - 1] >= Arity(u[k]) /\ j[k] = j[k - 1] + 1 - Arity(u[k])
  <2>1. CASE k <= a
    BY <1>4, <1>5, <1>6, <2>1
  <2>2. CASE k = a + 1
    BY <1>3, <1>4, <1>7, <2>2
  <2> QED BY <1>4, <2>1, <2>2
<1>9. IsRun(j, u, h, n + 1)
  BY <1>4, <1>7, <1>8 DEF IsRun
<1> QED BY <1>2, <1>4, <1>9 DEF Runs

(* A step of the program.                                                  *)
LEMMA RunsStep ==
  ASSUME NEW s \in Seq(Elements), s # <<>>, NEW h, NEW n, Runs(s, h, n)
  PROVE  /\ Tail(s) \in Seq(Elements) /\ Head(s) \in Elements /\ h \in Nat
         /\ h >= Arity(Head(s)) /\ Runs(Tail(s), h + 1 - Arity(Head(s)), n)
<1>1. PICK f : IsRun(f, s, h, n)
  BY DEF Runs
<1>2. PICK a, u, e : a = Len(s) /\ u = Tail(s) /\ e = Head(s)
  OBVIOUS
<1>3. /\ a \in Nat \ {0} /\ u \in Seq(Elements) /\ Len(u) = a - 1 /\ e = s[1] /\ e \in Elements
      /\ \A k \in 1 .. a - 1 : u[k] = s[k + 1]
  BY <1>2
<1>4. /\ f \in [0 .. a -> Nat] /\ f[0] = h /\ f[a] = n
      /\ \A k \in 1 .. a : f[k - 1] >= Arity(s[k]) /\ f[k] = f[k - 1] + 1 - Arity(s[k])
  BY <1>1, <1>2 DEF IsRun
<1>5. h \in Nat /\ h >= Arity(e) /\ f[1] = h + 1 - Arity(e)
  BY <1>3, <1>4
<1>6. PICK j : j = [k \in 0 .. a - 1 |-> f[k + 1]]
  OBVIOUS
<1>7. j \in [0 .. a - 1 -> Nat] /\ j[0] = h + 1 - Arity(e) /\ j[a - 1] = n
  BY <1>3, <1>4, <1>5, <1>6
<1>8. \A k \in 1 .. a - 1 : j[k - 1] >= Arity(u[k]) /\ j[k] = j[k - 1] + 1 - Arity(u[k])
  BY <1>3, <1>4, <1>6
<1>9. IsRun(j, u, h + 1 - Arity(e), n)
  BY <1>3, <1>7, <1>8 DEF IsRun
<1> QED BY <1>2, <1>3, <1>5, <1>9 DEF Runs

LEMMA RunsNothing ==
  ASSUME NEW h \in Nat
  PROVE  /\ Runs(<<>>, h, h) /\ \A n : Runs(<<>>, h, n) => n = h
<1>1. IsRun([k \in 0 .. 0 |-> h], <<>>, h, h)
  BY DEF IsRun
<1>2. \A n, f : IsRun(f, <<>>, h, n) => n = h
  BY DEF IsRun
<1> QED BY <1>1, <1>2 DEF Runs

(* The number h of operators of two operands that wait in the stack s.     *)
Waits(e) == IF e.type \in BinaryOps THEN 1 ELSE 0
IsHeight(g, s, h) ==
  /\ g \in [0 .. Len(s) -> Nat] /\ g[0] = 0 /\ g[Len(s)] = h
  /\ \A k \in 1 .. Len(s) : g[k] = g[k - 1] + Waits(s[k])
Waiting(s, h) == \E g : IsHeight(g, s, h)

LEMMA WaitingNothing == Waiting(<<>>, 0)
<1>1. IsHeight([k \in 0 .. 0 |-> 0], <<>>, 0)
  BY DEF IsHeight
<1> QED BY <1>1 DEF Waiting

LEMMA WaitingPush ==
  ASSUME NEW s \in Seq(Entries), NEW h, Waiting(s, h), NEW e \in Entries
  PROVE  Append(s, e) \in Seq(Entries) /\ h \in Nat /\ Waiting(Append(s, e), h + Waits(e))
<1>1. PICK g : IsHeight(g, s, h)
  BY DEF Waiting
<1>2. PICK a, u, w : a = Len(s) /\ u = Append(s, e) /\ w = Waits(e)
  OBVIOUS
<1>3. /\ a \in Nat /\ u \in Seq(Entries) /\ Len(u) = a + 1 /\ u[a + 1] = e /\ w \in Nat
      /\ \A k \in 1 .. a : u[k] = s[k]
  BY <1>2 DEF Waits
<1>4. /\ g \in [0 .. a -> Nat] /\ g[0] = 0 /\ g[a] = h
      /\ \A k \in 1 .. a : g[k] = g[k - 1] + Waits(s[k])
  BY <1>1, <1>2 DEF IsHeight
<1>5. PICK j : j = [k \in 0 .. a + 1 |-> IF k <= a THEN g[k] ELSE h + w]
  OBVIOUS
<1>6. h \in Nat /\ j \in [0 .. a + 1 -> Nat] /\ j[0] = 0 /\ j[a + 1] = h + w /\ j[a] = h
  BY <1>3, <1>4, <1>5
<1>7. ASSUME NEW k \in 1 .. a + 1
      PROVE  j[k] = j[k - 1] + Waits(u[k])
  <2>1. CASE k <= a
    BY <1>3, <1>4, <1>5, <2>1
  <2>2. CASE k = a + 1
    BY <1>2, <1>3, <1>6, <2>2
  <2> QED BY <1>3, <2>1, <2>2
<1>8. IsHeight(j, u, h + w)
  BY <1>3, <1>6, <1>7 DEF IsHeight
<1> QED BY <1>2, <1>3, <1>6, <1>8 DEF Waiting

LEMMA PrefixIs ==
  ASSUME NEW S, NEW s \in Seq(S), NEW k \in 0 .. Len(s)
  PROVE  /\ SubSeq(s, 1, k) \in Seq(S) /\ Len(SubSeq(s, 1, k)) = k
         /\ \A i \in 1 .. k : SubSeq(s, 1, k)[i] = s[i]
<1>1. k \in Nat /\ k <= Len(s) /\ Len(s) \in Nat
  OBVIOUS
<1>2. \A i \in 1 .. k : s[i] \in S
  BY <1>1
<1> QED BY <1>1, <1>2, SubSeqProperties

(* What is popped, the last element first.                                 *)
LEMMA PoppedIs ==
  ASSUME NEW S, NEW s \in Seq(S), NEW k \in 0 .. Len(s),
         NEW R, \A i \in k + 1 .. Len(s) : s[i] \in R
  PROVE  /\ Popped(s, k + 1) \in Seq(R)
         /\ Len(Popped(s, k + 1)) = Len(s) - k
         /\ \A i \in 1 .. Len(s) - k : Popped(s, k + 1)[i] = s[Len(s) - i + 1]
<1>1. PICK n \in Nat : n = Len(s) /\ k \in Nat /\ k <= n
  OBVIOUS
<1>2. PICK u : u = SubSeq(s, k + 1, n)
  OBVIOUS
<1>3. Len(u) = n - k /\ \A i \in 1 .. n - k : u[i] = s[k + i]
  <2>1. \A i \in k + 1 .. n : s[i] \in S
    BY <1>1
  <2>2. k + 1 \in Int /\ n \in Int
    BY <1>1
  <2>3. /\ Len(u) = IF k + 1 <= n THEN n - (k + 1) + 1 ELSE 0
        /\ \A i \in 1 .. n - (k + 1) + 1 : u[i] = s[(k + 1) + i - 1]
    BY <1>2, <2>1, <2>2, SubSeqProperties
  <2>4. Len(u) = n - k
    BY <1>1, <2>3
  <2>5. \A i \in 1 .. n - k : i \in 1 .. n - (k + 1) + 1 /\ (k + 1) + i - 1 = k + i
    BY <1>1
  <2> QED BY <2>3, <2>4, <2>5
<1>4. PICK p : p = Popped(s, k + 1)
  OBVIOUS
<1>5. p = [i \in 1 .. Len(u) |-> u[(Len(u) - i) + 1]]
  BY <1>1, <1>2, <1>4 DEF Popped, Reverse
<1>6. ASSUME NEW i \in 1 .. n - k
      PROVE  p[i] = s[n - i + 1] /\ n - i + 1 \in k + 1 .. n
  <2>1. PICK j : j = (n - k - i) + 1
    OBVIOUS
  <2>2. i \in Nat /\ 1 <= i /\ i <= n - k
    BY <1>1
  <2>3. j \in 1 .. n - k /\ k + j = n - i + 1 /\ n - i + 1 \in k + 1 .. n
    BY <1>1, <2>1, <2>2
  <2>4. p[i] = u[j]
    BY <1>1, <1>3, <1>5, <2>1, <2>2
  <2>5. u[j] = s[k + j]
    BY <1>3, <2>3
  <2> QED BY <2>3, <2>4, <2>5
<1>7. p = [i \in 1 .. n - k |-> s[n - i + 1]]
  BY <1>3, <1>5, <1>6
<1>8. p \in Seq(R) /\ Len(p) = n - k
  <2>1. n - k \in Nat /\ \A i \in 1 .. n - k : s[n - i + 1] \in R
    BY <1>1, <1>6
  <2> QED BY <1>7, <2>1
<1> QED BY <1>1, <1>4, <1>6, <1>8

(* Operators that are popped find their operands.                          *)
LEMMA WaitingPop ==
  ASSUME NEW s \in Seq(Entries), NEW h, Waiting(s, h), NEW k \in 0 .. Len(s),
         \A i \in k + 1 .. Len(s) : s[i].type # "LPAREN"
  PROVE  /\ SubSeq(s, 1, k) \in Seq(Entries) /\ Popped(s, k + 1) \in Seq(Elements)
         /\ \E h2 \in Nat : /\ Waiting(SubSeq(s, 1, k), h2)
                            /\ Runs(Popped(s, k + 1), h + 1, h2 + 1)
<1>1. PICK g : IsHeight(g, s, h)
  BY DEF Waiting
<1>2. PICK n, p, u : n = Len(s) /\ p = Popped(s, k + 1) /\ u = SubSeq(s, 1, k)
  OBVIOUS
<1>3. /\ n \in Nat /\ k \in 0 .. n /\ k \in Nat
      /\ g \in [0 .. n -> Nat] /\ g[0] = 0 /\ g[n] = h
      /\ \A i \in 1 .. n : g[i] = g[i - 1] + Waits(s[i])
  BY <1>1, <1>2 DEF IsHeight
<1>4. u \in Seq(Entries) /\ Len(u) = k /\ \A i \in 1 .. k : u[i] = s[i]
  BY <1>2, PrefixIs
<1>6. \A i \in k + 1 .. n : s[i] \in Ops
  <2>1. \A i \in k + 1 .. n : s[i] \in Entries
    BY <1>2, <1>3
  <2> QED BY <1>2, <2>1, ElementsAre DEF Entries
<1>5. /\ p \in Seq(Elements) /\ Len(p) = n - k
      /\ \A i \in 1 .. n - k : p[i] = s[n - i + 1]
  <2>1. \A i \in k + 1 .. Len(s) : s[i] \in Elements
    BY <1>2, <1>6 DEF Elements
  <2> QED BY <1>2, <2>1, PoppedIs
<1>8. Waiting(u, g[k])
  <2>1. PICK j : j = [i \in 0 .. k |-> g[i]]
    OBVIOUS
  <2>3. \A i \in 0 .. k : i \in 0 .. n /\ j[i] = g[i]
    BY <1>3, <2>1
  <2>4. 0 \in 0 .. k /\ k \in 0 .. k
    BY <1>3
  <2>5. j \in [0 .. k -> Nat] /\ j[0] = 0 /\ j[k] = g[k]
    BY <1>3, <2>1, <2>3, <2>4
  <2>6. ASSUME NEW i \in 1 .. k
        PROVE  j[i] = j[i - 1] + Waits(u[i])
    <3>1. i \in 0 .. k /\ i - 1 \in 0 .. k /\ i \in 1 .. n
      BY <1>3
    <3> QED BY <1>3, <1>4, <2>3, <3>1
  <2>2. /\ j \in [0 .. k -> Nat] /\ j[0] = 0 /\ j[k] = g[k]
        /\ \A i \in 1 .. k : j[i] = j[i - 1] + Waits(u[i])
    BY <2>5, <2>6
  <2>7. IsHeight(j, u, g[k])
    BY <1>4, <2>2 DEF IsHeight
  <2> QED BY <2>7 DEF Waiting
<1>9. PICK f : f = [i \in 0 .. n - k |-> g[n - i] + 1]
  OBVIOUS
<1>10. f \in [0 .. n - k -> Nat] /\ f[0] = h + 1 /\ f[n - k] = g[k] + 1
  <2>1. \A i \in 0 .. n - k : n - i \in 0 .. n
    BY <1>3
  <2>2. n - (n - k) = k /\ n - 0 = n /\ 0 \in 0 .. n - k /\ n - k \in 0 .. n - k
    BY <1>3
  <2> QED BY <1>3, <1>9, <2>1, <2>2
<1>11. ASSUME NEW i \in 1 .. n - k
       PROVE  f[i - 1] >= Arity(p[i]) /\ f[i] = f[i - 1] + 1 - Arity(p[i])
  <2>1. PICK m \in k + 1 .. n : m = n - i + 1
    BY <1>3
  <2>2. p[i] = s[m] /\ s[m] \in Ops
    BY <1>5, <1>6, <2>1
  <2>3. f[i] = g[m - 1] + 1 /\ f[i - 1] = g[m] + 1 /\ g[m] = g[m - 1] + Waits(s[m])
    <3>1. n - i = m - 1 /\ n - (i - 1) = m /\ i \in 0 .. n - k /\ i - 1 \in 0 .. n - k /\ m \in 1 .. n
      BY <1>3, <2>1
    <3> QED BY <1>3, <1>9, <3>1
  <2>4. g[m - 1] \in Nat /\ g[m] \in Nat
    BY <1>3
  <2>5. Arity(s[m]) = Waits(s[m]) + 1 /\ Waits(s[m]) \in {0, 1}
    BY <2>2, ElementsAre DEF Arity, Waits
  <2> QED BY <2>2, <2>3, <2>4, <2>5
<1>12. IsRun(f, p, h + 1, g[k] + 1)
  BY <1>5, <1>10, <1>11 DEF IsRun
<1>13. g[k] \in Nat
  BY <1>3
<1> QED BY <1>2, <1>4, <1>5, <1>8, <1>12, <1>13 DEF Runs

(* The greatest element of a set of indices.                               *)
LEMMA GreatestElement ==
  ASSUME NEW n \in Nat, NEW S \in SUBSET (0 .. n), S # {}
  PROVE  Max(S) \in S /\ \A y \in S : y <= Max(S)
<1> DEFINE R == {n - x : x \in S}
<1>1. R \in SUBSET Nat /\ R # {}
  OBVIOUS
<1>2. PICK r \in R : \A y \in R : r <= y
  <2> HIDE DEF R
  <2> QED BY <1>1, LeastElement
<1>3. PICK x \in S : r = n - x
  OBVIOUS
<1>4. ASSUME NEW y \in S PROVE y <= x
  <2>1. n - y \in R
    OBVIOUS
  <2>2. n - x <= n - y
    BY <1>2, <1>3, <2>1
  <2>3. x \in Nat /\ y \in Nat
    OBVIOUS
  <2> QED BY <2>2, <2>3
<1> HIDE DEF R
<1>5. \E m \in S : \A y \in S : m >= y
  <2>1. \A y \in S : x >= y
    BY <1>3, <1>4
  <2> QED BY <2>1
<1>6. Max(S) = CHOOSE m \in S : \A y \in S : m >= y
  BY Zenon DEF Max
<1>7. Max(S) \in S /\ \A y \in S : Max(S) >= y
  BY <1>5, <1>6, Zenon
<1> QED BY <1>7

LEMMA CountAppend ==
  ASSUME NEW S, NEW s \in Seq(S), NEW e \in S, NEW b
  PROVE  Count(Append(s, e), b) = Count(s, b) + One(e, b)
<1>1. PICK u, n : u = Append(s, e) /\ n = Len(s)
  OBVIOUS
<1>2. /\ n \in Nat /\ DOMAIN s = 1 .. n /\ DOMAIN u = 1 .. n + 1 /\ u[n + 1] = e
      /\ \A k \in 1 .. n : u[k] = s[k]
  BY <1>1
<1>3. DOMAIN u = DOMAIN s \cup {n + 1} /\ n + 1 \notin DOMAIN s
  BY <1>2
<1>4. IsFiniteSet(DOMAIN s)
  BY <1>2, FS_Interval
<1>5. Count(u, b) = Count(s, b) + One(u[n + 1], b)
  BY <1>2, <1>3, <1>4, CountExtend
<1> QED BY <1>1, <1>2, <1>5

LEMMA CountTail ==
  ASSUME NEW S, NEW s \in Seq(S), s # <<>>, NEW b
  PROVE  /\ Tail(s) \in Seq(S) /\ Head(s) \in S /\ Count(Tail(s), b) \in Nat
         /\ Count(s, b) = One(Head(s), b) + Count(Tail(s), b)
<1>1. PICK t, h, n : t = Tail(s) /\ h = Head(s) /\ n = Len(s)
  OBVIOUS
<1>2. /\ n \in Nat \ {0} /\ t \in Seq(S) /\ h = s[1] /\ h \in S /\ Len(t) = n - 1
      /\ \A k \in 1 .. n - 1 : t[k] = s[k + 1]
  BY <1>1
<1>3. PICK o, e, u : o = <<h>> /\ e = <<>> /\ u = o \o t
  OBVIOUS
<1>4. /\ o \in Seq(S) /\ Len(o) = 1 /\ o[1] = h /\ e \in Seq(S) /\ o = Append(e, h)
      /\ u \in Seq(S) /\ Len(u) = n /\ u[1] = h /\ \A k \in 1 .. n - 1 : u[k + 1] = t[k]
  BY <1>2, <1>3
<1>5. u = s
  <2>1. ASSUME NEW k \in 1 .. n PROVE u[k] = s[k]
    <3>1. CASE k = 1
      BY <1>2, <1>4, <3>1
    <3>2. CASE k # 1
      <4>1. PICK i \in 1 .. n - 1 : k = i + 1
        <5>1. k - 1 \in 1 .. n - 1 /\ k = (k - 1) + 1
          BY <1>2, <3>2
        <5> QED BY <5>1
      <4> QED BY <1>2, <1>4, <4>1
    <3> QED BY <3>1, <3>2
  <2>2. s = [k \in 1 .. n |-> s[k]] /\ u = [k \in 1 .. n |-> u[k]]
    BY <1>1, <1>4, SequenceIsFunction
  <2> QED BY <2>1, <2>2
<1>6. Count(e, b) = 0
  <2>1. DOMAIN e = {} /\ IsFiniteSet({})
    BY <1>3, FS_EmptySet
  <2> QED BY <2>1, CountNat
<1>7. Count(o, b) = One(h, b) /\ One(h, b) \in {0, 1}
  BY <1>2, <1>4, <1>6, CountAppend DEF One
<1>8. Count(u, b) = Count(o, b) + Count(t, b)
  <2>1. o \in Seq(S) /\ t \in Seq(S)
    BY <1>2, <1>4
  <2>2. Count(o \o t, b) = Count(o, b) + Count(t, b)
    BY <2>1, CountConcat
  <2> QED BY <1>3, <2>2, Zenon
<1>9. Count(t, b) \in Nat
  <2>1. IsFiniteSet(DOMAIN t)
    BY <1>2, FS_Interval
  <2> QED BY <2>1, CountNat
<1> QED BY <1>1, <1>2, <1>5, <1>7, <1>8, <1>9

LEMMA CountPrefix ==
  ASSUME NEW S, NEW s \in Seq(S), NEW k \in 0 .. Len(s), NEW b
  PROVE  /\ Count(SubSeq(s, 1, k), b) \in Nat /\ Count(s, b) \in Nat
         /\ Count(SubSeq(s, 1, k), b) <= Count(s, b)
         /\ \A i \in k + 1 .. Len(s) : s[i] = b => Count(SubSeq(s, 1, k), b) + 1 <= Count(s, b)
<1>1. PICK u, n : u = SubSeq(s, 1, k) /\ n = Len(s)
  OBVIOUS
<1>2. /\ n \in Nat /\ k \in Nat /\ k <= n /\ DOMAIN s = 1 .. n /\ DOMAIN u = 1 .. k
      /\ \A i \in 1 .. k : u[i] = s[i]
  BY <1>1, PrefixIs
<1>3. IsFiniteSet(DOMAIN s) /\ IsFiniteSet(DOMAIN u)
  BY <1>2, FS_Interval
<1>4. PICK A, B : A = Occurs(u, b) /\ B = Occurs(s, b)
  OBVIOUS
<1>5. /\ IsFiniteSet(A) /\ Cardinality(A) \in Nat /\ Cardinality(A) = Count(u, b)
      /\ IsFiniteSet(B) /\ Cardinality(B) \in Nat /\ Cardinality(B) = Count(s, b)
  BY <1>3, <1>4, CountNat DEF Count
<1>6. A \subseteq B /\ A \subseteq 1 .. k
  BY <1>2, <1>4 DEF Occurs
<1>7. Cardinality(A) <= Cardinality(B)
  BY <1>5, <1>6, FS_Subset
<1>8. ASSUME NEW i \in k + 1 .. n, s[i] = b PROVE Cardinality(A) + 1 <= Cardinality(B)
  <2>1. i \in B /\ i \notin A
    BY <1>2, <1>4, <1>6, <1>8 DEF Occurs
  <2>2. A \cup {i} \subseteq B
    BY <1>6, <2>1
  <2>3. IsFiniteSet(A \cup {i}) /\ Cardinality(A \cup {i}) = Cardinality(A) + 1
    BY <1>5, <2>1, FS_AddElement
  <2>4. Cardinality(A \cup {i}) <= Cardinality(B)
    BY <1>5, <2>2, FS_Subset
  <2> QED BY <2>3, <2>4
<1> QED BY <1>1, <1>5, <1>7, <1>8

-----------------------------------------------------------------------------

(* The calls of psi_num_exp_reduce that an act has to make or to finish:   *)
(* behind the first, all wait for an operand that is being handled.        *)
Close == [do |-> "close"]
Exec == [do |-> "exec"]
Later(e) == [do |-> "binary", e |-> e]
Branch(e) == [do |-> "branch", e |-> e]

Pending(nodes) == {Later(i) : i \in {j \in DOMAIN nodes : nodes[j].op \in BinaryOps}} \cup {Close}
Heads(nodes) ==
  {Reduce(i) : i \in DOMAIN nodes} \cup Pending(nodes)
    \cup {Branch(i) : i \in {j \in DOMAIN nodes : nodes[j].op = "IIF"}}
Todos(nodes) == {t \in Seq(Heads(nodes)) : t = <<>> \/ Tail(t) \in Seq(Pending(nodes))}

(* The operand on the left of what is to be done next is there.            *)
Having(todo) == IF todo = <<>> \/ Head(todo).do \in {"binary", "close"} THEN 1 ELSE 0

LEMMA HeadIs ==
  ASSUME NEW nodes, NEW x \in Heads(nodes)
  PROVE  /\ x.do \in {"reduce", "binary", "branch", "close"}
         /\ x.do = "reduce" => x = Reduce(x.e) /\ x.e \in DOMAIN nodes /\ One(x, Close) = 0
         /\ x.do = "branch" => /\ x = Branch(x.e) /\ x.e \in DOMAIN nodes /\ One(x, Close) = 0
                               /\ nodes[x.e].op = "IIF"
         /\ x.do = "binary" => /\ x = Later(x.e) /\ x.e \in DOMAIN nodes /\ One(x, Close) = 0
                               /\ nodes[x.e].op \in BinaryOps
         /\ x.do = "close" => x = Close /\ One(x, Close) = 1
<1>1. CASE x \in {Reduce(i) : i \in DOMAIN nodes}
  BY <1>1 DEF Reduce, One, Close
<1>2. CASE x \in {Branch(i) : i \in {j \in DOMAIN nodes : nodes[j].op = "IIF"}}
  BY <1>2 DEF Branch, One, Close
<1>3. CASE x \in {Later(i) : i \in {j \in DOMAIN nodes : nodes[j].op \in BinaryOps}}
  BY <1>3 DEF Later, One, Close
<1>4. CASE x = Close
  BY <1>4 DEF One, Close
<1> QED BY <1>1, <1>2, <1>3, <1>4 DEF Heads, Pending

LEMMA TodoIs ==
  ASSUME NEW nodes, NEW todo \in Todos(nodes), todo # <<>>
  PROVE  /\ Head(todo) \in Heads(nodes) /\ Tail(todo) \in Seq(Pending(nodes))
         /\ Count(Tail(todo), Close) \in Nat
         /\ Count(todo, Close) = One(Head(todo), Close) + Count(Tail(todo), Close)
BY CountTail DEF Todos

LEMMA PendingTodo ==
  ASSUME NEW nodes, NEW rest \in Seq(Pending(nodes))
  PROVE  rest \in Todos(nodes) /\ Having(rest) = 1
<1>1. Pending(nodes) \subseteq Heads(nodes)
  BY DEF Heads
<1>2. rest \in Seq(Heads(nodes))
  BY <1>1, Widened
<1>3. rest # <<>> => Tail(rest) \in Seq(Pending(nodes)) /\ Head(rest) \in Pending(nodes)
  OBVIOUS
<1>4. \A x \in Pending(nodes) : x.do \in {"binary", "close"}
  BY DEF Pending, Later, Close
<1> QED BY <1>2, <1>3, <1>4 DEF Todos, Having

LEMMA TodoOne ==
  ASSUME NEW nodes, NEW rest \in Seq(Pending(nodes)), NEW x \in Heads(nodes)
  PROVE  /\ <<x>> \o rest \in Todos(nodes)
         /\ Head(<<x>> \o rest) = x /\ <<x>> \o rest # <<>> /\ Tail(<<x>> \o rest) = rest
         /\ Count(<<x>> \o rest, Close) = One(x, Close) + Count(rest, Close)
         /\ Having(<<x>> \o rest) = IF x.do \in {"binary", "close"} THEN 1 ELSE 0
<1>1. rest \in Seq(Heads(nodes))
  <2>1. Pending(nodes) \subseteq Heads(nodes)
    BY DEF Heads
  <2> QED BY <2>1, Widened
<1>2. PICK t : t = <<x>> \o rest
  OBVIOUS
<1>3. t \in Seq(Heads(nodes)) /\ t # <<>> /\ Head(t) = x /\ Tail(t) = rest
  BY <1>1, <1>2
<1>4. t \in Todos(nodes) /\ Count(t, Close) = One(x, Close) + Count(rest, Close)
  BY <1>3, CountTail DEF Todos
<1>5. Having(t) = IF x.do \in {"binary", "close"} THEN 1 ELSE 0
  BY <1>3 DEF Having
<1> QED BY <1>2, <1>3, <1>4, <1>5

IsConcat(u, s, t, S) ==
  /\ u \in Seq(S) /\ Len(u) = Len(s) + Len(t)
  /\ \A k \in 1 .. Len(s) : u[k] = s[k]
  /\ \A k \in 1 .. Len(t) : u[Len(s) + k] = t[k]
LEMMA ConcatIs ==
  ASSUME NEW S, NEW s \in Seq(S), NEW t \in Seq(S)
  PROVE  IsConcat(s \o t, s, t, S)
BY DEF IsConcat

LEMMA TodoTwo ==
  ASSUME NEW nodes, NEW rest \in Seq(Pending(nodes)), NEW x \in Heads(nodes), NEW y \in Pending(nodes)
  PROVE  /\ <<x, y>> \o rest = <<x>> \o (<<y>> \o rest)
         /\ <<y>> \o rest \in Seq(Pending(nodes))
         /\ Count(<<y>> \o rest, Close) = One(y, Close) + Count(rest, Close)
<1>1. <<y>> \o rest \in Seq(Pending(nodes))
  OBVIOUS
<1>2. <<x, y>> \o rest = <<x>> \o (<<y>> \o rest)
  <2>1. PICK n \in Nat : n = Len(rest)
    OBVIOUS
  <2>2. PICK S : S = {x} \cup {y} \cup Pending(nodes)
    OBVIOUS
  <2>3. PICK xy, ox, oy : xy = <<x, y>> /\ ox = <<x>> /\ oy = <<y>>
    OBVIOUS
  <2>4. /\ xy \in Seq(S) /\ Len(xy) = 2 /\ xy[1] = x /\ xy[2] = y
        /\ ox \in Seq(S) /\ Len(ox) = 1 /\ ox[1] = x
        /\ oy \in Seq(S) /\ Len(oy) = 1 /\ oy[1] = y /\ rest \in Seq(S)
    BY <2>2, <2>3
  <2>5. PICK u, v, w : u = xy \o rest /\ v = oy \o rest /\ w = ox \o v
    OBVIOUS
  <2>6. /\ u \in Seq(S) /\ Len(u) = n + 2 /\ u[1] = x /\ u[2] = y
        /\ \A k \in 1 .. n : u[2 + k] = rest[k]
    <3>1. IsConcat(u, xy, rest, S)
      <4>1. xy \in Seq(S) /\ rest \in Seq(S)
        BY <2>4
      <4>2. IsConcat(xy \o rest, xy, rest, S)
        BY <4>1, ConcatIs
      <4> QED BY <2>5, <4>2, Zenon
    <3> QED BY <2>1, <2>4, <3>1 DEF IsConcat
  <2>7. v \in Seq(S) /\ Len(v) = n + 1 /\ v[1] = y /\ \A k \in 1 .. n : v[1 + k] = rest[k]
    <3>1. IsConcat(v, oy, rest, S)
      <4>1. oy \in Seq(S) /\ rest \in Seq(S)
        BY <2>4
      <4>2. IsConcat(oy \o rest, oy, rest, S)
        BY <4>1, ConcatIs
      <4> QED BY <2>5, <4>2, Zenon
    <3> QED BY <2>1, <2>4, <3>1 DEF IsConcat
  <2>8. w \in Seq(S) /\ Len(w) = n + 2 /\ w[1] = x /\ \A k \in 1 .. n + 1 : w[1 + k] = v[k]
    <3>1. IsConcat(w, ox, v, S)
      <4>1. ox \in Seq(S) /\ v \in Seq(S)
        BY <2>4, <2>7
      <4>2. IsConcat(ox \o v, ox, v, S)
        BY <4>1, ConcatIs
      <4> QED BY <2>5, <4>2, Zenon
    <3> QED BY <2>1, <2>4, <2>7, <3>1 DEF IsConcat
  <2>9. ASSUME NEW k \in 1 .. n + 2 PROVE u[k] = w[k]
    <3>1. CASE k = 1
      BY <2>6, <2>8, <3>1
    <3>2. CASE k = 2
      <4>1. w[1 + 1] = v[1]
        BY <2>1, <2>8
      <4> QED BY <2>6, <2>7, <3>2, <4>1
    <3>3. CASE k \in 3 .. n + 2
      <4>1. PICK i : i = k - 2
        OBVIOUS
      <4>2. i \in 1 .. n /\ 1 + i \in 1 .. n + 1 /\ k = 2 + i /\ k = 1 + (1 + i)
        BY <2>1, <3>3, <4>1
      <4> QED BY <2>6, <2>7, <2>8, <4>2
    <3> QED BY <3>1, <3>2, <3>3, <2>1
  <2>10. u = [k \in 1 .. n + 2 |-> u[k]] /\ w = [k \in 1 .. n + 2 |-> w[k]]
    BY <2>6, <2>8, SequenceIsFunction
  <2> QED BY <2>3, <2>5, <2>9, <2>10
<1>3. y \in Heads(nodes)
  BY DEF Heads
<1> QED BY <1>1, <1>2, <1>3, TodoOne

(* A call in its walk, and one that executes its program.                  *)
Walks(a, nodes) ==
  /\ a.todo \in Todos(nodes) /\ a.output \in Seq(Elements) /\ a.input \in Seq(Entries)
  /\ Count(a.input, Paren) <= Count(a.todo, Close)
  /\ \E h \in Nat : Waiting(a.input, h) /\ Runs(a.output, 0, h + Having(a.todo))
Executes(a) ==
  /\ a.todo = <<Exec>> /\ a.output \in Seq(Elements) /\ a.input \in Seq(Values)
  /\ Runs(a.output, Len(a.input), 1)
Calls(nodes) ==
  {a \in [todo : Seq(Heads(nodes) \cup {Exec}), output : Seq(Elements),
          input : Seq(Entries \cup Values)] : Walks(a, nodes) \/ Executes(a)}

(* It does not wait for the condition of a ?:.                             *)
Ready(todo) == todo = <<>> \/ Head(todo).do # "branch"

LEMMA WalkMade ==
  ASSUME NEW nodes, NEW todo \in Todos(nodes), NEW output \in Seq(Elements),
         NEW input \in Seq(Entries), Count(input, Paren) <= Count(todo, Close),
         NEW h \in Nat, Waiting(input, h), Runs(output, 0, h + Having(todo))
  PROVE  [todo |-> todo, output |-> output, input |-> input] \in Calls(nodes)
<1>1. PICK a : a = [todo |-> todo, output |-> output, input |-> input]
  OBVIOUS
<1>2. a.todo = todo /\ a.output = output /\ a.input = input
  BY <1>1
<1>3. Walks(a, nodes)
  BY <1>2 DEF Walks
<1>4. todo \in Seq(Heads(nodes) \cup {Exec}) /\ input \in Seq(Entries \cup Values)
  <2>1. todo \in Seq(Heads(nodes))
    BY DEF Todos
  <2>2. Heads(nodes) \subseteq Heads(nodes) \cup {Exec} /\ Entries \subseteq Entries \cup Values
    OBVIOUS
  <2> QED BY <2>1, <2>2, Widened
<1>5. a \in [todo : Seq(Heads(nodes) \cup {Exec}), output : Seq(Elements), input : Seq(Entries \cup Values)]
  BY <1>1, <1>4
<1> QED BY <1>1, <1>3, <1>5 DEF Calls

LEMMA ExecuteMade ==
  ASSUME NEW nodes, NEW output \in Seq(Elements), NEW input \in Seq(Values), Runs(output, Len(input), 1)
  PROVE  [todo |-> <<Exec>>, output |-> output, input |-> input] \in Calls(nodes)
<1>1. PICK todo : todo = <<Exec>>
  OBVIOUS
<1>8. todo \in Seq(Heads(nodes) \cup {Exec})
  BY <1>1
<1>2. PICK a : a = [todo |-> todo, output |-> output, input |-> input]
  OBVIOUS
<1>3. a.todo = todo /\ a.output = output /\ a.input = input
  BY <1>2
<1>4. Executes(a)
  BY <1>1, <1>3 DEF Executes
<1>5. input \in Seq(Entries \cup Values)
  <2>1. Values \subseteq Entries \cup Values
    OBVIOUS
  <2> QED BY <2>1, Widened
<1>6. a \in [todo : Seq(Heads(nodes) \cup {Exec}), output : Seq(Elements), input : Seq(Entries \cup Values)]
  BY <1>2, <1>5, <1>8
<1>7. a \in Calls(nodes)
  BY <1>4, <1>6 DEF Calls
<1> QED BY <1>1, <1>2, <1>7

LEMMA TodoNotExec ==
  ASSUME NEW nodes, NEW todo \in Todos(nodes), todo # <<>>
  PROVE  Head(todo).do # "exec" /\ todo # <<Exec>>
<1>1. Head(todo).do # "exec"
  BY TodoIs, HeadIs
<1>2. Exec.do = "exec"
  BY DEF Exec
<1>3. PICK t : t = <<Exec>>
  OBVIOUS
<1>5. Head(t) = Exec
  BY <1>3
<1>4. todo # t
  BY <1>1, <1>2, <1>5
<1> QED BY <1>1, <1>3, <1>4

LEMMA CallIs ==
  ASSUME NEW nodes, NEW a \in Calls(nodes)
  PROVE  /\ a = [todo |-> a.todo, output |-> a.output, input |-> a.input]
         /\ a.todo = <<>> \/ Head(a.todo).do # "exec" => Walks(a, nodes) /\ a.todo # <<Exec>>
         /\ a.todo # <<>> /\ Head(a.todo).do = "exec" => Executes(a)
<1>1. a \in [todo : Seq(Heads(nodes) \cup {Exec}), output : Seq(Elements), input : Seq(Entries \cup Values)]
      /\ (Walks(a, nodes) \/ Executes(a))
  BY DEF Calls
<1>2. a = [todo |-> a.todo, output |-> a.output, input |-> a.input]
  BY <1>1
<1>7. PICK x, e : x = <<Exec>> /\ e = <<>>
  OBVIOUS
<1>8. x # e /\ Head(x) = Exec
  BY <1>7
<1>3. x = <<Exec>> /\ e = <<>> /\ x # e /\ Head(x) = Exec /\ Exec.do = "exec"
  BY <1>7, <1>8 DEF Exec
<1>4. Executes(a) => a.todo = x
  BY <1>3 DEF Executes
<1>5. Walks(a, nodes) => a.todo = e \/ Head(a.todo).do # "exec"
  BY <1>3, TodoNotExec DEF Walks
<1>6. /\ a.todo = e \/ Head(a.todo).do # "exec" => Walks(a, nodes) /\ a.todo # x
      /\ a.todo # e /\ Head(a.todo).do = "exec" => Executes(a)
  BY <1>1, <1>3, <1>4, <1>5
<1> QED BY <1>2, <1>3, <1>6, Zenon

LEMMA WalkIs ==
  ASSUME NEW nodes, NEW a, Walks(a, nodes), a.todo # <<>>
  PROVE  \E x \in Heads(nodes), rest \in Seq(Pending(nodes)), h \in Nat :
           /\ Head(a.todo) = x /\ Tail(a.todo) = rest
           /\ a.output \in Seq(Elements) /\ a.input \in Seq(Entries)
           /\ Count(a.input, Paren) <= One(x, Close) + Count(rest, Close)
           /\ Count(rest, Close) \in Nat
           /\ Waiting(a.input, h)
           /\ Runs(a.output, 0, h + (IF x.do \in {"binary", "close"} THEN 1 ELSE 0))
<1>1. PICK t, x, rest : t = a.todo /\ x = Head(t) /\ rest = Tail(t)
  OBVIOUS
<1>2. t \in Todos(nodes) /\ t # <<>> /\ a.output \in Seq(Elements) /\ a.input \in Seq(Entries)
      /\ Count(a.input, Paren) <= Count(t, Close)
  BY <1>1 DEF Walks
<1>3. PICK h \in Nat : Waiting(a.input, h) /\ Runs(a.output, 0, h + Having(t))
  BY <1>1 DEF Walks
<1>4. /\ x \in Heads(nodes) /\ rest \in Seq(Pending(nodes)) /\ Count(rest, Close) \in Nat
      /\ Count(t, Close) = One(x, Close) + Count(rest, Close)
  BY <1>1, <1>2, TodoIs
<1>5. Having(t) = IF x.do \in {"binary", "close"} THEN 1 ELSE 0
  BY <1>1, <1>2 DEF Having
<1>6. Runs(a.output, 0, h + (IF x.do \in {"binary", "close"} THEN 1 ELSE 0))
  BY <1>3, <1>5
<1> QED BY <1>1, <1>2, <1>3, <1>4, <1>6

-----------------------------------------------------------------------------
(* What the steps make of a call.                                          *)

LEMMA WalkNumber ==
  ASSUME NEW nodes, NEW a, Walks(a, nodes), a.todo # <<>>, Head(a.todo).do = "reduce",
         NEW v \in Values
  PROVE  /\ [todo |-> Tail(a.todo), output |-> Append(a.output, v), input |-> a.input] \in Calls(nodes)
         /\ Ready(Tail(a.todo))
<1>1. PICK x \in Heads(nodes), rest \in Seq(Pending(nodes)), h \in Nat :
           /\ Head(a.todo) = x /\ Tail(a.todo) = rest
           /\ a.output \in Seq(Elements) /\ a.input \in Seq(Entries)
           /\ Count(a.input, Paren) <= One(x, Close) + Count(rest, Close)
           /\ Count(rest, Close) \in Nat
           /\ Waiting(a.input, h)
           /\ Runs(a.output, 0, h + (IF x.do \in {"binary", "close"} THEN 1 ELSE 0))
  BY WalkIs
<1>2. One(x, Close) = 0 /\ Runs(a.output, 0, h)
  BY <1>1, HeadIs
<1>3. rest \in Todos(nodes) /\ Having(rest) = 1
  BY <1>1, PendingTodo
<1>4. Runs(Append(a.output, v), 0, h + 1) /\ Append(a.output, v) \in Seq(Elements)
  BY <1>1, <1>2, RunsValue
<1>5. [todo |-> rest, output |-> Append(a.output, v), input |-> a.input] \in Calls(nodes)
  <2>1. PICK o : o = Append(a.output, v)
    OBVIOUS
  <2>2. o \in Seq(Elements) /\ Runs(o, 0, h + Having(rest))
    BY <1>3, <1>4, <2>1
  <2>3. [todo |-> rest, output |-> o, input |-> a.input] \in Calls(nodes)
    BY <1>1, <1>2, <1>3, <2>2, WalkMade
  <2> QED BY <2>1, <2>3
<1>6. Ready(rest)
  BY <1>3 DEF Having, Ready
<1> QED BY <1>1, <1>5, <1>6

(* Another thing to be done first, when there is no operand yet.           *)
LEMMA WalkNext ==
  ASSUME NEW nodes, NEW a, Walks(a, nodes), a.todo # <<>>, Head(a.todo).do \in {"reduce", "branch"},
         NEW y \in Heads(nodes), y.do \in {"reduce", "branch"}
  PROVE  /\ [todo |-> <<y>> \o Tail(a.todo), output |-> a.output, input |-> a.input] \in Calls(nodes)
         /\ <<y>> \o Tail(a.todo) # <<>> /\ Head(<<y>> \o Tail(a.todo)) = y
<1>1. PICK x \in Heads(nodes), rest \in Seq(Pending(nodes)), h \in Nat :
           /\ Head(a.todo) = x /\ Tail(a.todo) = rest
           /\ a.output \in Seq(Elements) /\ a.input \in Seq(Entries)
           /\ Count(a.input, Paren) <= One(x, Close) + Count(rest, Close)
           /\ Count(rest, Close) \in Nat
           /\ Waiting(a.input, h)
           /\ Runs(a.output, 0, h + (IF x.do \in {"binary", "close"} THEN 1 ELSE 0))
  BY WalkIs
<1>2. One(x, Close) = 0 /\ One(y, Close) = 0 /\ Runs(a.output, 0, h + 0)
  BY <1>1, HeadIs
<1>3. PICK t : t = <<y>> \o rest
  OBVIOUS
<1>4. /\ t \in Todos(nodes) /\ Head(t) = y /\ t # <<>> /\ Having(t) = 0
      /\ Count(t, Close) = One(y, Close) + Count(rest, Close)
  BY <1>3, TodoOne
<1>5. [todo |-> t, output |-> a.output, input |-> a.input] \in Calls(nodes)
  BY <1>1, <1>2, <1>4, WalkMade
<1> QED BY <1>1, <1>3, <1>4, <1>5

LEMMA WalkLeft ==
  ASSUME NEW nodes, NEW a, Walks(a, nodes), a.todo # <<>>, Head(a.todo).do = "reduce",
         NEW y \in Heads(nodes), y.do = "reduce", NEW z \in Pending(nodes), z.do = "binary"
  PROVE  /\ [todo |-> <<y, z>> \o Tail(a.todo), output |-> a.output, input |-> a.input] \in Calls(nodes)
         /\ Ready(<<y, z>> \o Tail(a.todo))
<1>1. PICK x \in Heads(nodes), rest \in Seq(Pending(nodes)), h \in Nat :
           /\ Head(a.todo) = x /\ Tail(a.todo) = rest
           /\ a.output \in Seq(Elements) /\ a.input \in Seq(Entries)
           /\ Count(a.input, Paren) <= One(x, Close) + Count(rest, Close)
           /\ Count(rest, Close) \in Nat
           /\ Waiting(a.input, h)
           /\ Runs(a.output, 0, h + (IF x.do \in {"binary", "close"} THEN 1 ELSE 0))
  BY WalkIs
<1>2. z \in Heads(nodes)
  BY DEF Heads
<1>3. One(x, Close) = 0 /\ One(y, Close) = 0 /\ One(z, Close) = 0 /\ Runs(a.output, 0, h + 0)
  BY <1>1, <1>2, HeadIs
<1>4. PICK t, r : r = <<z>> \o rest /\ t = <<y>> \o r /\ t = <<y, z>> \o rest
  BY TodoTwo
<1>5. r \in Seq(Pending(nodes)) /\ Count(r, Close) = One(z, Close) + Count(rest, Close)
  BY <1>4, TodoTwo
<1>6. /\ t \in Todos(nodes) /\ Head(t) = y /\ t # <<>> /\ Having(t) = 0
      /\ Count(t, Close) = One(y, Close) + Count(r, Close)
  <2>1. /\ <<y>> \o r \in Todos(nodes) /\ Head(<<y>> \o r) = y /\ <<y>> \o r # <<>>
        /\ Having(<<y>> \o r) = 0
        /\ Count(<<y>> \o r, Close) = One(y, Close) + Count(r, Close)
    <3>1. r \in Seq(Pending(nodes))
      BY <1>5
    <3> QED BY <3>1, TodoOne
  <2> QED BY <1>4, <2>1, Zenon
<1>7. [todo |-> t, output |-> a.output, input |-> a.input] \in Calls(nodes)
  BY <1>1, <1>3, <1>5, <1>6, WalkMade
<1>8. Ready(t)
  BY <1>6 DEF Ready
<1> QED BY <1>1, <1>4, <1>7, <1>8

LEMMA WalkParen ==
  ASSUME NEW nodes, NEW a, Walks(a, nodes), a.todo # <<>>, Head(a.todo).do = "reduce",
         NEW y \in Heads(nodes), y.do = "reduce"
  PROVE  /\ [todo |-> <<y, Close>> \o Tail(a.todo), output |-> a.output,
             input |-> Append(a.input, Paren)] \in Calls(nodes)
         /\ Ready(<<y, Close>> \o Tail(a.todo))
<1>1. PICK x \in Heads(nodes), rest \in Seq(Pending(nodes)), h \in Nat :
           /\ Head(a.todo) = x /\ Tail(a.todo) = rest
           /\ a.output \in Seq(Elements) /\ a.input \in Seq(Entries)
           /\ Count(a.input, Paren) <= One(x, Close) + Count(rest, Close)
           /\ Count(rest, Close) \in Nat
           /\ Waiting(a.input, h)
           /\ Runs(a.output, 0, h + (IF x.do \in {"binary", "close"} THEN 1 ELSE 0))
  BY WalkIs
<1>2. Close \in Pending(nodes) /\ One(Close, Close) = 1 /\ Paren \in Entries /\ One(Paren, Paren) = 1
  BY DEF Pending, One, Entries
<1>3. One(x, Close) = 0 /\ One(y, Close) = 0 /\ Runs(a.output, 0, h + 0)
  BY <1>1, <1>2, HeadIs
<1>4. PICK t, r : r = <<Close>> \o rest /\ t = <<y>> \o r /\ t = <<y, Close>> \o rest
  BY <1>2, TodoTwo
<1>5. r \in Seq(Pending(nodes)) /\ Count(r, Close) = 1 + Count(rest, Close)
  BY <1>2, <1>4, TodoTwo
<1>6. /\ t \in Todos(nodes) /\ Head(t) = y /\ t # <<>> /\ Having(t) = 0
      /\ Count(t, Close) = One(y, Close) + Count(r, Close)
  <2>1. /\ <<y>> \o r \in Todos(nodes) /\ Head(<<y>> \o r) = y /\ <<y>> \o r # <<>>
        /\ Having(<<y>> \o r) = 0
        /\ Count(<<y>> \o r, Close) = One(y, Close) + Count(r, Close)
    <3>1. r \in Seq(Pending(nodes))
      BY <1>5
    <3> QED BY <3>1, TodoOne
  <2> QED BY <1>4, <2>1, Zenon
<1>7. /\ Append(a.input, Paren) \in Seq(Entries) /\ Waiting(Append(a.input, Paren), h)
      /\ Count(Append(a.input, Paren), Paren) <= Count(t, Close)
  <2>1. Waits(Paren) = 0
    BY ElementsAre, BinaryOpsAre DEF Waits
  <2>2. Count(Append(a.input, Paren), Paren) = Count(a.input, Paren) + 1
    BY <1>1, <1>2, CountAppend
  <2>3. Count(a.input, Paren) \in Nat
    <3>1. Len(a.input) \in 0 .. Len(a.input)
      BY <1>1
    <3> QED BY <1>1, <3>1, CountPrefix
  <2> QED BY <1>1, <1>2, <1>3, <1>5, <1>6, <2>1, <2>2, <2>3, WaitingPush
<1>8. [todo |-> t, output |-> a.output, input |-> Append(a.input, Paren)] \in Calls(nodes)
  BY <1>1, <1>3, <1>6, <1>7, WalkMade
<1>9. Ready(t)
  BY <1>6 DEF Ready
<1> QED BY <1>1, <1>4, <1>8, <1>9

LEMMA WaitingAtStart ==
  ASSUME NEW h, NEW s, s = <<>>, Waiting(s, h)
  PROVE  h = 0
<1>1. PICK g : IsHeight(g, s, h)
  BY DEF Waiting
<1>2. Len(s) = 0
  OBVIOUS
<1> QED BY <1>1, <1>2 DEF IsHeight

LEMMA WaitingDrop ==
  ASSUME NEW s \in Seq(Entries), NEW k \in 1 .. Len(s), NEW h, Waiting(SubSeq(s, 1, k), h),
         Waits(s[k]) = 0
  PROVE  Waiting(SubSeq(s, 1, k - 1), h)
<1>1. PICK u, v, n : u = SubSeq(s, 1, k) /\ v = SubSeq(s, 1, k - 1) /\ n = Len(s)
  OBVIOUS
<1>2. n \in Nat /\ k \in Nat /\ 1 <= k /\ k <= n
  BY <1>1
<1>3. k \in 0 .. Len(s) /\ k - 1 \in 0 .. Len(s)
  BY <1>1, <1>2
<1>4. Len(u) = k /\ \A i \in 1 .. k : u[i] = s[i]
  BY <1>1, <1>3, PrefixIs
<1>5. Len(v) = k - 1 /\ \A i \in 1 .. k - 1 : v[i] = s[i]
  BY <1>1, <1>3, PrefixIs
<1>6. PICK g : IsHeight(g, u, h)
  BY <1>1 DEF Waiting
<1>7. /\ g \in [0 .. k -> Nat] /\ g[0] = 0 /\ g[k] = h
      /\ \A i \in 1 .. k : g[i] = g[i - 1] + Waits(u[i])
  BY <1>4, <1>6 DEF IsHeight
<1>8. PICK j : j = [i \in 0 .. k - 1 |-> g[i]]
  OBVIOUS
<1>9. j \in [0 .. k - 1 -> Nat] /\ \A i \in 0 .. k - 1 : j[i] = g[i]
  BY <1>2, <1>7, <1>8
<1>10. j[0] = 0 /\ j[k - 1] = h
  <2>1. g[k] = g[k - 1] + 0 /\ g[k - 1] \in Nat
    BY <1>2, <1>4, <1>7
  <2>2. 0 \in 0 .. k - 1 /\ k - 1 \in 0 .. k - 1
    BY <1>2
  <2> QED BY <1>7, <1>9, <2>1, <2>2
<1>11. ASSUME NEW i \in 1 .. k - 1 PROVE j[i] = j[i - 1] + Waits(v[i])
  <2>1. i \in 0 .. k - 1 /\ i - 1 \in 0 .. k - 1 /\ i \in 1 .. k
    BY <1>2
  <2>2. v[i] = u[i]
    BY <1>4, <1>5, <2>1
  <2>3. g[i] = g[i - 1] + Waits(u[i])
    BY <1>7, <2>1
  <2>4. j[i] = g[i] /\ j[i - 1] = g[i - 1]
    BY <1>9, <2>1
  <2> QED BY <2>2, <2>3, <2>4
<1>12. IsHeight(j, v, h)
  BY <1>5, <1>9, <1>10, <1>11 DEF IsHeight
<1> QED BY <1>1, <1>12 DEF Waiting

(* The last parenthesis, if there is one.                                  *)
LEMMA WalkClose ==
  ASSUME NEW nodes, NEW a, Walks(a, nodes), a.todo # <<>>, Head(a.todo).do = "close",
         NEW at \in 0 .. Len(a.input), at # 0 => a.input[at].type = "LPAREN",
         \A i \in at + 1 .. Len(a.input) : a.input[i].type # "LPAREN"
  PROVE  /\ [todo |-> Tail(a.todo), output |-> a.output \o Popped(a.input, at + 1),
             input |-> SubSeq(a.input, 1, at - 1)] \in Calls(nodes)
         /\ Ready(Tail(a.todo))
<1>1. PICK x \in Heads(nodes), rest \in Seq(Pending(nodes)), h \in Nat :
           /\ Head(a.todo) = x /\ Tail(a.todo) = rest
           /\ a.output \in Seq(Elements) /\ a.input \in Seq(Entries)
           /\ Count(a.input, Paren) <= One(x, Close) + Count(rest, Close)
           /\ Count(rest, Close) \in Nat
           /\ Waiting(a.input, h)
           /\ Runs(a.output, 0, h + (IF x.do \in {"binary", "close"} THEN 1 ELSE 0))
  BY WalkIs
<1>2. One(x, Close) = 1 /\ Runs(a.output, 0, h + 1)
  BY <1>1, HeadIs
<1>3. rest \in Todos(nodes) /\ Having(rest) = 1
  BY <1>1, PendingTodo
<1>4. PICK s, n : s = a.input /\ n = Len(s)
  OBVIOUS
<1>5. s \in Seq(Entries) /\ n \in Nat /\ DOMAIN s = 1 .. n
  BY <1>1, <1>4
<1>7. /\ at \in 0 .. n
      /\ at # 0 => at \in 1 .. n /\ s[at].type = "LPAREN"
      /\ \A i \in at + 1 .. n : s[i].type # "LPAREN"
  BY <1>4, <1>5
<1>8. PICK p, u, h2 : p = Popped(s, at + 1) /\ u = SubSeq(s, 1, at) /\ h2 \in Nat
                      /\ Waiting(u, h2) /\ Runs(p, h + 1, h2 + 1)
  BY <1>1, <1>4, <1>5, <1>7, WaitingPop
<1>9. u \in Seq(Entries) /\ p \in Seq(Elements)
  BY <1>1, <1>4, <1>5, <1>7, <1>8, WaitingPop, PrefixIs
<1>10. PICK o : o = a.output \o p
  OBVIOUS
<1>11. o \in Seq(Elements) /\ Runs(o, 0, h2 + 1)
  <2>1. a.output \o p \in Seq(Elements)
    BY <1>1, <1>9
  <2>2. Runs(a.output \o p, 0, h2 + 1)
    BY <1>1, <1>2, <1>8, <1>9, RunsJoin
  <2> QED BY <1>10, <2>1, <2>2
<1>12. PICK v : v = SubSeq(s, 1, at - 1)
  OBVIOUS
<1>13. v \in Seq(Entries) /\ Waiting(v, h2) /\ Count(v, Paren) <= Count(rest, Close)
  <2>1. CASE at = 0
    <3>1. v = <<>> /\ u = <<>>
      <4>1. Len(u) = 0
        BY <1>4, <1>5, <1>7, <1>8, <2>1, PrefixIs
      <4>2. v = <<>>
        BY <1>12, <2>1, <1>5
      <4> QED BY <1>9, <4>1, <4>2
    <3>2. Count(v, Paren) = 0
      <4>1. DOMAIN v = {} /\ IsFiniteSet({})
        BY <3>1, FS_EmptySet
      <4> QED BY <4>1, CountNat
    <3>3. v = u /\ Count(rest, Close) \in Nat
      BY <1>1, <3>1
    <3> QED BY <1>8, <1>9, <3>2, <3>3
  <2>2. CASE at # 0
    <3>1. at \in 1 .. Len(s) /\ at - 1 \in 0 .. Len(s) /\ at \in (at - 1) + 1 .. Len(s)
      <4>1. at \in 1 .. n /\ n = Len(s)
        BY <1>4, <1>5, <1>7, <2>2
      <4> QED BY <4>1
    <3>2. s[at] = Paren
      <4>1. s[at] \in Entries
        BY <1>5, <3>1
      <4> QED BY <1>7, <2>2, <4>1, ElementsAre DEF Entries
    <3>3. Waits(Paren) = 0
      BY ElementsAre, BinaryOpsAre DEF Waits
    <3>4. v \in Seq(Entries)
      BY <1>5, <1>12, <3>1, PrefixIs
    <3>5. Waiting(v, h2)
      BY <1>5, <1>8, <1>12, <3>1, <3>2, <3>3, WaitingDrop
    <3>6. Count(v, Paren) + 1 <= Count(s, Paren) /\ Count(v, Paren) \in Nat /\ Count(s, Paren) \in Nat
      BY <1>5, <1>12, <3>1, <3>2, CountPrefix
    <3> QED BY <1>1, <1>2, <1>4, <3>4, <3>5, <3>6
  <2> QED BY <2>1, <2>2
<1>14. [todo |-> rest, output |-> o, input |-> v] \in Calls(nodes)
  BY <1>3, <1>8, <1>11, <1>13, WalkMade
<1>15. Ready(rest)
  BY <1>3 DEF Having, Ready
<1>16. [todo |-> Tail(a.todo), output |-> a.output \o Popped(a.input, at + 1),
        input |-> SubSeq(a.input, 1, at - 1)] = [todo |-> rest, output |-> o, input |-> v]
  BY <1>1, <1>4, <1>8, <1>10, <1>12, Zenon
<1> QED BY <1>1, <1>14, <1>15, <1>16

(* An operator of two operands behind its left one.                        *)
LEMMA WalkRight ==
  ASSUME NEW nodes, NEW a, Walks(a, nodes), a.todo # <<>>, Head(a.todo).do = "binary",
         NEW keep \in 0 .. Len(a.input),
         \A i \in keep + 1 .. Len(a.input) : a.input[i].type # "LPAREN",
         NEW op \in BinaryOps, NEW y \in Heads(nodes), y.do = "reduce"
  PROVE  /\ [todo |-> <<y>> \o Tail(a.todo), output |-> a.output \o Popped(a.input, keep + 1),
             input |-> Append(SubSeq(a.input, 1, keep), Element(op, 0))] \in Calls(nodes)
         /\ Ready(<<y>> \o Tail(a.todo))
<1>1. PICK x \in Heads(nodes), rest \in Seq(Pending(nodes)), h \in Nat :
           /\ Head(a.todo) = x /\ Tail(a.todo) = rest
           /\ a.output \in Seq(Elements) /\ a.input \in Seq(Entries)
           /\ Count(a.input, Paren) <= One(x, Close) + Count(rest, Close)
           /\ Count(rest, Close) \in Nat
           /\ Waiting(a.input, h)
           /\ Runs(a.output, 0, h + (IF x.do \in {"binary", "close"} THEN 1 ELSE 0))
  BY WalkIs
<1>2. One(x, Close) = 0 /\ One(y, Close) = 0 /\ Runs(a.output, 0, h + 1)
  BY <1>1, HeadIs
<1>3. PICK s : s = a.input
  OBVIOUS
<1>4. PICK p, u, h2 : p = Popped(s, keep + 1) /\ u = SubSeq(s, 1, keep) /\ h2 \in Nat
                      /\ Waiting(u, h2) /\ Runs(p, h + 1, h2 + 1)
  BY <1>1, <1>3, WaitingPop
<1>5. u \in Seq(Entries) /\ p \in Seq(Elements)
  BY <1>1, <1>3, <1>4, WaitingPop
<1>6. PICK o : o = a.output \o p
  OBVIOUS
<1>7. o \in Seq(Elements) /\ Runs(o, 0, h2 + 1)
  <2>1. a.output \o p \in Seq(Elements)
    BY <1>1, <1>5
  <2>2. Runs(a.output \o p, 0, h2 + 1)
    BY <1>1, <1>2, <1>4, <1>5, RunsJoin
  <2> QED BY <1>6, <2>1, <2>2
<1>8. PICK e : e = Element(op, 0)
  OBVIOUS
<1>9. e \in Entries /\ Waits(e) = 1 /\ One(e, Paren) = 0
  <2>1. e \in Ops /\ e.type = op
    BY <1>8, ElementsAre DEF Element
  <2> QED BY <2>1, ElementsAre DEF Entries, Waits, One
<1>10. PICK v : v = Append(u, e)
  OBVIOUS
<1>11. v \in Seq(Entries) /\ Waiting(v, h2 + 1) /\ Count(v, Paren) <= Count(rest, Close)
  <2>1. v \in Seq(Entries) /\ Waiting(v, h2 + 1)
    BY <1>4, <1>5, <1>9, <1>10, WaitingPush
  <2>2. Count(v, Paren) = Count(u, Paren) + 0
    BY <1>5, <1>9, <1>10, CountAppend
  <2>3. Count(u, Paren) <= Count(s, Paren) /\ Count(u, Paren) \in Nat /\ Count(s, Paren) \in Nat
    BY <1>1, <1>3, <1>4, CountPrefix
  <2> QED BY <1>1, <1>2, <1>3, <2>1, <2>2, <2>3
<1>12. PICK t : t = <<y>> \o rest
  OBVIOUS
<1>13. /\ t \in Todos(nodes) /\ Head(t) = y /\ t # <<>> /\ Having(t) = 0
       /\ Count(t, Close) = One(y, Close) + Count(rest, Close)
  BY <1>12, TodoOne
<1>14. [todo |-> t, output |-> o, input |-> v] \in Calls(nodes)
  <2>1. Runs(o, 0, (h2 + 1) + Having(t)) /\ h2 + 1 \in Nat /\ Count(v, Paren) <= Count(t, Close)
    BY <1>1, <1>2, <1>4, <1>7, <1>11, <1>13
  <2> QED BY <1>7, <1>11, <1>13, <2>1, WalkMade
<1>15. Ready(t)
  BY <1>13 DEF Ready
<1>16. [todo |-> <<y>> \o Tail(a.todo), output |-> a.output \o Popped(a.input, keep + 1),
        input |-> Append(SubSeq(a.input, 1, keep), Element(op, 0))]
         = [todo |-> t, output |-> o, input |-> v]
  BY <1>1, <1>3, <1>4, <1>6, <1>8, <1>10, <1>12, Zenon
<1> QED BY <1>1, <1>12, <1>14, <1>15, <1>16

(* A prefix: nothing is popped.                                            *)
LEMMA WalkPrefix ==
  ASSUME NEW nodes, NEW a, Walks(a, nodes), a.todo # <<>>, Head(a.todo).do = "reduce",
         NEW e \in Ops, Waits(e) = 0, NEW y \in Heads(nodes), y.do = "reduce",
         NEW keep, keep = Len(a.input)
  PROVE  /\ [todo |-> <<y>> \o Tail(a.todo), output |-> a.output \o Popped(a.input, keep + 1),
             input |-> Append(SubSeq(a.input, 1, keep), e)] \in Calls(nodes)
         /\ Ready(<<y>> \o Tail(a.todo))
<1>1. PICK x \in Heads(nodes), rest \in Seq(Pending(nodes)), h \in Nat :
           /\ Head(a.todo) = x /\ Tail(a.todo) = rest
           /\ a.output \in Seq(Elements) /\ a.input \in Seq(Entries)
           /\ Count(a.input, Paren) <= One(x, Close) + Count(rest, Close)
           /\ Count(rest, Close) \in Nat
           /\ Waiting(a.input, h)
           /\ Runs(a.output, 0, h + (IF x.do \in {"binary", "close"} THEN 1 ELSE 0))
  BY WalkIs
<1>2. One(x, Close) = 0 /\ One(y, Close) = 0 /\ Runs(a.output, 0, h)
  BY <1>1, HeadIs
<1>3. PICK s, n : s = a.input /\ n = Len(s)
  OBVIOUS
<1>4. PICK p, u : p = Popped(s, keep + 1) /\ u = SubSeq(s, 1, keep)
  OBVIOUS
<1>5. n \in Nat /\ keep = n /\ keep \in 0 .. Len(s) /\ s \in Seq(Entries)
  BY <1>1, <1>3
<1>6. u = s
  <2>1. u \in Seq(Entries) /\ Len(u) = n /\ \A i \in 1 .. n : u[i] = s[i]
    BY <1>4, <1>5, PrefixIs
  <2>2. u = [i \in 1 .. n |-> u[i]] /\ s = [i \in 1 .. n |-> s[i]]
    BY <1>3, <1>5, <2>1, SequenceIsFunction
  <2> QED BY <2>1, <2>2
<1>7. p = <<>>
  <2>1. \A i \in keep + 1 .. Len(s) : s[i] \in Entries
    BY <1>3, <1>5
  <2>2. p \in Seq(Entries) /\ Len(p) = Len(s) - keep
    BY <1>4, <1>5, <2>1, PoppedIs
  <2>3. Len(p) = 0
    BY <1>3, <1>5, <2>2
  <2> QED BY <2>2, <2>3
<1>8. a.output \o p = a.output
  BY <1>1, <1>7
<1>9. PICK v : v = Append(u, e)
  OBVIOUS
<1>10. v \in Seq(Entries) /\ Waiting(v, h) /\ Count(v, Paren) <= Count(rest, Close)
  <2>1. e \in Entries /\ One(e, Paren) = 0
    BY ElementsAre DEF Entries, One
  <2>2. v \in Seq(Entries) /\ Waiting(v, h + 0)
    BY <1>1, <1>3, <1>5, <1>6, <1>9, <2>1, WaitingPush
  <2>3. Count(v, Paren) = Count(s, Paren) + 0
    BY <1>5, <1>6, <1>9, <2>1, CountAppend
  <2>4. Count(s, Paren) \in Nat
    BY <1>5, CountPrefix
  <2> QED BY <1>1, <1>2, <1>3, <2>2, <2>3, <2>4
<1>11. PICK t : t = <<y>> \o rest
  OBVIOUS
<1>12. /\ t \in Todos(nodes) /\ Head(t) = y /\ t # <<>> /\ Having(t) = 0
       /\ Count(t, Close) = One(y, Close) + Count(rest, Close)
  BY <1>11, TodoOne
<1>13. [todo |-> t, output |-> a.output, input |-> v] \in Calls(nodes)
  <2>1. Runs(a.output, 0, h + Having(t)) /\ Count(v, Paren) <= Count(t, Close)
    BY <1>1, <1>2, <1>10, <1>12
  <2> QED BY <1>1, <1>10, <1>12, <2>1, WalkMade
<1>14. Ready(t)
  BY <1>12 DEF Ready
<1>15. [todo |-> <<y>> \o Tail(a.todo), output |-> a.output \o Popped(a.input, keep + 1),
        input |-> Append(SubSeq(a.input, 1, keep), e)]
         = [todo |-> t, output |-> a.output, input |-> v]
  BY <1>1, <1>3, <1>4, <1>8, <1>9, <1>11, Zenon
<1> QED BY <1>1, <1>11, <1>13, <1>14, <1>15

(* The last of the elements T of a stack of n.                             *)
LEMMA LastOf ==
  ASSUME NEW n \in Nat, NEW T \in SUBSET (1 .. n), NEW keep, keep = Max(T \cup {0})
  PROVE  keep \in 0 .. n /\ (keep # 0 => keep \in T) /\ \A i \in keep + 1 .. n : i \notin T
<1>1. PICK S : S = T \cup {0}
  OBVIOUS
<1>2. S \in SUBSET (0 .. n) /\ S # {}
  BY <1>1
<1>3. keep \in S /\ \A y \in S : y <= keep
  BY <1>1, <1>2, GreatestElement
<1>4. \A i \in keep + 1 .. n : ~(i <= keep)
  BY <1>2, <1>3
<1> QED BY <1>1, <1>2, <1>3, <1>4

LEMMA TierIs ==
  /\ \A op \in UnaryOps : Tier(op) = 1
  /\ \A op \in BinaryOps \cup UnaryOps : Tier(op) \in 1 .. 11
<1>1. ASSUME NEW op \in UnaryOps PROVE Tier(op) = 1
  <2>1. op \in Tiers[1] /\ 1 \in 1 .. 11
    BY DEF Tiers
  <2>2. Tier(op) \in 1 .. 11 /\ op \in Tiers[Tier(op)]
    BY <2>1, Zenon DEF Tier
  <2>3. op \notin BinaryOps
    BY BinaryOpsAre DEF UnaryOps
  <2>4. \A i \in 2 .. 11 : op \notin Tiers[i]
    BY <2>3 DEF BinaryOps
  <2> QED BY <2>2, <2>4
<1>2. ASSUME NEW op \in BinaryOps PROVE Tier(op) \in 1 .. 11
  <2>1. PICK i \in 2 .. 11 : op \in Tiers[i]
    BY DEF BinaryOps
  <2>2. i \in 1 .. 11
    OBVIOUS
  <2> QED BY <2>1, <2>2, Zenon DEF Tier
<1> QED BY <1>1, <1>2

(* A prefix leaves all that waits; no operator takes a parenthesis.        *)
LEMMA Binding ==
  /\ \A op \in UnaryOps : \A type \in BinaryOps \cup UnaryOps \cup {"LPAREN"} :
       psi_calc_oper(op, type) # 1
  /\ \A op \in BinaryOps : psi_calc_oper(op, "LPAREN") = -1
<1>1. ASSUME NEW op \in UnaryOps, NEW type \in BinaryOps \cup UnaryOps \cup {"LPAREN"}
      PROVE  psi_calc_oper(op, type) # 1
  <2>1. op # "LPAREN" /\ Tier(op) = 1
    BY TierIs DEF UnaryOps
  <2>2. CASE type = "LPAREN"
    BY <2>2 DEF psi_calc_oper
  <2>3. CASE type # "LPAREN"
    <3>1. Tier(type) \in 1 .. 11
      BY <2>3, TierIs
    <3> QED BY <2>1, <2>3, <3>1 DEF psi_calc_oper
  <2> QED BY <2>2, <2>3
<1>2. \A op \in BinaryOps : psi_calc_oper(op, "LPAREN") = -1
  BY DEF psi_calc_oper
<1> QED BY <1>1, <1>2

(* The walk is over: what waits has its operands.                          *)
LEMMA WalkFlush ==
  ASSUME NEW nodes, NEW a, Walks(a, nodes), a.todo = <<>>
  PROVE  [todo |-> <<Exec>>, output |-> a.output \o Popped(a.input, 1), input |-> <<>>] \in Calls(nodes)
<1>1. PICK s, n : s = a.input /\ n = Len(s)
  OBVIOUS
<1>2. PICK h \in Nat : /\ Waiting(s, h) /\ Runs(a.output, 0, h + 1)
                       /\ a.output \in Seq(Elements) /\ s \in Seq(Entries) /\ n \in Nat
                       /\ Count(s, Paren) <= Count(a.todo, Close)
  <2>1. PICK h \in Nat : Waiting(s, h) /\ Runs(a.output, 0, h + Having(a.todo))
    BY <1>1 DEF Walks
  <2>2. Having(a.todo) = 1
    BY DEF Having
  <2>3. a.output \in Seq(Elements) /\ s \in Seq(Entries) /\ Count(s, Paren) <= Count(a.todo, Close)
    BY <1>1 DEF Walks
  <2>4. n \in Nat
    BY <1>1, <2>3
  <2> QED BY <2>1, <2>2, <2>3, <2>4
<1>3. Count(a.todo, Close) = 0
  <2>1. DOMAIN a.todo = {} /\ IsFiniteSet({})
    BY FS_EmptySet
  <2> QED BY <2>1, CountNat
<1>4. \A i \in 1 .. n : s[i].type # "LPAREN"
  <2>5. DOMAIN s = 1 .. n /\ n \in Int
    BY <1>1, <1>2
  <2>1. IsFiniteSet(DOMAIN s) /\ DOMAIN s = 1 .. n
    <3>1. IsFiniteSet(1 .. n)
      <4>1. n \in Int /\ 1 \in Int
        BY <2>5
      <4> QED BY <4>1, FS_Interval, Zenon
    <3> QED BY <2>5, <3>1, Zenon
  <2>2. \A k \in DOMAIN s : s[k] # Paren
    BY <1>2, <1>3, <2>1, CountNat
  <2>3. \A k \in DOMAIN s : s[k] \in Entries
    BY <1>2
  <2>4. \A e \in Entries : e.type = "LPAREN" => e = Paren
    BY ElementsAre DEF Entries
  <2> QED BY <2>1, <2>2, <2>3, <2>4
<1>5. PICK k : k = 0
  OBVIOUS
<1>6. /\ SubSeq(s, 1, k) \in Seq(Entries) /\ Popped(s, k + 1) \in Seq(Elements)
      /\ \E h2 \in Nat : Waiting(SubSeq(s, 1, k), h2) /\ Runs(Popped(s, k + 1), h + 1, h2 + 1)
  <2>1. k \in 0 .. Len(s) /\ \A i \in k + 1 .. Len(s) : s[i].type # "LPAREN"
    BY <1>1, <1>2, <1>4, <1>5
  <2> QED BY <1>2, <2>1, WaitingPop
<1>7. PICK p, u : p = Popped(s, 1) /\ u = SubSeq(s, 1, 0)
  OBVIOUS
<1>8. k + 1 = 1
  BY <1>5
<1>9. p \in Seq(Elements) /\ \E h2 \in Nat : Waiting(u, h2) /\ Runs(p, h + 1, h2 + 1)
  BY <1>5, <1>6, <1>7, <1>8
<1>10. u = <<>>
  BY <1>2, <1>7
<1>11. Runs(p, h + 1, 1)
  <2>1. PICK h2 \in Nat : Waiting(u, h2) /\ Runs(p, h + 1, h2 + 1)
    BY <1>9
  <2>2. h2 = 0
    BY <1>10, <2>1, WaitingAtStart
  <2>3. h2 + 1 = 1
    BY <2>2
  <2> QED BY <2>1, <2>3
<1>12. PICK o, e : o = a.output \o p /\ e = <<>>
  OBVIOUS
<1>13. o \in Seq(Elements) /\ Runs(o, 0, 1)
  <2>1. a.output \o p \in Seq(Elements)
    BY <1>2, <1>9
  <2>2. Runs(a.output \o p, 0, 1)
    BY <1>2, <1>9, <1>11, RunsJoin
  <2> QED BY <1>12, <2>1, <2>2
<1>14. e \in Seq(Values) /\ Len(e) = 0
  BY <1>12
<1>15. [todo |-> <<Exec>>, output |-> o, input |-> e] \in Calls(nodes)
  BY <1>13, <1>14, ExecuteMade
<1> QED BY <1>1, <1>7, <1>12, <1>15, Zenon

-----------------------------------------------------------------------------
(* The program finds its operands.                                         *)

LEMMA ExecuteIs ==
  ASSUME NEW a, Executes(a)
  PROVE  /\ a.input \in Seq(Values) /\ Len(a.input) \in Nat
         /\ a.output = <<>> => Len(a.input) = 1 /\ IsNumber(a.input[Len(a.input)].x)
         /\ a.output # <<>> =>
              /\ Head(a.output) \in Elements /\ Tail(a.output) \in Seq(Elements)
              /\ Len(a.input) >= Arity(Head(a.output))
              /\ Runs(Tail(a.output), Len(a.input) + 1 - Arity(Head(a.output)), 1)
<1>1. PICK s, n, o : s = a.input /\ n = Len(s) /\ o = a.output
  OBVIOUS
<1>2. s \in Seq(Values) /\ n \in Nat /\ o \in Seq(Elements) /\ Runs(o, n, 1)
  BY <1>1 DEF Executes
<1>3. ASSUME o = <<>> PROVE n = 1 /\ IsNumber(s[n].x)
  <2>1. n = 1
    BY <1>2, <1>3, RunsNothing
  <2>2. s[n] \in Values
    <3>1. \A i \in 1 .. Len(s) : s[i] \in Values
      BY <1>2
    <3>2. n \in 1 .. Len(s)
      BY <1>1, <2>1
    <3> QED BY <3>1, <3>2
  <2> QED BY <2>1, <2>2, ElementsAre
<1>4. ASSUME o # <<>>
      PROVE  /\ Head(o) \in Elements /\ Tail(o) \in Seq(Elements) /\ n >= Arity(Head(o))
             /\ Runs(Tail(o), n + 1 - Arity(Head(o)), 1)
  BY <1>2, <1>4, RunsStep
<1> QED BY <1>1, <1>2, <1>3, <1>4

(* The value v of an operation on the last k entries.                      *)
LEMMA ExecuteStep ==
  ASSUME NEW nodes, NEW a, Executes(a), a.output # <<>>, NEW k, k = Arity(Head(a.output)),
         NEW v \in Values
  PROVE  [todo |-> a.todo, output |-> Tail(a.output),
          input |-> Append(SubSeq(a.input, 1, Len(a.input) - k), v)] \in Calls(nodes)
<1>1. PICK s, n, o, u : s = a.input /\ n = Len(s) /\ o = Tail(a.output) /\ u = SubSeq(s, 1, n - k)
  OBVIOUS
<1>2. /\ s \in Seq(Values) /\ n \in Nat /\ k \in {0, 1, 2} /\ n >= k /\ o \in Seq(Elements)
      /\ Runs(o, n + 1 - k, 1)
  BY <1>1, ExecuteIs, ArityIs
<1>3. u \in Seq(Values) /\ Len(u) = n - k
  <2>1. n - k \in 0 .. Len(s)
    BY <1>1, <1>2
  <2> QED BY <1>1, <1>2, <2>1, PrefixIs
<1>4. PICK w : w = Append(u, v)
  OBVIOUS
<1>5. w \in Seq(Values) /\ Len(w) = n + 1 - k
  BY <1>2, <1>3, <1>4
<1>6. [todo |-> <<Exec>>, output |-> o, input |-> w] \in Calls(nodes)
  BY <1>2, <1>5, ExecuteMade
<1>7. a.todo = <<Exec>>
  BY DEF Executes
<1> QED BY <1>1, <1>4, <1>6, <1>7, Zenon

LEMMA ExecuteValue ==
  ASSUME NEW nodes, NEW a, Executes(a), a.output # <<>>, Head(a.output) \in Values
  PROVE  [todo |-> a.todo, output |-> Tail(a.output), input |-> Append(a.input, Head(a.output))] \in Calls(nodes)
<1>1. PICK s, n, o, e : s = a.input /\ n = Len(s) /\ o = Tail(a.output) /\ e = Head(a.output)
  OBVIOUS
<1>2. Arity(e) = 0
  BY <1>1, ElementsAre, BinaryOpsAre DEF Arity
<1>3. /\ s \in Seq(Values) /\ n \in Nat /\ o \in Seq(Elements) /\ Runs(o, n + 1 - 0, 1)
  BY <1>1, <1>2, ExecuteIs
<1>4. PICK w : w = Append(s, e)
  OBVIOUS
<1>5. w \in Seq(Values) /\ Len(w) = n + 1 - 0
  BY <1>1, <1>3, <1>4
<1>6. [todo |-> <<Exec>>, output |-> o, input |-> w] \in Calls(nodes)
  BY <1>3, <1>5, ExecuteMade
<1>7. a.todo = <<Exec>>
  BY DEF Executes
<1> QED BY <1>1, <1>4, <1>6, <1>7, Zenon

(* The operands of the next operation are numbers.                         *)
LEMMA OperandsAre ==
  ASSUME NEW a, Executes(a), a.output # <<>>, NEW k, k = Arity(Head(a.output)), k \in {1, 2}
  PROVE  \A i \in 1 .. k : IsNumber(a.input[Len(a.input) - k + i].x)
<1>1. PICK s, n : s = a.input /\ n = Len(s)
  OBVIOUS
<1>2. s \in Seq(Values) /\ n \in Nat /\ n >= k
  BY <1>1, ExecuteIs
<1>3. ASSUME NEW i \in 1 .. k PROVE IsNumber(s[n - k + i].x)
  <2>1. n - k + i \in 1 .. n
    BY <1>2
  <2>2. s[n - k + i] \in Values
    BY <1>1, <1>2, <2>1
  <2> QED BY <2>2, ElementsAre
<1> QED BY <1>1, <1>3

(* All calls but the innermost wait for the condition of a ?:.             *)
Stacked(s, nodes) ==
  /\ s \in Seq(Calls(nodes))
  /\ \A i \in 1 .. Len(s) - 1 : s[i].todo # <<>> /\ Head(s[i].todo).do = "branch"
  /\ s # <<>> => Ready(s[Len(s)].todo)

LEMMA StackPut ==
  ASSUME NEW nodes, NEW s, Stacked(s, nodes), s # <<>>, NEW b \in Calls(nodes), Ready(b.todo)
  PROVE  Stacked([s EXCEPT ![Len(s)] = b], nodes) /\ [s EXCEPT ![Len(s)] = b] # <<>>
<1>1. PICK n, t : n = Len(s) /\ t = [s EXCEPT ![Len(s)] = b]
  OBVIOUS
<1>2. s \in Seq(Calls(nodes))
  BY DEF Stacked
<1>3. /\ t \in Seq(Calls(nodes)) /\ Len(t) = n /\ t[n] = b
      /\ \A i \in 1 .. n - 1 : t[i] = s[i]
  BY <1>1, <1>2, LastReplaced
<1>4. \A i \in 1 .. n - 1 : t[i].todo # <<>> /\ Head(t[i].todo).do = "branch"
  BY <1>1, <1>3 DEF Stacked
<1>5. t # <<>>
  BY <1>1, <1>2, <1>3
<1>6. Stacked(t, nodes)
  BY <1>3, <1>4 DEF Stacked
<1> QED BY <1>1, <1>5, <1>6

LEMMA StackPush ==
  ASSUME NEW nodes, NEW s, Stacked(s, nodes), s # <<>>, NEW b \in Calls(nodes),
         b.todo # <<>>, Head(b.todo).do = "branch", NEW c \in Calls(nodes), Ready(c.todo)
  PROVE  /\ Stacked(Append([s EXCEPT ![Len(s)] = b], c), nodes)
         /\ Append([s EXCEPT ![Len(s)] = b], c) # <<>>
<1>1. PICK n, t : n = Len(s) /\ t = [s EXCEPT ![Len(s)] = b]
  OBVIOUS
<1>2. s \in Seq(Calls(nodes))
  BY DEF Stacked
<1>3. /\ t \in Seq(Calls(nodes)) /\ Len(t) = n /\ t[n] = b /\ n \in Nat \ {0}
      /\ \A i \in 1 .. n - 1 : t[i] = s[i]
  BY <1>1, <1>2, LastReplaced
<1>4. \A i \in 1 .. n : t[i].todo # <<>> /\ Head(t[i].todo).do = "branch"
  <2>1. \A i \in 1 .. n - 1 : t[i].todo # <<>> /\ Head(t[i].todo).do = "branch"
    BY <1>1, <1>3 DEF Stacked
  <2>2. \A i \in 1 .. n : i \in 1 .. n - 1 \/ i = n
    BY <1>3
  <2> QED BY <1>3, <2>1, <2>2
<1>5. PICK u : u = Append(t, c)
  OBVIOUS
<1>6. /\ u \in Seq(Calls(nodes)) /\ Len(u) = n + 1 /\ u[n + 1] = c /\ u # <<>>
      /\ \A i \in 1 .. n : u[i] = t[i]
  BY <1>3, <1>5
<1>7. \A i \in 1 .. Len(u) - 1 : u[i].todo # <<>> /\ Head(u[i].todo).do = "branch"
  <2>1. Len(u) - 1 = n
    BY <1>3, <1>6
  <2> QED BY <1>4, <1>6, <2>1
<1>8. Stacked(u, nodes)
  BY <1>6, <1>7 DEF Stacked
<1> QED BY <1>1, <1>5, <1>6, <1>8

LEMMA StackPop ==
  ASSUME NEW nodes, NEW s, Stacked(s, nodes), Len(s) > 1, NEW b \in Calls(nodes), Ready(b.todo)
  PROVE  /\ Stacked(Append(SubSeq(s, 1, Len(s) - 2), b), nodes)
         /\ Append(SubSeq(s, 1, Len(s) - 2), b) # <<>>
         /\ s[Len(s) - 1] \in Calls(nodes) /\ s[Len(s) - 1].todo # <<>>
         /\ Head(s[Len(s) - 1].todo).do = "branch"
<1>1. PICK n, t : n = Len(s) /\ t = SubSeq(s, 1, n - 2)
  OBVIOUS
<1>2. s \in Seq(Calls(nodes)) /\ n \in Nat /\ n > 1
  BY <1>1 DEF Stacked
<1>3. /\ t \in Seq(Calls(nodes)) /\ Len(t) = n - 2
      /\ \A i \in 1 .. n - 2 : t[i] = s[i]
  <2>1. n - 2 \in 0 .. Len(s)
    BY <1>1, <1>2
  <2> QED BY <1>1, <1>2, <2>1, PrefixIs
<1>4. PICK u : u = Append(t, b)
  OBVIOUS
<1>5. /\ u \in Seq(Calls(nodes)) /\ Len(u) = n - 1 /\ u[n - 1] = b /\ u # <<>>
      /\ \A i \in 1 .. n - 2 : u[i] = t[i]
  BY <1>2, <1>3, <1>4
<1>6. \A i \in 1 .. n - 1 : s[i].todo # <<>> /\ Head(s[i].todo).do = "branch"
  BY <1>1 DEF Stacked
<1>7. \A i \in 1 .. Len(u) - 1 : u[i].todo # <<>> /\ Head(u[i].todo).do = "branch"
  <2>1. \A i \in 1 .. Len(u) - 1 : i \in 1 .. n - 2 /\ i \in 1 .. n - 1
    BY <1>2, <1>5
  <2> QED BY <1>3, <1>5, <1>6, <2>1
<1>8. Stacked(u, nodes)
  BY <1>5, <1>7 DEF Stacked
<1>9. n - 1 \in 1 .. n - 1 /\ n - 1 \in 1 .. Len(s)
  BY <1>1, <1>2
<1>10. s[n - 1] \in Calls(nodes) /\ s[n - 1].todo # <<>> /\ Head(s[n - 1].todo).do = "branch"
  BY <1>2, <1>6, <1>9
<1> QED BY <1>1, <1>4, <1>5, <1>8, <1>10

LEMMA StackTop ==
  ASSUME NEW nodes, NEW s, Stacked(s, nodes), s # <<>>
  PROVE  s[Len(s)] \in Calls(nodes) /\ Ready(s[Len(s)].todo)
<1>1. s \in Seq(Calls(nodes)) /\ Len(s) \in 1 .. Len(s)
  BY DEF Stacked
<1> QED BY <1>1 DEF Stacked

(* What can be done next with a valid tree.                                *)
LEMMA PartsAre ==
  ASSUME NEW nodes, DOMAIN nodes = 1 .. Len(nodes), Len(nodes) \in Nat, IsTree(nodes), IsValid(nodes),
         NEW i \in DOMAIN nodes
  PROVE  /\ nodes[i].op \in {"NUMBER", "IIF"} \cup Simple \cup BinaryOps
         /\ nodes[i].op = "NUMBER" => /\ IsLeaf(nodes[i].num)
                                      /\ psi_number_validate(data, nodes[i].num).type # "INVALID"
         /\ nodes[i].op = "CAST" => nodes[i].typ \in Types
         /\ nodes[i].op \in Simple => Reduce(nodes[i].u) \in Heads(nodes)
         /\ nodes[i].op \in BinaryOps => /\ Reduce(nodes[i].lhs) \in Heads(nodes)
                                         /\ Reduce(nodes[i].rhs) \in Heads(nodes)
                                         /\ Later(i) \in Pending(nodes)
         /\ nodes[i].op = "IIF" => /\ nodes[i].cond \in DOMAIN nodes
                                   /\ Reduce(nodes[i].truthy) \in Heads(nodes)
                                   /\ Reduce(nodes[i].falsy) \in Heads(nodes)
                                   /\ Branch(i) \in Heads(nodes)
<1>1. PICK e, n : e = nodes[i] /\ n = Len(nodes)
  OBVIOUS
<1>2. IsNode(e, i) /\ n \in Nat /\ i \in 1 .. n
  BY <1>1 DEF IsTree
<1>3. \A j \in 1 .. i - 1 : j \in 1 .. n /\ j \in DOMAIN nodes
  BY <1>1, <1>2
<1>4. \A j \in 1 .. i - 1 : Reduce(j) \in Heads(nodes)
  BY <1>3 DEF Heads
<1>5. /\ e.op = "NUMBER" => psi_number_validate(data, e.num).type # "INVALID"
      /\ e.op \in BinaryOps => e.rhs # 0
  BY <1>1 DEF IsValid, Null
<1>6. e.op \in BinaryOps => e.rhs \in 1 .. i - 1 /\ e.lhs \in 1 .. i - 1
  BY <1>2, <1>5 DEF IsNode
<1>7. /\ e.op \in BinaryOps => Later(i) \in Pending(nodes)
      /\ e.op = "IIF" => Branch(i) \in Heads(nodes)
  BY <1>1 DEF Pending, Heads
<1>8. /\ e.op \in {"NUMBER", "IIF"} \cup Simple \cup BinaryOps
      /\ e.op = "NUMBER" => IsLeaf(e.num)
      /\ e.op = "CAST" => e.typ \in Types
      /\ e.op \in Simple => e.u \in 1 .. i - 1
      /\ e.op = "IIF" => e.cond \in 1 .. i - 1 /\ e.truthy \in 1 .. i - 1 /\ e.falsy \in 1 .. i - 1
  BY <1>2 DEF IsNode
<1> QED BY <1>1, <1>3, <1>4, <1>5, <1>6, <1>7, <1>8

(* A call that starts.                                                     *)
LEMMA StartIs ==
  ASSUME NEW nodes, NEW i \in DOMAIN nodes
  PROVE  Start(i) \in Calls(nodes) /\ Ready(Start(i).todo)
<1>1. PICK x, r, t, e : x = Reduce(i) /\ r = <<>> /\ t = <<x>> /\ e = <<>>
  OBVIOUS
<1>2. x \in Heads(nodes) /\ x.do = "reduce"
  BY <1>1 DEF Heads, Reduce
<1>3. t \in Seq(Heads(nodes)) /\ t # <<>> /\ Head(t) = x /\ Tail(t) \in Seq(Pending(nodes))
  BY <1>1, <1>2
<1>4. t \in Todos(nodes) /\ Having(t) = 0 /\ Ready(t)
  BY <1>2, <1>3 DEF Todos, Having, Ready
<1>5. Count(e, Paren) = 0 /\ Count(t, Close) \in Nat
  <2>1. DOMAIN e = {} /\ IsFiniteSet({})
    BY <1>1, FS_EmptySet
  <2>2. Len(t) \in 0 .. Len(t)
    BY <1>3
  <2> QED BY <1>3, <2>1, <2>2, CountNat, CountPrefix
<1>6. e \in Seq(Elements) /\ e \in Seq(Entries) /\ Waiting(e, 0) /\ Runs(e, 0, 0 + Having(t))
  <2>1. Runs(e, 0, 0) /\ Waiting(e, 0)
    BY <1>1, RunsNothing, WaitingNothing
  <2> QED BY <1>1, <1>4, <2>1
<1>7. [todo |-> t, output |-> e, input |-> e] \in Calls(nodes)
  BY <1>4, <1>5, <1>6, WalkMade
<1>8. Start(i) = [todo |-> t, output |-> e, input |-> e]
  BY <1>1 DEF Start, Reduce
<1> QED BY <1>4, <1>7, <1>8

(* Records of a call, and what EXCEPT makes of them.                       *)
IsCall(a, t, o, i) == a = [todo |-> t, output |-> o, input |-> i]

LEMMA Field ==
  ASSUME NEW t, NEW o, NEW i, NEW a, a = [todo |-> t, output |-> o, input |-> i]
  PROVE  /\ \A x : [a EXCEPT !.todo = x] = [todo |-> x, output |-> o, input |-> i]
         /\ \A x : [a EXCEPT !.output = x] = [todo |-> t, output |-> x, input |-> i]
         /\ \A x : [a EXCEPT !.input = x] = [todo |-> t, output |-> o, input |-> x]
OBVIOUS


Ex0(a, x) == [a EXCEPT !.todo = x]
Ex1(a, x, y) == [a EXCEPT !.todo = x, !.output = y]
Ex2(a, x, y) == [a EXCEPT !.todo = x, !.input = y]
Ex3(a, x, y) == [a EXCEPT !.output = x, !.input = y]
LEMMA TwoFields ==
  ASSUME NEW t, NEW o, NEW i, NEW a, IsCall(a, t, o, i), NEW x, NEW y
  PROVE  /\ Ex1(a, x, y) = [todo |-> x, output |-> y, input |-> i]
         /\ Ex2(a, x, y) = [todo |-> x, output |-> o, input |-> y]
         /\ Ex3(a, x, y) = [todo |-> t, output |-> x, input |-> y]
<1>1. PICK b : b = [todo |-> x, output |-> o, input |-> i]
  OBVIOUS
<1>2. PICK c : c = [todo |-> t, output |-> x, input |-> i]
  OBVIOUS
<1>3. /\ [a EXCEPT !.todo = x, !.output = y] = [[a EXCEPT !.todo = x] EXCEPT !.output = y]
      /\ [a EXCEPT !.todo = x, !.input = y] = [[a EXCEPT !.todo = x] EXCEPT !.input = y]
      /\ [a EXCEPT !.output = x, !.input = y] = [[a EXCEPT !.output = x] EXCEPT !.input = y]
  BY DEF IsCall
<1>4. [a EXCEPT !.todo = x] = b /\ [a EXCEPT !.output = x] = c
  BY <1>1, <1>2, Field DEF IsCall
<1>5. [b EXCEPT !.output = y] = [todo |-> x, output |-> y, input |-> i]
  BY <1>1, Field
<1>6. [b EXCEPT !.input = y] = [todo |-> x, output |-> o, input |-> y]
  BY <1>1, Field
<1>7. [c EXCEPT !.input = y] = [todo |-> t, output |-> x, input |-> y]
  BY <1>2, Field
<1> QED BY <1>3, <1>4, <1>5, <1>6, <1>7, Zenon DEF Ex1, Ex2, Ex3

Record(t, o, i) == [todo |-> t, output |-> o, input |-> i]
LEMMA Fields ==
  ASSUME NEW a, IsCall(a, a.todo, a.output, a.input), NEW x, NEW y
  PROVE  /\ Ex0(a, x) = Record(x, a.output, a.input)
         /\ Ex1(a, x, y) = Record(x, y, a.input)
         /\ Ex2(a, x, y) = Record(x, a.output, y)
         /\ Ex3(a, x, y) = Record(a.todo, x, y)
<1>1. [a EXCEPT !.todo = x] = [todo |-> x, output |-> a.output, input |-> a.input]
  <2>1. PICK t, o, i : t = a.todo /\ o = a.output /\ i = a.input
    OBVIOUS
  <2>2. IsCall(a, t, o, i)
    BY <2>1
  <2>3. [a EXCEPT !.todo = x] = [todo |-> x, output |-> o, input |-> i]
    BY <2>2, Field DEF IsCall
  <2> QED BY <2>1, <2>3, Zenon
<1>2. PICK t, o, i : t = a.todo /\ o = a.output /\ i = a.input
  OBVIOUS
<1>3. /\ Ex1(a, x, y) = [todo |-> x, output |-> y, input |-> i]
      /\ Ex2(a, x, y) = [todo |-> x, output |-> o, input |-> y]
      /\ Ex3(a, x, y) = [todo |-> t, output |-> x, input |-> y]
  <2>1. IsCall(a, t, o, i)
    BY <1>2
  <2> QED BY <2>1, TwoFields
<1> QED BY <1>1, <1>2, <1>3, Zenon DEF Record, Ex0

(* The operation that was executed last: its operands are numbers.         *)
LastOK ==
  /\ last.op \in BinaryOps =>
       /\ IsNumber(last.operands[1]) /\ IsNumber(last.operands[2])
       /\ last.r = Calculate(last.op, last.operands[1], last.operands[2])
  /\ last.op = "CAST" =>
       IsNumber(last.operands[1]) /\ \E t \in Types : last.r = psi_calc_cast(last.operands[1], t)

TreeOK == text \in Texts /\ exp = Parse(text) /\ Accepted(exp)

States == {"parsed", "running", "done", "invalid", "null pointer", "undefined", "assert"}

(* The invariant.                                                          *)
Inv ==
  /\ TreeOK /\ LastOK
  /\ state \in States
  /\ (acts = <<>>) <=> (state \in {"parsed", "invalid", "null pointer"})
  /\ Stacked(acts, exp.nodes)
  /\ acts # <<>> => IsValid(exp.nodes)
  /\ state = "done" => Len(acts) = 1 /\ Len(acts[1].input) = 1

LEMMA TreeIs ==
  ASSUME TreeOK
  PROVE  /\ Len(exp.nodes) \in Nat /\ DOMAIN exp.nodes = 1 .. Len(exp.nodes)
         /\ IsTree(exp.nodes) /\ Root(exp) \in DOMAIN exp.nodes
BY AcceptedIs DEF TreeOK

(* What is known of the innermost call.                                    *)
LEMMA Active ==
  ASSUME Inv, Running
  PROVE  /\ acts # <<>> /\ Top \in Calls(exp.nodes) /\ Ready(Top.todo)
         /\ Stacked(acts, exp.nodes) /\ IsValid(exp.nodes)
<1>1. acts # <<>>
  BY DEF Inv, Running
<1> QED BY <1>1, StackTop DEF Inv, Top

LEMMA Moved ==
  ASSUME Inv, Running, Stacked(acts', exp.nodes), acts' # <<>>, state' = state,
         text' = text, exp' = exp, LastOK'
  PROVE  Inv'
<1>1. IsValid(exp.nodes)
  BY Active
<1>2. TreeOK'
  BY DEF Inv, TreeOK
<1>3. state' = "running" /\ state' \in States
  BY DEF Running, States
<1> QED BY <1>1, <1>2, <1>3 DEF Inv

LEMMA Ended ==
  ASSUME Inv, Running, acts' = acts, state' \in {"undefined", "assert"},
         text' = text, exp' = exp, LastOK'
  PROVE  Inv'
<1>1. acts # <<>> /\ IsValid(exp.nodes)
  BY Active
<1>2. TreeOK'
  BY DEF Inv, TreeOK
<1>3. state' \in States /\ state' # "done"
  BY DEF States
<1> QED BY <1>1, <1>2, <1>3 DEF Inv

LEMMA Replaced ==
  ASSUME Inv, Running, NEW b \in Calls(exp.nodes), Ready(b.todo), acts' = [acts EXCEPT ![Len(acts)] = b],
         state' = state, text' = text, exp' = exp, LastOK'
  PROVE  Inv'
<1>1. acts # <<>> /\ Stacked(acts, exp.nodes)
  BY Active
<1>2. Stacked(acts', exp.nodes) /\ acts' # <<>>
  BY <1>1, StackPut
<1> QED BY <1>2, Moved

LEMMA Unlasted == ASSUME Inv, UNCHANGED last PROVE LastOK'
BY DEF Inv, LastOK

(* The first thing to be done is a call of psi_num_exp_reduce.             *)
LEMMA ReducingIs ==
  ASSUME Inv, NEW ops, Reducing(ops)
  PROVE  /\ Running /\ Walks(Top, exp.nodes) /\ Top.todo # <<>> /\ Head(Top.todo).do = "reduce"
         /\ IsCall(Top, Top.todo, Top.output, Top.input)
         /\ Head(Top.todo).e \in DOMAIN exp.nodes /\ Head(Top.todo) = Reduce(Head(Top.todo).e)
         /\ E_ = exp.nodes[Head(Top.todo).e] /\ E_.op \in ops
<1>1. /\ Running /\ Top.todo # <<>> /\ Head(Top.todo).do = "reduce"
      /\ exp.nodes[Head(Top.todo).e].op \in ops
  BY DEF Reducing
<1>2. Top \in Calls(exp.nodes)
  BY <1>1, Active
<1>3. /\ Walks(Top, exp.nodes)
      /\ IsCall(Top, Top.todo, Top.output, Top.input)
  BY <1>1, <1>2, CallIs DEF IsCall
<1>4. Head(Top.todo) \in Heads(exp.nodes)
  BY <1>1, <1>3, WalkIs
<1>5. Head(Top.todo).e \in DOMAIN exp.nodes /\ Head(Top.todo) = Reduce(Head(Top.todo).e)
  BY <1>1, <1>4, HeadIs
<1> QED BY <1>1, <1>3, <1>5 DEF E_

(* What is at E_.                                                          *)
LEMMA PartsOf ==
  ASSUME Inv, NEW ops, Reducing(ops)
  PROVE  /\ E_.op = "NUMBER" => /\ IsLeaf(E_.num)
                                /\ psi_number_validate(data, E_.num).type # "INVALID"
         /\ E_.op = "CAST" => E_.typ \in Types
         /\ E_.op \in Simple => Reduce(E_.u) \in Heads(exp.nodes)
         /\ E_.op \in BinaryOps => /\ Reduce(E_.lhs) \in Heads(exp.nodes)
                                   /\ Reduce(E_.rhs) \in Heads(exp.nodes)
                                   /\ Later(Head(Top.todo).e) \in Pending(exp.nodes)
         /\ E_.op = "IIF" => /\ E_.cond \in DOMAIN exp.nodes
                             /\ Branch(Head(Top.todo).e) \in Heads(exp.nodes)
<1>1. PICK i, nodes : i = Head(Top.todo).e /\ nodes = exp.nodes
  OBVIOUS
<1>2. i \in DOMAIN nodes /\ E_ = nodes[i] /\ Running
  BY <1>1, ReducingIs
<1>3. DOMAIN nodes = 1 .. Len(nodes) /\ Len(nodes) \in Nat /\ IsTree(nodes)
  BY <1>1, TreeIs DEF Inv
<1>4. IsValid(nodes)
  BY <1>1, <1>2, Active
<1> QED BY <1>1, <1>2, <1>3, <1>4, PartsAre

LEMMA NumberStep == ASSUME Inv, ReduceNumber PROVE Inv'
<1>1. PICK a, v : a = Top /\ v = psi_number_eval(data, psi_number_validate(data, E_.num))
  OBVIOUS
<1>2. PICK c : c = [a EXCEPT !.todo = Rest, !.output = Append(@, Element("VALUE", v))]
  OBVIOUS
<1>3. /\ Reducing({"NUMBER"})
      /\ \/ Die("assert")
         \/ Die("undefined")
         \/ v # Asserts /\ IsDefined(v) /\ Put(c) /\ UNCHANGED <<text, exp, state, last, result>>
  <2>1. /\ Reducing({"NUMBER"})
        /\ IF v = Asserts THEN Die("assert")
           ELSE IF ~ IsDefined(v) THEN Die("undefined")
           ELSE /\ Put([Top EXCEPT !.todo = Rest, !.output = Append(@, Element("VALUE", v))])
                /\ UNCHANGED <<text, exp, state, last, result>>
    BY <1>1, Zenon DEF ReduceNumber
  <2> QED BY <1>1, <1>2, <2>1, Zenon
<1>4. /\ Running /\ Walks(a, exp.nodes) /\ a.todo # <<>> /\ Head(a.todo).do = "reduce"
      /\ IsCall(a, a.todo, a.output, a.input) /\ E_.op = "NUMBER"
  BY <1>1, <1>3, ReducingIs
<1>5. v = Asserts \/ v \in Results
  <2>1. IsLeaf(E_.num) /\ psi_number_validate(data, E_.num).type # "INVALID"
    BY <1>3, <1>4, PartsOf
  <2> QED BY <1>1, <2>1, LeafEvaluates
<1>6. CASE Die("assert") \/ Die("undefined")
  <2>1. acts' = acts /\ state' \in {"undefined", "assert"} /\ text' = text /\ exp' = exp /\ UNCHANGED last
    BY <1>6 DEF Die
  <2> QED BY <1>4, <2>1, Ended, Unlasted
<1>7. CASE v # Asserts /\ IsDefined(v) /\ Put(c) /\ UNCHANGED <<text, exp, state, last, result>>
  <2>1. PICK w : w = Element("VALUE", v)
    OBVIOUS
  <2>2. w \in Values
    BY <1>5, <1>7, <2>1, InResults, ElementsAre
  <2>3. PICK b, t, o : b = [todo |-> t, output |-> o, input |-> a.input]
                       /\ t = Tail(a.todo) /\ o = Append(a.output, w)
    OBVIOUS
  <2>4. b \in Calls(exp.nodes) /\ Ready(b.todo)
    BY <1>4, <2>2, <2>3, WalkNumber
  <2>5. b = c
    <3>1. Ex1(a, t, o) = Record(t, o, a.input)
      BY <1>4, Fields
    <3> QED BY <1>1, <1>2, <2>1, <2>3, <3>1, Zenon DEF Rest, Ex1, Record
  <2>6. acts' = [acts EXCEPT ![Len(acts)] = b]
    BY <1>7, <2>5, Zenon DEF Put
  <2>7. state' = state /\ text' = text /\ exp' = exp /\ UNCHANGED last
    BY <1>7
  <2> QED BY <1>4, <2>4, <2>6, <2>7, Replaced, Unlasted
<1> QED BY <1>3, <1>6, <1>7

LEMMA ParenStep == ASSUME Inv, ReduceParen PROVE Inv'
<1>1. PICK a, y : a = Top /\ y = Reduce(E_.u)
  OBVIOUS
<1>2. Reducing({"LPAREN"}) /\ state' = state /\ text' = text /\ exp' = exp /\ UNCHANGED last
  BY DEF ReduceParen
<1>3. /\ Running /\ Walks(a, exp.nodes) /\ a.todo # <<>> /\ Head(a.todo).do = "reduce"
      /\ IsCall(a, a.todo, a.output, a.input) /\ E_.op = "LPAREN"
  BY <1>1, <1>2, ReducingIs
<1>4. y \in Heads(exp.nodes) /\ y.do = "reduce"
  BY <1>1, <1>2, <1>3, PartsOf DEF Simple, Reduce
<1>5. PICK b : b = [todo |-> <<y, Close>> \o Tail(a.todo), output |-> a.output, input |-> Append(a.input, Paren)]
  OBVIOUS
<1>6. b \in Calls(exp.nodes) /\ Ready(b.todo)
  <2>1. /\ [todo |-> <<y, Close>> \o Tail(a.todo), output |-> a.output,
             input |-> Append(a.input, Paren)] \in Calls(exp.nodes)
        /\ Ready(<<y, Close>> \o Tail(a.todo))
    BY <1>3, <1>4, WalkParen
  <2>2. b.todo = <<y, Close>> \o Tail(a.todo)
    BY <1>5
  <2> QED BY <1>5, <2>1, <2>2, Zenon
<1>7. acts' = [acts EXCEPT ![Len(acts)] = b]
  <2>1. Put([Top EXCEPT !.todo = Then(<<Reduce(E_.u), [do |-> "close"]>>),
                        !.input = Append(@, Element("LPAREN", 0))])
    BY DEF ReduceParen
  <2>2. Then(<<Reduce(E_.u), [do |-> "close"]>>) = <<y, Close>> \o Tail(a.todo)
    BY <1>1, Zenon DEF Then, Rest, Close
  <2>3. b = [a EXCEPT !.todo = <<y, Close>> \o Tail(a.todo), !.input = Append(@, Element("LPAREN", 0))]
    <3>1. PICK t, i : t = <<y, Close>> \o Tail(a.todo) /\ i = Append(a.input, Paren)
      OBVIOUS
    <3>2. Ex2(a, t, i) = Record(t, a.output, i)
      BY <1>3, Fields
    <3> QED BY <1>5, <3>1, <3>2, Zenon DEF Paren, Ex2, Record
  <2> QED BY <1>1, <2>1, <2>2, <2>3, Zenon DEF Put
<1> QED BY <1>2, <1>3, <1>6, <1>7, Replaced, Unlasted

LEMMA LeftStep == ASSUME Inv, ReduceLeft PROVE Inv'
<1>1. PICK a, y, i, z : a = Top /\ y = Reduce(E_.lhs) /\ i = Head(a.todo).e /\ z = Later(i)
  OBVIOUS
<1>2. Reducing(BinaryOps) /\ state' = state /\ text' = text /\ exp' = exp /\ UNCHANGED last
  BY DEF ReduceLeft
<1>3. /\ Running /\ Walks(a, exp.nodes) /\ a.todo # <<>> /\ Head(a.todo).do = "reduce"
      /\ IsCall(a, a.todo, a.output, a.input) /\ E_.op \in BinaryOps
      /\ Head(a.todo) = Reduce(i)
  BY <1>1, <1>2, ReducingIs
<1>4. y \in Heads(exp.nodes) /\ y.do = "reduce" /\ z \in Pending(exp.nodes) /\ z.do = "binary"
  BY <1>1, <1>2, <1>3, PartsOf DEF Reduce, Later
<1>5. PICK b : b = [todo |-> <<y, z>> \o Tail(a.todo), output |-> a.output, input |-> a.input]
  OBVIOUS
<1>6. b \in Calls(exp.nodes) /\ Ready(b.todo)
  <2>1. /\ [todo |-> <<y, z>> \o Tail(a.todo), output |-> a.output, input |-> a.input] \in Calls(exp.nodes)
        /\ Ready(<<y, z>> \o Tail(a.todo))
    BY <1>3, <1>4, WalkLeft
  <2>2. b.todo = <<y, z>> \o Tail(a.todo)
    BY <1>5
  <2> QED BY <1>5, <2>1, <2>2, Zenon
<1>7. acts' = [acts EXCEPT ![Len(acts)] = b]
  <2>1. Put([Top EXCEPT !.todo = Then(<<Reduce(E_.lhs), [Head(Top.todo) EXCEPT !.do = "binary"]>>)])
    BY DEF ReduceLeft
  <2>2. [Head(Top.todo) EXCEPT !.do = "binary"] = z
    BY <1>1, <1>3 DEF Reduce, Later
  <2>3. Then(<<Reduce(E_.lhs), [Head(Top.todo) EXCEPT !.do = "binary"]>>) = <<y, z>> \o Tail(a.todo)
    BY <1>1, <2>2, Zenon DEF Then, Rest
  <2>4. b = [a EXCEPT !.todo = <<y, z>> \o Tail(a.todo)]
    <3>1. PICK t : t = <<y, z>> \o Tail(a.todo)
      OBVIOUS
    <3>2. Ex0(a, t) = Record(t, a.output, a.input)
      BY <1>3, Fields
    <3> QED BY <1>5, <3>1, <3>2, Zenon DEF Record, Ex0
  <2> QED BY <1>1, <2>1, <2>3, <2>4, Zenon DEF Put
<1> QED BY <1>2, <1>3, <1>6, <1>7, Replaced, Unlasted

IsLast(keep, T) == keep = Max(T \cup {0})
LEMMA LastIs ==
  ASSUME NEW n \in Nat, NEW T \in SUBSET (1 .. n), NEW keep, IsLast(keep, T)
  PROVE  keep \in 0 .. n /\ (keep # 0 => keep \in T) /\ \A i \in keep + 1 .. n : i \notin T
<1>1. keep = Max(T \cup {0})
  BY DEF IsLast
<1> QED BY <1>1, LastOf

LEMMA CloseStep == ASSUME Inv, CloseParen PROVE Inv'
<1>1. PICK a, T, at : /\ a = Top /\ T = {i \in DOMAIN a.input : a.input[i].type = "LPAREN"}
                      /\ at = Max(T \cup {0})
  OBVIOUS
<1>2. /\ Running /\ a.todo # <<>> /\ Head(a.todo).do = "close"
      /\ state' = state /\ text' = text /\ exp' = exp /\ UNCHANGED last
  BY <1>1 DEF CloseParen
<1>3. Put([todo |-> Rest, output |-> Top.output \o Popped(Top.input, at + 1),
           input |-> SubSeq(Top.input, 1, at - 1)])
  <2>1. at = Max({i \in DOMAIN Top.input : Top.input[i].type = "LPAREN"} \cup {0})
    BY <1>1, Zenon
  <2> QED BY <2>1, Zenon DEF CloseParen, Kept
<1>4. Walks(a, exp.nodes)
  BY <1>1, <1>2, Active, CallIs
<1>5. a.input \in Seq(Entries)
  BY <1>4 DEF Walks
<1>6. at \in 0 .. Len(a.input) /\ (at # 0 => at \in T) /\ \A i \in at + 1 .. Len(a.input) : i \notin T
  <2>1. PICK n : n = Len(a.input)
    OBVIOUS
  <2>2. n \in Nat /\ T \in SUBSET (1 .. n)
    BY <1>1, <1>5, <2>1
  <2>3. IsLast(at, T)
    BY <1>1, Zenon DEF IsLast
  <2>4. at \in 0 .. n /\ (at # 0 => at \in T) /\ \A i \in at + 1 .. n : i \notin T
    BY <2>2, <2>3, LastIs
  <2> QED BY <2>1, <2>4
<1>7. /\ at # 0 => a.input[at].type = "LPAREN"
      /\ \A i \in at + 1 .. Len(a.input) : a.input[i].type # "LPAREN"
  <2>1. \A i \in at + 1 .. Len(a.input) : i \in DOMAIN a.input
    BY <1>5, <1>6
  <2> QED BY <1>1, <1>6, <2>1
<1>8. PICK b : b = [todo |-> Tail(a.todo), output |-> a.output \o Popped(a.input, at + 1),
                    input |-> SubSeq(a.input, 1, at - 1)]
  OBVIOUS
<1>9. b \in Calls(exp.nodes) /\ Ready(b.todo)
  <2>1. /\ [todo |-> Tail(a.todo), output |-> a.output \o Popped(a.input, at + 1),
            input |-> SubSeq(a.input, 1, at - 1)] \in Calls(exp.nodes)
        /\ Ready(Tail(a.todo))
    BY <1>2, <1>4, <1>6, <1>7, WalkClose
  <2>2. b.todo = Tail(a.todo)
    BY <1>8
  <2> QED BY <1>8, <2>1, <2>2, Zenon
<1>10. acts' = [acts EXCEPT ![Len(acts)] = b]
  BY <1>1, <1>3, <1>8, Zenon DEF Put, Rest
<1> QED BY <1>2, <1>9, <1>10, Replaced, Unlasted

LEMMA FlushStep == ASSUME Inv, Flush PROVE Inv'
<1>1. PICK a : a = Top
  OBVIOUS
<1>2. /\ Running /\ a.todo = <<>>
      /\ state' = state /\ text' = text /\ exp' = exp /\ UNCHANGED last
  BY <1>1 DEF Flush
<1>3. Walks(a, exp.nodes)
  BY <1>1, <1>2, Active, CallIs
<1>4. PICK b : b = [todo |-> <<Exec>>, output |-> a.output \o Popped(a.input, 1), input |-> <<>>]
  OBVIOUS
<1>5. b \in Calls(exp.nodes) /\ b.todo = <<Exec>>
  <2>1. [todo |-> <<Exec>>, output |-> a.output \o Popped(a.input, 1), input |-> <<>>] \in Calls(exp.nodes)
    BY <1>2, <1>3, WalkFlush
  <2> QED BY <1>4, <2>1, Zenon
<1>6. Ready(b.todo)
  BY <1>5 DEF Ready, Exec
<1>7. acts' = [acts EXCEPT ![Len(acts)] = b]
  <2>1. Put([todo |-> <<Exec>>, input |-> <<>>, output |-> Top.output \o Popped(Top.input, 1)])
    BY Zenon DEF Flush, Exec
  <2>2. [todo |-> <<Exec>>, input |-> <<>>, output |-> Top.output \o Popped(Top.input, 1)] = b
    <3>1. PICK o, e, t : o = Top.output \o Popped(Top.input, 1) /\ e = <<>> /\ t = <<Exec>>
      OBVIOUS
    <3>2. [todo |-> t, input |-> e, output |-> o] = [todo |-> t, output |-> o, input |-> e]
      OBVIOUS
    <3> QED BY <1>1, <1>4, <3>1, <3>2, Zenon
  <2> QED BY <2>1, <2>2, Zenon DEF Put
<1> QED BY <1>2, <1>5, <1>6, <1>7, Replaced, Unlasted

LEMMA ValidateStep == ASSUME Inv, Validate PROVE Inv'
<1>1. state = "parsed" /\ acts = <<>> /\ TreeOK /\ UNCHANGED <<text, exp, last>> /\ LastOK'
  BY DEF Inv, LastOK, Validate, Die
<1>2. TreeOK'
  BY <1>1 DEF TreeOK
<1>3. /\ Len(exp.nodes) \in Nat /\ DOMAIN exp.nodes = 1 .. Len(exp.nodes)
      /\ IsTree(exp.nodes) /\ Root(exp) \in DOMAIN exp.nodes
  BY <1>1, TreeIs
<1>4. /\ Validity(exp) \in {"ok", "invalid", "null pointer"}
      /\ Validity(exp) = "ok" => IsValid(exp.nodes)
  <2>1. DOMAIN exp.nodes \in SUBSET Nat
    BY <1>3
  <2> QED BY <1>3, <2>1, ValidityIs
<1>5. CASE Validity(exp) = "ok"
  <2>1. PICK c : c = Start(Root(exp))
    OBVIOUS
  <2>2. state' = "running" /\ acts' = <<c>>
    BY <1>5, <2>1 DEF Validate
  <2>3. c \in Calls(exp.nodes) /\ Ready(c.todo)
    BY <1>3, <2>1, StartIs
  <2>4. Stacked(acts', exp.nodes) /\ acts' # <<>>
    <3>1. PICK s : s = <<c>>
      OBVIOUS
    <3>2. s \in Seq(Calls(exp.nodes)) /\ Len(s) = 1 /\ s[1] = c /\ s # <<>>
      BY <2>3, <3>1
    <3> QED BY <2>2, <2>3, <3>1, <3>2 DEF Stacked
  <2> QED BY <1>1, <1>2, <1>4, <1>5, <2>2, <2>4 DEF Inv, States
<1>6. CASE Validity(exp) # "ok"
  <2>1. state' \in {"invalid", "null pointer"} /\ acts' = <<>>
    BY <1>1, <1>4, <1>6 DEF Validate, Die
  <2>2. Stacked(acts', exp.nodes)
    BY <1>1, <2>1 DEF Inv
  <2> QED BY <1>1, <1>2, <2>1, <2>2 DEF Inv, States
<1> QED BY <1>5, <1>6

LEMMA IifStep == ASSUME Inv, ReduceIif PROVE Inv'
<1>1. PICK a, z, i, c : a = Top /\ i = Head(a.todo).e /\ z = Branch(i) /\ c = Start(E_.cond)
  OBVIOUS
<1>2. Reducing({"IIF"}) /\ state' = state /\ text' = text /\ exp' = exp /\ UNCHANGED last
  BY DEF ReduceIif
<1>3. /\ Running /\ Walks(a, exp.nodes) /\ a.todo # <<>> /\ Head(a.todo).do = "reduce"
      /\ IsCall(a, a.todo, a.output, a.input) /\ E_.op = "IIF"
      /\ Head(a.todo) = Reduce(i)
  BY <1>1, <1>2, ReducingIs
<1>4. z \in Heads(exp.nodes) /\ z.do = "branch" /\ E_.cond \in DOMAIN exp.nodes
  BY <1>1, <1>2, <1>3, PartsOf DEF Branch
<1>5. c \in Calls(exp.nodes) /\ Ready(c.todo)
  BY <1>1, <1>4, StartIs
<1>6. PICK t, b : t = <<z>> \o Tail(a.todo) /\ b = [todo |-> t, output |-> a.output, input |-> a.input]
  OBVIOUS
<1>7. b \in Calls(exp.nodes) /\ b.todo # <<>> /\ Head(b.todo).do = "branch"
  <2>1. /\ [todo |-> <<z>> \o Tail(a.todo), output |-> a.output, input |-> a.input] \in Calls(exp.nodes)
        /\ <<z>> \o Tail(a.todo) # <<>> /\ Head(<<z>> \o Tail(a.todo)) = z
    BY <1>3, <1>4, WalkNext
  <2>2. b.todo = t
    BY <1>6
  <2>3. b \in Calls(exp.nodes) /\ t # <<>> /\ Head(t) = z
    BY <1>6, <2>1, Zenon
  <2> QED BY <1>4, <2>2, <2>3
<1>8. acts' = Append([acts EXCEPT ![Len(acts)] = b], c)
  <2>1. acts' = Append([acts EXCEPT ![Len(acts)].todo = Then(<<[Head(Top.todo) EXCEPT !.do = "branch"]>>)], Start(E_.cond))
    BY DEF ReduceIif
  <2>2. [Head(Top.todo) EXCEPT !.do = "branch"] = z
    BY <1>1, <1>3 DEF Reduce, Branch
  <2>3. Then(<<[Head(Top.todo) EXCEPT !.do = "branch"]>>) = t
    BY <1>1, <1>6, <2>2, Zenon DEF Then, Rest
  <2>4. [a EXCEPT !.todo = t] = b
    <3>1. Ex0(a, t) = Record(t, a.output, a.input)
      BY <1>3, Fields
    <3> QED BY <1>6, <3>1, Zenon DEF Record, Ex0
  <2>5. [acts EXCEPT ![Len(acts)].todo = t] = [acts EXCEPT ![Len(acts)] = [a EXCEPT !.todo = t]]
    BY <1>1 DEF Top
  <2> QED BY <1>1, <2>1, <2>3, <2>4, <2>5, Zenon
<1>9. Stacked(acts', exp.nodes) /\ acts' # <<>>
  <2>1. acts # <<>> /\ Stacked(acts, exp.nodes)
    BY <1>3, Active
  <2> QED BY <1>5, <1>7, <1>8, <2>1, StackPush
<1> QED BY <1>2, <1>3, <1>9, Moved, Unlasted

(* What an operator pops from the stack: never a parenthesis, and nothing  *)
(* if it is a prefix.                                                      *)
LEMMA EntryTypes ==
  ASSUME NEW nodes, NEW a, Walks(a, nodes)
  PROVE  /\ Len(a.input) \in Nat /\ DOMAIN a.input = 1 .. Len(a.input)
         /\ \A i \in DOMAIN a.input : a.input[i].type \in BinaryOps \cup UnaryOps \cup {"LPAREN"}
<1>1. a.input \in Seq(Entries)
  BY DEF Walks
<1>2. \A e \in Entries : e.type \in BinaryOps \cup UnaryOps \cup {"LPAREN"}
  BY ElementsAre DEF Entries
<1> QED BY <1>1, <1>2

LEMMA PopsNoParen ==
  ASSUME NEW nodes, NEW a, Walks(a, nodes), NEW op \in BinaryOps, NEW keep,
         IsLast(keep, {i \in DOMAIN a.input : psi_calc_oper(op, a.input[i].type) = -1})
  PROVE  /\ keep \in 0 .. Len(a.input)
         /\ \A i \in keep + 1 .. Len(a.input) : a.input[i].type # "LPAREN"
<1>1. PICK n, T : n = Len(a.input) /\ T = {i \in DOMAIN a.input : psi_calc_oper(op, a.input[i].type) = -1}
  OBVIOUS
<1>2. n \in Nat /\ DOMAIN a.input = 1 .. n
  BY <1>1, EntryTypes
<1>3. T \in SUBSET (1 .. n)
  BY <1>1, <1>2
<1>4. keep \in 0 .. n /\ \A i \in keep + 1 .. n : i \notin T
  <2>1. IsLast(keep, T)
    BY <1>1, Zenon
  <2> QED BY <1>2, <1>3, <2>1, LastIs
<1>5. ASSUME NEW i \in keep + 1 .. n, a.input[i].type = "LPAREN" PROVE FALSE
  <2>1. i \in DOMAIN a.input
    BY <1>2, <1>4
  <2>2. psi_calc_oper(op, a.input[i].type) = -1
    BY <1>5, Binding
  <2> QED BY <1>1, <1>4, <2>1, <2>2
<1> QED BY <1>1, <1>4, <1>5

LEMMA PopsNothing ==
  ASSUME NEW nodes, NEW a, Walks(a, nodes), NEW op \in UnaryOps, NEW keep,
         IsLast(keep, {i \in DOMAIN a.input : psi_calc_oper(op, a.input[i].type) # 1})
  PROVE  keep = Len(a.input)
<1>1. PICK n, T : n = Len(a.input) /\ T = {i \in DOMAIN a.input : psi_calc_oper(op, a.input[i].type) # 1}
  OBVIOUS
<1>2. /\ n \in Nat /\ DOMAIN a.input = 1 .. n
      /\ \A i \in DOMAIN a.input : a.input[i].type \in BinaryOps \cup UnaryOps \cup {"LPAREN"}
  BY <1>1, EntryTypes
<1>3. T = 1 .. n
  BY <1>1, <1>2, Binding
<1>4. keep \in 0 .. n /\ \A i \in keep + 1 .. n : i \notin T
  <2>1. IsLast(keep, T)
    BY <1>1, Zenon
  <2>2. T \in SUBSET (1 .. n)
    BY <1>3
  <2> QED BY <1>2, <2>1, <2>2, LastIs
<1>5. keep < n => n \in keep + 1 .. n /\ n \in 1 .. n
  BY <1>2, <1>4
<1> QED BY <1>1, <1>2, <1>3, <1>4, <1>5

LEMMA RightStep == ASSUME Inv, ReduceRight PROVE Inv'
<1>1. PICK a, y, op, T, keep :
        /\ a = Top /\ y = Reduce(E_.rhs) /\ op = E_.op
        /\ T = {i \in DOMAIN a.input : psi_calc_oper(op, a.input[i].type) = -1} /\ keep = Max(T \cup {0})
  OBVIOUS
<1>2. /\ Running /\ a.todo # <<>> /\ Head(a.todo).do = "binary"
      /\ state' = state /\ text' = text /\ exp' = exp /\ UNCHANGED last
  BY <1>1 DEF ReduceRight
<1>3. Put([todo |-> Then(<<Reduce(E_.rhs)>>), output |-> Top.output \o Popped(Top.input, keep + 1),
           input |-> Append(SubSeq(Top.input, 1, keep), Element(E_.op, 0))])
  <2>1. keep = Max({i \in DOMAIN Top.input : psi_calc_oper(E_.op, Top.input[i].type) = -1} \cup {0})
    BY <1>1, Zenon
  <2> QED BY <2>1, Zenon DEF ReduceRight, Pushed, Kept
<1>4. Walks(a, exp.nodes)
  BY <1>1, <1>2, Active, CallIs
<1>5. op \in BinaryOps /\ y \in Heads(exp.nodes) /\ y.do = "reduce"
  <2>1. PICK i, nodes : i = Head(a.todo).e /\ nodes = exp.nodes
    OBVIOUS
  <2>2. Head(a.todo) \in Heads(nodes)
    BY <1>2, <1>4, <2>1, WalkIs
  <2>3. i \in DOMAIN nodes /\ nodes[i].op \in BinaryOps
    BY <1>2, <2>1, <2>2, HeadIs
  <2>4. DOMAIN nodes = 1 .. Len(nodes) /\ Len(nodes) \in Nat /\ IsTree(nodes) /\ IsValid(nodes)
    BY <1>2, <2>1, TreeIs, Active DEF Inv
  <2>5. E_ = nodes[i]
    BY <1>1, <2>1 DEF E_
  <2>6. Reduce(nodes[i].rhs) \in Heads(nodes)
    BY <2>3, <2>4, PartsAre
  <2> QED BY <1>1, <2>1, <2>3, <2>5, <2>6 DEF Reduce
<1>6. /\ keep \in 0 .. Len(a.input)
      /\ \A i \in keep + 1 .. Len(a.input) : a.input[i].type # "LPAREN"
  <2>1. IsLast(keep, {i \in DOMAIN a.input : psi_calc_oper(op, a.input[i].type) = -1})
    BY <1>1, Zenon DEF IsLast
  <2> QED BY <1>4, <1>5, <2>1, PopsNoParen
<1>7. PICK b : b = [todo |-> <<y>> \o Tail(a.todo), output |-> a.output \o Popped(a.input, keep + 1),
                    input |-> Append(SubSeq(a.input, 1, keep), Element(op, 0))]
  OBVIOUS
<1>8. b \in Calls(exp.nodes) /\ Ready(b.todo)
  <2>1. /\ [todo |-> <<y>> \o Tail(a.todo), output |-> a.output \o Popped(a.input, keep + 1),
            input |-> Append(SubSeq(a.input, 1, keep), Element(op, 0))] \in Calls(exp.nodes)
        /\ Ready(<<y>> \o Tail(a.todo))
    BY <1>2, <1>4, <1>5, <1>6, WalkRight
  <2>2. b.todo = <<y>> \o Tail(a.todo)
    BY <1>7
  <2> QED BY <1>7, <2>1, <2>2, Zenon
<1>9. acts' = [acts EXCEPT ![Len(acts)] = b]
  BY <1>1, <1>3, <1>7, Zenon DEF Put, Then, Rest
<1> QED BY <1>2, <1>8, <1>9, Replaced, Unlasted

LEMMA PrefixStep == ASSUME Inv, ReducePrefix PROVE Inv'
<1>1. PICK a, y, op, T, keep, x, e :
        /\ a = Top /\ y = Reduce(E_.u) /\ op = E_.op
        /\ T = {i \in DOMAIN a.input : psi_calc_oper(op, a.input[i].type) # 1} /\ keep = Max(T \cup {0})
        /\ x = (IF E_.op = "CAST" THEN E_.typ ELSE 0) /\ e = Element(op, x)
  OBVIOUS
<1>2. Reducing(UnaryOps) /\ state' = state /\ text' = text /\ exp' = exp /\ UNCHANGED last
  BY DEF ReducePrefix
<1>3. Put([todo |-> Then(<<Reduce(E_.u)>>), output |-> Top.output \o Popped(Top.input, keep + 1),
           input |-> Append(SubSeq(Top.input, 1, keep), Element(E_.op, x))])
  <2>1. keep = Max({i \in DOMAIN Top.input : psi_calc_oper(E_.op, Top.input[i].type) # 1} \cup {0})
    BY <1>1, Zenon
  <2> QED BY <1>1, <2>1, Zenon DEF ReducePrefix, Pushed, Kept
<1>4. /\ Running /\ Walks(a, exp.nodes) /\ a.todo # <<>> /\ Head(a.todo).do = "reduce"
      /\ op \in UnaryOps
  BY <1>1, <1>2, ReducingIs
<1>5. y \in Heads(exp.nodes) /\ y.do = "reduce" /\ (op = "CAST" => E_.typ \in Types)
  <2>1. UnaryOps \subseteq Simple
    BY DEF UnaryOps, Simple
  <2> QED BY <1>1, <1>2, <1>4, <2>1, PartsOf DEF Reduce
<1>6. e \in Ops /\ Waits(e) = 0
  <2>1. op \in {"NOT", "TILDE", "CAST"}
    BY <1>4 DEF UnaryOps
  <2>2. e \in Ops
    BY <1>1, <1>5, <2>1, ElementsAre
  <2>3. e.type = op
    <3>1. Element(op, x).type = op
      BY DEF Element
    <3> QED BY <1>1, <3>1, Zenon
  <2>4. op \notin BinaryOps
    BY <2>1, BinaryDiffer DEF Simple
  <2> QED BY <2>2, <2>3, <2>4 DEF Waits
<1>7. keep = Len(a.input)
  <2>1. IsLast(keep, {i \in DOMAIN a.input : psi_calc_oper(op, a.input[i].type) # 1})
    BY <1>1, Zenon DEF IsLast
  <2> QED BY <1>4, <2>1, PopsNothing
<1>8. PICK b : b = [todo |-> <<y>> \o Tail(a.todo), output |-> a.output \o Popped(a.input, keep + 1),
                    input |-> Append(SubSeq(a.input, 1, keep), e)]
  OBVIOUS
<1>9. b \in Calls(exp.nodes) /\ Ready(b.todo)
  <2>1. /\ [todo |-> <<y>> \o Tail(a.todo), output |-> a.output \o Popped(a.input, keep + 1),
            input |-> Append(SubSeq(a.input, 1, keep), e)] \in Calls(exp.nodes)
        /\ Ready(<<y>> \o Tail(a.todo))
    BY <1>4, <1>5, <1>6, <1>7, WalkPrefix
  <2>2. b.todo = <<y>> \o Tail(a.todo)
    BY <1>8
  <2> QED BY <1>8, <2>1, <2>2, Zenon
<1>10. acts' = [acts EXCEPT ![Len(acts)] = b]
  BY <1>1, <1>3, <1>8, Zenon DEF Put, Then, Rest
<1> QED BY <1>2, <1>4, <1>9, <1>10, Replaced, Unlasted

(* What is known of a call that executes its program.                      *)
LEMMA ExecutingIs ==
  ASSUME Inv, NEW types, Executing(types)
  PROVE  /\ Running /\ Executes(Top) /\ Top.output # <<>> /\ IsCall(Top, Top.todo, Top.output, Top.input)
         /\ Entry = Head(Top.output) /\ Entry \in Elements /\ Entry.type \in types
         /\ Len(Top.input) \in Nat /\ Len(Top.input) >= Arity(Entry) /\ Ready(Top.todo)
<1>1. Running /\ Top.todo # <<>> /\ Head(Top.todo).do = "exec" /\ Top.output # <<>>
      /\ Entry = Head(Top.output) /\ Entry.type \in types
  BY DEF Executing, Entry
<1>2. Top \in Calls(exp.nodes) /\ Ready(Top.todo)
  BY <1>1, Active
<1>3. Executes(Top) /\ IsCall(Top, Top.todo, Top.output, Top.input)
  BY <1>1, <1>2, CallIs DEF IsCall
<1> QED BY <1>1, <1>2, <1>3, ExecuteIs

LEMMA ExecValueStep == ASSUME Inv, ExecValue PROVE Inv'
<1>1. PICK a : a = Top
  OBVIOUS
<1>2. Executing({"VALUE", "LPAREN"}) /\ state' = state /\ text' = text /\ exp' = exp /\ UNCHANGED last
  BY DEF ExecValue
<1>3. /\ Running /\ Executes(a) /\ a.output # <<>> /\ IsCall(a, a.todo, a.output, a.input)
      /\ Entry = Head(a.output) /\ Entry \in Elements /\ Entry.type \in {"VALUE", "LPAREN"}
      /\ Ready(a.todo)
  BY <1>1, <1>2, ExecutingIs
<1>4. Head(a.output) \in Values
  BY <1>3, ElementsAre DEF Elements
<1>5. PICK o, i, b : o = Tail(a.output) /\ i = Append(a.input, Head(a.output))
                     /\ b = [todo |-> a.todo, output |-> o, input |-> i]
  OBVIOUS
<1>6. b \in Calls(exp.nodes) /\ Ready(b.todo)
  <2>1. [todo |-> a.todo, output |-> Tail(a.output), input |-> Append(a.input, Head(a.output))] \in Calls(exp.nodes)
    BY <1>3, <1>4, ExecuteValue
  <2>2. b.todo = a.todo
    BY <1>5
  <2> QED BY <1>3, <1>5, <2>1, <2>2, Zenon
<1>7. acts' = [acts EXCEPT ![Len(acts)] = b]
  <2>1. Put([Top EXCEPT !.output = Tail(@), !.input = Append(@, Entry)])
    BY DEF ExecValue
  <2>2. Ex3(a, o, i) = Record(a.todo, o, i)
    BY <1>3, Fields
  <2>3. [Top EXCEPT !.output = Tail(@), !.input = Append(@, Entry)] = b
    BY <1>1, <1>3, <1>5, <2>2, Zenon DEF Ex3, Record
  <2> QED BY <2>1, <2>3, Zenon DEF Put
<1> QED BY <1>2, <1>3, <1>6, <1>7, Replaced, Unlasted

(* What Execute makes of the last n values, when they are there.           *)
Effect(n, operands, v) ==
  /\ last' = [op |-> Entry.type, operands |-> operands, r |-> v]
  /\ \/ state' = "assert" /\ UNCHANGED acts
     \/ state' = "undefined" /\ UNCHANGED acts
     \/ /\ IsDefined(v) /\ UNCHANGED state
        /\ Put([Top EXCEPT !.output = Tail(@),
                           !.input = Append(SubSeq(@, 1, Len(@) - n), Element("VALUE", v))])
  /\ UNCHANGED <<text, exp, result>>

LEMMA OperandsOf ==
  ASSUME Inv, NEW types, Executing(types), NEW n, n = Arity(Entry), n \in {1, 2}
  PROVE  \A i \in 1 .. n : IsNumber(Popping(n)[i])
<1>1. PICK a : a = Top
  OBVIOUS
<1>2. Executes(a) /\ a.output # <<>> /\ Entry = Head(a.output)
  BY <1>1, ExecutingIs
<1>3. \A i \in 1 .. n : IsNumber(a.input[Len(a.input) - n + i].x)
  BY <1>2, OperandsAre
<1>4. \A i \in 1 .. n : Popping(n)[i] = a.input[Len(a.input) - n + i].x
  BY <1>1 DEF Popping
<1> QED BY <1>3, <1>4

LEMMA Executed ==
  ASSUME Inv, NEW types, Executing(types), NEW n, n = Arity(Entry), n \in {1, 2},
         NEW v \in Results, Effect(n, Popping(n), v), LastOK'
  PROVE  Inv'
<1>1. PICK a, w : a = Top /\ w = Element("VALUE", v)
  OBVIOUS
<1>2. /\ Running /\ Executes(a) /\ a.output # <<>> /\ IsCall(a, a.todo, a.output, a.input)
      /\ Entry = Head(a.output) /\ Ready(a.todo)
  BY <1>1, ExecutingIs
<1>3. PICK o, i, b : o = Tail(a.output) /\ i = Append(SubSeq(a.input, 1, Len(a.input) - n), w)
                     /\ b = [todo |-> a.todo, output |-> o, input |-> i]
  OBVIOUS
<1>4. [Top EXCEPT !.output = Tail(@), !.input = Append(SubSeq(@, 1, Len(@) - n), Element("VALUE", v))] = b
  <2>1. Ex3(a, o, i) = Record(a.todo, o, i)
    BY <1>2, Fields
  <2> QED BY <1>1, <1>3, <2>1, Zenon DEF Ex3, Record
<1>5. /\ text' = text /\ exp' = exp
      /\ \/ acts' = acts /\ state' \in {"undefined", "assert"}
         \/ IsDefined(v) /\ state' = state /\ Put(b)
  BY <1>4, Zenon DEF Effect
<1>6. CASE acts' = acts /\ state' \in {"undefined", "assert"}
  BY <1>2, <1>5, <1>6, Ended
<1>7. CASE IsDefined(v) /\ state' = state /\ Put(b)
  <2>1. w \in Values
    BY <1>1, <1>7, InResults, ElementsAre
  <2>2. b \in Calls(exp.nodes) /\ Ready(b.todo)
    <3>1. [todo |-> a.todo, output |-> Tail(a.output),
           input |-> Append(SubSeq(a.input, 1, Len(a.input) - n), w)] \in Calls(exp.nodes)
      BY <1>2, <2>1, ExecuteStep
    <3>2. b.todo = a.todo
      BY <1>3
    <3> QED BY <1>2, <1>3, <3>1, <3>2, Zenon
  <2>3. acts' = [acts EXCEPT ![Len(acts)] = b]
    BY <1>7 DEF Put
  <2> QED BY <1>2, <1>5, <1>7, <2>2, <2>3, Replaced
<1> QED BY <1>5, <1>6, <1>7

LEMMA ExecBinaryStep == ASSUME Inv, ExecBinary PROVE Inv'
<1>1. Executing(BinaryOps)
  BY DEF ExecBinary
<1>2. Entry.type \in BinaryOps /\ Arity(Entry) = 2 /\ Len(Top.input) \in Nat /\ Len(Top.input) >= 2
  BY <1>1, ExecutingIs DEF Arity
<1>3. PICK p, v : p = Popping(2) /\ v = Calculate(Entry.type, p[1], p[2])
  OBVIOUS
<1>4. IsNumber(p[1]) /\ IsNumber(p[2])
  BY <1>1, <1>2, <1>3, OperandsOf
<1>5. v \in Results
  BY <1>2, <1>3, <1>4, Calculated, InResults
<1>6. Effect(2, p, v)
  <2>1. ~ (Len(Top.input) < 2)
    BY <1>2
  <2> QED BY <1>3, <2>1, Zenon DEF ExecBinary, Execute, Effect
<1>7. LastOK'
  <2>1. last' = [op |-> Entry.type, operands |-> p, r |-> v]
    BY <1>6 DEF Effect
  <2>2. last'.op = Entry.type /\ last'.operands = p /\ last'.r = v /\ Entry.type # "CAST"
    BY <1>2, <2>1, BinaryDiffer DEF Simple
  <2> QED BY <1>2, <1>3, <1>4, <2>2 DEF LastOK
<1> QED BY <1>1, <1>2, <1>3, <1>5, <1>6, <1>7, Executed

LEMMA ExecUnaryStep == ASSUME Inv, ExecUnary PROVE Inv'
<1>1. Executing({"NOT", "TILDE"})
  BY DEF ExecUnary
<1>2. /\ Entry.type \in {"NOT", "TILDE"} /\ Len(Top.input) \in Nat /\ Len(Top.input) >= Arity(Entry)
      /\ Entry.type \notin BinaryOps
  BY <1>1, ExecutingIs, BinaryDiffer DEF Simple
<1>3. Arity(Entry) = 1
  BY <1>2 DEF Arity
<1>4. PICK p, v : p = Popping(1) /\ v = Calculate1(Entry.type, p[1])
  OBVIOUS
<1>5. IsNumber(p[1])
  BY <1>1, <1>3, <1>4, OperandsOf
<1>6. v \in Results
  BY <1>2, <1>4, <1>5, Calculated1, InResults
<1>7. Effect(1, p, v)
  <2>1. ~ (Len(Top.input) < 1)
    BY <1>2, <1>3
  <2> QED BY <1>4, <2>1, Zenon DEF ExecUnary, Execute, Effect
<1>8. LastOK'
  <2>1. last' = [op |-> Entry.type, operands |-> p, r |-> v]
    BY <1>7 DEF Effect
  <2>2. last'.op = Entry.type
    BY <2>1
  <2> QED BY <1>2, <2>2 DEF LastOK
<1> QED BY <1>1, <1>3, <1>4, <1>6, <1>7, <1>8, Executed

LEMMA ExecCastStep == ASSUME Inv, ExecCast PROVE Inv'
<1>1. Executing({"CAST"})
  BY DEF ExecCast
<1>2. /\ Entry.type = "CAST" /\ Len(Top.input) \in Nat /\ Len(Top.input) >= Arity(Entry)
      /\ Entry.type \notin BinaryOps /\ Entry \in Elements
  BY <1>1, ExecutingIs, BinaryDiffer DEF Simple
<1>3. Arity(Entry) = 1 /\ Entry.x \in Types
  BY <1>2, ElementsAre DEF Arity, Elements
<1>4. PICK p, v : p = Popping(1) /\ v = psi_calc_cast(p[1], Entry.x)
  OBVIOUS
<1>5. IsNumber(p[1])
  BY <1>1, <1>3, <1>4, OperandsOf
<1>6. v \in Results
  BY <1>3, <1>4, <1>5, CastIs, Converted, InResults
<1>7. Effect(1, p, v)
  <2>1. ~ (Len(Top.input) < 1)
    BY <1>2, <1>3
  <2> QED BY <1>4, <2>1, Zenon DEF ExecCast, Execute, Effect
<1>8. LastOK'
  <2>1. last' = [op |-> Entry.type, operands |-> p, r |-> v]
    BY <1>7 DEF Effect
  <2>2. last'.op = Entry.type /\ last'.operands = p /\ last'.r = v
    BY <2>1
  <2> QED BY <1>2, <1>3, <1>4, <1>5, <2>2 DEF LastOK
<1> QED BY <1>1, <1>3, <1>4, <1>6, <1>7, <1>8, Executed

LEMMA FinishedIs ==
  ASSUME Inv, Finished
  PROVE  Running /\ Executes(Top) /\ Len(Top.input) = 1 /\ IsNumber(Outcome)
<1>1. PICK a : a = Top
  OBVIOUS
<1>2. Running /\ a.todo # <<>> /\ Head(a.todo).do = "exec" /\ a.output = <<>>
  BY <1>1 DEF Finished
<1>3. Executes(a)
  BY <1>1, <1>2, Active, CallIs
<1>4. Len(a.input) = 1 /\ IsNumber(a.input[Len(a.input)].x)
  BY <1>2, <1>3, ExecuteIs
<1> QED BY <1>1, <1>2, <1>3, <1>4 DEF Outcome

LEMMA BranchStep == ASSUME Inv, TakeBranch PROVE Inv'
<1>1. PICK a, i, branch, y :
        /\ a = acts[Len(acts) - 1] /\ i = Head(a.todo).e
        /\ branch = (IF psi_calc_bool_not(Outcome).n # 0 THEN exp.nodes[i].falsy ELSE exp.nodes[i].truthy)
        /\ y = Reduce(branch)
  OBVIOUS
<1>2. Finished /\ Len(acts) > 1 /\ state' = state /\ text' = text /\ exp' = exp /\ UNCHANGED last
  BY DEF TakeBranch
<1>3. acts' = Append(SubSeq(acts, 1, Len(acts) - 2), [a EXCEPT !.todo = <<y>> \o Tail(a.todo)])
  BY <1>1, Zenon DEF TakeBranch
<1>4. Running /\ Stacked(acts, exp.nodes) /\ IsValid(exp.nodes)
  BY <1>2, FinishedIs, Active
<1>5. a \in Calls(exp.nodes) /\ a.todo # <<>> /\ Head(a.todo).do = "branch"
  <2>1. PICK c : c \in Calls(exp.nodes) /\ Ready(c.todo)
    BY <1>4, Active
  <2> QED BY <1>1, <1>2, <1>4, <2>1, StackPop
<1>6. Walks(a, exp.nodes) /\ IsCall(a, a.todo, a.output, a.input)
  BY <1>5, CallIs DEF IsCall
<1>7. y \in Heads(exp.nodes) /\ y.do = "reduce"
  <2>1. PICK nodes : nodes = exp.nodes
    OBVIOUS
  <2>2. Head(a.todo) \in Heads(nodes)
    BY <1>5, <1>6, <2>1, WalkIs
  <2>3. i \in DOMAIN nodes /\ nodes[i].op = "IIF"
    BY <1>1, <1>5, <2>2, HeadIs
  <2>4. DOMAIN nodes = 1 .. Len(nodes) /\ Len(nodes) \in Nat /\ IsTree(nodes) /\ IsValid(nodes)
    BY <1>4, <2>1, TreeIs DEF Inv
  <2>5. Reduce(nodes[i].truthy) \in Heads(nodes) /\ Reduce(nodes[i].falsy) \in Heads(nodes)
    BY <2>3, <2>4, PartsAre
  <2>6. branch = nodes[i].truthy \/ branch = nodes[i].falsy
    BY <1>1, <2>1
  <2>7. y.do = "reduce"
    BY <1>1 DEF Reduce
  <2> QED BY <1>1, <2>1, <2>5, <2>6, <2>7
<1>8. PICK t, b : t = <<y>> \o Tail(a.todo) /\ b = [todo |-> t, output |-> a.output, input |-> a.input]
  OBVIOUS
<1>9. b \in Calls(exp.nodes) /\ Ready(b.todo)
  <2>1. /\ [todo |-> <<y>> \o Tail(a.todo), output |-> a.output, input |-> a.input] \in Calls(exp.nodes)
        /\ <<y>> \o Tail(a.todo) # <<>> /\ Head(<<y>> \o Tail(a.todo)) = y
    BY <1>5, <1>6, <1>7, WalkNext
  <2>2. b.todo = t
    BY <1>8
  <2>3. b \in Calls(exp.nodes) /\ t # <<>> /\ Head(t) = y
    BY <1>8, <2>1, Zenon
  <2> QED BY <1>7, <2>2, <2>3 DEF Ready
<1>10. acts' = Append(SubSeq(acts, 1, Len(acts) - 2), b)
  <2>1. Ex0(a, t) = Record(t, a.output, a.input)
    BY <1>6, Fields
  <2> QED BY <1>3, <1>8, <2>1, Zenon DEF Record, Ex0
<1>11. Stacked(acts', exp.nodes) /\ acts' # <<>>
  BY <1>2, <1>4, <1>9, <1>10, StackPop
<1> QED BY <1>2, <1>4, <1>11, Moved, Unlasted

LEMMA DeliverStep == ASSUME Inv, Deliver PROVE Inv'
<1>1. /\ Finished /\ Len(acts) = 1 /\ state' \in {"assert", "done", "undefined"}
      /\ UNCHANGED <<text, exp, acts, last>>
  BY DEF Deliver
<1>2. Len(acts[1].input) = 1 /\ Running
  BY <1>1, FinishedIs DEF Top
<1>3. acts # <<>> /\ IsValid(exp.nodes) /\ Stacked(acts, exp.nodes)
  BY <1>2, Active
<1>4. TreeOK' /\ LastOK'
  BY <1>1 DEF Inv, TreeOK, LastOK
<1> QED BY <1>1, <1>2, <1>3, <1>4 DEF Inv, States

LEMMA InitInv == ASSUME Init PROVE Inv
<1>1. TreeOK
  BY DEF Init, TreeOK
<1>2. LastOK
  <2>1. last.op = "none"
    BY DEF Init, NoOperation
  <2>2. "none" \notin BinaryOps
    BY BinaryOpsAre
  <2> QED BY <2>1, <2>2 DEF LastOK
<1>3. acts = <<>> /\ state = "parsed"
  BY DEF Init
<1>4. Stacked(acts, exp.nodes)
  <2>1. PICK s : s = <<>>
    OBVIOUS
  <2>2. s \in Seq(Calls(exp.nodes)) /\ Len(s) = 0 /\ \A i \in 1 .. Len(s) - 1 : FALSE
    BY <2>1
  <2> QED BY <1>3, <2>1, <2>2 DEF Stacked
<1> QED BY <1>1, <1>2, <1>3, <1>4 DEF Inv, States

LEMMA StepInv == ASSUME Inv, [Next]_vars PROVE Inv'
<1>1. CASE Next
  BY <1>1, ValidateStep, NumberStep, ParenStep, CloseStep, PrefixStep, LeftStep, RightStep, IifStep,
     FlushStep, ExecValueStep, ExecCastStep, ExecUnaryStep, ExecBinaryStep, BranchStep, DeliverStep
     DEF Next
<1>2. CASE UNCHANGED vars
  <2>1. UNCHANGED <<text, exp, acts, state, last>>
    BY <1>2 DEF vars
  <2> QED BY <2>1 DEF Inv, TreeOK, LastOK
<1> QED BY <1>1, <1>2

(* Inv is an invariant: the calls of psi_num_exp_exec under way are in      *)
(* their walk or execute a program that finds its operands.                *)
THEOREM NumExpInvariant == Spec => []Inv
<1>1. Init => Inv
  BY InitInv
<1>2. Inv /\ [Next]_vars => Inv'
  BY StepInv
<1> QED BY <1>1, <1>2, PTL DEF Spec

LEMMA EntryIs ==
  ASSUME NEW e \in Elements \cup Entries
  PROVE  IsEntry(e)
<1>1. CASE e.type = "VALUE"
  <2>1. e \in Values
    BY <1>1, ElementsAre DEF Elements, Entries
  <2>2. IsNumber(e.x)
    BY <2>1, ElementsAre
  <2>3. e.type # "CAST"
    BY <1>1
  <2> QED BY <1>1, <2>2, <2>3, Zenon DEF IsEntry
<1>2. CASE e.type = "CAST"
  <2>1. e \in Ops
    BY <1>2, ElementsAre DEF Elements, Entries
  <2>2. e.x \in Types /\ e.type # "VALUE"
    BY <1>2, <2>1, ElementsAre
  <2> QED BY <1>2, <2>2, Zenon DEF IsEntry
<1>3. CASE e.type # "VALUE" /\ e.type # "CAST"
  <2>1. e \in Ops \/ e = Paren
    BY <1>3, ElementsAre DEF Elements, Entries
  <2>2. e.type \in Operators \cup {"LPAREN"} /\ e.x = 0
    BY <1>3, <2>1, ElementsAre DEF Operators
  <2> QED BY <1>3, <2>2, Zenon DEF IsEntry
<1> QED BY <1>1, <1>2, <1>3

LEMMA ListsAre ==
  ASSUME NEW nodes, NEW a \in Calls(nodes)
  PROVE  /\ \A j \in DOMAIN a.output : IsEntry(a.output[j])
         /\ \A j \in DOMAIN a.input : /\ IsEntry(a.input[j])
                                      /\ a.input[j].type = "VALUE" <=> a.todo = <<Exec>>
<1>1. a.output \in Seq(Elements)
  BY DEF Calls, Walks, Executes
<1>2. \A j \in DOMAIN a.output : IsEntry(a.output[j])
  BY <1>1, EntryIs
<1>3. \/ a.input \in Seq(Entries) /\ a.todo # <<Exec>>
      \/ a.input \in Seq(Values) /\ a.todo = <<Exec>>
  <2>1. CASE Walks(a, nodes)
    <3>1. a.todo \in Todos(nodes) /\ a.input \in Seq(Entries)
      BY <2>1 DEF Walks
    <3>2. a.todo # <<Exec>>
      <4>1. PICK t, e : t = a.todo /\ e = <<Exec>>
        OBVIOUS
      <4>2. e # <<>>
        BY <4>1
      <4>3. t # <<>> => t # e
        BY <3>1, <4>1, TodoNotExec, Zenon
      <4> QED BY <4>1, <4>2, <4>3, Zenon
    <3> QED BY <3>1, <3>2
  <2>2. CASE Executes(a)
    BY <2>2 DEF Executes
  <2> QED BY <2>1, <2>2 DEF Calls
<1>4. PICK e, t, i : e = <<Exec>> /\ t = a.todo /\ i = a.input
  OBVIOUS
<1>5. \/ i \in Seq(Entries) /\ t # e
      \/ i \in Seq(Values) /\ t = e
  BY <1>3, <1>4, Zenon
<1>6. ASSUME NEW j \in DOMAIN i
      PROVE  IsEntry(i[j]) /\ (i[j].type = "VALUE" <=> t = e)
  <2>1. CASE i \in Seq(Entries) /\ t # e
    <3>1. i[j] \in Entries
      BY <2>1
    <3>2. i[j].type # "VALUE"
      BY <3>1, ElementsAre DEF Entries
    <3> QED BY <2>1, <3>1, <3>2, EntryIs
  <2>2. CASE i \in Seq(Values) /\ t = e
    <3>1. i[j] \in Values
      BY <2>2
    <3>2. i[j].type = "VALUE" /\ i[j] \in Elements
      BY <3>1, ElementsAre DEF Elements
    <3> QED BY <2>2, <3>2, EntryIs
  <2> QED BY <1>5, <2>1, <2>2
<1> QED BY <1>2, <1>4, <1>6, Zenon

LEMMA InvTypeOK == ASSUME Inv PROVE TypeOK
<1>1. ASSUME NEW i \in DOMAIN acts
      PROVE  /\ \A j \in DOMAIN acts[i].output : IsEntry(acts[i].output[j])
             /\ \A j \in DOMAIN acts[i].input :
                  /\ IsEntry(acts[i].input[j])
                  /\ acts[i].input[j].type = "VALUE" <=> acts[i].todo = <<[do |-> "exec"]>>
  <2>1. acts \in Seq(Calls(exp.nodes))
    BY DEF Inv, Stacked
  <2>2. acts[i] \in Calls(exp.nodes)
    BY <2>1
  <2> QED BY <2>2, ListsAre, Zenon DEF Exec
<1>2. /\ state \in {"parsed", "running", "done", "invalid", "null pointer", "undefined", "assert"}
      /\ (acts = <<>>) <=> (state \in {"parsed", "invalid", "null pointer"})
  BY DEF Inv, States
<1> QED BY <1>1, <1>2, Zenon DEF TypeOK

LEMMA InvOneValueLeft == ASSUME Inv PROVE OneValueLeft
BY DEF Inv, States, OneValueLeft, Top

(* The properties of the operation that was executed last.                 *)
LEMMA LastTrichotomy == ASSUME LastOK PROVE Trichotomy
<1>1. SUFFICES ASSUME last.op \in Compared PROVE Trichotomy
  BY DEF Trichotomy
<1>2. IsNumber(last.operands[1]) /\ IsNumber(last.operands[2])
  BY <1>1, BinaryOpsAre DEF LastOK, Compared
<1>3. PICK a, b : a = last.operands[1] /\ b = last.operands[2]
  OBVIOUS
<1> QED BY <1>2, Trichotomous, Zenon DEF Trichotomy

LEMMA LastCompares == ASSUME LastOK PROVE ComparesNumbers
<1>1. SUFFICES ASSUME last.op \in Compared PROVE ComparesNumbers
  BY DEF ComparesNumbers
<1>2. PICK a, b, op : a = last.operands[1] /\ b = last.operands[2] /\ op = last.op
  OBVIOUS
<1>3. IsNumber(a) /\ IsNumber(b) /\ last.r = Calculate(op, a, b)
  BY <1>1, <1>2, BinaryOpsAre DEF LastOK, Compared
<1>4. ASSUME ~ SignLost(a, b), ~ SignLost(b, a), ~ TooLong(a, b.t), ~ TooLong(b, a.t)
      PROVE  last.r = Truth(CASE op = "CMP_EQ" -> Equal(a, b)
                              [] op = "CMP_NE" -> NotEqual(a, b)
                              [] op = "LCHEVR" -> Less(a, b)
                              [] op = "RCHEVR" -> More(a, b)
                              [] op = "CMP_LE" -> AtMost(a, b)
                              [] OTHER -> AtLeast(a, b))
  <2>1. CASE op = "CMP_EQ"
    <3>1. (CASE op = "CMP_EQ" -> Equal(a, b) [] op = "CMP_NE" -> NotEqual(a, b)
             [] op = "LCHEVR" -> Less(a, b) [] op = "RCHEVR" -> More(a, b)
             [] op = "CMP_LE" -> AtMost(a, b) [] OTHER -> AtLeast(a, b)) = Equal(a, b)
      <4>1. op # "CMP_NE" /\ op # "LCHEVR" /\ op # "RCHEVR" /\ op # "CMP_LE"
        BY <2>1
      <4> QED BY <2>1, <4>1, Zenon
    <3>2. last.r = Truth(Equal(a, b))
      BY <1>3, <1>4, <2>1, ComparesTheNumbers, CalculateIs
    <3> QED BY <3>1, <3>2, Zenon
  <2>2. CASE op = "CMP_NE"
    <3>1. (CASE op = "CMP_EQ" -> Equal(a, b) [] op = "CMP_NE" -> NotEqual(a, b)
             [] op = "LCHEVR" -> Less(a, b) [] op = "RCHEVR" -> More(a, b)
             [] op = "CMP_LE" -> AtMost(a, b) [] OTHER -> AtLeast(a, b)) = NotEqual(a, b)
      <4>1. op # "CMP_EQ" /\ op # "LCHEVR" /\ op # "RCHEVR" /\ op # "CMP_LE"
        BY <2>2
      <4> QED BY <2>2, <4>1, Zenon
    <3>2. last.r = Truth(NotEqual(a, b))
      BY <1>3, <1>4, <2>2, ComparesTheNumbers, CalculateIs
    <3> QED BY <3>1, <3>2, Zenon
  <2>3. CASE op = "LCHEVR"
    <3>1. (CASE op = "CMP_EQ" -> Equal(a, b) [] op = "CMP_NE" -> NotEqual(a, b)
             [] op = "LCHEVR" -> Less(a, b) [] op = "RCHEVR" -> More(a, b)
             [] op = "CMP_LE" -> AtMost(a, b) [] OTHER -> AtLeast(a, b)) = Less(a, b)
      <4>1. op # "CMP_EQ" /\ op # "CMP_NE" /\ op # "RCHEVR" /\ op # "CMP_LE"
        BY <2>3
      <4> QED BY <2>3, <4>1, Zenon
    <3>2. last.r = Truth(Less(a, b))
      BY <1>3, <1>4, <2>3, ComparesTheNumbers, CalculateIs
    <3> QED BY <3>1, <3>2, Zenon
  <2>4. CASE op = "RCHEVR"
    <3>1. (CASE op = "CMP_EQ" -> Equal(a, b) [] op = "CMP_NE" -> NotEqual(a, b)
             [] op = "LCHEVR" -> Less(a, b) [] op = "RCHEVR" -> More(a, b)
             [] op = "CMP_LE" -> AtMost(a, b) [] OTHER -> AtLeast(a, b)) = More(a, b)
      <4>1. op # "CMP_EQ" /\ op # "CMP_NE" /\ op # "LCHEVR" /\ op # "CMP_LE"
        BY <2>4
      <4> QED BY <2>4, <4>1, Zenon
    <3>2. last.r = Truth(More(a, b))
      BY <1>3, <1>4, <2>4, ComparesTheNumbers, CalculateIs
    <3> QED BY <3>1, <3>2, Zenon
  <2>5. CASE op = "CMP_LE"
    <3>1. (CASE op = "CMP_EQ" -> Equal(a, b) [] op = "CMP_NE" -> NotEqual(a, b)
             [] op = "LCHEVR" -> Less(a, b) [] op = "RCHEVR" -> More(a, b)
             [] op = "CMP_LE" -> AtMost(a, b) [] OTHER -> AtLeast(a, b)) = AtMost(a, b)
      <4>1. op # "CMP_EQ" /\ op # "CMP_NE" /\ op # "LCHEVR" /\ op # "RCHEVR"
        BY <2>5
      <4> QED BY <2>5, <4>1, Zenon
    <3>2. last.r = Truth(AtMost(a, b))
      BY <1>3, <1>4, <2>5, ComparesTheNumbers, CalculateIs
    <3> QED BY <3>1, <3>2, Zenon
  <2>6. CASE op = "CMP_GE"
    <3>1. (CASE op = "CMP_EQ" -> Equal(a, b) [] op = "CMP_NE" -> NotEqual(a, b)
             [] op = "LCHEVR" -> Less(a, b) [] op = "RCHEVR" -> More(a, b)
             [] op = "CMP_LE" -> AtMost(a, b) [] OTHER -> AtLeast(a, b)) = AtLeast(a, b)
      <4>1. op # "CMP_EQ" /\ op # "CMP_NE" /\ op # "LCHEVR" /\ op # "RCHEVR" /\ op # "CMP_LE"
        BY <2>6
      <4> QED BY <4>1, Zenon
    <3>2. last.r = Truth(AtLeast(a, b))
      BY <1>3, <1>4, <2>6, ComparesTheNumbers, CalculateIs
    <3> QED BY <3>1, <3>2, Zenon
  <2> QED BY <1>1, <1>2, <2>1, <2>2, <2>3, <2>4, <2>5, <2>6 DEF Compared
<1>5. SignLost(a, b) \/ SignLost(b, a) \/ TooLong(a, b.t) \/ TooLong(b, a.t) \/
        last.r = Truth(CASE op = "CMP_EQ" -> Equal(a, b)
                         [] op = "CMP_NE" -> NotEqual(a, b)
                         [] op = "LCHEVR" -> Less(a, b)
                         [] op = "RCHEVR" -> More(a, b)
                         [] op = "CMP_LE" -> AtMost(a, b)
                         [] OTHER -> AtLeast(a, b))
  BY <1>4, Zenon
<1> QED BY <1>2, <1>5, Zenon DEF ComparesNumbers

LEMMA LastCommutes == ASSUME LastOK PROVE Commutes
<1>1. PICK a, b, op : a = last.operands[1] /\ b = last.operands[2] /\ op = last.op
  OBVIOUS
<1>2. ASSUME op \in {"PLUS", "ASTERISK", "AMPERSAND", "CARET", "PIPE", "AND", "OR"}
      PROVE  last.r = Calculate(op, b, a)
  <2>1. IsNumber(a) /\ IsNumber(b) /\ last.r = Calculate(op, a, b)
    BY <1>1, <1>2, BinaryOpsAre DEF LastOK
  <2> QED BY <1>2, <2>1, OperandsCommute
<1> QED BY <1>1, <1>2, Zenon DEF Commutes

LEMMA LastExact == ASSUME LastOK PROVE Exact
<1>1. PICK a, b, op, r : a = last.operands[1] /\ b = last.operands[2] /\ op = last.op /\ r = last.r
  OBVIOUS
<1>2. ASSUME op \in {"PLUS", "MINUS", "ASTERISK"}, IsDefined(r),
             {a.t, b.t} \subseteq Whole \ {"UINT32", "UINT64"}
      PROVE  CASE op = "PLUS" -> r.n = a.n + b.n
               [] op = "MINUS" -> {a.t, b.t} \subseteq Unsigned \/ r.n = a.n - b.n
               [] OTHER -> r.n = a.n * b.n
  <2>1. IsNumber(a) /\ IsNumber(b) /\ r = Calculate(op, a, b)
    BY <1>1, <1>2, BinaryOpsAre DEF LastOK
  <2>2. a.t \in Safe /\ b.t \in Safe
    BY <1>2, <2>1 DEF Safe, Whole, Narrow, Bytes, Shorts, Ints, Longs
  <2>3. CASE op = "PLUS"
    <3>1. r.n = a.n + b.n
      BY <1>2, <2>1, <2>2, <2>3, CalculateIs, AddExact
    <3>2. op # "MINUS"
      BY <2>3
    <3> QED BY <2>3, <3>1, <3>2, Zenon
  <2>4. CASE op = "MINUS"
    <3>1. {a.t, b.t} \subseteq Unsigned \/ r.n = a.n - b.n
      BY <1>2, <2>1, <2>2, <2>4, CalculateIs, SubExact
    <3>2. op # "PLUS"
      BY <2>4
    <3> QED BY <2>4, <3>1, <3>2, Zenon
  <2>5. CASE op = "ASTERISK"
    <3>1. r.n = a.n * b.n
      BY <1>2, <2>1, <2>2, <2>5, CalculateIs, MulExact
    <3>2. op # "PLUS" /\ op # "MINUS"
      BY <2>5
    <3> QED BY <3>1, <3>2, Zenon
  <2> QED BY <1>2, <2>3, <2>4, <2>5, Zenon
<1> QED BY <1>1, <1>2, Zenon DEF Exact

LEMMA LastDivides == ASSUME LastOK PROVE DivisionLaw
<1>1. PICK a, b, op, r : a = last.operands[1] /\ b = last.operands[2] /\ op = last.op /\ r = last.r
  OBVIOUS
<1>2. ASSUME op = "MODULO", IsDefined(r), {a.t, b.t} \subseteq Whole \ Unsigned,
             IsDefined(psi_calc_div(a, b))
      PROVE  a.n = psi_calc_div(a, b).n * b.n + r.n
  <2>1. IsNumber(a) /\ IsNumber(b) /\ r = Calculate("MODULO", a, b)
    BY <1>1, <1>2, BinaryOpsAre DEF LastOK
  <2>2. r = psi_calc_mod(a, b)
    BY <2>1, CalculateIs
  <2>3. a.t \in Whole \ Unsigned /\ b.t \in Whole \ Unsigned
    BY <1>2
  <2> QED BY <1>2, <2>1, <2>2, <2>3, QuotientAndRemainder
<1> QED BY <1>1, <1>2, Zenon DEF DivisionLaw

LEMMA LastCast ==
  ASSUME LastOK, last.op = "CAST"
  PROVE  /\ IsNumber(last.operands[1])
         /\ \E t \in Types : last.r = Convert(last.operands[1], t)
<1>1. IsNumber(last.operands[1]) /\ \E t \in Types : last.r = psi_calc_cast(last.operands[1], t)
  BY DEF LastOK
<1> QED BY <1>1, CastIs

LEMMA LastCastToInteger == ASSUME LastOK PROVE CastsToIntegers
<1>1. PICK a, op, r : a = last.operands[1] /\ op = last.op /\ r = last.r
  OBVIOUS
<1>2. ASSUME op = "CAST", IsDefined(r), r.t \in Whole
      PROVE  IF a.t \in Floats THEN Magnitude(a.n - r.n * a.d) < a.d
             ELSE /\ (a.n - r.n) % Power[Width(r.t)] = 0
                  /\ a.n \in Least(r.t) .. Greatest(r.t) => r.n = a.n
  <2>1. IsNumber(a) /\ \E t \in Types : r = Convert(a, t)
    BY <1>1, <1>2, LastCast
  <2>2. PICK t \in Types : r = Convert(a, t)
    BY <2>1
  <2>3. r.t = t
    BY <1>2, <2>1, <2>2, Converted, ResultDefined
  <2>4. a.t \in Whole \/ a.t \in Floats
    BY <2>1, NumberIs DEF Types
  <2> QED BY <1>2, <2>1, <2>2, <2>3, <2>4, CastToInteger
<1> QED BY <1>1, <1>2, Zenon DEF CastsToIntegers

LEMMA LastCastToFloat == ASSUME LastOK PROVE CastsToFloats
<1>1. PICK a, op, r : a = last.operands[1] /\ op = last.op /\ r = last.r
  OBVIOUS
<1>2. ASSUME op = "CAST", r.t \in Floats,
             IF a.t \in Whole THEN ~ TooLong(a, r.t) ELSE r.t \in Wider(a.t)
      PROVE  Equal(a, r) \/ (IsNaN(a) /\ IsNaN(r))
  <2>1. IsNumber(a) /\ \E t \in Types : r = Convert(a, t)
    BY <1>1, <1>2, LastCast
  <2>2. PICK t \in Types : r = Convert(a, t)
    BY <2>1
  <2>3. r.t = t
    <3>1. IsDefined(r)
      BY <1>2 DEF IsDefined
    <3> QED BY <2>1, <2>2, <3>1, Converted, ResultDefined
  <2> QED BY <1>2, <2>1, <2>2, <2>3, CastToFloat
<1> QED BY <1>1, <1>2, Zenon DEF CastsToFloats

LEMMA InvComparisons == ASSUME Inv PROVE Comparisons
BY LastTrichotomy, LastCompares DEF Inv, Comparisons

LEMMA InvArithmetic == ASSUME Inv PROVE Arithmetic
BY LastCommutes, LastExact, LastDivides, LastCastToInteger, LastCastToFloat
   DEF Inv, Arithmetic, IntegersFit, CastsKeep

(* The numbers of an evaluation are within their types, the stack of        *)
(* operators holds no value and the stack of values nothing else           *)
(* (psi_num_exp_reduce, psi_num_exp_exec).                                 *)
THEOREM TypeCorrect == Spec => []TypeOK
<1>1. Inv => TypeOK
  BY InvTypeOK
<1> QED BY <1>1, NumExpInvariant, PTL

(* Every operator finds its operands on the stack, whatever the operators   *)
(* and however they bind, and the result is all that is left there: what   *)
(* psi_plist_pop answers to psi_num_exp_exec need not be looked at.        *)
THEOREM OperandsAreThere == Spec => []OneValueLeft
<1>1. Inv => OneValueLeft
  BY InvOneValueLeft
<1> QED BY <1>1, NumExpInvariant, PTL

(* The six tables of cmp.h agree with each other on any two numbers of any *)
(* two types, NaN and infinities included, and compare the numbers as they *)
(* are, unless a sign is lost or an integer has more digits than the type  *)
(* of the float that it is compared with.                                  *)
THEOREM NumbersAreOrdered == Spec => []Comparisons
<1>1. Inv => Comparisons
  BY InvComparisons
<1> QED BY <1>1, NumExpInvariant, PTL

(* The integers of basic.h and cast.h: sums, differences and products are  *)
(* exact, quotient and remainder fit, and a cast to an integer cuts off a  *)
(* fraction, wraps or keeps the number.                                    *)
THEOREM IntegersAreExact == Spec => [](IntegersFit /\ CastsToIntegers)
<1>1. Inv => IntegersFit /\ CastsToIntegers
  BY LastExact, LastDivides, LastCastToInteger DEF Inv, IntegersFit
<1> QED BY <1>1, NumExpInvariant, PTL

(* The tables of basic.h, bin.h, bool.h and cast.h: the same, and operands *)
(* commute, those that are rounded included, and a cast to a floating type *)
(* keeps what has no more digits than the type.                            *)
THEOREM TablesAreExact == Spec => []Arithmetic
<1>1. Inv => Arithmetic
  BY InvArithmetic
<1> QED BY <1>1, NumExpInvariant, PTL
=============================================================================

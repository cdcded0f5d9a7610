-------------------------------- MODULE CNum --------------------------------
(***************************************************************************)
(* The numbers of C that a numeric expression of psi works with: the       *)
(* widths of the integer types, their conversions, and what an operator    *)
(* makes of two operands of one type.  This is the compiler's part, on     *)
(* which the tables of calc/*.h rest.                                      *)
(*                                                                         *)
(* A value is [t, n, d]: its type and the fraction n/d, where d is 1 for   *)
(* integers.  An integer with d = 0 stands for undefined behaviour: a      *)
(* division by zero, a signed operation that overflows, a shift by too     *)
(* much.  Floating types are those of IEEE 754, rounded to nearest, with   *)
(* infinity as 1/0 and what is no number as 0/0; each operation rounds to  *)
(* its own type (FLT_EVAL_METHOD is 0).                                    *)
(***************************************************************************)
EXTENDS Integers

CONSTANTS
  W8, W16, W32, W64,  \* the bits of the integer types; int has W32
  Fraction,           \* the binary digits behind the point of any float
  Format              \* of the floating types, see FormatsAssumption

Bytes  == {"INT8", "UINT8"}
Shorts == {"INT16", "UINT16"}
Ints   == {"INT32", "UINT32"}
Longs  == {"INT64", "UINT64"}
Narrow == Bytes \cup Shorts
Whole  == Narrow \cup Ints \cup Longs
Floats == {"FLOAT", "DOUBLE", "LONG_DOUBLE"}
Types  == Whole \cup Floats

Unsigned == {"UINT8", "UINT16", "UINT32", "UINT64"}

Width(t) ==
  CASE t \in Bytes -> W8 [] t \in Shorts -> W16
    [] t \in Ints -> W32 [] OTHER -> W64

ASSUME WidthsAssumption ==
  /\ {W8, W16, W32, W64} \subseteq Nat
  /\ 1 < W8 /\ 2 * W8 <= W16 /\ 2 * W16 <= W32 /\ W32 < W64

(* Floats of all types are multiples of 2^-Fraction.  Counted in these, a  *)
(* type has the numbers below 2^high with at most `digits' binary digits   *)
(* in front of `low' or more zeros.  Each holds all numbers of those of    *)
(* fewer digits, and ranges over all integers.                             *)
Below(f, g) == f.digits <= g.digits /\ f.low >= g.low /\ f.high <= g.high

ASSUME FormatsAssumption ==
  /\ Fraction \in Nat
  /\ Format \in [Floats -> [digits : Nat \ {0}, low : Nat, high : Nat]]
  /\ \A t \in Floats : LET f == Format[t] IN
       f.low <= Fraction /\ f.low + f.digits <= f.high /\ Fraction + W64 < f.high
  /\ Below(Format["FLOAT"], Format["DOUBLE"])
  /\ Below(Format["DOUBLE"], Format["LONG_DOUBLE"])

(* How many values n bits have.                                            *)
Highest == Format["LONG_DOUBLE"].high
Power ==
  LET power[n \in 0 .. Highest] == IF n = 0 THEN 1 ELSE 2 * power[n - 1]
  IN  [n \in 0 .. Highest |-> power[n]]

Least(t) == IF t \in Unsigned THEN 0 ELSE -Power[Width(t) - 1]
Greatest(t) ==
  IF t \in Unsigned THEN Power[Width(t)] - 1 ELSE Power[Width(t) - 1] - 1

Value(t, n) == [t |-> t, n |-> n, d |-> 1]
Undefined(t) == [t |-> t, n |-> 0, d |-> 0]
Magnitude(n) == IF n < 0 THEN -n ELSE n

(* A float is infinite, or no number; zero, with one of two signs; or a    *)
(* number of 2^-Fraction.                                                  *)
Infinity(t, neg) == [t |-> t, n |-> IF neg THEN -1 ELSE 1, d |-> 0]
NaN(t)           == [t |-> t, n |-> 0, d |-> 0]
Zero(t, neg)     == [t |-> t, n |-> 0, d |-> IF neg THEN 2 ELSE 1]
Unit             == Power[Fraction]

Held(t, m) ==
  \E i \in Format[t].low .. Format[t].high - Format[t].digits :
    m % Power[i] = 0 /\ m \div Power[i] < Power[Format[t].digits]
IsFloat(a) ==
  \/ a.d = 0 /\ a.n \in {-1, 0, 1}
  \/ a.n = 0 /\ a.d \in {1, 2}
  \/ a.n # 0 /\ a.d = Unit /\ Held(a.t, Magnitude(a.n))

IsNumber(a) ==
  /\ a \in [t : Types, n : Int, d : Nat]
  /\ IF a.t \in Floats THEN IsFloat(a)
     ELSE a.d = 1 /\ a.n \in Least(a.t) .. Greatest(a.t)
IsDefined(a) == a.d # 0 \/ a.t \in Floats
IsNaN(a) == a.n = 0 /\ a.d = 0
IsZero(a) == a.n = 0 /\ a.d # 0
Negative(a) == a.n < 0 \/ (a.n = 0 /\ a.d = 2)

(* The number of type t that n is modulo 2^w.                              *)
Wrap(t, n) ==
  LET r == n % Power[Width(t)]
  IN  IF r > Greatest(t) THEN r - Power[Width(t)] ELSE r

(* Towards zero, as C divides and truncates; d is not 0.                   *)
Truncate(n, d) ==
  LET q == Magnitude(n) \div Magnitude(d)
  IN  IF n < 0 <=> d < 0 THEN q ELSE -q

(* The integer nearest to n/d, of two the even one.                        *)
Nearest(n, d) ==
  LET q == n \div d
      r == n % d
  IN  IF 2 * r > d \/ (2 * r = d /\ q % 2 = 1) THEN q + 1 ELSE q

(* How many digits of n/d are rounded off where t has no room for them.    *)
Cut(t, n, d) ==
  LET f == Format[t]
  IN  CHOOSE i \in f.low .. f.high - f.digits :
        /\ n < d * Power[f.digits + i]
        /\ i = f.low \/ n >= d * Power[f.digits + i - 1]
RoundedAt(i, n, d) == Power[i] * Nearest(n, d * Power[i])
Rounded(t, n, d) ==
  IF n >= d * Power[Format[t].high] THEN Power[Format[t].high]
  ELSE RoundedAt(Cut(t, n, d), n, d)

(* The float of type t for m * 2^-Fraction, or for the fraction n/d.       *)
Signed(t, neg, m) ==
  IF m = 0 THEN Zero(t, neg)
  ELSE IF m >= Power[Format[t].high] THEN Infinity(t, neg)
  ELSE [t |-> t, n |-> IF neg THEN -m ELSE m, d |-> Unit]
NearestFloat ==
  [q \in [t : Floats, neg : BOOLEAN, n : Nat, d : Nat] |->
     IF q.d = 0 THEN IF q.n = 0 THEN NaN(q.t) ELSE Infinity(q.t, q.neg)
     ELSE Signed(q.t, q.neg, Rounded(q.t, q.n * Unit, q.d))]
FloatOf(t, neg, n, d) == NearestFloat[[t |-> t, neg |-> neg, n |-> n, d |-> d]]

Convert(a, t) ==
  IF a.t = t THEN a
  ELSE IF t \in Floats THEN FloatOf(t, Negative(a), Magnitude(a.n), a.d)
  ELSE IF a.t \in Whole THEN Value(t, Wrap(t, a.n))
  ELSE IF a.d # 0 /\ Truncate(a.n, a.d) \in Least(t) .. Greatest(t)
       THEN Value(t, Truncate(a.n, a.d)) ELSE Undefined(t)

(* The result n of an operation in an integer type.                        *)
Fit(c, n) ==
  IF c \in Unsigned THEN Value(c, Wrap(c, n))
  ELSE IF n \in Least(c) .. Greatest(c) THEN Value(c, n) ELSE Undefined(c)

(* The operators on two floats of one type.                                *)
Opposite(x) ==
  [x EXCEPT !.n = -@, !.d = IF IsZero(x) THEN 3 - @ ELSE @]
FloatPlus(c, x, y) ==
  IF x.d = 0 /\ x = y THEN x
  ELSE LET n == x.n * y.d + y.n * x.d
       IN  FloatOf(c, n < 0 \/ (Negative(x) /\ Negative(y)), Magnitude(n), x.d * y.d)
FloatTimes(c, x, y) ==
  FloatOf(c, Negative(x) # Negative(y), Magnitude(x.n) * Magnitude(y.n), x.d * y.d)
FloatOver(c, x, y) ==
  FloatOf(c, Negative(x) # Negative(y), Magnitude(x.n) * y.d, x.d * Magnitude(y.n))

(* The operators, on two values of type c.                                 *)
Plus(c, x, y)  == IF c \in Floats THEN FloatPlus(c, x, y) ELSE Fit(c, x.n + y.n)
Minus(c, x, y) ==
  IF c \in Floats THEN FloatPlus(c, x, Opposite(y)) ELSE Fit(c, x.n - y.n)
Times(c, x, y) == IF c \in Floats THEN FloatTimes(c, x, y) ELSE Fit(c, x.n * y.n)
Over(c, x, y) ==
  IF c \in Floats THEN FloatOver(c, x, y)
  ELSE IF y.n = 0 THEN Undefined(c) ELSE Fit(c, Truncate(x.n, y.n))

(* What is no number is neither less nor more than any, nor equal.         *)
Ordered(x, y) == ~ IsNaN(x) /\ ~ IsNaN(y)
Difference(x, y) ==
  IF x.d = 0 /\ y.d = 0 THEN x.n - y.n ELSE x.n * y.d - y.n * x.d
Equal(x, y)    == Ordered(x, y) /\ Difference(x, y) = 0
NotEqual(x, y) == ~ Equal(x, y)
Less(x, y)     == Ordered(x, y) /\ Difference(x, y) < 0
More(x, y)     == Ordered(x, y) /\ Difference(x, y) > 0
AtMost(x, y)   == Ordered(x, y) /\ Difference(x, y) <= 0
AtLeast(x, y)  == Ordered(x, y) /\ Difference(x, y) >= 0

(* The number with given bits, the lowest first; low[i] is that of its     *)
(* lowest i bits.  An operator on bits makes the bits of one word of those *)
(* of two.                                                                 *)
Word(bits) ==
  LET low[i \in 0 .. W64] ==
        IF i = 0 THEN 0 ELSE low[i - 1] + Power[i - 1] * bits[i - 1]
  IN  low[W64]
Bit(x, i) == (x \div Power[i]) % 2
Bitwise2(f(_, _), x, y) ==
  Word([i \in 0 .. W64 - 1 |-> f(Bit(x, i), Bit(y, i))])
BitAnd(b, c) == b * c
BitOr(b, c)  == b + c - b * c
BitXor(b, c) == (b + c) % 2

(* The type in which C computes with operands of two types (the usual      *)
(* arithmetic conversions), told by the type of the left one.              *)
CommonNarrow(t2) == IF t2 \in Narrow THEN "INT32" ELSE t2
CommonInt(t1, t2) ==
  IF t2 \in Narrow THEN t1
  ELSE IF t2 \in Ints THEN IF "UINT32" \in {t1, t2} THEN "UINT32" ELSE "INT32"
  ELSE t2
CommonLong(t1, t2) ==
  IF t2 \in Floats THEN t2
  ELSE IF "UINT64" \in {t1, t2} THEN "UINT64" ELSE "INT64"
CommonFloat(t1, t2) ==
  IF "LONG_DOUBLE" \in {t1, t2} THEN "LONG_DOUBLE"
  ELSE IF "DOUBLE" \in {t1, t2} THEN "DOUBLE" ELSE "FLOAT"
=============================================================================

-------------------------------- MODULE Calc --------------------------------
(***************************************************************************)
(* calc/*.h: the operators of numeric expressions, each a table over the   *)
(* types of its two operands, and the order in which operators bind.  A    *)
(* table is a block of code for each type of the left operand, any entry   *)
(* of which may be wrong alone; the blocks of neighbouring types that are  *)
(* alike are one definition here.                                          *)
(***************************************************************************)
EXTENDS CNum, FiniteSets

(* What the block for the type of the left operand says.                   *)
Block(t1, bytes, shorts, ints, longs, floats) ==
  CASE t1 \in Bytes -> bytes [] t1 \in Shorts -> shorts
    [] t1 \in Ints -> ints [] t1 \in Longs -> longs [] OTHER -> floats

-----------------------------------------------------------------------------
(* basic.h: the result has the wider floating type, or an integer type of  *)
(* twice the width, which is unsigned if both operands are.                *)

Sized(signed, unsigned, t1, t2) ==
  IF {t1, t2} \subseteq Unsigned THEN unsigned ELSE signed

ResultOfByte(t1, t2) ==
  CASE t2 \in Bytes -> Sized("INT16", "UINT16", t1, t2)
    [] t2 \in Shorts -> Sized("INT32", "UINT32", t1, t2)
    [] t2 \in Floats -> t2
    [] OTHER -> Sized("INT64", "UINT64", t1, t2)
ResultOfShort(t1, t2) ==
  CASE t2 \in Narrow -> Sized("INT32", "UINT32", t1, t2)
    [] t2 \in Floats -> t2
    [] OTHER -> Sized("INT64", "UINT64", t1, t2)
ResultOfWide(t1, t2) ==
  IF t2 \in Floats THEN t2 ELSE Sized("INT64", "UINT64", t1, t2)

(* res->r = v1->t1 op v2->t2: computed `in' a type c, stored in `res'.     *)
Case(r, c) == [res |-> r, in |-> c]
Stored(z, r) == IF IsDefined(z) THEN Convert(z, r) ELSE Undefined(r)
Into(case, op(_, _, _), a, b) ==
  Stored(op(case.in, Convert(a, case.in), Convert(b, case.in)), case.res)

AddBytes(t1, t2)  == Case(ResultOfByte(t1, t2), CommonNarrow(t2))
AddShorts(t1, t2) == Case(ResultOfShort(t1, t2), CommonNarrow(t2))
AddInts(t1, t2)   == Case(ResultOfWide(t1, t2), CommonInt(t1, t2))
AddLongs(t1, t2)  == Case(ResultOfWide(t1, t2), CommonLong(t1, t2))
AddFloats(t1, t2) == Case(CommonFloat(t1, t2), CommonFloat(t1, t2))
psi_calc_add(a, b) ==
  Into(Block(a.t, AddBytes(a.t, b.t), AddShorts(a.t, b.t), AddInts(a.t, b.t),
             AddLongs(a.t, b.t), AddFloats(a.t, b.t)), Plus, a, b)

SubBytes(t1, t2)  == Case(ResultOfByte(t1, t2), CommonNarrow(t2))
SubShorts(t1, t2) == Case(ResultOfShort(t1, t2), CommonNarrow(t2))
SubInts(t1, t2)   == Case(ResultOfWide(t1, t2), CommonInt(t1, t2))
SubLongs(t1, t2)  == Case(ResultOfWide(t1, t2), CommonLong(t1, t2))
SubFloats(t1, t2) == Case(CommonFloat(t1, t2), CommonFloat(t1, t2))
psi_calc_sub(a, b) ==
  Into(Block(a.t, SubBytes(a.t, b.t), SubShorts(a.t, b.t), SubInts(a.t, b.t),
             SubLongs(a.t, b.t), SubFloats(a.t, b.t)), Minus, a, b)

MulBytes_tight(t1, t2) == Case(Sized("INT8", "UINT8", t1, t2), CommonNarrow(t2))
MulBytes(t1, t2)  == Case(ResultOfByte(t1, t2), CommonNarrow(t2))
MulShorts(t1, t2) == Case(ResultOfShort(t1, t2), CommonNarrow(t2))
MulInts(t1, t2)   == Case(ResultOfWide(t1, t2), CommonInt(t1, t2))
MulLongs(t1, t2)  == Case(ResultOfWide(t1, t2), CommonLong(t1, t2))
MulFloats(t1, t2) == Case(CommonFloat(t1, t2), CommonFloat(t1, t2))
psi_calc_mul(a, b) ==
  Into(Block(a.t, MulBytes(a.t, b.t), MulShorts(a.t, b.t), MulInts(a.t, b.t),
             MulLongs(a.t, b.t), MulFloats(a.t, b.t)), Times, a, b)

DivBytes(t1, t2)  == Case(ResultOfByte(t1, t2), CommonNarrow(t2))
DivShorts(t1, t2) == Case(ResultOfShort(t1, t2), CommonNarrow(t2))
DivInts(t1, t2)   == Case(ResultOfWide(t1, t2), CommonInt(t1, t2))
DivLongs(t1, t2)  == Case(ResultOfWide(t1, t2), CommonLong(t1, t2))
DivFloats(t1, t2) == Case(CommonFloat(t1, t2), CommonFloat(t1, t2))
psi_calc_div(a, b) ==
  Into(Block(a.t, DivBytes(a.t, b.t), DivShorts(a.t, b.t), DivInts(a.t, b.t),
             DivLongs(a.t, b.t), DivFloats(a.t, b.t)), Over, a, b)

(* Both operands become signed 64-bit integers.                            *)
psi_calc_mod(a, b) ==
  LET x == Convert(a, "INT64")
      y == Convert(b, "INT64")
      q == Over("INT64", x, y)
  IN  IF IsDefined(x) /\ IsDefined(y) /\ IsDefined(q)
      THEN Value("INT64", x.n - y.n * q.n) ELSE Undefined("INT64")

-----------------------------------------------------------------------------
(* bin.h: both operands become unsigned 64-bit integers.                   *)

OnWords(op(_, _), a, b) ==
  LET x == Convert(a, "UINT64")
      y == Convert(b, "UINT64")
  IN  IF IsDefined(x) /\ IsDefined(y) THEN op(x.n, y.n) ELSE Undefined("UINT64")

Shifted(x, y, n) == IF y < W64 THEN Value("UINT64", n) ELSE Undefined("UINT64")

psi_calc_bin_lshift(a, b) ==
  LET op(x, y) == Shifted(x, y, Wrap("UINT64", x * Power[y % W64]))
  IN  OnWords(op, a, b)
psi_calc_bin_rshift(a, b) ==
  LET op(x, y) == Shifted(x, y, x \div Power[y % W64])
  IN  OnWords(op, a, b)
psi_calc_bin_and(a, b) ==
  LET op(x, y) == Value("UINT64", Bitwise2(BitAnd, x, y)) IN OnWords(op, a, b)
psi_calc_bin_xor(a, b) ==
  LET op(x, y) == Value("UINT64", Bitwise2(BitXor, x, y)) IN OnWords(op, a, b)
psi_calc_bin_or(a, b) ==
  LET op(x, y) == Value("UINT64", Bitwise2(BitOr, x, y)) IN OnWords(op, a, b)
psi_calc_bin_not(a) ==
  LET op(x, y) == Value("UINT64", Greatest("UINT64") - x) IN OnWords(op, a, a)

-----------------------------------------------------------------------------
(* bool.h: no conversions, and both operands have been evaluated already.  *)

Truth(p) == Value("UINT8", IF p THEN 1 ELSE 0)
psi_calc_bool_not(a) == Truth(IsZero(a))
psi_calc_bool_or(a, b) == Truth(~ IsZero(a) \/ ~ IsZero(b))
psi_calc_bool_and(a, b) == Truth(~ IsZero(a) /\ ~ IsZero(b))

-----------------------------------------------------------------------------
(* cast.h, a block for each type of the result.                            *)

CastToBytes(a, t) == Convert(a, t)
CastToShorts(a, t) == Convert(a, t)
CastToInts(a, t) == Convert(a, t)
CastToLongs(a, t) == Convert(a, t)
CastToFloats(a, t) == Convert(a, t)
psi_calc_cast(a, t) ==
  Block(t, CastToBytes(a, t), CastToShorts(a, t), CastToInts(a, t),
        CastToLongs(a, t), CastToFloats(a, t))

-----------------------------------------------------------------------------
(* cmp.h: res->u8 = v1->t1 op v2->t2, compared in the common type.         *)

Test(op(_, _), c, a, b) == Truth(op(Convert(a, c), Convert(b, c)))

EqNarrow(t1, t2) == CommonNarrow(t2)
EqInts(t1, t2)   == CommonInt(t1, t2)
EqLongs(t1, t2)  == CommonLong(t1, t2)
EqFloats(t1, t2) == CommonFloat(t1, t2)
psi_calc_cmp_eq(a, b) ==
  Test(Equal, Block(a.t, EqNarrow(a.t, b.t), EqNarrow(a.t, b.t), EqInts(a.t, b.t),
                 EqLongs(a.t, b.t), EqFloats(a.t, b.t)), a, b)

NeNarrow(t1, t2) == CommonNarrow(t2)
NeInts(t1, t2)   == CommonInt(t1, t2)
NeLongs(t1, t2)  == CommonLong(t1, t2)
NeFloats(t1, t2) == CommonFloat(t1, t2)
psi_calc_cmp_ne(a, b) ==
  Test(NotEqual, Block(a.t, NeNarrow(a.t, b.t), NeNarrow(a.t, b.t), NeInts(a.t, b.t),
                    NeLongs(a.t, b.t), NeFloats(a.t, b.t)), a, b)

LtNarrow(t1, t2) == CommonNarrow(t2)
LtInts_asSigned(t1, t2) == "INT32"
LtInts(t1, t2)   == CommonInt(t1, t2)
LtLongs(t1, t2)  == CommonLong(t1, t2)
LtFloats(t1, t2) == CommonFloat(t1, t2)
psi_calc_cmp_lt(a, b) ==
  Test(Less, Block(a.t, LtNarrow(a.t, b.t), LtNarrow(a.t, b.t), LtInts(a.t, b.t),
                LtLongs(a.t, b.t), LtFloats(a.t, b.t)), a, b)

GtNarrow(t1, t2) == CommonNarrow(t2)
GtInts(t1, t2)   == CommonInt(t1, t2)
GtLongs(t1, t2)  == CommonLong(t1, t2)
GtFloats(t1, t2) == CommonFloat(t1, t2)
psi_calc_cmp_gt(a, b) ==
  Test(More, Block(a.t, GtNarrow(a.t, b.t), GtNarrow(a.t, b.t), GtInts(a.t, b.t),
                GtLongs(a.t, b.t), GtFloats(a.t, b.t)), a, b)

LeNarrow(t1, t2) == CommonNarrow(t2)
LeInts(t1, t2)   == CommonInt(t1, t2)
LeLongs(t1, t2)  == CommonLong(t1, t2)
LeFloats(t1, t2) == CommonFloat(t1, t2)
psi_calc_cmp_le(a, b) ==
  Test(AtMost, Block(a.t, LeNarrow(a.t, b.t), LeNarrow(a.t, b.t), LeInts(a.t, b.t),
                  LeLongs(a.t, b.t), LeFloats(a.t, b.t)), a, b)

GeNarrow(t1, t2) == CommonNarrow(t2)
GeInts(t1, t2)   == CommonInt(t1, t2)
GeLongs(t1, t2)  == CommonLong(t1, t2)
GeFloats(t1, t2) == CommonFloat(t1, t2)
psi_calc_cmp_ge(a, b) ==
  Test(AtLeast, Block(a.t, GeNarrow(a.t, b.t), GeNarrow(a.t, b.t), GeInts(a.t, b.t),
                   GeLongs(a.t, b.t), GeFloats(a.t, b.t)), a, b)

-----------------------------------------------------------------------------
(* oper.h: the operators of a tier bind alike, and those of an earlier     *)
(* tier more tightly.                                                      *)

UnaryOps       == {"NOT", "TILDE", "CAST"}
Multiplicative == {"ASTERISK", "SLASH", "MODULO"}
Additive       == {"PLUS", "MINUS"}
Shifts         == {"LSHIFT", "RSHIFT"}
Relations      == {"LCHEVR", "CMP_LE", "RCHEVR", "CMP_GE"}
Ampersand      == {"AMPERSAND"}
Equalities     == {"CMP_EQ", "CMP_NE"}
Caret          == {"CARET"}
Pipe           == {"PIPE"}
And            == {"AND"}
Or             == {"OR"}

Tiers == <<UnaryOps, Multiplicative, Additive, Shifts, Relations, Ampersand,
           Equalities, Caret, Pipe, And, Or>>
BinaryOps == UNION {Tiers[i] : i \in 2 .. 11}
Operators == UnaryOps \cup BinaryOps
Tier(op) == CHOOSE i \in 1 .. 11 : op \in Tiers[i]

(* 1 if op2 binds more tightly than op1, -1 if less.                       *)
psi_calc_oper(op1, op2) ==
  IF op2 = "LPAREN" THEN -1
  ELSE IF op1 = "LPAREN" THEN 1
  ELSE IF Tier(op1) = Tier(op2) THEN 0
  ELSE IF Tier(op2) < Tier(op1) THEN 1 ELSE -1
=============================================================================

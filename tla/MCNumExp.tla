------------------------------ MODULE MCNumExp ------------------------------
(* The expressions on which the numeric expressions are checked.  A        *)
(* variable's name is its value: data.vars is an identity.  Two more names   *)
(* are those of an enum item, and of nothing.                              *)
EXTENDS NumMeaning

(* Small formats: a FLOAT holds all shorts, a DOUBLE all ints, a           *)
(* LONG_DOUBLE all longs.                                                  *)
Formats ==
  [t \in Floats |->
     CASE t = "FLOAT" -> [digits |-> 5, low |-> 1, high |-> 13]
       [] t = "DOUBLE" -> [digits |-> 9, low |-> 0, high |-> 13]
       [] OTHER -> [digits |-> 10, low |-> 0, high |-> 14]]

(* The boundaries of each type; floats next to integers that are rounded,  *)
(* and those that are not finite.                                          *)
Edges ==
  {Value(t, n) : t \in Whole, n \in {-1, 1}} \cup {Value(t, 0) : t \in Unsigned} \cup
  {Value(t, Least(t)) : t \in Whole} \cup {Value(t, Greatest(t)) : t \in Whole} \cup
  {FloatOf(t, TRUE, 3, 2) : t \in Floats} \cup
  {FloatOf("FLOAT", FALSE, 128, 1), FloatOf("FLOAT", FALSE, 0, 1), NaN("FLOAT"),
   FloatOf("DOUBLE", FALSE, 1024, 1), FloatOf("DOUBLE", FALSE, 5, 2), Zero("DOUBLE", TRUE),
   Infinity("DOUBLE", FALSE), Infinity("DOUBLE", TRUE), NaN("DOUBLE"),
   Infinity("LONG_DOUBLE", FALSE)}
Typed == {v \in Edges : v.t \in Floats \/ v.n \in Least(v.t) .. Greatest(v.t)}

Item == Value("INT8", 98)
Nothing == Value("INT8", 99)
OneData == [enums |-> [e \in {Item} |-> 6],
            consts |-> [c \in {"\\C", "\\D"} |->
                          IF c = "\\C" THEN Value("INT32", 3)
                          ELSE FloatOf("FLOAT", FALSE, 7, 2)],
            vars |-> [v \in Typed |-> v]]

N(x) == <<[k |-> "num", num |-> x]>>
Op(op) == <<[k |-> "bin", op |-> op]>>
Not == <<[k |-> "un", op |-> "NOT"]>>
Tilde == <<[k |-> "un", op |-> "TILDE"]>>
Minus_ == <<[k |-> "un", op |-> "MINUS"]>>
To(t) == <<[k |-> "cast", to |-> t]>>
K(k) == <<[k |-> k]>>
In(toks) == K("(") \o toks \o K(")")
If(c, t, f) == c \o K("?") \o t \o K(":") \o f

Int_(n) == N(Literal("INT", "", n, 1))
Flt(s, n, d) == N(Literal("FLT", s, n, d))
Var(v) == N([type |-> "NAME", name |-> v])
Name(type, name) == N([type |-> type, name |-> name])

(* Two values of any two types.                                            *)
Vars == {Var(a)[1] : a \in Typed}
Ops == {Op(op)[1] : op \in BinaryOps}
Pairs == Vars \X Ops \X Vars
Singles == {To(t) \o Var(a) : t \in Types, a \in Typed}
           \cup {Not \o Var(a) : a \in Typed} \cup {Tilde \o Var(a) : a \in Typed}

(* Any three operators in a row.                                           *)
Chains == Range(Int_(9)) \X Ops \X Range(Int_(2)) \X Ops \X Range(Int_(7))
            \X Ops \X Range(Int_(4))

(* Parentheses, prefixes and conditions among the operators.               *)
Some == {"PLUS", "ASTERISK", "RSHIFT", "LCHEVR", "CMP_EQ", "AMPERSAND", "OR"}
Leaves ==
  {Int_(0), Int_(5), N(Literal("INT", "UL", 3, 1)), Flt("", 5, 2), Flt("F", 1, 1),
   Flt("L", 1, 2), Flt("", 1, 10), Name("NAME", Item), Name("NSNAME", "\\C"), Name("NSNAME", "\\D"),
   Name("NAME", Nothing), Name("NSNAME", "\\none"),
   N([type |-> "QUOTED_CHAR", text |-> <<1>>]),
   N([type |-> "QUOTED_CHAR", text |-> <<1, 1>>]),
   N([type |-> "SIZEOF", size |-> 8]), Name("DEFINE", "X"), Name("FUNCTION", "f")}
Shapes(a, f, g) ==
  <<In(a \o Op(f) \o Int_(2)) \o Op(g) \o Int_(3),
   Int_(2) \o Op(f) \o In(a \o Op(g) \o Int_(3)),
   Not \o Tilde \o a \o Op(f) \o Tilde \o Int_(2) \o Op(g) \o To("INT8") \o Int_(7),
   Tilde \o In(Not \o a \o Op(f) \o Int_(1)) \o Op(g) \o Not \o In(a),
   If(a \o Op(f) \o Int_(1), Int_(2) \o Op(g) \o a, Int_(3)),
   If(a, Int_(1) \o Op("SLASH") \o Int_(0), If(Int_(2) \o Op(f) \o a, Int_(4), Int_(6) \o Op(g) \o Int_(1))),
   Int_(1) \o Op(f) \o In(If(a, Int_(2), If(Not \o a, Int_(3), Int_(4)))) \o Op(g) \o Int_(2),
   If(If(In(a), In(If(a, Int_(0), Int_(1))), Int_(1)), Int_(8) \o Op(f) \o Int_(3) \o Op(g) \o a, Int_(5))>>
Templates == {Shapes(a, f, g)[i] : a \in Leaves, f \in Some, g \in Some, i \in 1 .. 8}

AllTexts == Pairs \cup (Chains \cup (Templates \cup Singles \cup Leaves
                              \cup {Int_(1) \o Op("PLUS") \o Minus_ \o Int_(2)}))
=============================================================================

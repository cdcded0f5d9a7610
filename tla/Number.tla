------------------------------- MODULE Number -------------------------------
(***************************************************************************)
(* The leaves of numeric expressions (number.c): what the parser reads,    *)
(* what psi_number_validate turns it into, and its value.                  *)
(*                                                                         *)
(* A number is a record with its type; the other fields are what the text  *)
(* stands for.  After validation it is a Value of CNum, or a number whose  *)
(* value is looked up at each evaluation.                                  *)
(***************************************************************************)
EXTENDS Calc, Sequences

(* A literal as scanned: [type, form, suffix, n, d] with the fraction n/d  *)
(* it denotes, `form' and `suffix' being its flags.                        *)
Literal(form, suffix, n, d) ==
  [type |-> "NUMBER", form |-> form, suffix |-> suffix, n |-> n, d |-> d]

(* strtol and the like take the nearest number of their type.              *)
Clamped(t, n) ==
  CASE n > Greatest(t) -> Greatest(t) [] n < Least(t) -> Least(t) [] OTHER -> n

(* strtof and the like, the nearest float.                                 *)
FloatRead(t, num) == FloatOf(t, num.n < 0, Magnitude(num.n), num.d)

psi_number_validate_number(num) ==
  IF num.form = "INT"
  THEN IF num.suffix \in {"U", "UL", "ULL"}
       THEN Value("UINT64", Clamped("UINT64", Wrap("UINT64", num.n)))
       ELSE Value("INT64", Clamped("INT64", num.n))
  ELSE IF num.suffix \in {"F", "DF"} THEN FloatRead("FLOAT", num)
  ELSE IF num.suffix \in {"L", "DL"} THEN FloatRead("LONG_DOUBLE", num)
  ELSE FloatRead("DOUBLE", num)

(* A character constant is [type, text]: the codes of its characters, an   *)
(* escape being one of them.  The last is a byte; each one before it is    *)
(* shifted by its place `lvl' and added to what follows it, as long as     *)
(* there are bits in an int to shift it to.                                *)
AddChar(char, lvl, rest) ==
  IF W8 * lvl >= W32 \/ ~ IsDefined(rest) THEN Undefined("INT64")
  ELSE LET byte == Wrap("INT8", char)
       IN  psi_calc_add(Value("INT32", Wrap("INT32", byte * Power[W8 * lvl])), rest)

validate_char(text) ==
  LET n == Len(text)
      last[lvl \in 1 .. n] ==    \* the value of the last lvl characters
        IF lvl = 1 THEN Value("INT8", Wrap("INT8", text[n]))
        ELSE AddChar(text[n - lvl + 1], lvl, last[lvl - 1])
  IN  last[n]

(* `data' is what names stand for: [enums, consts, vars], functions from   *)
(* names to values.  Enums are asked first, then variables; a constant is  *)
(* written with a backslash and is another kind of number.                 *)
Look(num, table, type) ==
  IF num.name \in DOMAIN table THEN [type |-> type, name |-> num.name]
  ELSE [type |-> "INVALID"]

psi_number_validate(data, num) ==
  CASE num.type = "NUMBER" ->
         [type |-> "VALUE", v |-> psi_number_validate_number(num)]
    [] num.type = "QUOTED_CHAR" ->
         [type |-> "VALUE", v |-> validate_char(num.text)]
    [] num.type = "SIZEOF" ->
         [type |-> "VALUE", v |-> Value("UINT64", num.size)]
    [] num.type = "NAME" ->
         IF num.name \in DOMAIN data.enums
         THEN [type |-> "ENUM", name |-> num.name]
         ELSE Look(num, data.vars, "NAME")
    [] num.type = "NSNAME" -> Look(num, data.consts, "CONST")
    [] OTHER -> num

(* The value, or the assertion that fails.  A literal of type FLOAT is not *)
(* among the cases of psi_number_eval.                                     *)
Asserts == [t |-> "ASSERT", n |-> 0, d |-> 1]

psi_number_eval_constant(data, num) ==
  LET c == data.consts[num.name]
  IN  IF c.t \in Floats THEN Convert(c, "DOUBLE") ELSE Convert(c, "INT64")
psi_number_eval_decl_var(data, num) == data.vars[num.name]

psi_number_eval(data, num) ==
  CASE num.type = "VALUE" -> IF num.v.t = "FLOAT" THEN Asserts ELSE num.v
    [] num.type = "ENUM" -> Value("INT64", data.enums[num.name])
    [] num.type = "CONST" -> psi_number_eval_constant(data, num)
    [] num.type = "NAME" -> psi_number_eval_decl_var(data, num)
    [] num.type \in {"DEFINE", "FUNCTION"} -> Value("UINT8", 0)
=============================================================================

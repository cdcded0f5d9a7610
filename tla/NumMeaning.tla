----------------------------- MODULE NumMeaning -----------------------------
(***************************************************************************)
(* What a numeric expression means, read off its tokens by the precedences *)
(* that the grammar declares: the reference for NumExp, which goes by those *)
(* of calc/oper.h.                                                         *)
(***************************************************************************)
EXTENDS NumExp

(* What an expression means by the precedences that parser_proc_grammar.y  *)
(* declares for its operators: the level of each, the loosest first.       *)
DeclaredLevel(op) ==
  CASE op = "OR" -> 1 [] op = "AND" -> 2 [] op = "PIPE" -> 3
    [] op = "CARET" -> 4 [] op = "AMPERSAND" -> 5
    [] op \in {"CMP_EQ", "CMP_NE"} -> 6
    [] op \in {"LCHEVR", "CMP_LE", "RCHEVR", "CMP_GE"} -> 7
    [] op \in {"LSHIFT", "RSHIFT"} -> 8
    [] op \in {"PLUS", "MINUS"} -> 9
    [] op \in {"ASTERISK", "SLASH", "MODULO"} -> 10

Bad == Undefined("INT64")
OrBad(v, ok(_)) == IF ok(v) /\ IsDefined(v) THEN v ELSE Bad
Checked(operands, v(_)) ==
  LET dumpable(r) == r.t \in Dumpable
  IN  IF \E i \in DOMAIN operands : operands[i] = Bad \/ ~ dumpable(operands[i])
      THEN Bad ELSE OrBad(v(operands), dumpable)

Depth(toks, i) ==
  Cardinality({j \in 1 .. i : toks[j].k = "("})
    - Cardinality({j \in 1 .. i - 1 : toks[j].k = ")"})

RECURSIVE Meaning(_)
Meaning(toks) ==
  LET n == Len(toks)
      Outer(k) == {i \in 1 .. n : toks[i].k = k /\ Depth(toks, i) = 0}
      Part(i, j) == Meaning(SubSeq(toks, i, j))
      level(i) == DeclaredLevel(toks[i].op)
      loosest == {i \in Outer("bin") : \A j \in Outer("bin") : level(i) <= level(j)}
  IN  CASE Outer("?") # {} ->
             LET q == Min(Outer("?"))
                 nested(i) == Cardinality({j \in Outer("?") : j < i})
                              - Cardinality({j \in Outer(":") : j < i})
                 c == Min({i \in Outer(":") : nested(i) = 1})
                 v == Part(1, q - 1)
             IN  IF v = Bad THEN Bad
                 ELSE IF ~ IsZero(v) THEN Part(q + 1, c - 1) ELSE Part(c + 1, n)
        [] Outer("?") = {} /\ Outer("bin") # {} ->
             LET i == Max(loosest)
                 v(vs) == Calculate(toks[i].op, vs[1], vs[2])
             IN  Checked(<<Part(1, i - 1), Part(i + 1, n)>>, v)
        [] OTHER ->
             CASE toks[1].k = "un" ->
                    LET v(vs) == Calculate1(toks[1].op, vs[1])
                    IN  Checked(<<Part(2, n)>>, v)
               [] toks[1].k = "cast" ->
                    LET v(vs) == psi_calc_cast(vs[1], toks[1].to)
                    IN  Checked(<<Part(2, n)>>, v)
               [] toks[1].k = "(" -> Part(2, n - 1)
               [] OTHER ->
                    LET evaluates(v) == v # Asserts
                    IN  OrBad(psi_number_eval(data, psi_number_validate(data, toks[1].num)),
                              evaluates)

(* Of oper.h and the grammar, only one has & bind more tightly than == and *)
(* != do.                                                                  *)
OrderAgreed ==
  LET ops == {text[i].op : i \in {j \in DOMAIN text : text[j].k = "bin"}}
  IN  ~ ("AMPERSAND" \in ops /\ ops \cap {"CMP_EQ", "CMP_NE"} # {})

(* However an expression is parsed, the walk over its tree with two stacks *)
(* computes what its operators' declared precedences say, and of a ?: only *)
(* the branch that is taken (psi_num_exp_reduce and _exec).                *)
MeansAsDeclared ==
  (OrderAgreed /\ state \in {"done", "undefined", "assert"}) =>
    \E v \in {Meaning(text)} :
      IF state = "done" THEN result.v = v
      ELSE v = Bad \/ v.t = "LONG_DOUBLE" \/ ~ IsDefined(psi_long_num_exp(v))

(* An expression is worth what it says: psi_num_exp_exec finds its          *)
(* operands, uses them up and leaves the value (num_exp.c:602).            *)
Evaluates == MeansAsDeclared /\ OneValueLeft

=============================================================================

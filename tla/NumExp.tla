------------------------------- MODULE NumExp -------------------------------
(***************************************************************************)
(* Numeric expressions (num_exp.c, over number.c and calc/*.h).            *)
(*                                                                         *)
(* The grammar has one rule for all binary operators, %prec BINARY, which  *)
(* is above each of them: whatever the operators are, a tree leans to the  *)
(* left.  How operators bind is settled at each evaluation, by walking     *)
(* over the tree in order with a stack of operators (psi_num_exp_reduce),  *)
(* which leaves a program for a stack of values (psi_num_exp_exec).  The   *)
(* condition of a ?: is evaluated by a nested psi_num_exp_exec, in the     *)
(* middle of the walk.                                                     *)
(*                                                                         *)
(* An expression is a sequence of tokens: [k], or [k, num], [k, op] and    *)
(* [k, to] for numbers, operators and casts.  A tree is the sequence of    *)
(* its nodes in the order in which they are made, each with its `op' and   *)
(* the places of its parts; place 0 is a null pointer.                     *)
(***************************************************************************)
EXTENDS Number, SequencesExt

CONSTANTS
  Texts,   \* the expressions
  data     \* what their names stand for

(* What the scanner reads as a number, and what a name can stand for.      *)
IsLeaf(num) ==
  CASE num.type = "NUMBER" -> num.n \in Int /\ num.d \in Nat \ {0}
    [] num.type = "QUOTED_CHAR" -> num.text \in Seq(Int) \ {<<>>}
    [] num.type = "SIZEOF" -> num.size \in 0 .. Greatest("UINT64")
    [] OTHER -> num.type \in {"NAME", "NSNAME", "DEFINE", "FUNCTION"}

ASSUME DataAssumption ==
  /\ \A e \in DOMAIN data.enums : data.enums[e] \in Least("INT64") .. Greatest("INT64")
  /\ \A c \in DOMAIN data.consts : IsNumber(data.consts[c])
  /\ \A v \in DOMAIN data.vars : IsNumber(data.vars[v])

IsToken(tok) ==
  CASE tok.k = "num" -> IsLeaf(tok.num)
    [] tok.k = "bin" -> tok.op \in BinaryOps
    [] tok.k = "un" -> tok.op \in {"NOT", "TILDE", "PLUS", "MINUS"}
    [] tok.k = "cast" -> tok.to \in Types
    [] OTHER -> tok.k \in {"(", ")", "?", ":"}

ASSUME TextsAssumption ==
  \A t \in Texts : t \in Seq(Range(t)) /\ \A i \in DOMAIN t : IsToken(t[i])

VARIABLES
  text,    \* the expression
  exp,     \* what the parser has made of it
  acts,    \* the calls of psi_num_exp_exec under way, the innermost last
  state,   \* "parsed", "running", "done", or how the program ended
  last,    \* the operation that was executed last, with its operands
  result   \* res, and what psi_long_num_exp makes of it

vars == <<text, exp, acts, state, last, result>>

-----------------------------------------------------------------------------
(* The parser: shift and reduce, with the precedences of the grammar.      *)

Null == 0
Num(x) == [op |-> "NUMBER", num |-> x]
Unary(op, u) ==    \* init_unary; as a binary one, it has no right operand
  IF op \in BinaryOps THEN [op |-> op, lhs |-> u, rhs |-> Null]
                      ELSE [op |-> op, u |-> u]
Binary(op, l, r) == [op |-> op, lhs |-> l, rhs |-> r]
Cast(t, u) == [op |-> "CAST", typ |-> t, u |-> u]
Iif(c, t, f) == [op |-> "IIF", cond |-> c, truthy |-> t, falsy |-> f]

Exp(e) == [k |-> "exp", e |-> e]

(* p is [stack, nodes].  The kinds of the symbols at the end of the stack. *)
Handle(p, kinds) ==
  LET n == Len(p.stack) - Len(kinds)
  IN  n >= 0 /\ \A i \in DOMAIN kinds : p.stack[n + i].k = kinds[i]

(* The symbols before the last i ones, and those as one expression.        *)
At(p, i) == p.stack[Len(p.stack) - i]
Becomes(p, i, node) ==
  [stack |-> Append(SubSeq(p.stack, 1, Len(p.stack) - i), Exp(Len(p.nodes) + 1)),
   nodes |-> Append(p.nodes, node)]

(* What the handle at the end of the stack becomes, with the next token    *)
(* `ahead': only a ?: waits for it, as COLON is not above any operator.     *)
Settled(p, ahead) ==
  IF Handle(p, <<"num">>) THEN Becomes(p, 1, Num(At(p, 0).num))
  ELSE IF Handle(p, <<"(", "exp", ")">>) THEN Becomes(p, 3, Unary("LPAREN", At(p, 1).e))
  ELSE IF Handle(p, <<"un", "exp">>) THEN Becomes(p, 2, Unary(At(p, 1).op, At(p, 0).e))
  ELSE IF Handle(p, <<"cast", "exp">>) THEN Becomes(p, 2, Cast(At(p, 1).to, At(p, 0).e))
  ELSE IF Handle(p, <<"exp", "bin", "exp">>)
       THEN Becomes(p, 3, Binary(At(p, 1).op, At(p, 2).e, At(p, 0).e))
  ELSE IF Handle(p, <<"exp", "?", "exp", ":", "exp">>) /\ ahead \notin {"bin", "?"}
       THEN Becomes(p, 5, Iif(At(p, 4).e, At(p, 2).e, At(p, 0).e))
  ELSE p

(* A reduction shortens the stack, but for that of the number at its end.  *)
Settle(p, ahead) ==
  LET settled[i \in 0 .. Len(p.stack)] ==
        IF i = 0 THEN p ELSE Settled(settled[i - 1], ahead)
  IN  settled[Len(p.stack)]

Ahead(toks, i) == IF i < Len(toks) THEN toks[i + 1].k ELSE "end"
Shift(p, tok) == [p EXCEPT !.stack = Append(@, tok)]
Parse(toks) ==
  LET read[i \in 0 .. Len(toks)] ==
        IF i = 0 THEN [stack |-> <<>>, nodes |-> <<>>]
        ELSE Settle(Shift(read[i - 1], toks[i]), Ahead(toks, i))
  IN  read[Len(toks)]

(* The grammar accepts a text that is one expression.                      *)
Accepted(p) == Len(p.stack) = 1 /\ p.stack[1].k = "exp"
Root(p) == p.stack[1].e

-----------------------------------------------------------------------------
(* psi_num_exp_validate: "ok", "invalid", or the program's end.  The parts *)
(* of a node are validated in the order in which they were made, and all   *)
(* of them before it, up to the first that is not valid.                   *)

NodeValidity(e) ==
  CASE e.op = "NUMBER" ->
         IF psi_number_validate(data, e.num).type = "INVALID"
         THEN "invalid" ELSE "ok"
    [] e.op \in BinaryOps -> IF e.rhs = Null THEN "null pointer" ELSE "ok"
    [] OTHER -> "ok"

Validity(p) ==
  LET bad == {i \in DOMAIN p.nodes : NodeValidity(p.nodes[i]) # "ok"}
  IN  IF bad = {} THEN "ok" ELSE NodeValidity(p.nodes[Min(bad)])

(* exp->calc                                                               *)
Calculate(op, a, b) ==
  CASE op = "PLUS" -> psi_calc_add(a, b)
    [] op = "MINUS" -> psi_calc_sub(a, b)
    [] op = "ASTERISK" -> psi_calc_mul(a, b)
    [] op = "SLASH" -> psi_calc_div(a, b)
    [] op = "MODULO" -> psi_calc_mod(a, b)
    [] op = "LSHIFT" -> psi_calc_bin_lshift(a, b)
    [] op = "RSHIFT" -> psi_calc_bin_rshift(a, b)
    [] op = "AMPERSAND" -> psi_calc_bin_and(a, b)
    [] op = "CARET" -> psi_calc_bin_xor(a, b)
    [] op = "PIPE" -> psi_calc_bin_or(a, b)
    [] op = "AND" -> psi_calc_bool_and(a, b)
    [] op = "OR" -> psi_calc_bool_or(a, b)
    [] op = "CMP_EQ" -> psi_calc_cmp_eq(a, b)
    [] op = "CMP_NE" -> psi_calc_cmp_ne(a, b)
    [] op = "LCHEVR" -> psi_calc_cmp_lt(a, b)
    [] op = "RCHEVR" -> psi_calc_cmp_gt(a, b)
    [] op = "CMP_LE" -> psi_calc_cmp_le(a, b)
    [] op = "CMP_GE" -> psi_calc_cmp_ge(a, b)
Calculate1(op, a) ==
  IF op = "NOT" THEN psi_calc_bool_not(a) ELSE psi_calc_bin_not(a)

-----------------------------------------------------------------------------
(* A call of psi_num_exp_exec: the calls of psi_num_exp_reduce still to be *)
(* made or finished, and the two lists.  An element of a list is           *)
(* [type, x]: a value, a cast with its type, or an operator.               *)
Start(e) == [todo |-> <<[do |-> "reduce", e |-> e]>>, output |-> <<>>,
             input |-> <<>>]

NoOperation == [op |-> "none"]

Init ==
  /\ text \in Texts
  /\ exp = Parse(text)
  /\ Accepted(exp)
  /\ acts = <<>>
  /\ state = "parsed"
  /\ last = NoOperation
  /\ result = [v |-> Value("INT64", 0), long |-> 0]

Top == acts[Len(acts)]
Running == state = "running"
Put(a) == acts' = [acts EXCEPT ![Len(acts)] = a]
Die(how) == state' = how /\ UNCHANGED <<text, exp, acts, last, result>>

Validate ==
  /\ state = "parsed"
  /\ IF Validity(exp) = "ok"
     THEN /\ state' = "running"
          /\ acts' = <<Start(Root(exp))>>
          /\ UNCHANGED <<text, exp, last, result>>
     ELSE Die(Validity(exp))

(* psi_num_exp_reduce is about to handle e.                                *)
Reducing(ops) ==
  /\ Running
  /\ Top.todo # <<>>
  /\ Head(Top.todo).do = "reduce"
  /\ exp.nodes[Head(Top.todo).e].op \in ops
E_ == exp.nodes[Head(Top.todo).e]
Rest == Tail(Top.todo)
Then(items) == items \o Rest
Reduce(e) == [do |-> "reduce", e |-> e]

Element(type, x) == [type |-> type, x |-> x]

ReduceNumber ==
  /\ Reducing({"NUMBER"})
  /\ \E num \in {psi_number_validate(data, E_.num)} :
     \E v \in {psi_number_eval(data, num)} :
        IF v = Asserts THEN Die("assert")
        ELSE IF ~ IsDefined(v) THEN Die("undefined")
        ELSE /\ Put([Top EXCEPT !.todo = Rest,
                                !.output = Append(@, Element("VALUE", v))])
             /\ UNCHANGED <<text, exp, state, last, result>>

ReduceParen ==
  /\ Reducing({"LPAREN"})
  /\ Put([Top EXCEPT !.todo = Then(<<Reduce(E_.u), [do |-> "close"]>>),
                     !.input = Append(@, Element("LPAREN", 0))])
  /\ UNCHANGED <<text, exp, state, last, result>>

(* The last element of the stack that `stays'; those above it go.          *)
Kept(input, stays(_)) ==
  Max({i \in DOMAIN input : stays(input[i].type)} \cup {0})
Popped(input, from) == Reverse(SubSeq(input, from, Len(input)))

CloseParen ==
  /\ Running
  /\ Top.todo # <<>>
  /\ Head(Top.todo).do = "close"
  /\ LET isParen(type) == type = "LPAREN"
         at == Kept(Top.input, isParen)
     IN  Put([todo |-> Rest, output |-> Top.output \o Popped(Top.input, at + 1),
              input |-> SubSeq(Top.input, 1, at - 1)])
  /\ UNCHANGED <<text, exp, state, last, result>>

(* An operator is pushed; those before it that bind more tightly have had  *)
(* their operands and go to the output.                                    *)
Pushed(entry, stays(_), todo) ==
  LET keep == Kept(Top.input, stays)
  IN  [todo |-> todo, output |-> Top.output \o Popped(Top.input, keep + 1),
       input |-> Append(SubSeq(Top.input, 1, keep), entry)]

ReducePrefix ==
  /\ Reducing(UnaryOps)
  /\ LET stays(type) == psi_calc_oper(E_.op, type) # 1
         x == IF E_.op = "CAST" THEN E_.typ ELSE 0
     IN  Put(Pushed(Element(E_.op, x), stays, Then(<<Reduce(E_.u)>>)))
  /\ UNCHANGED <<text, exp, state, last, result>>

ReduceLeft ==
  /\ Reducing(BinaryOps)
  /\ Put([Top EXCEPT !.todo =
            Then(<<Reduce(E_.lhs), [Head(Top.todo) EXCEPT !.do = "binary"]>>)])
  /\ UNCHANGED <<text, exp, state, last, result>>

ReduceRight_toTheRight ==
  /\ Running
  /\ Top.todo # <<>>
  /\ Head(Top.todo).do = "binary"
  /\ LET stays(type) == psi_calc_oper(E_.op, type) # 1
     IN  Put(Pushed(Element(E_.op, 0), stays, Then(<<Reduce(E_.rhs)>>)))
  /\ UNCHANGED <<text, exp, state, last, result>>

ReduceRight ==
  /\ Running
  /\ Top.todo # <<>>
  /\ Head(Top.todo).do = "binary"
  /\ LET stays(type) == psi_calc_oper(E_.op, type) = -1
     IN  Put(Pushed(Element(E_.op, 0), stays, Then(<<Reduce(E_.rhs)>>)))
  /\ UNCHANGED <<text, exp, state, last, result>>

ReduceIif ==
  /\ Reducing({"IIF"})
  /\ acts' = Append([acts EXCEPT ![Len(acts)].todo =
                       Then(<<[Head(Top.todo) EXCEPT !.do = "branch"]>>)],
                    Start(E_.cond))
  /\ UNCHANGED <<text, exp, state, last, result>>

Flush_keeps ==
  /\ Running
  /\ Top.todo = <<>>
  /\ Put([todo |-> <<[do |-> "exec"]>>, input |-> Top.input,
          output |-> Top.output \o Popped(Top.input, 1)])
  /\ UNCHANGED <<text, exp, state, last, result>>

(* The walk is over: the operators that are left are popped.               *)
Flush ==
  /\ Running
  /\ Top.todo = <<>>
  /\ Put([todo |-> <<[do |-> "exec"]>>, input |-> <<>>,
          output |-> Top.output \o Popped(Top.input, 1)])
  /\ UNCHANGED <<text, exp, state, last, result>>

Executing(types) ==
  /\ Running
  /\ Top.todo # <<>> /\ Head(Top.todo).do = "exec"
  /\ Top.output # <<>>
  /\ Head(Top.output).type \in types
Entry == Head(Top.output)
Popping(n) == [i \in 1 .. n |-> Top.input[Len(Top.input) - n + i].x]

(* psi_impl_val_dump knows no other types.                                 *)
Dumpable == Types \ {"LONG_DOUBLE"}

(* The result r of an operation on the last n values.  Its operands and    *)
(* itself are given to psi_impl_val_dump, printed or not; with fewer than  *)
(* n values the operation would work on what the program's stack holds.    *)
Execute(n, r(_)) ==
  IF Len(Top.input) < n THEN Die("underflow")
  ELSE \E operands \in {Popping(n)} : \E v \in {r(operands)} :
       LET types == {operands[i].t : i \in 1 .. n} \cup {v.t}
       IN  /\ last' = [op |-> Entry.type, operands |-> operands, r |-> v]
           /\ IF ~ types \subseteq Dumpable
              THEN state' = "assert" /\ UNCHANGED acts
              ELSE IF ~ IsDefined(v) THEN state' = "undefined" /\ UNCHANGED acts
              ELSE /\ Put([Top EXCEPT
                             !.output = Tail(@),
                             !.input = Append(SubSeq(@, 1, Len(@) - n),
                                              Element("VALUE", v))])
                   /\ UNCHANGED state
           /\ UNCHANGED <<text, exp, result>>

ExecValue ==    \* the default
  /\ Executing({"VALUE", "LPAREN"})
  /\ Put([Top EXCEPT !.output = Tail(@), !.input = Append(@, Entry)])
  /\ UNCHANGED <<text, exp, state, last, result>>

ExecCast ==
  /\ Executing({"CAST"})
  /\ LET r(vs) == psi_calc_cast(vs[1], Entry.x) IN Execute(1, r)

ExecUnary ==
  /\ Executing({"NOT", "TILDE"})
  /\ LET r(vs) == Calculate1(Entry.type, vs[1]) IN Execute(1, r)

ExecBinary ==
  /\ Executing(BinaryOps)
  /\ LET r(vs) == Calculate(Entry.type, vs[1], vs[2]) IN Execute(2, r)

(* The output is used up: the last entry is the result.                    *)
Finished ==
  /\ Running
  /\ Top.todo # <<>> /\ Head(Top.todo).do = "exec"
  /\ Top.output = <<>>
Outcome == Top.input[Len(Top.input)].x

TakeBranch_again ==
  /\ Finished
  /\ Len(acts) > 1
  /\ LET outer == acts[Len(acts) - 1]
     IN  acts' = Append(SubSeq(acts, 1, Len(acts) - 2),
                        [outer EXCEPT !.todo =
                           <<Reduce(Head(outer.todo).e)>> \o Tail(@)])
  /\ UNCHANGED <<text, exp, state, last, result>>

(* The condition of a ?: is known: its branch is walked over next.         *)
TakeBranch ==
  /\ Finished
  /\ Len(acts) > 1
  /\ LET outer == acts[Len(acts) - 1]
         e == exp.nodes[Head(outer.todo).e]
         branch == IF psi_calc_bool_not(Outcome).n # 0 THEN e.falsy ELSE e.truthy
     IN  acts' = Append(SubSeq(acts, 1, Len(acts) - 2),
                        [outer EXCEPT !.todo = <<Reduce(branch)>> \o Tail(@)])
  /\ UNCHANGED <<text, exp, state, last, result>>

(* psi_long_num_exp, through which most callers ask for the result.        *)
psi_long_num_exp(v) == Convert(v, "INT64")

Deliver ==
  /\ Finished
  /\ Len(acts) = 1
  /\ state' = IF Outcome.t = "LONG_DOUBLE" THEN "assert"
              ELSE IF IsDefined(psi_long_num_exp(Outcome)) THEN "done" ELSE "undefined"
  /\ result' = [v |-> Outcome, long |-> psi_long_num_exp(Outcome).n]
  /\ UNCHANGED <<text, exp, acts, last>>

Next ==
  \/ Validate
  \/ ReduceNumber \/ ReduceParen \/ CloseParen \/ ReducePrefix
  \/ ReduceLeft \/ ReduceRight \/ ReduceIif
  \/ Flush
  \/ ExecValue \/ ExecCast \/ ExecUnary \/ ExecBinary
  \/ TakeBranch \/ Deliver

Spec == Init /\ [][Next]_vars /\ WF_vars(Next)
-----------------------------------------------------------------------------
(* Properties.                                                             *)

IsEntry(e) ==
  CASE e.type = "VALUE" -> IsNumber(e.x)
    [] e.type = "CAST" -> e.x \in Types
    [] OTHER -> e.type \in Operators \cup {"LPAREN"} /\ e.x = 0

(* The lists hold operators and values that are within their types, and a  *)
(* stack of operators holds no value.                                      *)
TypeOK ==
  /\ state \in {"parsed", "running", "done", "invalid", "null pointer", "undefined", "assert"}
  /\ (acts = <<>>) <=> (state \in {"parsed", "invalid", "null pointer"})
  /\ \A i \in DOMAIN acts :
       /\ \A j \in DOMAIN acts[i].output : IsEntry(acts[i].output[j])
       /\ \A j \in DOMAIN acts[i].input :
            /\ IsEntry(acts[i].input[j])
            /\ acts[i].input[j].type = "VALUE" <=> acts[i].todo = <<[do |-> "exec"]>>

(* Every operator finds its operands on the stack, and nothing but the     *)
(* result is left there in the end (psi_plist_pop's answer is not looked   *)
(* at by psi_num_exp_exec).                                                *)
OneValueLeft ==
  /\ state # "underflow"
  /\ state = "done" => Len(acts) = 1 /\ Len(Top.input) = 1

(* assert(0), "not reached", is not reached (num_exp.c:511, number.c:656). *)
AssertsHold == state # "assert"

Compared == {"CMP_EQ", "CMP_NE", "LCHEVR", "RCHEVR", "CMP_LE", "CMP_GE"}
Holds(v) == v = Truth(TRUE)

(* Of any two numbers of any two types just one is less, or they are       *)
(* equal, and of what is no number (NaN) neither; and the answer does not  *)
(* depend on which is written first: six tables of 121 blocks each agree   *)
(* with each other (cmp.h).                                                *)
Trichotomy ==
  last.op \in Compared =>
    LET a == last.operands[1]
        b == last.operands[2]
        lt == Holds(psi_calc_cmp_lt(a, b))
        gt == Holds(psi_calc_cmp_gt(a, b))
        eq == Holds(psi_calc_cmp_eq(a, b))
    IN  /\ Cardinality({p \in {1, 2, 3} : <<lt, gt, eq>>[p]}) =
             IF IsNaN(a) \/ IsNaN(b) THEN 0 ELSE 1
        /\ Holds(psi_calc_cmp_le(a, b)) = (lt \/ eq)
        /\ Holds(psi_calc_cmp_ge(a, b)) = (gt \/ eq)
        /\ Holds(psi_calc_cmp_ne(a, b)) = ~ eq
        /\ lt = Holds(psi_calc_cmp_gt(b, a))
        /\ eq = Holds(psi_calc_cmp_eq(b, a))

(* The number is negative and the other operand unsigned, and as wide as   *)
(* an int at least.                                                        *)
SignLost(a, b) ==
  /\ a.t \in Whole /\ a.n < 0
  /\ b.t \in {"UINT32", "UINT64"} /\ Width(a.t) <= Width(b.t)

(* A float of type t has too few digits for the integer, and is not it but *)
(* the nearest: INT64 9007199254740993 as a DOUBLE ends in 2.              *)
TooLong(a, t) ==
  a.t \in Whole /\ t \in Floats /\ Magnitude(a.n) >= Power[Format[t].digits]

(* A comparison is that of the numbers, unless one of them loses its sign  *)
(* or is an integer that is rounded.  Two floats are always compared as    *)
(* they are, and so are an integer of few digits and a float.              *)
ComparesNumbers ==
  last.op \in Compared =>
    LET a == last.operands[1]
        b == last.operands[2]
    IN  \/ SignLost(a, b) \/ SignLost(b, a) \/ TooLong(a, b.t) \/ TooLong(b, a.t)
        \/ last.r = Truth(CASE last.op = "CMP_EQ" -> Equal(a, b)
                            [] last.op = "CMP_NE" -> NotEqual(a, b)
                            [] last.op = "LCHEVR" -> Less(a, b)
                            [] last.op = "RCHEVR" -> More(a, b)
                            [] last.op = "CMP_LE" -> AtMost(a, b)
                            [] OTHER -> AtLeast(a, b))

(* The six tables of cmp.h order all numbers of all types, as far as C     *)
(* lets them.                                                              *)
Comparisons == Trichotomy /\ ComparesNumbers

(* Which operand is on the left makes no difference, neither to the value  *)
(* nor to its type (basic.h, bin.h, bool.h).                               *)
Commutes ==
  last.op \in {"PLUS", "ASTERISK", "AMPERSAND", "CARET", "PIPE", "AND", "OR"} =>
    last.r = Calculate(last.op, last.operands[2], last.operands[1])

(* Sums, differences and products of integers are exact, when the program  *)
(* has a result at all, unless an int or long is unsigned or both numbers  *)
(* of a difference are (basic.h: the type of the result is wide enough).   *)
Exact ==
  (/\ last.op \in {"PLUS", "MINUS", "ASTERISK"} /\ IsDefined(last.r)
   /\ {last.operands[1].t, last.operands[2].t} \subseteq Whole \ {"UINT32", "UINT64"}) =>
    LET a == last.operands[1]
        b == last.operands[2]
    IN  CASE last.op = "PLUS" -> last.r.n = a.n + b.n
          [] last.op = "MINUS" -> \/ {a.t, b.t} \subseteq Unsigned
                                  \/ last.r.n = a.n - b.n
          [] OTHER -> last.r.n = a.n * b.n

(* a = (a / b) * b + a % b for signed integers: the quotient and the       *)
(* remainder are of two tables, with different types.                      *)
DivisionLaw ==
  (last.op = "MODULO" /\ IsDefined(last.r)) =>
    LET a == last.operands[1]
        b == last.operands[2]
        q == psi_calc_div(a, b)
    IN  ({a.t, b.t} \subseteq Whole \ Unsigned /\ IsDefined(q)) =>
          a.n = q.n * b.n + last.r.n

(* A cast to an integer type cuts off a fraction, wraps an integer that    *)
(* the type cannot hold, and else keeps the number.                        *)
CastsToIntegers ==
  (last.op = "CAST" /\ IsDefined(last.r) /\ last.r.t \in Whole) =>
    LET a == last.operands[1]
        r == last.r
    IN  IF a.t \in Floats THEN Magnitude(a.n - r.n * a.d) < a.d
        ELSE /\ (a.n - r.n) % Power[Width(r.t)] = 0
             /\ a.n \in Least(r.t) .. Greatest(r.t) => r.n = a.n

(* The float types in which all numbers of type t are.                     *)
Wider(t) ==
  CASE t = "FLOAT" -> Floats [] t = "DOUBLE" -> {"DOUBLE", "LONG_DOUBLE"}
    [] OTHER -> {t}

(* A cast to a floating type keeps an integer that has no more digits than *)
(* the type, and every float of a type that is not wider; what is rounded  *)
(* otherwise is the compiler's part.                                       *)
CastsToFloats ==
  (last.op = "CAST" /\ last.r.t \in Floats) =>
    LET a == last.operands[1]
        r == last.r
        keeps == IF a.t \in Whole THEN ~ TooLong(a, r.t) ELSE r.t \in Wider(a.t)
    IN  keeps => Equal(a, r) \/ (IsNaN(a) /\ IsNaN(r))

(* The integers of basic.h: none of its cases computes in a type that is   *)
(* too narrow, too wide or of the wrong sign for its pair.                 *)
IntegersFit == Exact /\ DivisionLaw

(* A cast keeps what its type can hold (cast.h).                           *)
CastsKeep == CastsToIntegers /\ CastsToFloats

(* The tables of basic.h, bin.h, bool.h and cast.h: each pair of types in  *)
(* the type that it should be.                                             *)
Arithmetic == Commutes /\ IntegersFit /\ CastsKeep

(* Every evaluation ends: the walk goes down a tree, and the program is    *)
(* used up.                                                                *)
Terminates == <>(state \notin {"parsed", "running"})
=============================================================================

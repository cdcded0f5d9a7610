---------------------------- MODULE ImplValidate ----------------------------
(***************************************************************************)
(* psi_impl_validate (types/impl.c): an implementation is validated once   *)
(* the file's types and declarations are.  Its return statement tells the  *)
(* declaration it implements; its let, temp, set, assert and free          *)
(* statements name arguments of that declaration, members of structs among *)
(* them, arguments of callbacks and temporaries.  Validating a variable    *)
(* finds the argument it stands for and gives it its full name (fqn), by   *)
(* which a call frame will look its symbol up.                             *)
(*                                                                         *)
(* Expressions on members that a struct does not have on this platform are *)
(* removed from the tree while it is walked over.                          *)
(*                                                                         *)
(* A variable of a declaration is [name, fqn, arg], of an implementation   *)
(* [name, fqn], without the `$'; a name "" is that of no variable.  An     *)
(* argument or member is [owner, name, type, ptr].                         *)
(***************************************************************************)
EXTENDS Integers, Sequences, FiniteSets, SequencesExt

CONSTANTS
  Types,   \* [name -> [kind, args]]: the types, with their members or arguments
  decls,   \* the declarations, in the order of the file: [name, type, args]
  Impls    \* the implementations, see MCImplValidate

NoArg == [owner |-> "", name |-> "", type |-> "", ptr |-> FALSE]
NoDecl == [name |-> "", type |-> "", args |-> <<>>]

ASSUME TypesAssumption ==
  \A t \in DOMAIN Types : \A i \in DOMAIN Types[t].args :
    /\ Types[t].args[i].type \in DOMAIN Types
    /\ Types[t].args[i].owner = t
ASSUME DeclsAssumption ==
  \A i \in DOMAIN decls : /\ decls[i].type \in DOMAIN Types
                          /\ \A a \in Range(decls[i].args) : a.type \in DOMAIN Types

VARIABLES
  given,     \* the implementation as it was parsed
  impl,      \* and as validation has left it so far
  stage,     \* the kind of statement that is validated
  next,      \* which of them is next
  verdict    \* "running", "accepted", "rejected", or "dies"

vars == <<given, impl, stage, next, verdict>>

-----------------------------------------------------------------------------
(* Variables.                                                              *)

(* psi_decl_type_get_args: none but for structs and unions.                *)
HasMembers(t) == Types[t].kind \in {"struct", "union"}
Members(t) == IF HasMembers(t) THEN Types[t].args ELSE <<>>

OrElse(arg, other) == IF arg # NoArg THEN arg ELSE other

(* psi_decl_arg_get_by_name: the first of that name.                       *)
First(I) == IF I = {} THEN 0 ELSE CHOOSE i \in I : \A j \in I : i <= j
ArgAt(args, i) == IF i = 0 THEN NoArg ELSE args[i]
ByName(args, name) == ArgAt(args, First({i \in DOMAIN args : args[i].name = name}))

(* psi_decl_get_arg: an argument, or what the function returns.            *)
ReturnArg(decl) == [owner |-> decl.name, name |-> decl.name, type |-> decl.type, ptr |-> FALSE]
psi_decl_get_arg(decl, name) ==
  OrElse(ByName(decl.args, name), IF name = decl.name THEN ReturnArg(decl) ELSE NoArg)

(* What the name means to an expression it is in: a member, or itself.     *)
Within(name, outer) ==
  OrElse(ByName(Members(outer.arg.type), name), IF outer.name = name THEN outer.arg ELSE NoArg)

(* psi_decl_var_validate: v found, from the innermost of the variables of   *)
(* the expressions it is in outwards, which precede it in its full name,    *)
(* or in the declaration.  Its arg is NoArg if it is found nowhere.         *)
FoundAt(v, outers) == First({i \in DOMAIN outers : Within(v.name, outers[i]) # NoArg})
Prepended_outwards(outers, from, fqn) ==
  [k \in 1..(Len(outers) - from + 1) |-> outers[from + k - 1].name] \o fqn
Prepended(outers, from, fqn) ==
  Reverse([k \in 1..(Len(outers) - from + 1) |-> outers[from + k - 1].name]) \o fqn
Found(v, decl, outers, i) ==
  IF i = 0 THEN [v EXCEPT !.arg = psi_decl_get_arg(decl, v.name)]
  ELSE [v EXCEPT !.arg = Within(v.name, outers[i]), !.fqn = Prepended(outers, i, @)]
psi_decl_var_validate(v, decl, outers) == Found(v, decl, outers, FoundAt(v, outers))

(* psi_impl_var_validate: all variables it is in precede it.               *)
psi_impl_var_validate(iv, outers) ==
  IF iv.name = "" THEN iv ELSE [iv EXCEPT !.fqn = Prepended(outers, 1, @)]

(* psi_impl_get_arg.                                                       *)
psi_impl_get_arg(im, name) == \E i \in DOMAIN im.func : im.func[i].name = name

(* psi_impl_get_let, psi_impl_get_temp_let_arg: the first that fits.       *)
GetLet(im, arg) == SelectInSeq(im.lets, LAMBDA e : e.var.arg = arg)
psi_impl_get_temp_let_arg(im, name) ==
  LET Of(i) == IF i = 0 THEN NoArg ELSE im.lets[i].var.arg
  IN  Of(SelectInSeq(im.lets, LAMBDA e : e.kind = "TMP" /\ e.var.name = name))

(* psi_number_validate of the names in an expression, each in turn.        *)
VarOrElse(v, other) == IF v.arg # NoArg THEN v ELSE other
NumberVar(v, im, cb, outers) ==
  VarOrElse(psi_decl_var_validate(v, im.decl, outers), psi_decl_var_validate(v, cb, <<>>))
Numbers(names, im, cb, outers) == [i \in DOMAIN names |-> NumberVar(names[i], im, cb, outers)]
AllKnown(vs) == \A i \in DOMAIN vs : vs[i].arg # NoArg

(* What validating an expression comes to.                                 *)
Ok(e) == [v |-> "ok", e |-> e]
Rejects(e) == [v |-> "rejects", e |-> e]
Dies(e) == [v |-> "dies", e |-> e]

Var(name) == [name |-> name, fqn |-> <<name>>, arg |-> NoArg]
IVar(name) == [name |-> name, fqn |-> <<name>>]

-----------------------------------------------------------------------------
(* Set expressions: [kind, ivar, fn, var, inner, recursive, names, handler] *)

(* psi_set_exp_get_impl_var: the one that is assigned, or of the same name. *)
SetImplVar(s) == IF s.ivar.name = "" /\ s.kind = "FUNC" THEN IVar(s.var.name) ELSE s.ivar

SetVars(outers) == [i \in DOMAIN outers |-> outers[i].var]
SetIVars(outers) == [i \in DOMAIN outers |-> outers[i].ivar]

(* psi_set_func_validate: where the variable of a cast is looked for.      *)
SetFuncVar(s, im, cb, outers) ==
  VarOrElse(NumberVar(s.var, im, cb, SetVars(outers)),
            [s.var EXCEPT !.arg = psi_impl_get_temp_let_arg(im, s.var.name)])

(* The handler for the type of the cast and what is left of its inner       *)
(* expressions, "" for none that fits, "dies" for a recursion with nothing  *)
(* to recur to (set->outer is NULL).                                       *)
StringHandler(s) ==
  CASE s.inner = <<>> -> "to_string"
    [] Len(s.inner) = 1 /\ s.inner[1].kind = "NUMEXP" -> "to_stringl"
    [] OTHER -> ""

Complex(s) == IF HasMembers(s.var.arg.type) THEN "to_array" ELSE ""
ArrayHandler(s, outers) ==
  LET n == Len(s.inner)
      SameVar(i) == s.inner[i].var.name = s.var.name
  IN  CASE n = 0 /\ s.recursive -> IF outers = <<>> THEN "dies" ELSE "to_recursive"
        [] n = 0 /\ ~s.recursive -> ""
        [] n = 1 /\ s.inner[1].kind = "NUMEXP" -> ""
        [] n = 1 /\ s.inner[1].kind = "FUNC" -> IF SameVar(1) THEN "to_array_simple" ELSE Complex(s)
        [] n = 2 /\ s.inner[1].kind = "NUMEXP" ->
             IF s.inner[2].kind = "FUNC" /\ SameVar(2) THEN "to_array_counted" ELSE ""
        [] OTHER -> Complex(s)

Handler(s, outers) ==
  CASE s.fn = "to_string" -> StringHandler(s)
    [] s.fn = "to_array" -> ArrayHandler(s, outers)
    [] OTHER -> s.fn

(* A cast on a struct may have inner casts on members that it has not.      *)
ForeignSet(s, in) ==
  /\ in.kind = "FUNC"
  /\ HasMembers(s.var.arg.type)
  /\ ByName(Members(s.var.arg.type), in.var.name) = NoArg

RECURSIVE psi_set_exp_validate(_, _, _, _)

(* The inner expressions: those on foreign members and those that fail go.  *)
AppendSet(inner, r) ==
  CASE r.v = "ok" -> Ok(Append(inner.e, r.e))
    [] r.v = "rejects" -> inner
    [] r.v = "dies" -> Dies(inner.e)
SetInner(s, im, cb, outers) ==
  FoldLeft(LAMBDA acc, in :
             IF acc.v = "dies" \/ ForeignSet(s, in) THEN acc
             ELSE AppendSet(acc, psi_set_exp_validate(in, im, cb, <<s>> \o outers)),
           Ok(<<>>), s.inner)

(* The handler h of a cast s, and what became of its inner expressions.    *)
Handled(s, v, h) ==
  CASE "dies" \in {v, h} -> Dies(s)
    [] v # "dies" /\ h = "" -> Rejects(s)
    [] OTHER -> Ok([s EXCEPT !.handler = h])
WithInner_early(s, in, outers) == Handled([s EXCEPT !.inner = in.e], in.v, Handler(s, outers))
WithInner(s, in, outers) ==
  Handled([s EXCEPT !.inner = in.e], in.v, Handler([s EXCEPT !.inner = in.e], outers))
psi_set_func_validate(s, im, cb, outers) ==
  IF s.var.arg = NoArg THEN Rejects(s) ELSE WithInner(s, SetInner(s, im, cb, outers), outers)

SetExp(s, n, im, cb, outers) ==
  IF s.kind = "FUNC"
  THEN psi_set_func_validate([s EXCEPT !.var = SetFuncVar(s, im, cb, outers)], im, cb, outers)
  ELSE IF AllKnown(n) THEN Ok([s EXCEPT !.names = n]) ELSE Rejects(s)
psi_set_exp_validate(s, im, cb, outers) ==
  SetExp([s EXCEPT !.ivar = psi_impl_var_validate(SetImplVar(s), SetIVars(outers))],
         Numbers(s.names, im, cb, SetVars(outers)), im, cb, outers)

-----------------------------------------------------------------------------
(* Let expressions: [kind, var, ivar, fn, has, inner, data, names, args].   *)

(* psi_let_exp_get_decl_var: the one that is assigned, or of the same name  *)
(* as the implementation's variable.                                       *)
LetVar(e) == IF e.var.name = "" /\ e.kind \in {"FUNC", "CALLBACK"}
             THEN Var(e.ivar.name) ELSE e.var

LetVars(outers) == [i \in DOMAIN outers |-> outers[i].var]
LetIVars(outers) == [i \in DOMAIN outers |-> outers[i].ivar]

RECURSIVE psi_let_exp_validate(_, _, _)

(* validate_let_func_inner, of a struct: those on foreign members go.      *)
ForeignLet(e, in) == ByName(Members(e.var.arg.type), LetVar(in).name) = NoArg
StructInner(e, im, outers) ==
  LET Then(acc, r) == [v |-> r.v, e |-> Append(acc.e, r.e)]
      Some(r) == IF r.v = "ok" /\ r.e = <<>> THEN Rejects(r.e) ELSE r
  IN  Some(FoldLeft(LAMBDA acc, in :
                      IF acc.v # "ok" \/ ForeignLet(e, in) THEN acc
                      ELSE Then(acc, psi_let_exp_validate(in, im, <<e>> \o outers)),
                    Ok(<<>>), e.inner))

(* Of an array: the one that casts each element, on the same variable; it   *)
(* is not asked whether it has one (sub_ref is NULL).                      *)
ArrayInner(e, im, outers) ==
  LET in == e.inner[1]
      Only(r) == [v |-> r.v, e |-> <<r.e>>]
  IN  CASE in.ivar.name = "" -> Dies(e.inner)
        [] in.ivar.name # "" /\ in.ivar.name # e.ivar.name -> Rejects(e.inner)
        [] OTHER -> Only(psi_let_exp_validate(in, im, <<e>> \o outers))

LetInner(e, im, outers) ==
  CASE ~e.has -> Ok(<<>>)
    [] e.has /\ e.fn = "arrval" /\ HasMembers(e.var.arg.type) -> StructInner(e, im, outers)
    [] e.has /\ e.fn = "arrval" /\ ~HasMembers(e.var.arg.type)
             /\ Len(e.inner) = 1 /\ e.var.arg.ptr -> ArrayInner(e, im, outers)
    [] OTHER -> Rejects(e.inner)

psi_let_func_validate(e, im, outers) ==
  LET With(r) == [v |-> r.v, e |-> [e EXCEPT !.inner = r.e]]
  IN  IF e.fn = "arrval" /\ ~e.has THEN Rejects(e) ELSE With(LetInner(e, im, outers))

(* psi_let_callback_validate, over the arguments for the userland function. *)
psi_let_callback_validate(e, im) ==
  LET Of(r, F) == IF F = {} THEN Ok([e EXCEPT !.args = [i \in DOMAIN r |-> r[i].e]])
                  ELSE [v |-> r[First(F)].v, e |-> e]
      Args(r) == Of(r, {i \in DOMAIN r : r[i].v # "ok"})
      type == Types[e.var.arg.type]
  IN  IF type.kind # "function" THEN Rejects(e)
      ELSE Args([i \in DOMAIN e.args |->
                   psi_set_exp_validate(e.args[i], im,
                     [name |-> e.var.arg.type, type |-> "int", args |-> type.args], <<>>)])

LetFunc(e, im, outers) ==
  LET Then(r) == IF e.kind = "CALLBACK" /\ r.v = "ok" THEN psi_let_callback_validate(r.e, im) ELSE r
  IN  Then(psi_let_func_validate([e EXCEPT !.ivar = psi_impl_var_validate(@, LetIVars(outers))],
                                 im, outers))
LetExp(e, n, im, outers) ==
  CASE e.var.arg = NoArg -> Rejects(e)
    [] e.var.arg # NoArg /\ e.kind = "NULL" -> Ok(e)
    [] e.var.arg # NoArg /\ e.kind \in {"NUMEXP", "CALLOC"} ->
         IF AllKnown(n) THEN Ok([e EXCEPT !.names = n]) ELSE Rejects(e)
    [] e.var.arg # NoArg /\ e.kind \in {"FUNC", "CALLBACK"} -> LetFunc(e, im, outers)
psi_let_exp_validate(e, im, outers) ==
  LetExp([e EXCEPT !.var = psi_decl_var_validate(LetVar(e), im.decl, LetVars(outers))],
         Numbers(e.names, im, NoDecl, LetVars(outers)), im, outers)

(* A temp, which stands alone, has the argument of what it is made of.      *)
TempValidate(e, im) ==
  LET With(d) == IF d.arg = NoArg THEN Rejects([e EXCEPT !.data = d])
                 ELSE Ok([e EXCEPT !.data = d, !.var.arg = d.arg])
  IN  With(psi_decl_var_validate(e.data, im.decl, <<>>))

-----------------------------------------------------------------------------
(* psi_impl_validate, a step for each statement.                           *)

Stages == <<"func", "return", "lets", "covered", "sets", "asserts", "frees", "done">>

Init ==
  /\ given \in Impls
  /\ impl = given
  /\ stage = "func" /\ next = 1
  /\ verdict = "running"

At(s) == verdict = "running" /\ stage = s

(* On to the next stage, or the end of validation.                         *)
Following(s) == Stages[SelectInSeq(Stages, LAMBDA t : t = s) + 1]
Proceed == /\ stage' = Following(stage)
           /\ next' = 1
           /\ verdict' = IF Following(stage) = "done" THEN "accepted" ELSE verdict
           /\ UNCHANGED <<given, impl>>

End_accepts(v) == verdict' = "accepted" /\ UNCHANGED <<given, impl, stage, next>>
End(v) == /\ verdict' = IF v = "dies" THEN "dies" ELSE "rejected"
          /\ UNCHANGED <<given, impl, stage, next>>

(* The outcome r for the next of the statements of this stage.             *)
Take(list, r) ==
  IF r.v # "ok" THEN End(r.v)
  ELSE /\ impl' = [impl EXCEPT ![list][next] = r.e]
       /\ next' = next + 1
       /\ UNCHANGED <<given, stage, verdict>>

(* psi_impl_func_validate: defaults are of a type that has some, and what   *)
(* follows an optional argument is optional.                               *)
DefaultsFine(func) ==
  \A i \in DOMAIN func :
    /\ func[i].def # "bad"
    /\ func[i].def = "none" => \A j \in 1..(i - 1) : func[j].def = "none"
ValidateFunc ==
  /\ At("func")
  /\ IF DefaultsFine(impl.func) THEN Proceed ELSE End("rejects")

(* psi_return_stmt_validate: the one return statement tells the declaration *)
Named(name) == SelectInSeq(decls, LAMBDA d : d.name = name)
Returns(im, r) ==
  IF r.v # "ok" THEN End(r.v)
  ELSE /\ impl' = [im EXCEPT !.rets = <<r.e>>]
       /\ stage' = Following(stage) /\ next' = 1
       /\ UNCHANGED <<given, verdict>>
ReturnOf(im) == Returns(im, psi_set_exp_validate(im.rets[1], im, NoDecl, <<>>))
ValidateReturn ==
  /\ At("return")
  /\ IF Len(impl.rets) # 1 \/ Named(impl.rets[1].var.name) = 0 THEN End("rejects")
     ELSE ReturnOf([impl EXCEPT !.decl = decls[Named(impl.rets[1].var.name)]])

(* psi_let_stmts_validate: its variables are arguments.                    *)
LetStmtValidate(e) ==
  CASE psi_decl_get_arg(impl.decl, IF e.kind = "TMP" THEN e.data.name ELSE e.var.name) = NoArg
         -> Rejects(e)
    [] e.kind \in {"FUNC", "CALLBACK"} /\ ~psi_impl_get_arg(impl, e.ivar.name) -> Rejects(e)
    [] e.kind = "TMP" -> TempValidate(e, impl)
    [] OTHER -> psi_let_exp_validate(e, impl, <<>>)
ValidateLet ==
  /\ At("lets")
  /\ IF next > Len(impl.lets) THEN Proceed ELSE Take("lets", LetStmtValidate(impl.lets[next]))

(* "check that we have a let stmt for every decl arg"                      *)
ArgsCovered_never(im) == TRUE
ArgsCovered(im) == \A i \in DOMAIN im.decl.args : GetLet(im, im.decl.args[i]) # 0
CheckArgs ==
  /\ At("covered")
  /\ IF ArgsCovered(impl) THEN Proceed ELSE End("rejects")

(* psi_set_stmts_validate.                                                 *)
SetStmtValidate(s) ==
  IF \/ s.ivar.name = "" \/ ~psi_impl_get_arg(impl, s.ivar.name)
     \/ /\ s.kind = "FUNC"
        /\ psi_decl_get_arg(impl.decl, s.var.name) = NoArg
        /\ psi_impl_get_temp_let_arg(impl, s.var.name) = NoArg
  THEN Rejects(s) ELSE psi_set_exp_validate(s, impl, NoDecl, <<>>)
ValidateSet ==
  /\ At("sets")
  /\ IF next > Len(impl.sets) THEN Proceed ELSE Take("sets", SetStmtValidate(impl.sets[next]))

(* psi_assert_stmts_validate: they compute with arguments only.            *)
AssertStmtValidate(a) ==
  LET Known(n) == IF AllKnown(n) THEN Ok(n) ELSE Rejects(a)
  IN  Known(Numbers(a, impl, NoDecl, <<>>))
ValidateAssert ==
  /\ At("asserts")
  /\ IF next > Len(impl.asserts) THEN Proceed
     ELSE Take("asserts", AssertStmtValidate(impl.asserts[next]))

(* psi_free_exp_validate: assert(exp->let[i]) for each of its variables.    *)
FreeExpValidate(f) ==
  LET a == [i \in DOMAIN f.vars |-> psi_decl_get_arg(impl.decl, f.vars[i])]
      l == [i \in DOMAIN a |-> GetLet(impl, a[i])]
      Bad == {i \in DOMAIN a : a[i] = NoArg \/ l[i] = 0}
  IN  CASE Named(f.fn) = 0 -> Rejects(f)
        [] Named(f.fn) # 0 /\ Bad = {} -> Ok([f EXCEPT !.lets = l])
        [] OTHER -> IF a[First(Bad)] = NoArg
                    THEN Rejects(f) ELSE Dies(f)
ValidateFree ==
  /\ At("frees")
  /\ IF next > Len(impl.frees) THEN Proceed
     ELSE Take("frees", FreeExpValidate(impl.frees[next]))

Next == \/ ValidateFunc \/ ValidateReturn \/ ValidateLet \/ CheckArgs
        \/ ValidateSet \/ ValidateAssert \/ ValidateFree

Spec == Init /\ [][Next]_vars
-----------------------------------------------------------------------------
(* Properties.                                                             *)

(* The set expressions that a call executes, as those below s, with what    *)
(* they are in.  Casts to anything but arrays and strings ignore what is    *)
(* inside of them, and a recursion is that of the cast it is in.           *)
ArrayHandlers == {"to_array", "to_array_simple", "to_array_counted"}
RECURSIVE SetNodes(_, _)
SetNodes(s, outers) ==
  {[s |-> s, outers |-> outers]} \union
  IF s.handler \in ArrayHandlers \union {"to_stringl"}
  THEN UNION {SetNodes(s.inner[i], <<s>> \o outers) : i \in DOMAIN s.inner}
  ELSE {}

RECURSIVE LetNodes(_, _)
LetNodes(e, outers) ==
  {[e |-> e, outers |-> outers]} \union
  UNION {LetNodes(e.inner[i], <<e>> \o outers) : i \in DOMAIN e.inner}

Lets == UNION {LetNodes(e, <<>>) : e \in Range(impl.lets)}
Sets == UNION {SetNodes(s, <<>>) : s \in Range(impl.rets) \union Range(impl.sets)}
CallbackSets == UNION {UNION {SetNodes(s, <<>>) : s \in Range(e.args)} : e \in Range(impl.lets)}

Accepted == verdict = "accepted"

(* TypeOK: an implementation is in one of the stages, with the statement    *)
(* that is next, and only validation that has come to its end accepts it.   *)
TypeOK ==
  /\ given \in Impls
  /\ stage \in Range(Stages)
  /\ next \in 1..(1 + Max({Len(given.lets), Len(given.sets), Len(given.asserts), Len(given.frees)}))
  /\ verdict \in {"running", "accepted", "rejected", "dies"}
  /\ Accepted <=> stage = "done"
  /\ Len(impl.lets) = Len(given.lets) /\ Len(impl.sets) = Len(given.sets)

(* What a full name leads to: from an argument of the declaration, of the   *)
(* callback or a temporary, by members of what comes before it, or by the   *)
(* same name again for the elements of an array.                           *)
Roots(name, cb) ==
  {psi_decl_get_arg(impl.decl, name), ByName(cb, name), psi_impl_get_temp_let_arg(impl, name)}
RECURSIVE Leads(_, _)
Leads(from, fqn) ==
  IF Len(fqn) = 1 THEN from
  ELSE Leads(({ByName(Members(a.type), fqn[2]) : a \in from \ {NoArg}} \ {NoArg})
             \union (IF fqn[1] = fqn[2] THEN from ELSE {}),
             Tail(fqn))
LeadsTo(v, cb) == v.arg # NoArg /\ v.arg \in Leads(Roots(v.fqn[1], cb), v.fqn)

(* FullNamesLead: in an accepted implementation, every variable that a call *)
(* uses has an argument, and its full name, by which the call finds the     *)
(* symbol to read and write, leads through the members to that argument.    *)
(* (psi_decl_var_validate, from the innermost expression outwards.)  The    *)
(* cast of an array's elements that is assigned to another argument is left *)
(* out: its name begins there, and that of what is inside of it does not.   *)
SetLeads(n, cb) == IF n.s.kind = "FUNC" THEN LeadsTo(n.s.var, cb)
                   ELSE \A i \in DOMAIN n.s.names : LeadsTo(n.s.names[i], cb)
StrayElement(e) == e.fn = "arrval" /\ ~HasMembers(e.var.arg.type)
                   /\ e.inner # <<>> /\ e.inner[1].var.name # e.var.name
LetLeads(n) ==
  \/ \E i \in DOMAIN n.outers : StrayElement(n.outers[i])
  \/ n.e.kind = "TMP" /\ LeadsTo(n.e.data, <<>>)
  \/ n.e.kind # "TMP" /\ LeadsTo(n.e.var, <<>>)
     /\ \A i \in DOMAIN n.e.names : LeadsTo(n.e.names[i], <<>>)
FullNamesLead ==
  Accepted =>
    /\ \A n \in Lets : LetLeads(n)
    /\ \A n \in Sets : SetLeads(n, <<>>)
    /\ \A e \in {x \in Range(impl.lets) : x.kind = "CALLBACK"} :
         \A s \in Range(e.args) : \A n \in SetNodes(s, <<>>) :
           SetLeads(n, Types[e.var.arg.type].args)

(* OneSymbolEach: let expressions of an accepted implementation that differ *)
(* in what they assign do not share a symbol: their full names differ, as   *)
(* long as the same name is not assigned twice in one place (which nothing  *)
(* checks) and no array is cast by way of another argument.                *)
SameTwice(list) == \E i, j \in DOMAIN list : i # j /\ LetVar(list[i]).name = LetVar(list[j]).name
OneSymbolEach ==
  (/\ Accepted
   /\ ~SameTwice(impl.lets)
   /\ \A n \in Lets : ~SameTwice(n.e.inner) /\ ~StrayElement(n.e))
  => \A m, n \in Lets : m # n => m.e.var.fqn # n.e.var.fqn

(* NamesResolve: the full names that decl_var.c builds while it goes into   *)
(* casts do both of their jobs: they lead to the member that is meant, and  *)
(* they tell the symbols of the frame apart.                                *)
NamesResolve == FullNamesLead /\ OneSymbolEach

(* KeepsMembers: what validation removes from a let is what the struct has  *)
(* no member for, at every level, and nothing else; the rest stays in its   *)
(* order.  Of a set, a cast of a single member stays, too.  ("remove expr   *)
(* for portability with different struct members")                         *)
NamesOf(list) == [i \in DOMAIN list |-> LetVar(list[i]).name]
RECURSIVE KeptLet(_, _)
KeptLet(was, is) ==
  IF is.fn = "arrval" /\ HasMembers(is.var.arg.type)
  THEN LET kept == SelectSeq(was.inner, LAMBDA in : ~ForeignLet(is, in))
       IN  /\ NamesOf(is.inner) = NamesOf(kept)
           /\ \A i \in DOMAIN kept : KeptLet(kept[i], is.inner[i])
  ELSE Len(was.inner) = Len(is.inner)
Plain(s, in) == in.kind = "FUNC" /\ in.inner = <<>> /\ in.fn # "to_array" /\ ~ForeignSet(s, in)
VarNames(list) == [i \in DOMAIN list |-> list[i].var.name]
KeptSet(was, is) ==
  HasMembers(is.var.arg.type) =>
    LET Stays(in) == Plain(is, in)
    IN  VarNames(SelectSeq(is.inner, Stays)) = VarNames(SelectSeq(was.inner, Stays))
KeepsMembers ==
  Accepted =>
    /\ \A i \in DOMAIN impl.lets : KeptLet(given.lets[i], impl.lets[i])
    /\ \A i \in DOMAIN impl.sets :
         impl.sets[i].kind = "FUNC" => KeptSet(given.sets[i], impl.sets[i])

(* HandlersFit: the handler of a cast is chosen for the inner expressions   *)
(* that are left when it is executed: marshal.c takes them by position, and *)
(* looks up the layout of each member.  Numeric ones inside a cast of a     *)
(* struct have no member, and marshal.c:584 reads a null pointer for them. *)
Fits(n) ==
  LET s == n.s
      in == s.inner
  IN  CASE s.handler = "to_string" -> in = <<>>
        [] s.handler = "to_stringl" -> Len(in) = 1 /\ in[1].kind = "NUMEXP"
        [] s.handler = "to_array_simple" -> Len(in) = 1 /\ in[1].handler # ""
        [] s.handler = "to_array_counted" ->
             Len(in) = 2 /\ in[1].kind = "NUMEXP" /\ in[2].handler # ""
        [] s.handler = "to_array" ->
             \A i \in DOMAIN in : in[i].kind = "FUNC" =>
               in[i].handler # "" /\ in[i].var.arg \in Range(Members(s.var.arg.type))
        [] s.handler = "to_recursive" -> n.outers # <<>> /\ n.outers[1].fn = "to_array"
        [] OTHER -> s.handler # "" \/ s.kind = "NUMEXP"
HandlersFit == Accepted => \A n \in Sets \union CallbackSets : Fits(n)

(* InnersFit: of an expression with inner ones, those are left that its     *)
(* type has members for, and its handler is chosen for those.               *)
InnersFit == KeepsMembers /\ HandlersFit

(* DiesOnlyFor: validation ends in a verdict but for three trees: an array  *)
(* whose elements are no cast of a variable, a recursion that is in nothing *)
(* and a freed variable that no let has, as the one that is returned.       *)
DiesOnlyFor ==
  verdict = "dies" =>
    \/ stage = "lets" /\ \E n \in LetNodes(impl.lets[next], <<>>) :
         \/ n.e.has /\ Len(n.e.inner) = 1 /\ n.e.inner[1].ivar.name = ""
         \/ \E s \in Range(n.e.args) : s.recursive
    \/ stage \in {"return", "sets"}
       /\ \E s \in Range(given.rets) \union Range(given.sets) : s.recursive
    \/ stage = "frees" /\ impl.decl.name \in Range(impl.frees[next].vars)

=============================================================================

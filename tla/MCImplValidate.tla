--------------------------- MODULE MCImplValidate ---------------------------
(* Implementations of three declarations:                                   *)
(*   int fn(int x, struct S s), struct S gn(int *p, F cb), void fr(int *p)  *)
(* with  struct S { int a; struct T t; int s; }, struct T { int c; int a; } *)
(* and   typedef int F(int k, struct S s).                                  *)
EXTENDS ImplValidate

A(o, n, t, p) == [owner |-> o, name |-> n, type |-> t, ptr |-> p]
T(k, args) == [kind |-> k, args |-> args]
MCTypes == [
  int |-> T("scalar", <<>>),
  S |-> T("struct", <<A("S", "a", "int", FALSE), A("S", "t", "T", FALSE), A("S", "s", "int", FALSE)>>),
  T |-> T("union", <<A("T", "c", "int", FALSE), A("T", "a", "int", FALSE)>>),
  F |-> T("function", <<A("F", "k", "int", FALSE), A("F", "s", "S", FALSE)>>)]
MCDecls == <<
  [name |-> "fn", type |-> "int", args |-> <<A("fn", "x", "int", FALSE), A("fn", "s", "S", FALSE)>>],
  [name |-> "gn", type |-> "S", args |-> <<A("gn", "p", "int", TRUE), A("gn", "cb", "F", FALSE)>>],
  [name |-> "fr", type |-> "int", args |-> <<A("fr", "p", "int", TRUE)>>]>>

Vars(names) == [i \in DOMAIN names |-> Var(names[i])]

(* let v = kind, on the variable i of the implementation.                   *)
Let(kind, v, i, fn) ==
  [kind |-> kind, var |-> Var(v), ivar |-> IVar(i), fn |-> fn, has |-> FALSE, inner |-> <<>>,
   data |-> Var(""), names |-> <<>>, args |-> <<>>]
Null(v) == Let("NULL", v, "", "")
NumLet(v, names) == [Let("NUMEXP", v, "", "") EXCEPT !.names = Vars(names)]
Val(v, i) == Let("FUNC", v, i, "intval")
ArrVal(v, i, inner) == [Let("FUNC", v, i, "arrval") EXCEPT !.has = TRUE, !.inner = inner]
Temp(v, d) == [Let("TMP", v, "", "") EXCEPT !.data = Var(d)]
Callback(v, i, args) == [Let("CALLBACK", v, i, "void") EXCEPT !.args = args]

(* set iv = fn(v, inner).                                                   *)
Set(kind, iv, fn, v) ==
  [kind |-> kind, ivar |-> IVar(iv), fn |-> fn, var |-> Var(v), inner |-> <<>>, recursive |-> FALSE,
   names |-> <<>>, handler |-> ""]
To(fn, v) == Set("FUNC", "", fn, v)
ToIn(fn, v, inner) == [To(fn, v) EXCEPT !.inner = inner]
Rec(v) == [To("to_array", v) EXCEPT !.recursive = TRUE]
NumSet(names) == [Set("NUMEXP", "", "", "") EXCEPT !.names = Vars(names)]
As(iv, s) == [s EXCEPT !.ivar = IVar(iv)]

Arg(n) == [name |-> n, def |-> "none"]
Free(f, vs) == [fn |-> f, vars |-> vs, lets |-> <<>>]

Impl(func, ret, lets, sets, asserts, frees) ==
  [func |-> func, rets |-> ret, lets |-> lets, sets |-> sets, asserts |-> asserts,
   frees |-> frees, decl |-> NoDecl]

Func == <<Arg("x"), Arg("s"), Arg("p")>>
RetFn == <<To("to_int", "fn")>>
FnLets == <<Val("x", "x"), ArrVal("s", "s", <<Val("", "a")>>)>>
PLets == <<Val("p", "p"), Callback("cb", "s", <<>>)>>

Upto(n, S) == UNION {[1..k -> S] : k \in 0..n}

(* Trees of let expressions for the struct, for the array and a callback.   *)
TLets == {Val("", "c"), Val("a", "x"), NumLet("c", <<"x">>), NumLet("a", <<"c">>), Val("", "s")}
InS == {Val("", "a"), Val("s", "a"), Val("", "zz"), Null("t"), NumLet("", <<"x">>), NumLet("a", <<"s">>),
        NumLet("a", <<"zz">>)}
       \union {ArrVal("t", "t", k) : k \in Upto(2, TLets)}
SLets == {ArrVal("s", "s", k) : k \in Upto(2, InS)}
  \union {ArrVal("s", "s", <<Val("", "zz"), Val("", "yy"), Val("", "a"), k>>) : k \in InS}
  \union {Val("s", "s"), Null("s"), Temp("s", "s"), Val("s", "zz"), [Val("s", "s") EXCEPT !.fn = "arrval"]}
Elements == {Val("", "p"), Val("cb", "p"), Val("", "x"), Val("x", "p"), Val("zz", "p"), Null("p"), NumLet("", <<"p">>)}
PLetsOf == {ArrVal("p", "p", <<k>>) : k \in Elements}
  \union {ArrVal("p", "p", <<Val("", "p"), Val("", "p")>>), ArrVal("p", "p", <<>>),
          ArrVal("p", "p", <<ArrVal("", "p", <<Val("", "p")>>)>>), Temp("p", "p"), Null("p"),
          [ArrVal("p", "p", <<Val("", "p")>>) EXCEPT !.fn = "intval"]}

(* Trees of set expressions: for the struct s and what is in it, and for p. *)
TSets == {To("to_int", "c"), To("to_int", "a"), To("to_int", "zz"), NumSet(<<"c">>), Rec("t")}
InSet == {To("to_int", "a"), To("to_int", "x"), To("to_array", "a"), NumSet(<<"x">>), NumSet(<<"zz">>),
          ToIn("to_string", "a", <<NumSet(<<"s">>)>>), Rec("t")}
         \union {ToIn("to_array", "t", k) : k \in Upto(2, TSets)}
SSets == {ToIn("to_array", "s", k) : k \in Upto(2, InSet)}
  \union {ToIn("to_array", "s", <<To("to_int", "zz"), To("to_int", "yy"), To("to_int", "a"), k>>) : k \in InSet}
XSets == {ToIn(f, "x", k) : f \in {"to_int", "to_string", "to_array"},
                            k \in Upto(2, {To("to_int", "x"), To("to_int", "s"), NumSet(<<"x">>), NumSet(<<"zz">>), Rec("x")})}
Others == {To("to_int", v) : v \in {"zz", "tmp", "fn"}} \union {NumSet(<<"x">>), NumSet(<<"zz">>), Rec("s")}

(* One statement varies at a time, and the others are in order.             *)
FnImpls ==
  {Impl(Func, RetFn, <<Val("x", "x"), e>>, <<>>, <<>>, <<>>) : e \in SLets}
  \union {Impl(Func, RetFn, FnLets, <<As(iv, s)>>, <<>>, <<>>) : iv \in {"x", "", "q"}, s \in Others}
  \union {Impl(Func, RetFn, FnLets, <<As("x", s)>>, <<>>, <<>>) : s \in SSets \union XSets}
  \union {Impl(Func, RetFn, <<Temp("tmp", "x")>> \o FnLets, <<As("x", s)>>, <<>>, <<>>) : s \in Others}
  \union {Impl(Func, RetFn, l, <<>>, <<>>, <<>>) :
            l \in {<<>>, <<FnLets[1]>>, <<FnLets[2]>>, FnLets \o FnLets, <<FnLets[2], Temp("tmp", "x")>>,
                   <<Temp("x", "x"), FnLets[2]>>, FnLets \o <<Val("fn", "x")>>, FnLets \o <<Temp("y", "fn")>>,
                   <<NumLet("x", <<"s">>), Null("s")>>, <<[Null("x") EXCEPT !.kind = "CALLOC"], Null("s")>>}}
  \union {Impl(Func, RetFn, FnLets, <<>>, <<Vars(<<"x">>), Vars(<<n>>)>>, <<>>) : n \in {"s", "fn", "zz"}}
  \union {Impl(Func, RetFn, FnLets, <<>>, <<>>, <<Free("fr", <<"x">>), Free(f, <<"s", v>>)>>) :
            f \in {"fr", "zz"}, v \in {"x", "fn", "zz"}}
  \union {Impl(Func, RetFn, l, <<>>, <<>>, <<Free("fr", <<"x">>)>>) : l \in {FnLets, <<FnLets[2]>>}}
  \union {Impl(Func, r, FnLets, <<>>, <<>>, <<>>) :
            r \in {<<>>, RetFn \o RetFn, <<To("to_int", "zz")>>, <<To("to_array", "fn")>>, <<Rec("fn")>>}}
  \union {Impl([Func EXCEPT ![1].def = d, ![3].def = c], RetFn, FnLets, <<>>, <<>>, <<>>) :
            d \in {"none", "ok"}, c \in {"ok", "bad"}}

(* The arguments of the callback cb are k and s.                            *)
GnImpls ==
  {Impl(Func, <<r>>, PLets, <<>>, <<>>, <<>>) :
     r \in {To("to_int", "gn"), ToIn("to_array", "gn", <<To("to_int", "a"), ToIn("to_array", "t", <<To("to_int", "c")>>)>>)}}
  \union {Impl(Func, <<To("to_object", "gn")>>, <<e, PLets[2]>>, <<>>, <<>>, <<Free("fr", <<"p">>)>>) : e \in PLetsOf}
  \union {Impl(Func, <<To("to_object", "gn")>>, <<PLets[1], e>>, <<>>, <<>>, <<>>) :
     e \in {Callback("cb", i, a) : i \in {"x", "zz"},
                                   a \in Upto(2, {To("to_int", "k"), To("to_int", "p"), To("to_int", "zz"), Rec("s"),
                                                  NumSet(<<"k">>), ToIn("to_array", "s", <<To("to_int", "a"), To("to_int", "x")>>)})}
           \union {[Callback("cb", "x", <<>>) EXCEPT !.fn = "arrval"], Null("cb")}}
  \union {Impl(Func, <<To("to_object", "gn")>>, <<Callback("p", "x", <<>>), Null("cb")>>, <<>>, <<>>, <<>>)}

AllImpls == FnImpls \union GnImpls
=============================================================================

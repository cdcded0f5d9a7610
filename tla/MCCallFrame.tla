---------------------------- MODULE MCCallFrame ----------------------------
(* The implementations on which the life of a call is checked.             *)
EXTENDS CallFrame, TLC

Arg(type) == [type |-> type, def |-> "none", ref |-> FALSE]
ByRef(type, def) == [type |-> type, def |-> def, ref |-> TRUE]
Optional(type, def) == [type |-> type, def |-> def, ref |-> FALSE]
To(kind, a) == [kind |-> kind, arg |-> a]

Plain == [args |-> <<>>, vararg |-> "none", lets |-> <<>>, convert |-> "none",
          asserts |-> {}, sets |-> <<>>, out |-> FALSE, large |-> FALSE, static |-> FALSE]

(* Like the example of README.md, with a $result that may be left out:     *)
(* f(string $host, string &$result = NULL, int $flags = 0) {               *)
(*   let buffer = &NULL; let host = strval($host); let flags = ...         *)
(*   set $result = to_string of buffer; free free(buffer); }               *)
Convert == [Plain EXCEPT
  !.args = <<Arg("string"), ByRef("string", "null"), Optional("int", "null")>>,
  !.lets = <<To("none", 0), To("strval", 1), To("none", 3)>>,
  !.sets = << <<2, 1>> >>, !.asserts = {"post"}, !.out = TRUE]

(* f(string &$buf, callable $cb) { let buf = strval($buf); set $buf = ... } *)
Edit == [Plain EXCEPT
  !.args = <<ByRef("string", "none"), Optional("callable", "null")>>,
  !.lets = <<To("strval", 1), To("callback", 2)>>, !.convert = "strval",
  !.sets = << <<1, 1>> >>, !.asserts = {"pre"}]

(* f(callable $cb, array $a = NULL)                                         *)
Each == [Plain EXCEPT
  !.args = <<Arg("callable"), Optional("array", "null")>>,
  !.lets = <<To("calloc", 0), To("callback", 1), To("arrval", 2)>>, !.convert = "arrval",
  !.large = TRUE]

(* static f(mixed $path, mixed ...$args)                                    *)
Format == [Plain EXCEPT
  !.args = <<Arg("mixed")>>, !.vararg = "mixed",
  !.lets = <<To("pathval", 1), To("strval", 1), To("null array", 0), To("static calloc", 0)>>,
  !.static = TRUE]

Scan == [Plain EXCEPT
  !.args = <<Arg("string")>>, !.vararg = "string", !.lets = <<To("pathval", 1)>>]

Times == [Plain EXCEPT !.lets = <<To("none", 0)>>, !.asserts = {"pre", "post"}]

MCImpls == {"convert", "edit", "each", "format", "scan", "times"}
MCImpl == ("convert" :> Convert) @@ ("edit" :> Edit) @@ ("each" :> Each)
            @@ ("format" :> Format) @@ ("scan" :> Scan) @@ ("times" :> Times)

(* What the theorems about memory ask of implementations (CallFrame_proofs)*)
(* is true of those above: no default is a string, and what becomes a      *)
(* string by strval or pathval must be given if it is not one already.     *)
ASSUME MCImplsAreSafe ==
  \A i \in MCImpls :
    LET im == MCImpl[i] IN
    /\ \A a \in DOMAIN im.args : im.args[a].def # "string"
    /\ \A l \in DOMAIN im.lets : im.lets[l].kind \in {"strval", "pathval"} =>
         \/ im.args[im.lets[l].arg].type = "string"
         \/ \A b \in 1 .. im.lets[l].arg : im.args[b].def = "none"

Greeting == [Plain EXCEPT !.args = <<Optional("string", "string")>>, !.lets = <<To("strval", 1)>>]
Greetings == {"greeting"}
GreetingImpl == "greeting" :> Greeting
=============================================================================

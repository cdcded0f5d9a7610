--------------------------- MODULE MCDataValidate ---------------------------
(* The files on which psi_data_validate is checked.                        *)
EXTENDS DataValidate, TLC

Ty(n) == <<"type", n>>
St(n) == <<"struct", n>>
Un(n) == <<"union", n>>
En(n) == <<"enum", n>>
Fn(n) == <<"decl", n>>

By(id) == [id |-> id, ptr |-> FALSE]
To(id) == [id |-> id, ptr |-> TRUE]
Long == By(<<"base", "long">>)

(* A file of the entities in es, each <<id, uses>>.                        *)
File(es, sized, fine, quiet) ==
  LET n == Len(es) IN
  [order |-> [i \in 1 .. n |-> es[i][1]],
   uses |-> [id \in {es[i][1] : i \in 1 .. n} |->
               es[CHOOSE i \in 1 .. n : es[i][1] = id][2]],
   prior |-> {}, sized |-> sized, fine |-> fine, silent |-> quiet]

(* Typedefs of each other, of structs, and of what is unknown.             *)
Aliases ==
  LET targets == {Long, By(St("a")), To(St("a")), To(St("no")), By(Ty("no")), By(En("e"))}
      used == {By(Ty("t")), By(Ty("u")), To(Ty("u")), By(St("a"))}
  IN
  {File(<< <<Ty("t"), <<t>> >>, <<Ty("u"), <<u>> >>, <<St("a"), a>>, <<En("e"), <<>> >>,
           <<Fn("f"), <<f>> >> >>, {}, {Fn("f"), En("e")}, quiet) :
     t \in targets \union {By(Ty("u"))}, u \in targets \union {By(Ty("t"))},
     a \in {<<Long>>, <<By(En("e"))>>, <<To(Ty("u"))>>, <<Long, By(St("no"))>>, <<>>},
     f \in used, quiet \in BOOLEAN}

(* Structs and unions in each other, in either order, with enums.          *)
Members == {<<Long>>, <<Long, To(St("b"))>>, <<By(St("b"))>>, <<Long, By(St("b"))>>, <<By(Un("u"))>>,
            <<To(Un("u")), By(En("e"))>>, <<By(Ty("t"))>>, <<By(St("no"))>>, <<To(Ty("no")), Long>>}

Nested ==
  {File(<< <<Ty("t"), <<t>> >>, <<St("a"), a>>, <<St("b"), b>>, <<Un("u"), u>>,
           <<En("e"), <<>> >>, <<Fn("f"), <<By(St("a")), By(Ty("t"))>> >> >>, {}, fine, FALSE) :
     t \in {Long, By(Un("u")), To(St("b")), By(St("b"))},
     a \in Members,
     b \in {<<Long>>, <<By(St("a"))>>, <<To(St("a"))>>, <<By(En("e")), Long>>, <<Long, By(Ty("t"))>>},
     u \in {<<Long>>, <<By(St("b")), Long>>, <<Long, By(St("a"))>>},
     fine \in {{Fn("f"), En("e")}, {En("e")}, {Fn("f")}}}

(* A file after another one, which declared s::(8,8), p of an s by value    *)
(* and a typedef of it.                                                    *)
Later ==
  {[f EXCEPT !.prior = {St("s"), St("p"), Ty("q")},
             !.uses = @ @@ St("s") :> <<>> @@ St("p") :> <<By(St("s"))>> @@ Ty("q") :> <<By(St("p"))>>] :
   f \in {File(<< <<Ty("t"), <<t>> >>, <<St("a"), a>>, <<Un("u"), u>>, <<Fn("f"), <<By(Ty("t"))>> >> >>,
               IF u = <<>> THEN {Un("u")} ELSE {}, {Fn("f")}, FALSE) :
            t \in {By(Ty("q")), By(St("s")), To(St("p")), By(Un("u"))},
            a \in {<<By(St("p"))>>, <<By(Ty("q"))>>, <<By(Ty("t"))>>, <<Long, By(Un("u"))>>},
            u \in {<<>>, <<By(St("a"))>>}}}

EveryFile == Aliases \union Nested \union Later
=============================================================================

----------------------------- MODULE MCScanner -----------------------------
(***************************************************************************)
(* Scanner for TLC: all short texts over small alphabets, one for each part *)
(* of the machine.  Attribute, Pragma and Once are spelled with one or two  *)
(* characters, and five words stand for the keywords.                       *)
(***************************************************************************)
EXTENDS Scanner

MCAttribute == <<"_", "a">>
MCPragma == <<"p", "r">>
MCOnce == <<"o">>
MCKeywords == {<<"i", "f">>, <<"l", "e", "t">>, <<"u", "n", "d">>,
               <<"u", "i", "n", "t">>, MCPragma}

Strings(S, n) == UNION {[1 .. k -> S] : k \in 0 .. n}
Lines(T) == {Append(t, "\n") : t \in T}

Integer == Strings({"0", "1", "8", "l", "u", "x"}, 4)
Fraction == Strings({"1", ".", "e", "+", "f"}, 5)
HexFraction == {<<"0", "x", "1">> \o t : t \in Strings({".", "p", "a", "-", "1", "l"}, 3)}
Decimal == {<<"1", ".">> \o t : t \in Strings({"d", "f", "L", "l"}, 3)}
Names == Strings({"i", "f", "L", "\"", "\\", "\n"}, 4)
Literals == Strings({"u", "8", "\"", "'", "t", "l"}, 4)
Strung == Strings({"\"", "'", "\\", "\n", "i"}, 5)
Comments == {<<"/">> \o t : t \in Strings({"/", "*", "\n", "i"}, 5)}
Attributes == {MCAttribute \o t : t \in Strings({"(", ")", " ", "\n"}, 6)}
Headers == Strings({"<", ">", "=", "i", "\n"}, 4)
Signs == Strings({"!", "#", "=", "$", "@", "i", "8", " "}, 3)
Pragmas == {MCPragma \o t : t \in Strings({"o", "_", " ", "\\", "\n"}, 4)}

MCTexts == Lines(Integer) \cup Fraction \cup Lines(HexFraction) \cup Lines(Decimal)
           \cup Names \cup Literals \cup Strung \cup Comments \cup Attributes
           \cup Headers \cup Lines(Signs) \cup Pragmas
=============================================================================

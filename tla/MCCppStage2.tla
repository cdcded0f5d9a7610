---------------------------- MODULE MCCppStage2 ----------------------------
(* Short texts over lines of text and directives, and longer ones inside   *)
(* the branches of a group.                                                *)
EXTENDS CppStage2

N(n) == Tok("NAME", n)
T(ty) == Tok(ty, "")
X == Tok("OTHER", "x")
Num(d) == Tok("NUMBER", d)
Dir(ty, args) == <<T("HASH"), T(ty)>> \o args

TextLines == {<<X>>, <<N("A"), X, N("B")>>}
Definitions ==
  {Dir("DEFINE", <<N("A")>>), Dir("DEFINE", <<N("A"), N("B"), N("B")>>),
   Dir("DEFINE", <<N("B"), Num("1")>>), Dir("DEFINE", <<N("B"), N("B")>>),
   Dir("UNDEF", <<N("A")>>)}
Openings ==
  {Dir("IFDEF", <<N("A")>>), Dir("IFNDEF", <<N("B")>>), Dir("IF", <<N("A")>>),
   Dir("IF", <<T("DEFINED"), T("LPAREN"), N("A"), T("RPAREN")>>)}
Branches == {Dir("ELSE", <<>>), Dir("ELIF", <<T("DEFINED"), N("B")>>), Dir("ELIF", <<N("B")>>)}
Others == {Dir("INCLUDE", <<T("HEADER")>>), <<T("HASH")>>, Dir("ENDIF", <<>>), <<>>}

Lines == TextLines \union Definitions \union Openings \union Branches \union Others

SeqsUpTo(S, n) == UNION {[1 .. m -> S] : m \in 0 .. n}

Ended(lines) == [lines |-> lines, eol |-> TRUE]
Unended(lines) == [lines |-> lines, eol |-> FALSE]

MCInputs ==
  {Ended(s) : s \in SeqsUpTo(Lines, 3)}
    \union {Ended(<<d, o>> \o <<t, b, u, Dir("ENDIF", <<>>), <<X>>>>) :
              d \in Definitions, o \in Openings, t \in Lines, b \in Branches, u \in TextLines \union Openings}

(* Calls of macros with parameters, by name and nested.                    *)
Call(f, args) == <<N(f), T("LPAREN")>> \o args \o <<T("RPAREN")>>
DefineCall(f, params, body) ==
  Dir("DEFINE", <<N(f), T("NO_WHITESPACE"), T("LPAREN")>> \o params \o <<T("RPAREN")>> \o body)
Two(x, y) == x \o <<T("COMMA")>> \o y

Fs ==
  {DefineCall("F", <<N("a")>>, body) :
     body \in {<<>>, <<N("a")>>, <<X, N("a"), N("B")>>, <<N("a"), N("a")>>}}
    \union {DefineCall("F", Two(<<N("a")>>, <<N("b")>>), <<N("b"), X, N("a")>>),
            DefineCall("F", <<>>, <<X, N("B")>>)}
Gs ==
  {DefineCall("G", <<N("a")>>, Call("F", <<N("a")>>) \o <<N("B")>>),
   DefineCall("G", <<N("a")>>, Call("F", Two(<<N("a")>>, <<X>>))),
   DefineCall("G", <<N("a")>>, <<N("F"), N("a")>>)}
As == {Dir("DEFINE", <<N("A"), Num("1")>>), Dir("DEFINE", <<N("A"), N("F")>>),
       Dir("DEFINE", <<N("A"), N("B"), N("B")>>)}
Given == {<<N("A")>>, <<>>, <<X, N("A")>>, Two(<<X>>, <<N("A")>>), Call("F", <<N("A")>>),
          Call("", Two(<<X>>, <<N("A")>>)), Call("G", <<X>>)}
Uses == {Call(f, args) : f \in {"A", "F", "G"}, args \in Given}
          \union {<<N("F"), X>>, <<N("F")>>, Call("F", Call("F", Call("F", <<X>>)))}

CallTexts ==
  {Ended(<<f, g, d, u \o <<X>>, <<N("B")>>>>) : f \in Fs, g \in Gs, d \in As, u \in Uses}
    \union {Ended(<<f, d, Dir("IF", u), <<X>>, Dir("ENDIF", <<>>)>>) :
              f \in Fs, d \in As, u \in Uses \union {<<T("DEFINED"), N("F")>>, Call("F", <<Num("1")>>), Call("H", <<>>),
                               Call("H", Two(<<Num("1")>>, Call("H", <<N("A")>>))), Call("H", Two(<<>>, <<N("A")>>))}}

(* # and ##, with arguments that are no macros themselves.                 *)
Pastes ==
  {DefineCall("F", <<N("a")>>, body) :
     body \in {<<X, T("HASH"), N("a")>>, <<X, N("a"), T("PASTE"), N("B")>>,
               <<N("B"), T("PASTE"), N("a"), N("a")>>}}
PasteTexts ==
  {Ended(<<f, Dir("DEFINE", <<N("AB"), X, X>>), Dir("DEFINE", <<N("B"), Num("1")>>), Call("F", <<N(a)>>)>>) :
     f \in Pastes, a \in {"A", "C"}}

(* Texts that end in the middle of a line of text: the newline is not      *)
(* missed.  Those that end in the middle of a directive are another matter.*)
UnendedText == {Unended(Append(s, t)) : s \in SeqsUpTo(Lines, 2), t \in TextLines}

EveryInput == MCInputs \union UnendedText \union CallTexts \union PasteTexts

MCHeader == <<Tok("OTHER", "h"), Tok("NAME", "A")>>
=============================================================================

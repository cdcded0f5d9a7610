---------------------------- MODULE Scanner_proofs ----------------------------
(***************************************************************************)
(* For every text and every spelling of the keywords: the machine reads no *)
(* further than the buffer, its tokens tile the text in the order in which *)
(* they were found, and lines and columns are those of the text.           *)
(***************************************************************************)
EXTENDS Scanner, FiniteSetTheorems, SequenceTheorems, TLAPS

(***************************************************************************)
(* Characters: what ends a line, and the zeros behind the text, are in no  *)
(* class of characters that a rule reads on at.                            *)
(***************************************************************************)
Ink(c) == c \notin Eol \cup {"nul"}

LEMMA InkClasses ==
  /\ \A c \in Sp : Ink(c)
  /\ \A c \in Word : Ink(c)
  /\ \A c \in HeaderChar : Ink(c)
  /\ \A c \in HexDigit : Ink(c)
  /\ \A c \in Ell \cup Yu : Ink(c)
<1>1. \A c \in Sp : Ink(c)
  BY Zenon DEF Sp, Ink, Eol
<1>2. \A c \in Digit : Ink(c)
  BY Zenon DEF Digit, Octal, Ink, Eol
<1>3. \A c \in NameStart : Ink(c)
  BY Zenon DEF NameStart, Ink, Eol
<1>4. \A c \in Word : Ink(c)
  BY <1>2, <1>3, Zenon DEF Word
<1>5. \A c \in {"-", ".", "/"} : Ink(c)
  BY Zenon DEF Ink, Eol
<1>6. \A c \in HeaderChar : Ink(c)
  BY <1>4, <1>5, Zenon DEF HeaderChar
<1>7. \A c \in {"a", "b", "c", "d", "e", "f"} : Ink(c)
  BY Zenon DEF Ink, Eol
<1>8. \A c \in HexDigit : Ink(c)
  BY <1>2, <1>7, Zenon DEF HexDigit
<1>9. \A c \in Ell \cup Yu : Ink(c)
  BY Zenon DEF Ell, Yu, Ink, Eol
<1> QED BY <1>1, <1>4, <1>6, <1>8, <1>9, Zenon

LEMMA InkSigns ==
  \A c \in {"+", "-", ".", "e", "x", "p", "d", "f", "*", "/", "<", "=", ">", "\\", "(",
            "#", "&", "|", "\"", "'"} : Ink(c)
BY Zenon DEF Ink, Eol

(***************************************************************************)
(* The edges of the machine.                                               *)
(***************************************************************************)
\* The state m leads to the state e.
Leads(m, e) ==
  \/ m = "space" /\ e = "space"
  \/ m \in {"pair", "dot_dot", "lt"} /\ e = "op"
  \/ m = "sign" /\ e \in {"need_digit", "zero", "int"}
  \/ m = "dot" /\ e \in {"dot_dot", "digits"}
  \/ m = "need_digit" /\ e = "digits"
  \/ m = "exp" /\ e \in {"need_digit", "digits"}
  \/ m = "zero" /\ e \in {"frac", "exp", "hex_x", "oct", "l", "u"}
  \/ m = "oct" /\ e \in {"oct", "l", "u"}
  \/ m = "int" /\ e \in {"frac", "exp", "int", "l", "u"}
  \/ m = "frac" /\ e \in {"frac", "exp", "d", "flt_f", "flt_l"}
  \/ m = "digits" /\ e \in {"digits", "d", "flt_f", "flt_l"}
  \/ m = "hex_x" /\ e = "hex"
  \/ m = "hex" /\ e \in {"hex", "hexfrac", "exp", "l", "u"}
  \/ m = "hexfrac" /\ e \in {"hexfrac", "exp"}
  \/ m = "l" /\ e \in {"l_l", "lu"}
  \/ m = "u" /\ e = "ul"
  \/ m \in {"l_l", "ul"} /\ e = "ull"
  \/ m = "d" /\ e \in {"dd", "df", "dl"}
  \/ m \in {"lt", "header"} /\ e = "header"
  \/ m = "header" /\ e = "header_end"
  \/ m = "slash" /\ e \in {"comment", "comment_sl"}
  \/ m \in {"bslash", "ns1", "nsname"} /\ e = "nsname"
  \/ m \in {"nsname", "pragma", "word"} /\ e = "ns1"
  \/ m \in {"dollar_1", "dollar"} /\ e = "dollar"
  \/ m = "pragma" /\ e = "pragma"
  \/ m = "word" /\ e \in {"word", "pragma"}
  \/ m = "word" /\ path = Attribute /\ e \in {"attr_sp", "attr_lp"}
  \/ m = "attr_sp" /\ e \in {"attr_sp", "attr_lp"}
  \/ m = "attr_lp" /\ e = "cpp_attribute"

Goes(m, c, e) == e = "stop" \/ (Leads(m, e) /\ Ink(c))

LEMMA NumberEdges ==
  ASSUME NEW c
  PROVE  /\ Goes("sign", c, SignEdge(c)) /\ Goes("dot", c, DotEdge(c))
         /\ Goes("dot_dot", c, DotDotEdge(c)) /\ Goes("need_digit", c, NeedDigitEdge(c))
         /\ Goes("exp", c, ExpEdge(c)) /\ Goes("zero", c, ZeroEdge(c))
         /\ Goes("oct", c, OctEdge(c)) /\ Goes("int", c, IntEdge(c))
         /\ Goes("frac", c, FracEdge(c)) /\ Goes("digits", c, DigitsEdge(c))
         /\ Goes("hex_x", c, HexXEdge(c)) /\ Goes("hex", c, HexEdge(c))
         /\ Goes("hexfrac", c, HexFracEdge(c)) /\ Goes("l", c, LEdge(c))
         /\ Goes("l_l", c, LLEdge(c)) /\ Goes("u", c, UEdge(c))
         /\ Goes("ul", c, ULEdge(c)) /\ Goes("d", c, DEdge(c))
<1>1. /\ \A x \in Digit : Ink(x)
      /\ \A x \in Octal : Ink(x)
      /\ \A x \in HexDigit : Ink(x)
      /\ \A x \in Ell : Ink(x)
      /\ \A x \in Yu : Ink(x)
  BY InkClasses, Zenon DEF Word, Digit
<1>2. /\ Ink("+") /\ Ink("-") /\ Ink(".") /\ Ink("e") /\ Ink("x")
      /\ Ink("p") /\ Ink("d") /\ Ink("f")
  BY InkSigns, Zenon
<1>3. Goes("sign", c, SignEdge(c))
  BY <1>1, <1>2, Zenon DEF SignEdge, Octal, Goes, Leads
<1>4. Goes("dot", c, DotEdge(c))
  BY <1>1, <1>2, Zenon DEF DotEdge, Goes, Leads
<1>5. Goes("dot_dot", c, DotDotEdge(c))
  BY <1>1, <1>2, Zenon DEF DotDotEdge, Goes, Leads
<1>6. Goes("need_digit", c, NeedDigitEdge(c))
  BY <1>1, <1>2, Zenon DEF NeedDigitEdge, Goes, Leads
<1>7. Goes("exp", c, ExpEdge(c))
  BY <1>1, <1>2, Zenon DEF ExpEdge, NeedDigitEdge, Goes, Leads
<1>8. Goes("zero", c, ZeroEdge(c))
  BY <1>1, <1>2, Zenon DEF ZeroEdge, OctEdge, IntSuffix, Goes, Leads
<1>9. Goes("oct", c, OctEdge(c))
  BY <1>1, <1>2, Zenon DEF OctEdge, IntSuffix, Goes, Leads
<1>10. Goes("int", c, IntEdge(c))
  BY <1>1, <1>2, Zenon DEF IntEdge, IntSuffix, Goes, Leads
<1>11. Goes("frac", c, FracEdge(c))
  BY <1>1, <1>2, Zenon DEF FracEdge, FltSuffix, Goes, Leads
<1>12. Goes("digits", c, DigitsEdge(c))
  BY <1>1, <1>2, Zenon DEF DigitsEdge, FltSuffix, Goes, Leads
<1>13. Goes("hex_x", c, HexXEdge(c))
  BY <1>1, <1>2, Zenon DEF HexXEdge, Goes, Leads
<1>14. Goes("hex", c, HexEdge(c))
  BY <1>1, <1>2, Zenon DEF HexEdge, IntSuffix, Goes, Leads
<1>15. Goes("hexfrac", c, HexFracEdge(c))
  BY <1>1, <1>2, Zenon DEF HexFracEdge, Goes, Leads
<1>16. Goes("l", c, LEdge(c))
  BY <1>1, <1>2, Zenon DEF LEdge, Goes, Leads
<1>17. Goes("l_l", c, LLEdge(c))
  BY <1>1, <1>2, Zenon DEF LLEdge, Goes, Leads
<1>18. Goes("u", c, UEdge(c))
  BY <1>1, <1>2, Zenon DEF UEdge, Goes, Leads
<1>19. Goes("ul", c, ULEdge(c))
  BY <1>1, <1>2, Zenon DEF ULEdge, Goes, Leads
<1>20. Goes("d", c, DEdge(c))
  BY <1>1, <1>2, Zenon DEF DEdge, Goes, Leads
<1> QED BY <1>3, <1>4, <1>5, <1>6, <1>7, <1>8, <1>9, <1>10, <1>11, <1>12, <1>13, <1>14, <1>15, <1>16, <1>17, <1>18, <1>19, <1>20, Zenon

LEMMA OtherEdges ==
  ASSUME NEW c
  PROVE  /\ Goes("lt", c, ChevronEdge(c)) /\ Goes("header", c, HeaderEdge(c))
         /\ Goes("slash", c, SlashEdge(c)) /\ Goes("bslash", c, BslashEdge(c))
         /\ Goes("ns1", c, BslashEdge(c)) /\ Goes("nsname", c, NsNameEdge(c))
         /\ Goes("dollar_1", c, Dollar1Edge(c)) /\ Goes("dollar", c, DollarEdge(c))
         /\ Goes("pragma", c, PragmaEdge(c)) /\ Goes("word", c, WordEdge(c))
         /\ Goes("attr_sp", c, AttrSpEdge(c)) /\ Goes("attr_lp", c, AttrLpEdge(c))
<1>1. /\ \A x \in Sp : Ink(x)
      /\ \A x \in Word : Ink(x)
      /\ \A x \in NameStart : Ink(x)
      /\ \A x \in HeaderChar : Ink(x)
  BY InkClasses, Zenon DEF Word
<1>2. /\ Ink("<") /\ Ink("=") /\ Ink(">") /\ Ink("*") /\ Ink("/")
      /\ Ink("\\") /\ Ink("(")
  BY InkSigns, Zenon
<1>3. /\ Leads("lt", "op") /\ Leads("lt", "header") /\ Leads("header", "header")
      /\ Leads("header", "header_end") /\ Leads("nsname", "nsname") /\ Leads("nsname", "ns1")
      /\ Leads("dollar", "dollar") /\ Leads("pragma", "pragma") /\ Leads("pragma", "ns1")
      /\ Leads("word", "word") /\ Leads("word", "pragma") /\ Leads("word", "ns1")
      /\ path = Attribute => Leads("word", "attr_sp") /\ Leads("word", "attr_lp")
  BY SMT DEF Leads
<1>4. Goes("lt", c, ChevronEdge(c))
  BY <1>1, <1>2, <1>3, Zenon DEF ChevronEdge, Goes
<1>5. Goes("header", c, HeaderEdge(c))
  BY <1>1, <1>2, <1>3, Zenon DEF HeaderEdge, Goes
<1>6. Goes("slash", c, SlashEdge(c))
  BY <1>1, <1>2, Zenon DEF SlashEdge, Goes, Leads
<1>7. Goes("bslash", c, BslashEdge(c))
  BY <1>1, <1>2, Zenon DEF BslashEdge, Goes, Leads
<1>8. Goes("ns1", c, BslashEdge(c))
  BY <1>1, <1>2, Zenon DEF BslashEdge, Goes, Leads
<1>9. Goes("nsname", c, NsNameEdge(c))
  BY <1>1, <1>2, <1>3, Zenon DEF NsNameEdge, Goes
<1>10. Goes("dollar_1", c, Dollar1Edge(c))
  BY <1>1, <1>2, Zenon DEF Dollar1Edge, Goes, Leads
<1>11. Goes("dollar", c, DollarEdge(c))
  BY <1>1, <1>2, <1>3, Zenon DEF DollarEdge, Goes
<1>12. Goes("pragma", c, PragmaEdge(c))
  BY <1>1, <1>2, <1>3, Zenon DEF PragmaEdge, Goes
<1>13. Goes("word", c, WordEdge(c))
  BY <1>1, <1>2, <1>3, Zenon DEF WordEdge, Goes
<1>14. Goes("attr_sp", c, AttrSpEdge(c))
  BY <1>1, <1>2, Zenon DEF AttrSpEdge, Goes, Leads
<1>15. Goes("attr_lp", c, AttrLpEdge(c))
  BY <1>1, <1>2, Zenon DEF AttrLpEdge, Goes, Leads
<1> QED BY <1>4, <1>5, <1>6, <1>7, <1>8, <1>9, <1>10, <1>11, <1>12, <1>13, <1>14, <1>15, Zenon

\* Where a state goes, it is one of these steps; other states go nowhere.
LEMMA Edges ==
  ASSUME NEW m, NEW c
  PROVE  Goes(m, c, Edge(m, c))
<1>1. CASE m = "space"
  <2>1. Edge(m, c) = "stop" \/ (Edge(m, c) = "space" /\ c \in Sp)
    BY <1>1, Zenon DEF Edge
  <2> QED BY <1>1, <2>1, InkClasses, Zenon DEF Goes, Leads
<1>2. CASE m = "pair"
  <2>1. Edge(m, c) = "stop" \/ (Edge(m, c) = "op" /\ <<text[tok], c>> \in Pairs)
    BY <1>2, Zenon DEF Edge
  <2>2. <<text[tok], c>> \in Pairs => Ink(c)
    BY InkSigns DEF Pairs
  <2> QED BY <1>2, <2>1, <2>2, Zenon DEF Goes, Leads
<1>3. /\ Edge("sign", c) = SignEdge(c) /\ Edge("dot", c) = DotEdge(c)
      /\ Edge("dot_dot", c) = DotDotEdge(c) /\ Edge("need_digit", c) = NeedDigitEdge(c)
      /\ Edge("exp", c) = ExpEdge(c) /\ Edge("zero", c) = ZeroEdge(c)
      /\ Edge("oct", c) = OctEdge(c) /\ Edge("int", c) = IntEdge(c)
      /\ Edge("frac", c) = FracEdge(c) /\ Edge("digits", c) = DigitsEdge(c)
      /\ Edge("hex_x", c) = HexXEdge(c) /\ Edge("hex", c) = HexEdge(c)
      /\ Edge("hexfrac", c) = HexFracEdge(c) /\ Edge("l", c) = LEdge(c)
      /\ Edge("l_l", c) = LLEdge(c) /\ Edge("u", c) = UEdge(c)
      /\ Edge("ul", c) = ULEdge(c) /\ Edge("d", c) = DEdge(c)
  BY Zenon DEF Edge
<1>4. /\ Edge("lt", c) = ChevronEdge(c) /\ Edge("header", c) = HeaderEdge(c)
      /\ Edge("slash", c) = SlashEdge(c) /\ Edge("bslash", c) = BslashEdge(c)
      /\ Edge("ns1", c) = BslashEdge(c) /\ Edge("nsname", c) = NsNameEdge(c)
      /\ Edge("dollar_1", c) = Dollar1Edge(c) /\ Edge("dollar", c) = DollarEdge(c)
      /\ Edge("pragma", c) = PragmaEdge(c) /\ Edge("word", c) = WordEdge(c)
      /\ Edge("attr_sp", c) = AttrSpEdge(c) /\ Edge("attr_lp", c) = AttrLpEdge(c)
  BY Zenon DEF Edge
<1>5. CASE m \in {"sign", "dot", "dot_dot", "need_digit", "exp", "zero",
               "oct", "int", "frac", "digits", "hex_x", "hex", "hexfrac",
               "l", "l_l", "u", "ul", "d"}
  BY <1>3, <1>5, NumberEdges
<1>6. CASE m \in {"lt", "header", "slash", "bslash", "ns1", "nsname",
               "dollar_1", "dollar", "pragma", "word", "attr_sp",
               "attr_lp"}
  BY <1>4, <1>6, OtherEdges
<1>7. CASE m \notin {"space", "pair"} \cup {"sign", "dot", "dot_dot",
                  "need_digit", "exp", "zero", "oct", "int", "frac",
                  "digits", "hex_x", "hex", "hexfrac", "l", "l_l", "u",
                  "ul", "d"} \cup {"lt", "header", "slash", "bslash",
                  "ns1", "nsname", "dollar_1", "dollar", "pragma", "word",
                  "attr_sp", "attr_lp"}
  <2>1. Edge(m, c) = "stop"
    BY <1>7, Zenon DEF Edge
  <2> QED BY <2>1 DEF Goes
<1> QED BY <1>1, <1>2, <1>5, <1>6, <1>7

\* What the first character of a token leads to.
Starts == {"space", "op", "pair", "sign", "dot", "slash", "lt", "bslash", "dollar_1",
           "zero", "int", "word", "bad"}

\* The characters that a token begins with.
First == Word \cup Singles \cup Sp \cup Eol \cup Quote
           \cup {"!", "#", "&", "=", ">", "|", "+", "-", ".", "/", "<", "\\", "$"}

LEMMA StartEdges ==
  ASSUME NEW c
  PROVE  /\ StartEdge(c) \in Starts
         /\ StartEdge(c) = "slash" => c = "/"
         /\ StartEdge(c) = "dollar_1" => c = "$"
         /\ StartEdge(c) = "bad" /\ c \notin Eol \cup Quote => c \notin First
<1>1. StartEdge(c) \in Starts
  BY Zenon DEF StartEdge, Starts
<1>2. StartEdge(c) = "slash" => c = "/"
  BY Zenon DEF StartEdge
<1>3. StartEdge(c) = "dollar_1" => c = "$"
  BY Zenon DEF StartEdge
<1>4. ASSUME c \in Word \cup Singles \cup Sp
      PROVE  StartEdge(c) # "bad"
  BY <1>4, Zenon DEF StartEdge, Word
<1>5. ASSUME c \in {"!", "#", "&", "=", ">", "|", "+", "-", ".", "/", "<", "\\", "$"}
      PROVE  StartEdge(c) # "bad"
  BY <1>5, Zenon DEF StartEdge
<1> QED BY <1>1, <1>2, <1>3, <1>4, <1>5 DEF First

(***************************************************************************)
(* What the rules accept.                                                  *)
(***************************************************************************)
Loops == {"EOL", "QUOTED_CHAR", "QUOTED_STRING", "COMMENT", "CPP_ATTRIBUTE"}

IsKind(k) ==
  /\ k.front \in 0 .. 1 /\ k.back \in 0 .. 3
  /\ k.type \notin Loops
  /\ Outside(k).front = k.front /\ Outside(k).back = k.back

\* What a token of that type and those flags leaves out at its front and its back.
Leaves(type, flags, front, back) ==
  \/ /\ type \in {"QUOTED_CHAR", "QUOTED_STRING", "CPP_HEADER"}
     /\ front = 1 /\ back = 1
  \/ /\ type \notin {"QUOTED_CHAR", "QUOTED_STRING", "CPP_HEADER"}
     /\ front = 0
     /\ \/ flags \in {"INT|U", "INT|L", "FLT|F", "FLT|L"} /\ back = 1
        \/ flags \in {"INT|UL", "FLT|DF", "FLT|DD", "FLT|DL"} /\ back = 2
        \/ flags = "INT|ULL" /\ back = 3
        \/ flags \in {"", "INT", "FLT"} /\ back = 0

LEMMA OutsideCases ==
  ASSUME NEW t, NEW front, NEW back, Leaves(t.type, t.flags, front, back)
  PROVE  Outside(t) = [front |-> front, back |-> back]
<1> PICK f : f = t.flags
  OBVIOUS
<1> DEFINE Q == t.type \in {"QUOTED_CHAR", "QUOTED_STRING", "CPP_HEADER"}
           Back == CASE f \in {"INT|U", "INT|L", "FLT|F", "FLT|L"} -> 1
                     [] f \in {"INT|UL", "FLT|DF", "FLT|DD", "FLT|DL"} -> 2
                     [] f = "INT|ULL" -> 3
                     [] OTHER -> 0
<1>1. Outside(t) = IF Q THEN [front |-> 1, back |-> 1] ELSE [front |-> 0, back |-> Back]
  BY Zenon DEF Outside
<1>2. f \in {"INT|U", "INT|L", "FLT|F", "FLT|L"} => Back = 1
  BY Zenon
<1>3. f \in {"INT|UL", "FLT|DF", "FLT|DD", "FLT|DL"} => Back = 2
  BY Zenon
<1>4. f = "INT|ULL" => Back = 3
  BY Zenon
<1>5. f \in {"", "INT", "FLT"} => Back = 0
  BY Zenon
<1> HIDE DEF Back, Q
<1> QED BY <1>1, <1>2, <1>3, <1>4, <1>5, Zenon DEF Q, Leaves

LEMMA AcceptsCases ==
  ASSUME NEW m \in DOMAIN Accepts
  PROVE  \/ \E type \in {"op", "NSNAME", "DOLLAR_NAME", "WHITESPACE"} :
              Accepts[m] = Kind(type, "", 0, 0)
         \/ m = "header_end" /\ Accepts[m] = Kind("CPP_HEADER", "", 1, 1)
         \/ \E flags \in {"INT", "FLT"} : Accepts[m] = Kind("NUMBER", flags, 0, 0)
         \/ \E flags \in {"INT|U", "INT|L", "FLT|F", "FLT|L"} :
              Accepts[m] = Kind("NUMBER", flags, 0, 1)
         \/ /\ m \in {"lu", "ul", "df", "dd", "dl"}
            /\ \E flags \in {"INT|UL", "FLT|DF", "FLT|DD", "FLT|DL"} :
                 Accepts[m] = Kind("NUMBER", flags, 0, 2)
         \/ m = "ull" /\ Accepts[m] = Kind("NUMBER", "INT|ULL", 0, 3)
BY ZenonT(60) DEF Accepts

\* The characters that a state has read at least.
Least(m) == IF m = "ull" THEN 3
            ELSE IF m \in {"lu", "ul", "l_l", "df", "dd", "dl", "header_end"} THEN 2
            ELSE 1

\* A kind leaves out what the length of its type or its flags say.
LEMMA KindIs ==
  ASSUME NEW type, NEW flags, NEW front \in 0 .. 1, NEW back \in 0 .. 3, NEW most,
         type \notin Loops, Leaves(type, flags, front, back), front + back <= most
  PROVE  /\ IsKind(Kind(type, flags, front, back))
         /\ Kind(type, flags, front, back).front + Kind(type, flags, front, back).back <= most
<1> PICK k : k = Kind(type, flags, front, back)
  OBVIOUS
<1>1. k.type = type /\ k.flags = flags /\ k.front = front /\ k.back = back
  BY DEF Kind
<1>2. Outside(k) = [front |-> front, back |-> back]
  BY <1>1, OutsideCases, Zenon
<1>3. IsKind(k)
  BY <1>1, <1>2 DEF IsKind
<1> QED BY <1>1, <1>3

LEMMA LeastBounds ==
  ASSUME NEW m
  PROVE  /\ Least(m) \in 1 .. 3
         /\ m \in {"lu", "ul", "l_l", "df", "dd", "dl", "header_end"} => Least(m) = 2
         /\ m = "ull" => Least(m) = 3
BY DEF Least

LEMMA AcceptsKind ==
  ASSUME NEW m \in DOMAIN Accepts
  PROVE  IsKind(Accepts[m]) /\ Accepts[m].front + Accepts[m].back <= Least(m)
<1> PICK k : k = Accepts[m]
  OBVIOUS
<1>1. /\ 0 \in 0 .. 1 /\ 1 \in 0 .. 1
      /\ 0 \in 0 .. 3 /\ 1 \in 0 .. 3 /\ 2 \in 0 .. 3 /\ 3 \in 0 .. 3
  OBVIOUS
<1>2. /\ 0 + 0 <= Least(m) /\ 0 + 1 <= Least(m)
      /\ m \in {"lu", "ul", "df", "dd", "dl", "header_end"}
           => 0 + 2 <= Least(m) /\ 1 + 1 <= Least(m)
      /\ m = "ull" => 0 + 3 <= Least(m)
  BY LeastBounds
<1>3. ASSUME NEW type \in {"op", "NSNAME", "DOLLAR_NAME", "WHITESPACE"},
             k = Kind(type, "", 0, 0)
      PROVE  IsKind(k) /\ k.front + k.back <= Least(m)
  <2>1. type \notin Loops /\ Leaves(type, "", 0, 0)
    BY <1>3, Zenon DEF Loops, Leaves
  <2>2. 0 + 0 <= Least(m)
    BY <1>2, <1>3, Zenon
  <2> QED BY <1>1, <1>3, <2>1, <2>2, KindIs, Zenon
<1>4. ASSUME m = "header_end",
             k = Kind("CPP_HEADER", "", 1, 1)
      PROVE  IsKind(k) /\ k.front + k.back <= Least(m)
  <2>1. "CPP_HEADER" \notin Loops /\ Leaves("CPP_HEADER", "", 1, 1)
    BY <1>4, Zenon DEF Loops, Leaves
  <2>2. 1 + 1 <= Least(m)
    BY <1>2, <1>4, Zenon
  <2> QED BY <1>1, <1>4, <2>1, <2>2, KindIs, Zenon
<1>5. ASSUME NEW flags \in {"INT", "FLT"},
             k = Kind("NUMBER", flags, 0, 0)
      PROVE  IsKind(k) /\ k.front + k.back <= Least(m)
  <2>1. "NUMBER" \notin Loops /\ Leaves("NUMBER", flags, 0, 0)
    BY <1>5, Zenon DEF Loops, Leaves
  <2>2. 0 + 0 <= Least(m)
    BY <1>2, <1>5, Zenon
  <2> QED BY <1>1, <1>5, <2>1, <2>2, KindIs, Zenon
<1>6. ASSUME NEW flags \in {"INT|U", "INT|L", "FLT|F", "FLT|L"},
             k = Kind("NUMBER", flags, 0, 1)
      PROVE  IsKind(k) /\ k.front + k.back <= Least(m)
  <2>1. "NUMBER" \notin Loops /\ Leaves("NUMBER", flags, 0, 1)
    BY <1>6, Zenon DEF Loops, Leaves
  <2>2. 0 + 1 <= Least(m)
    BY <1>2, <1>6, Zenon
  <2> QED BY <1>1, <1>6, <2>1, <2>2, KindIs, Zenon
<1>7. ASSUME m \in {"lu", "ul", "df", "dd", "dl"},
             NEW flags \in {"INT|UL", "FLT|DF", "FLT|DD", "FLT|DL"},
             k = Kind("NUMBER", flags, 0, 2)
      PROVE  IsKind(k) /\ k.front + k.back <= Least(m)
  <2>1. "NUMBER" \notin Loops /\ Leaves("NUMBER", flags, 0, 2)
    BY <1>7, Zenon DEF Loops, Leaves
  <2>2. 0 + 2 <= Least(m)
    BY <1>2, <1>7, Zenon
  <2> QED BY <1>1, <1>7, <2>1, <2>2, KindIs, Zenon
<1>8. ASSUME m = "ull",
             k = Kind("NUMBER", "INT|ULL", 0, 3)
      PROVE  IsKind(k) /\ k.front + k.back <= Least(m)
  <2>1. "NUMBER" \notin Loops /\ Leaves("NUMBER", "INT|ULL", 0, 3)
    BY <1>8, Zenon DEF Loops, Leaves
  <2>2. 0 + 3 <= Least(m)
    BY <1>2, <1>8, Zenon
  <2> QED BY <1>1, <1>8, <2>1, <2>2, KindIs, Zenon
<1> QED BY <1>3, <1>4, <1>5, <1>6, <1>7, <1>8, AcceptsCases, Zenon

\* What a state accepts leaves out no more than the state has read.
LEMMA KindFacts ==
  ASSUME NEW m \in DOMAIN Accepts \cup {"word", "pragma"}, NEW p, NEW i
  PROVE  IsKind(KindAt(m, p, i)) /\ KindAt(m, p, i).front + KindAt(m, p, i).back <= Least(m)
<1>1. CASE m \in {"word", "pragma"}
  <2>1. PICK type \in {"KEYWORD", "NAME", "PRAGMA_ONCE"} : KindAt(m, p, i) = Kind(type, "", 0, 0)
    <3>1. CASE m = "word"
      <4>1. KindAt(m, p, i) = AcceptsWord(p)
        BY <3>1, Zenon DEF KindAt
      <4> QED BY <4>1, Zenon DEF AcceptsWord
    <3>2. CASE m = "pragma"
      <4>1. KindAt(m, p, i) = Kind(IF OnceReadAt(i) THEN "PRAGMA_ONCE" ELSE "NAME", "", 0, 0)
        BY <3>2, Zenon DEF KindAt
      <4> QED BY <4>1, Zenon
    <3> QED BY <1>1, <3>1, <3>2
  <2>2. type \notin Loops /\ Leaves(type, "", 0, 0)
    BY Zenon DEF Loops, Leaves
  <2>3. 0 \in 0 .. 1 /\ 0 \in 0 .. 3 /\ 0 + 0 <= Least(m)
    BY LeastBounds
  <2> QED BY <2>1, <2>2, <2>3, KindIs, Zenon
<1>2. CASE m \notin {"word", "pragma"}
  <2>1. KindAt(m, p, i) = Accepts[m] /\ m \in DOMAIN Accepts
    BY <1>2, Zenon DEF KindAt
  <2> QED BY <2>1, AcceptsKind
<1> QED BY <1>1, <1>2

(***************************************************************************)
(* Sequences and counting.                                                 *)
(***************************************************************************)
IsSeq(s) == \E S : s \in Seq(S)

LEMMA IsSeqAppend ==
  ASSUME NEW s, IsSeq(s), NEW x
  PROVE  /\ IsSeq(Append(s, x)) /\ Len(s) \in Nat
         /\ Len(Append(s, x)) = Len(s) + 1 /\ Append(s, x) # <<>>
         /\ Append(s, x)[Len(s) + 1] = x
         /\ \A i \in DOMAIN s : Append(s, x)[i] = s[i]
         /\ DOMAIN s = 1 .. Len(s) /\ DOMAIN Append(s, x) = 1 .. (Len(s) + 1)
         /\ s = <<>> <=> Len(s) = 0
<1>1. PICK S : s \in Seq(S)
  BY DEF IsSeq
<1>2. s \in Seq(S \cup {x}) /\ x \in S \cup {x}
  BY <1>1
<1>3. Append(s, x) \in Seq(S \cup {x})
  BY <1>2
<1>4. IsSeq(Append(s, x))
  BY <1>3 DEF IsSeq
<1> QED BY <1>2, <1>3, <1>4

\* No character of x from i to j is in S; how many are.
None(x, S, i, j) == \A k \in i .. j : x[k] \notin S
CountIn(x, S, i, j) == Cardinality({k \in i .. j : x[k] \in S})

LEMMA NoneEmpty ==
  ASSUME NEW x, NEW S, NEW i \in Int, NEW j \in Int, j < i
  PROVE  None(x, S, i, j)
BY DEF None

LEMMA NoneOne ==
  ASSUME NEW x, NEW S, NEW i \in Int
  PROVE  None(x, S, i, i) <=> x[i] \notin S
BY DEF None

LEMMA NoneWithin ==
  ASSUME NEW x, NEW S, NEW i \in Int, NEW j \in Int, NEW m \in Int, NEW n \in Int,
         None(x, S, i, j), i <= m, n <= j
  PROVE  None(x, S, m, n)
BY DEF None

LEMMA NoneJoins ==
  ASSUME NEW x, NEW S, NEW i \in Int, NEW m \in Int, NEW n \in Int,
         None(x, S, i, m - 1), None(x, S, m, n)
  PROVE  None(x, S, i, n)
BY DEF None

LEMMA CountBounds ==
  ASSUME NEW x, NEW S, NEW i \in Int, NEW j \in Int, i <= j + 1
  PROVE  CountIn(x, S, i, j) \in 0 .. (j - i + 1)
<1> DEFINE K == {k \in i .. j : x[k] \in S}
<1>1. IsFiniteSet(i .. j) /\ Cardinality(i .. j) = IF i > j THEN 0 ELSE j - i + 1
  BY FS_Interval
<1>2. IsFiniteSet(K) /\ Cardinality(K) <= Cardinality(i .. j)
  BY <1>1, FS_Subset
<1>3. Cardinality(K) \in Nat
  BY <1>2, FS_CardinalityType
<1> QED BY <1>1, <1>2, <1>3 DEF CountIn

\* One more character counts if it is in the set.
LEMMA CountNext ==
  ASSUME NEW x, NEW S, NEW i \in Int, NEW j \in Int, i <= j
  PROVE  /\ x[j] \in S => CountIn(x, S, i, j) = CountIn(x, S, i, j - 1) + 1
         /\ x[j] \notin S => CountIn(x, S, i, j) = CountIn(x, S, i, j - 1)
<1> DEFINE K == {k \in i .. (j - 1) : x[k] \in S}
           L == {k \in i .. j : x[k] \in S}
<1>1. IsFiniteSet(i .. (j - 1))
  BY FS_Interval
<1>2. IsFiniteSet(K)
  BY <1>1, FS_Subset
<1>3. CASE x[j] \in S
  <2>1. L = K \cup {j} /\ j \notin K
    BY <1>3
  <2>2. Cardinality(L) = Cardinality(K) + 1
    BY <1>2, <2>1, FS_AddElement
  <2> QED BY <1>3, <2>2 DEF CountIn
<1>4. CASE x[j] \notin S
  <2>1. L = K
    BY <1>4
  <2> QED BY <1>4, <2>1 DEF CountIn
<1> QED BY <1>3, <1>4

\* What is not in the set does not count.
LEMMA CountSkip ==
  ASSUME NEW x, NEW S, NEW i \in Int, NEW j \in Int, NEW n \in Int, j <= n,
         None(x, S, j + 1, n)
  PROVE  CountIn(x, S, i, n) = CountIn(x, S, i, j)
<1>1. {k \in i .. n : x[k] \in S} = {k \in i .. j : x[k] \in S}
  BY DEF None
<1> QED BY <1>1 DEF CountIn

LEMMA CountZero ==
  ASSUME NEW x, NEW S, NEW i \in Int, NEW j \in Int
  PROVE  CountIn(x, S, i, j) = 0 <=> None(x, S, i, j)
<1> DEFINE K == {k \in i .. j : x[k] \in S}
<1>1. IsFiniteSet(i .. j)
  BY FS_Interval
<1>2. IsFiniteSet(K)
  BY <1>1, FS_Subset
<1>3. Cardinality(K) = 0 <=> K = {}
  BY <1>2, FS_EmptySet
<1> QED BY <1>3 DEF CountIn, None

(***************************************************************************)
(* The states of the machine.                                              *)
(***************************************************************************)
\* The states that read on in hope, and step back to the mark when it fails.
NeedsMark == {"dot_dot", "need_digit", "exp", "hex_x", "hexfrac", "l_l", "d", "header",
              "ns1", "attr_sp", "attr_lp"}

Marked == Marks \cup NeedsMark
Literals == {"character", "string"}

LEMMA AcceptsDomain ==
  DOMAIN Accepts = Operators \cup {"space", "dollar", "nsname", "header_end", "zero", "int",
     "oct", "hex", "frac", "digits", "u", "l", "lu", "ul", "ull", "flt_f", "flt_l",
     "df", "dd", "dl"}
BY Zenon DEF Accepts

LEMMA ModeFacts ==
  /\ Marked \subseteq Dfa /\ Starts \subseteq Dfa
  /\ Marks \subseteq DOMAIN Accepts \cup {"word", "pragma"}
  /\ Dfa = DOMAIN Accepts \cup {"word", "pragma", "dollar_1", "bad"} \cup NeedsMark
  /\ Literals \subseteq Conditions
  /\ Modes = Dfa \cup Conditions \cup Ends \cup {"start"}
  /\ Dfa \cap (Conditions \cup Ends \cup {"start"}) = {}
  /\ Conditions \cap (Ends \cup {"start"}) = {} /\ "start" \notin Ends
  /\ Starts \cap NeedsMark = {}
<1>1. Marked \subseteq Dfa
  BY AcceptsDomain DEF Marked, Marks, NeedsMark, Dfa, Operators
<1>2. Starts \subseteq Dfa
  BY AcceptsDomain DEF Starts, Dfa, Operators
<1>3. Marks \subseteq DOMAIN Accepts \cup {"word", "pragma"}
  BY AcceptsDomain DEF Marks, Operators
<1>4. Dfa = DOMAIN Accepts \cup {"word", "pragma", "dollar_1", "bad"} \cup NeedsMark
  BY DEF Dfa, NeedsMark
<1>5. Literals \subseteq Conditions
  BY DEF Literals, Conditions
<1>6. Modes = Dfa \cup Conditions \cup Ends \cup {"start"}
  BY DEF Modes
<1>7. Dfa \cap (Conditions \cup Ends \cup {"start"}) = {}
  BY AcceptsDomain DEF Dfa, Conditions, Ends, Operators
<1>8. Conditions \cap (Ends \cup {"start"}) = {} /\ "start" \notin Ends
  BY DEF Conditions, Ends
<1>9. Starts \cap NeedsMark = {}
  BY DEF Starts, NeedsMark
<1> QED BY <1>1, <1>2, <1>3, <1>4, <1>5, <1>6, <1>7, <1>8, <1>9

LEMMA LeadsFacts ==
  ASSUME NEW m, NEW e, Leads(m, e)
  PROVE  /\ m \in Dfa /\ e \in Dfa \cup {"comment", "comment_sl", "cpp_attribute"}
         /\ e \in NeedsMark => m \in Marked
         /\ e \notin {"slash", "bad", "dollar_1"}
         /\ e \in {"comment", "comment_sl"} => m = "slash"
         /\ e = "attr_sp" => m = "attr_sp" \/ (m = "word" /\ path = Attribute)
         /\ e = "attr_lp" => m = "attr_sp" \/ (m = "word" /\ path = Attribute)
         /\ e = "cpp_attribute" => m = "attr_lp"
         /\ e = "word" => m = "word"
BY AcceptsDomain DEF Leads, Marked, Marks, NeedsMark, Dfa, Operators

LEMMA LeadsLeast ==
  ASSUME NEW m, NEW e, Leads(m, e)
  PROVE  Least(e) <= Least(m) + 1
<1>1. e = "ull" => m \in {"l_l", "ul"}
  BY DEF Leads
<1> QED BY <1>1, LeastBounds DEF Least

(***************************************************************************)
(* The invariant: where the pointers are.                                  *)
(***************************************************************************)
\* The pointers are in the buffer, in their order.
Typed ==
  /\ text \in Texts /\ mode \in Modes /\ path \in Trie \cup {<<>>}
  /\ cur \in 1 .. Lim /\ tok \in 1 .. cur /\ mrk \in 1 .. Lim /\ eol \in 1 .. cur
  /\ escaped \in BOOLEAN /\ parens \in Nat /\ (mode = "cpp_attribute" => parens # 0)
  /\ width \in {"1", "2", "4", "wchar"}

\* What the machine reads step by step is in one line, and as long as it must be.
Read == mode \in Dfa => tok + Least(mode) <= cur /\ eol <= tok

\* Behind the mark there is a token that ends at it.
Mark ==
  mode \in Marked =>
    /\ tok + 1 <= mrk /\ mrk <= cur
    /\ IsKind(acc) /\ tok + acc.front + acc.back <= mrk

LEMMA TextLen ==
  ASSUME text \in Texts
  PROVE  text \in Seq(STRING) /\ Len(text) \in Nat /\ Lim = Len(text) + 1 /\ Lim \in Nat
BY TextsAssumption DEF Lim

LEMMA InkIsText ==
  ASSUME Ink(Ch)
  PROVE  cur < Lim /\ Ch = text[cur] /\ text[cur] \notin Eol
BY DEF Ink, Ch, At

LEMMA OnTrieType ==
  ASSUME NEW p
  PROVE  OnTrie(p) \in Trie \cup {<<>>}
BY DEF OnTrie

LEMMA FallsFacts ==
  ASSUME NEW f \in Falls
  PROVE  /\ f.width \in {"1", "2", "4", "wchar"}
         /\ f.path \in Trie \cup {<<>>}
         /\ f.path \in {<<>>, <<"l", "e">>, <<"u", "n">>, <<"u", "8">>, <<"u", "i", "n">>}
<1>1. <<"u", "8">> \in Trie
  <2>1. <<"u", "8">> = SubSeq(<<"u", "8">>, 1, 2) /\ Len(<<"u", "8">>) = 2
    OBVIOUS
  <2> QED BY <2>1 DEF Trie, Prefixes
<1> QED BY <1>1 DEF Falls, OnTrie

\* Within a token the machine reads a character of the text that ends no line.
LEMMA ReadInk ==
  ASSUME Typed, Advance \/ OpenAttribute \/ LiteralPrefix
  PROVE  /\ mode \in Dfa /\ cur < Lim /\ text[cur] \notin Eol
         /\ Leads(mode, mode') /\ Enter(mode', path') /\ path' \in Trie \cup {<<>>}
         /\ UNCHANGED <<text, tok, eol, lines, escaped, tokens>>
         /\ width' \in {"1", "2", "4", "wchar"}
         /\ parens' \in Nat /\ (mode' = "cpp_attribute" => parens' # 0)
<1>1. CASE Advance
  <2>1. /\ mode \in Dfa /\ Edge(mode, Ch) # "stop" /\ mode' = Edge(mode, Ch)
        /\ Enter(mode', path') /\ path' = NextPath /\ mode' # "cpp_attribute"
        /\ UNCHANGED <<text, tok, eol, lines, escaped, parens, width, tokens>>
    BY <1>1 DEF Advance, Reading, Enter
  <2>2. Leads(mode, mode') /\ Ink(Ch)
    BY <2>1, Edges DEF Goes
  <2>3. path' \in Trie \cup {<<>>}
    BY <2>1, OnTrieType DEF NextPath
  <2> QED BY <2>1, <2>2, <2>3, InkIsText DEF Typed
<1>2. CASE OpenAttribute
  <2>1. /\ mode \in Dfa /\ Edge(mode, Ch) = "cpp_attribute" /\ mode' = Edge(mode, Ch)
        /\ Enter(mode', path') /\ path' = <<>> /\ parens' = 2
        /\ UNCHANGED <<text, tok, eol, lines, escaped, width, tokens>>
    BY <1>2 DEF OpenAttribute, Reading, Enter
  <2>2. Leads(mode, mode') /\ Ink(Ch)
    BY <2>1, Edges DEF Goes
  <2> QED BY <2>1, <2>2, InkIsText DEF Typed
<1>3. CASE LiteralPrefix
  <2>1. /\ mode \in Dfa /\ mode = "word" /\ mode' = "word" /\ Ch \in {"\"", "'"}
        /\ \E f \in Falls : path' = f.path /\ width' = f.width
        /\ Enter(mode', path')
        /\ UNCHANGED <<text, tok, eol, lines, escaped, parens, tokens>>
    BY <1>3 DEF LiteralPrefix, Reading, Enter, IsPrefix
  <2>2. Leads(mode, mode') /\ Ink(Ch)
    BY <2>1, InkSigns DEF Leads
  <2> QED BY <2>1, <2>2, InkIsText, FallsFacts DEF Typed
<1> QED BY <1>1, <1>2, <1>3

\* The line of the cursor: lines counts the ends of lines before it, eol is behind
\* the last of them.
Lined ==
  /\ lines = 1 + CountIn(text, Eol, 1, cur - 1)
  /\ eol = 1 \/ text[eol - 1] \in Eol
  /\ None(text, Eol, eol, cur - 1)

\* The token t of the text x is said to be where it is.
LineEnd(x, t) ==
  IF t.type = "EOL" THEN t.from - 1
  ELSE IF t.type = "COMMENT" /\ x[t.to] \in Eol THEN t.to - 1 ELSE t.to

Placed(x, t) ==
  /\ t.line = 1 + CountIn(x, Eol, 1, LineEnd(x, t))
  /\ CountIn(x, Eol, t.from, LineEnd(x, t)) = 0 =>
       /\ t.col >= 1
       /\ None(x, Eol, t.from - t.col + 1, t.from - 1)
       /\ t.from - t.col = 0 \/ x[t.from - t.col] \in Eol

\* Where the token of the text x ends that the next one follows.
EndOf(s, n) == IF n = 0 THEN 0 ELSE s[n].to + Outside(s[n]).back

\* The n-th token of s is one of the text x, behind the one before it.
Fits(x, s, n) ==
  /\ s[n].from \in 1 .. Len(x) + 1 /\ s[n].to \in (s[n].from - 1) .. Len(x)
  /\ s[n].from - Outside(s[n]).front = EndOf(s, n - 1) + 1
  /\ Placed(x, s[n])

\* Where what is being read began.
Began ==
  IF mode = "start" THEN cur ELSE IF mode \in Literals THEN tok - 1 ELSE tok

\* The tokens are in their places, and what is being read is behind the last one.
Joined ==
  /\ IsSeq(tokens) /\ \A n \in DOMAIN tokens : Fits(text, tokens, n)
  /\ mode \notin Ends => Began = EndOf(tokens, Len(tokens)) + 1

\* A step adds the token t.
Emits(t) ==
  /\ mode \notin Ends
  /\ tokens' = Append(tokens, t) /\ mode' = "start"
  /\ t.from \in 1 .. Len(text) + 1 /\ t.to \in (t.from - 1) .. Len(text)
  /\ t.from - Outside(t).front = Began /\ cur' = t.to + Outside(t).back + 1
  /\ Placed(text, t)

LEMMA EmitsJoins ==
  ASSUME Joined, NEW t, Emits(t), text' = text
  PROVE  Joined'
<1> DEFINE n == Len(tokens)
<1> PICK s : s = tokens'
  OBVIOUS
<1>1. mode' = "start" /\ s = Append(tokens, t) /\ Began' = cur'
  BY Zenon DEF Emits, Began
<1>2. /\ IsSeq(s) /\ n \in Nat /\ Len(s) = n + 1 /\ s[n + 1] = t
      /\ DOMAIN tokens = 1 .. n /\ DOMAIN s = 1 .. (n + 1)
      /\ \A i \in 1 .. n : s[i] = tokens[i]
  BY <1>1, IsSeqAppend DEF Joined
<1>3. \A i \in 0 .. n : EndOf(s, i) = EndOf(tokens, i)
  BY <1>2 DEF EndOf
<1>4. EndOf(s, n + 1) = t.to + Outside(t).back
  BY <1>2 DEF EndOf
<1>5. Fits(text, s, n + 1)
  <2>1. Began = EndOf(tokens, n) + 1
    BY DEF Joined, Emits
  <2> QED BY <1>2, <1>3, <2>1 DEF Fits, Emits
<1>6. ASSUME NEW i \in 1 .. n
      PROVE  Fits(text, s, i)
  <2>1. Fits(text, tokens, i)
    BY <1>2 DEF Joined
  <2>2. s[i] = tokens[i] /\ EndOf(s, i - 1) = EndOf(tokens, i - 1)
    BY <1>2, <1>3
  <2> QED BY <2>1, <2>2 DEF Fits
<1>7. \A i \in DOMAIN s : Fits(text', s, i)
  BY <1>2, <1>5, <1>6
<1>8. Began' = EndOf(s, Len(s)) + 1
  BY <1>1, <1>2, <1>4 DEF Emits
<1> QED BY <1>2, <1>7, <1>8 DEF Joined

LEMMA KeepsJoined ==
  ASSUME Joined, text' = text, tokens' = tokens,
         mode' \in Ends \/ (mode \notin Ends /\ Began' = Began)
  PROVE  Joined'
BY DEF Joined

\* Where the cursor goes in its line.
Moves ==
  \/ /\ cur < Lim /\ text[cur] \in Eol
     /\ cur' = cur + 1 /\ NEWLINE
  \/ /\ cur' \in cur .. Lim /\ None(text, Eol, cur, cur' - 1)
     /\ UNCHANGED <<eol, lines>>
  \/ /\ cur' \in eol .. cur
     /\ UNCHANGED <<eol, lines>>

LEMMA MovesLined ==
  ASSUME Typed, Lined, Moves, text' = text
  PROVE  Lined' /\ cur' \in 1 .. Lim /\ eol' \in 1 .. cur'
<1>1. Lim \in Nat /\ cur \in 1 .. Lim /\ eol \in 1 .. cur
  BY TextLen DEF Typed
<1>2. CASE cur < Lim /\ text[cur] \in Eol /\ cur' = cur + 1 /\ NEWLINE
  <2>1. CountIn(text, Eol, 1, cur) = CountIn(text, Eol, 1, cur - 1) + 1
    BY <1>1, <1>2, CountNext
  <2>2. eol' = cur + 1 /\ lines' = lines + 1 /\ cur' = cur + 1
    BY <1>2 DEF NEWLINE
  <2>3. CountIn(text, Eol, 1, cur - 1) \in Nat
    BY <1>1, CountBounds
  <2>4. lines' = 1 + CountIn(text, Eol, 1, cur' - 1)
    BY <1>1, <2>1, <2>2, <2>3 DEF Lined
  <2>5. None(text, Eol, eol', cur' - 1)
    BY <1>1, <2>2, NoneEmpty
  <2> QED BY <1>1, <1>2, <2>2, <2>4, <2>5 DEF Lined
<1>3. CASE /\ cur' \in cur .. Lim /\ None(text, Eol, cur, cur' - 1)
           /\ UNCHANGED <<eol, lines>>
  <2>1. cur' \in Int /\ cur - 1 + 1 = cur
    BY <1>1, <1>3
  <2>2. CountIn(text, Eol, 1, cur' - 1) = CountIn(text, Eol, 1, cur - 1)
    BY <1>1, <1>3, <2>1, CountSkip
  <2>3. None(text, Eol, eol, cur' - 1)
    BY <1>1, <1>3, <2>1, NoneJoins DEF Lined
  <2> QED BY <1>1, <1>3, <2>1, <2>2, <2>3 DEF Lined
<1>4. CASE cur' \in eol .. cur /\ UNCHANGED <<eol, lines>>
  <2>1. None(text, Eol, cur' - 1 + 1, cur - 1) /\ None(text, Eol, eol, cur' - 1)
    BY <1>1, <1>4, NoneWithin DEF Lined
  <2>2. CountIn(text, Eol, 1, cur - 1) = CountIn(text, Eol, 1, cur' - 1)
    BY <1>1, <1>4, <2>1, CountSkip
  <2> QED BY <1>1, <1>4, <2>1, <2>2 DEF Lined
<1> QED BY <1>2, <1>3, <1>4 DEF Moves

\* A token is placed well by the eol of its last character, whose line is not ended.
LEMMA PlacedByEol ==
  ASSUME NEW x, NEW t, NEW e \in Nat, NEW i \in Int, t.from \in Nat \ {0},
         i = LineEnd(x, t), t.from - 1 <= i,
         t.line = 1 + CountIn(x, Eol, 1, i), t.col = t.from - e + 1,
         e = 1 \/ (e > 1 /\ x[e - 1] \in Eol), e - 1 <= i, None(x, Eol, e, i)
  PROVE  Placed(x, t)
<1> SUFFICES ASSUME CountIn(x, Eol, t.from, i) = 0
             PROVE  /\ t.col >= 1
                    /\ None(x, Eol, t.from - t.col + 1, t.from - 1)
                    /\ t.from - t.col = 0 \/ x[t.from - t.col] \in Eol
  BY DEF Placed
<1>1. \A k \in t.from .. i : x[k] \notin Eol
  BY CountZero DEF None
<1>2. e <= t.from
  BY <1>1
<1>3. t.from - t.col = e - 1
  OBVIOUS
<1>4. None(x, Eol, e, t.from - 1)
  BY NoneWithin
<1> QED BY <1>2, <1>3, <1>4

(***************************************************************************)
(* The steps preserve it.                                                  *)
(***************************************************************************)
Safe == Typed /\ Read /\ Mark /\ Lined /\ Joined

LEMMA EnterMark ==
  ASSUME Typed, Mark, NEW m, NEW p, Enter(m, p), cur < Lim, tok' \in 1 .. cur + 1,
         m \in Dfa => tok' + Least(m) <= cur + 1,
         m \in NeedsMark => mode \in Marked /\ tok' = tok
  PROVE  Mark' /\ mrk' \in 1 .. Lim
<1>1. mode' = m /\ cur' = cur + 1 /\ cur \in 1 .. Lim /\ Lim \in Nat /\ mrk \in 1 .. Lim
  BY TextLen DEF Enter, Typed
<1>2. CASE m \in Marks
  <2>1. mrk' = cur + 1 /\ acc' = KindAt(m, p, cur + 1)
    BY <1>2 DEF Enter
  <2>2. IsKind(acc') /\ acc'.front + acc'.back <= Least(m)
    BY <1>2, <2>1, ModeFacts, KindFacts
  <2>3. m \in Dfa /\ Least(m) \in 1 .. 3
    BY <1>2, ModeFacts, LeastBounds DEF Marked
  <2>4. PICK f, b : f = acc'.front /\ b = acc'.back /\ f \in 0 .. 1 /\ b \in 0 .. 3
    BY <2>2 DEF IsKind
  <2>5. PICK n \in Nat : n = tok' /\ n + Least(m) <= cur + 1
    BY <1>1, <2>3
  <2>6. f + b <= Least(m)
    BY <2>2, <2>4
  <2>7. n + f + b <= cur + 1 /\ n + 1 <= cur + 1
    <3>1. \A x, y, z, l, c \in Int :
            x + l <= c /\ y + z <= l /\ 1 <= l => x + y + z <= c /\ x + 1 <= c
      OBVIOUS
    <3>2. n \in Int /\ f \in Int /\ b \in Int /\ Least(m) \in Int /\ 1 <= Least(m)
      BY <2>3, <2>4, <2>5
    <3>3. cur + 1 \in Int
      BY <1>1
    <3> QED BY <2>5, <2>6, <3>1, <3>2, <3>3
  <2>8. cur + 1 \in 1 .. Lim
    BY <1>1
  <2>9. mrk' \in 1 .. Lim
    BY <2>1, <2>8
  <2>10. tok' + acc'.front + acc'.back <= mrk' /\ tok' + 1 <= mrk'
    BY <2>1, <2>4, <2>5, <2>7, Zenon
  <2>11. mrk' <= cur'
    BY <1>1, <2>1
  <2> QED BY <2>2, <2>9, <2>10, <2>11 DEF Mark
<1>3. CASE m \notin Marks /\ m \in NeedsMark
  <2>1. mrk' = mrk /\ acc' = acc
    BY <1>3 DEF Enter
  <2> QED BY <1>1, <1>3, <2>1 DEF Mark
<1>4. CASE m \notin Marked
  <2>1. mrk' = mrk
    BY <1>4 DEF Enter, Marked
  <2> QED BY <1>1, <1>4, <2>1 DEF Mark
<1> QED BY <1>2, <1>3, <1>4 DEF Marked

\* A step that adds no token.
LEMMA QuietStep ==
  ASSUME Safe, Moves, text' = text, tokens' = tokens,
         mode' \in Modes, path' \in Trie \cup {<<>>}, tok' \in 1 .. cur', mrk' \in 1 .. Lim,
         escaped' \in BOOLEAN, parens' \in Nat, mode' = "cpp_attribute" => parens' # 0,
         width' \in {"1", "2", "4", "wchar"},
         Read', Mark', mode' \in Ends \/ (mode \notin Ends /\ Began' = Began)
  PROVE  Safe'
<1>1. Lined' /\ cur' \in 1 .. Lim /\ eol' \in 1 .. cur' /\ Lim' = Lim
  BY MovesLined DEF Safe, Lim
<1>2. Typed'
  BY <1>1 DEF Typed, Safe
<1>3. Joined'
  BY KeepsJoined DEF Safe
<1> QED BY <1>1, <1>2, <1>3 DEF Safe

\* A step that adds one.
LEMMA EmitStep ==
  ASSUME Safe, Moves, text' = text, NEW t, Emits(t),
         path' \in Trie \cup {<<>>}, tok' \in 1 .. cur', UNCHANGED <<mrk, parens>>,
         escaped' \in BOOLEAN, width' \in {"1", "2", "4", "wchar"}
  PROVE  Safe'
<1>1. Lined' /\ cur' \in 1 .. Lim /\ eol' \in 1 .. cur' /\ Lim' = Lim
  BY MovesLined DEF Safe, Lim
<1>2. mode' = "start"
  BY DEF Emits
<1>3. Typed'
  BY <1>1, <1>2, ModeFacts DEF Typed, Safe
<1>4. Joined'
  BY EmitsJoins DEF Safe
<1>5. mode' \notin Dfa /\ mode' \notin Marked
  BY <1>2, ModeFacts
<1> QED BY <1>1, <1>3, <1>4, <1>5 DEF Safe, Read, Mark

LEMMA EndOfInputStep == Safe /\ EndOfInput => Safe'
<1> SUFFICES ASSUME Safe, EndOfInput
             PROVE  Safe'
  OBVIOUS
<1>1. /\ mode' = "done" /\ tok' \in {tok, cur}
      /\ UNCHANGED <<text, path, cur, mrk, acc, eol, lines, escaped, parens, width, tokens>>
  BY DEF EndOfInput
<1>2. Lim \in Nat /\ cur \in 1 .. Lim /\ eol \in 1 .. cur /\ tok \in 1 .. cur
  BY TextLen DEF Typed, Safe
<1>3. Moves
  BY <1>1, <1>2 DEF Moves
<1>4. mode' \in Ends /\ mode' \in Modes /\ mode' \notin Dfa /\ mode' \notin Marked
  BY <1>1, ModeFacts DEF Ends
<1>5. Read' /\ Mark' /\ tok' \in 1 .. cur'
  BY <1>1, <1>2, <1>4 DEF Read, Mark
<1> QED BY <1>1, <1>3, <1>4, <1>5, QuietStep DEF Typed, Safe

LEMMA StartStep == Safe /\ Start => Safe'
<1> SUFFICES ASSUME Safe, Start
             PROVE  Safe'
  OBVIOUS
<1> PICK e : e = StartEdge(Ch)
  OBVIOUS
<1>1. /\ mode = "start" /\ mode' = e /\ path' = OnTrie(<<Ch>>) /\ cur' = cur + 1
      /\ tok' = cur /\ width' = "1" /\ Enter(e, OnTrie(<<Ch>>)) /\ Ch \notin Eol
      /\ UNCHANGED <<text, eol, lines, escaped, parens, tokens>>
  BY DEF Start, Enter
<1>2. /\ Lim \in Nat /\ cur \in 1 .. Lim /\ eol \in 1 .. cur
      /\ parens \in Nat /\ escaped \in BOOLEAN
  BY TextLen DEF Typed, Safe
<1>3. cur < Lim /\ Ch = text[cur]
  BY <1>1, <1>2 DEF Start, More, AtEnd, Ch, At
<1>4. e \in Starts /\ e \in Dfa /\ e \in Modes /\ e \notin NeedsMark /\ Least(e) = 1
  BY StartEdges, ModeFacts DEF Starts, Least
<1>5. Moves
  BY <1>1, <1>2, <1>3, NoneOne DEF Moves
<1>6. Mark' /\ mrk' \in 1 .. Lim
  BY <1>1, <1>2, <1>3, <1>4, EnterMark DEF Safe
<1>7. Read'
  BY <1>1, <1>2, <1>4 DEF Read
<1>8. Began' = Began /\ mode \notin Ends
  BY <1>1, <1>4, ModeFacts DEF Began, Ends
<1>9. e # "cpp_attribute"
  BY <1>4 DEF Starts
<1>10. tok' \in 1 .. cur'
  BY <1>1, <1>2
<1> QED BY <1>1, <1>2, <1>4, <1>5, <1>6, <1>7, <1>8, <1>9, <1>10, OnTrieType, QuietStep

LEMMA StartQuoteStep == Safe /\ StartQuote => Safe'
<1> SUFFICES ASSUME Safe, StartQuote
             PROVE  Safe'
  OBVIOUS
<1> PICK e : e = IF Ch = "'" THEN "character" ELSE "string"
  OBVIOUS
<1>1. /\ mode = "start" /\ mode' = e /\ path' = <<>> /\ cur' = cur + 1
      /\ tok' = cur + 1 /\ width' = "1" /\ escaped' = FALSE /\ Enter(e, <<>>) /\ Ch \in Quote
      /\ UNCHANGED <<text, eol, lines, parens, tokens>>
  BY DEF StartQuote, Enter
<1>2. cur < Lim /\ Ch = text[cur] /\ text[cur] \notin Eol
  BY <1>1, InkSigns, InkIsText DEF Quote
<1>3. Lim \in Nat /\ cur \in 1 .. Lim /\ eol \in 1 .. cur /\ parens \in Nat
  BY TextLen DEF Typed, Safe
<1>4. /\ e \in Literals /\ e \in Modes /\ e \notin Dfa /\ e \notin Marked /\ e \notin Ends
      /\ e # "start" /\ e # "cpp_attribute"
  BY ModeFacts DEF Literals
<1>5. Moves
  BY <1>1, <1>2, <1>3, NoneOne DEF Moves
<1>6. mrk' \in 1 .. Lim
  BY <1>1, <1>2, <1>3, <1>4, EnterMark DEF Safe, Marked
<1>7. Read' /\ Mark'
  BY <1>1, <1>4 DEF Read, Mark
<1>8. Began' = Began /\ mode \notin Ends
  BY <1>1, <1>3, <1>4 DEF Began, Ends
<1>9. tok' \in 1 .. cur'
  BY <1>1, <1>3
<1>10. escaped' \in BOOLEAN
  BY <1>1
<1> QED BY <1>1, <1>3, <1>4, <1>5, <1>6, <1>7, <1>8, <1>9, <1>10, QuietStep

LEMMA ReadStep == Safe /\ (Advance \/ OpenAttribute \/ LiteralPrefix) => Safe'
<1> SUFFICES ASSUME Safe, Advance \/ OpenAttribute \/ LiteralPrefix
             PROVE  Safe'
  OBVIOUS
<1> PICK e, p : e = mode' /\ p = path'
  OBVIOUS
<1>1. /\ mode \in Dfa /\ cur < Lim /\ text[cur] \notin Eol
      /\ Leads(mode, e) /\ Enter(e, p) /\ path' \in Trie \cup {<<>>}
      /\ UNCHANGED <<text, tok, eol, lines, escaped, tokens>>
      /\ width' \in {"1", "2", "4", "wchar"}
      /\ parens' \in Nat /\ (e = "cpp_attribute" => parens' # 0)
  BY ReadInk DEF Safe
<1>2. cur' = cur + 1
  BY <1>1 DEF Enter
<1>3. /\ Lim \in Nat /\ cur \in 1 .. Lim /\ eol \in 1 .. cur /\ tok \in 1 .. cur
      /\ tok + Least(mode) <= cur /\ eol <= tok
  BY <1>1, TextLen DEF Safe, Typed, Read
<1>4. e \in Dfa \cup {"comment", "comment_sl", "cpp_attribute"} /\ e \in Modes
  BY <1>1, LeadsFacts, ModeFacts DEF Conditions
<1>5. tok + Least(e) <= cur + 1
  <2>1. Least(mode) \in Int /\ Least(e) \in Int /\ Least(e) <= Least(mode) + 1
    BY <1>1, LeadsLeast, LeastBounds
  <2> QED BY <1>3, <2>1
<1>6. Read'
  BY <1>1, <1>2, <1>3, <1>5 DEF Read
<1>7. e \in NeedsMark => mode \in Marked
  BY <1>1, LeadsFacts
<1>8. Mark' /\ mrk' \in 1 .. Lim /\ tok' \in 1 .. cur'
  BY <1>1, <1>2, <1>3, <1>5, <1>7, EnterMark DEF Safe
<1>9. Moves
  BY <1>1, <1>2, <1>3, NoneOne DEF Moves
<1>10. /\ e # "start" /\ e \notin Literals /\ mode # "start" /\ mode \notin Literals
       /\ mode \notin Ends
  BY <1>1, <1>4, ModeFacts DEF Literals
<1>11. Began' = Began
  BY <1>1, <1>10 DEF Began
<1>12. escaped' \in BOOLEAN
  BY <1>1, Zenon DEF Safe, Typed
<1> QED BY <1>1, <1>4, <1>6, <1>8, <1>9, <1>10, <1>11, <1>12, QuietStep

LEMMA FailStep == Safe /\ Fail => Safe'
<1> SUFFICES ASSUME Safe, Fail
             PROVE  Safe'
  OBVIOUS
<1>1. /\ mode' = "error" /\ tokens' = <<>>
      /\ UNCHANGED <<text, path, cur, tok, mrk, acc, eol, lines, escaped, parens, width>>
  BY DEF Fail
<1>2. mode' \in Ends /\ mode' \in Modes /\ mode' \notin Dfa /\ mode' \notin Marked
  BY <1>1, ModeFacts DEF Ends
<1>3. Typed'
  BY <1>1, <1>2 DEF Safe, Typed, Ends, Lim
<1>4. Lined'
  BY <1>1 DEF Safe, Lined
<1>5. Joined'
  <2>1. <<>> \in Seq({}) /\ DOMAIN <<>> = {}
    OBVIOUS
  <2>2. IsSeq(<<>>)
    BY <2>1 DEF IsSeq
  <2>3. IsSeq(tokens') /\ DOMAIN tokens' = {}
    BY <1>1, <2>1, <2>2
  <2> QED BY <1>2, <2>3 DEF Joined
<1> QED BY <1>2, <1>3, <1>4, <1>5 DEF Safe, Read, Mark

(***************************************************************************)
(* The tokens that the steps add.                                          *)
(***************************************************************************)
LEMMA NewTokenIs ==
  ASSUME NEW type, NEW flags, NEW first, NEW last, NewToken(type, flags, first, last)
  PROVE  \E t : /\ tokens' = Append(tokens, t) /\ t.type = type /\ t.flags = flags
                /\ t.from = first /\ t.to = last /\ t.col = first - eol + 1 /\ t.line = lines
<1> DEFINE t == [type |-> type, flags |-> flags, from |-> first, to |-> last,
                 col |-> first - eol + 1, line |-> lines]
<1>1. tokens' = Append(tokens, t)
  BY DEF NewToken
<1>2. /\ t.type = type /\ t.flags = flags /\ t.from = first /\ t.to = last
      /\ t.col = first - eol + 1 /\ t.line = lines
  OBVIOUS
<1> HIDE DEF t
<1> QED BY <1>1, <1>2

\* A loop adds a token from first to last, the last but one character of its line at i.
LEMMA LoopEmits ==
  ASSUME Safe, mode \notin Ends, mode' = "start",
         NEW type \in Loops, NEW flags, NEW first \in Int, NEW last \in Int, NEW i \in Int,
         NEW edge \in 0 .. 1,
         Leaves(type, flags, edge, edge), NewToken(type, flags, first, last), first - edge = Began,
         first \in 1 .. Len(text) + 1, last \in (first - 1) .. Len(text),
         cur' = last + edge + 1,
         i = IF type = "EOL" THEN first - 1
             ELSE IF type = "COMMENT" /\ text[last] \in Eol THEN last - 1 ELSE last,
         cur - 1 <= i, first - 1 <= i, None(text, Eol, cur, i)
  PROVE  \E t : Emits(t)
<1>1. PICK t : /\ tokens' = Append(tokens, t) /\ t.type = type /\ t.flags = flags
               /\ t.from = first /\ t.to = last
               /\ t.col = first - eol + 1 /\ t.line = lines
  BY NewTokenIs
<1>2. Leaves(t.type, t.flags, edge, edge)
  BY <1>1
<1>3. Outside(t) = [front |-> edge, back |-> edge]
  BY <1>2, OutsideCases, Zenon
<1>4. Outside(t).front = edge /\ Outside(t).back = edge
  BY <1>3
<1>5. /\ Lim \in Nat /\ cur \in 1 .. Lim /\ eol \in 1 .. cur /\ eol \in Nat
      /\ eol = 1 \/ (eol > 1 /\ text[eol - 1] \in Eol)
      /\ lines = 1 + CountIn(text, Eol, 1, cur - 1) /\ None(text, Eol, eol, cur - 1)
  <2>1. Lim \in Nat /\ cur \in 1 .. Lim /\ eol \in 1 .. cur
    BY TextLen DEF Safe, Typed
  <2> QED BY <2>1 DEF Safe, Lined
<1>6. LineEnd(text, t) = i
  BY <1>1 DEF LineEnd
<1>7. lines = 1 + CountIn(text, Eol, 1, i) /\ None(text, Eol, eol, i)
  <2>1. None(text, Eol, (cur - 1) + 1, i) /\ cur - 1 \in Int
    BY <1>5
  <2>2. CountIn(text, Eol, 1, i) = CountIn(text, Eol, 1, cur - 1)
    BY <2>1, CountSkip
  <2> QED BY <1>5, <2>2, NoneJoins
<1>8. Placed(text, t)
  <2> PICK x, e : x = text /\ e = eol
    OBVIOUS
  <2>1. e \in Nat /\ e - 1 <= i /\ (e = 1 \/ (e > 1 /\ x[e - 1] \in Eol))
    BY <1>5
  <2>2. t.from \in Nat \ {0} /\ t.from - 1 <= i /\ t.col = t.from - e + 1
    BY <1>1
  <2>3. i = LineEnd(x, t) /\ t.line = 1 + CountIn(x, Eol, 1, i) /\ None(x, Eol, e, i)
    BY <1>1, <1>6, <1>7
  <2> QED BY <2>1, <2>2, <2>3, PlacedByEol
<1>9. t.from - Outside(t).front = Began /\ cur' = t.to + Outside(t).back + 1
  BY <1>1, <1>4
<1> QED BY <1>1, <1>8, <1>9 DEF Emits

LEMMA Bare ==
  \A type \in {"EOL", "COMMENT", "CPP_ATTRIBUTE"} : type \in Loops /\ Leaves(type, "", 0, 0)
BY Zenon DEF Loops, Leaves

LEMMA StartEolStep == Safe /\ StartEol => Safe'
<1> SUFFICES ASSUME Safe, StartEol
             PROVE  Safe'
  OBVIOUS
<1>1. /\ mode = "start" /\ mode' = "start" /\ Ch \in Eol
      /\ tok' = cur /\ width' = "1" /\ cur' = cur + 1 /\ NEWLINE
      /\ UNCHANGED <<text, path, mrk, acc, escaped, parens>>
  BY Zenon DEF StartEol
<1>2. PICK flags : Leaves("EOL", flags, 0, 0) /\ NewToken("EOL", flags, cur, cur)
  BY Bare, Zenon DEF StartEol
<1>3. /\ Lim \in Nat /\ cur \in 1 .. Lim /\ eol \in 1 .. cur /\ Lim = Len(text) + 1
      /\ Len(text) \in Nat /\ path \in Trie \cup {<<>>}
  BY TextLen DEF Typed, Safe
<1>4. cur < Lim /\ text[cur] \in Eol
  <2>1. StartEol => More
    BY Zenon DEF StartEol
  <2> QED BY <1>1, <1>3, <2>1 DEF More, AtEnd, Ch, At
<1>5. Moves
  BY <1>1, <1>4 DEF Moves
<1>6. mode \notin Ends /\ Began = cur
  BY <1>1 DEF Ends, Began
<1>7. \E t : Emits(t)
  <2> PICK c, i : c = cur /\ i = cur - 1
    OBVIOUS
  <2>1. None(text, Eol, cur, i)
    BY <1>3, NoneEmpty
  <2>2. "EOL" \in Loops
    BY DEF Loops
  <2>3. /\ c \in Int /\ i \in Int /\ c \in 1 .. Len(text) + 1 /\ c \in (c - 1) .. Len(text)
        /\ c - 0 = Began /\ cur' = c + 0 + 1 /\ cur - 1 <= i /\ c - 1 <= i
        /\ i = IF "EOL" = "EOL" THEN c - 1
               ELSE IF "EOL" = "COMMENT" /\ text[c] \in Eol THEN c - 1 ELSE c
    BY <1>1, <1>3, <1>4, <1>6
  <2> QED BY <1>1, <1>2, <1>6, <2>1, <2>2, <2>3, LoopEmits
<1>8. tok' \in 1 .. cur'
  BY <1>1, <1>3
<1>9. escaped' \in BOOLEAN
  BY <1>1, Zenon DEF Safe, Typed
<1> QED BY <1>1, <1>3, <1>5, <1>7, <1>8, <1>9, EmitStep

\* The loops read on.
LEMMA LoopQuiet ==
  ASSUME Safe, mode \in Conditions, mode' = mode, Moves,
         UNCHANGED <<text, path, tok, mrk, acc, width, tokens>>,
         cur' \in cur .. Lim, escaped' \in BOOLEAN, parens' \in Nat,
         mode = "cpp_attribute" => parens' # 0
  PROVE  Safe'
<1>1. mode \notin Dfa /\ mode \notin Marked /\ mode \notin Ends /\ mode # "start"
  BY ModeFacts
<1>2. Read' /\ Mark' /\ Began' = Began
  BY <1>1 DEF Read, Mark, Began
<1>3. Lim \in Nat /\ cur \in 1 .. Lim /\ tok \in 1 .. cur
  BY TextLen DEF Safe, Typed
<1>4. tok' \in 1 .. cur'
  BY <1>3
<1> QED BY <1>1, <1>2, <1>4, QuietStep DEF Safe, Typed

LEMMA QuotedStep == Safe /\ Quoted => Safe'
<1> SUFFICES ASSUME Safe, Quoted
             PROVE  Safe'
  OBVIOUS
<1>1. /\ mode \in Literals /\ More /\ cur' = cur + 1
      /\ UNCHANGED <<text, path, tok, mrk, acc, parens, width>>
  BY DEF Quoted, Literals
<1>2. /\ Lim \in Nat /\ cur \in 1 .. Lim /\ eol \in 1 .. cur /\ Lim = Len(text) + 1
      /\ Len(text) \in Nat /\ tok \in 1 .. cur /\ path \in Trie \cup {<<>>}
  BY TextLen DEF Typed, Safe
<1>3. cur < Lim /\ Ch = text[cur]
  BY <1>1, <1>2 DEF More, AtEnd, Ch, At, Literals, Fills
<1>4. /\ mode \in Conditions /\ mode \notin Ends /\ mode # "start" /\ mode # "cpp_attribute"
      /\ parens \in Nat /\ escaped \in BOOLEAN
  BY <1>1, ModeFacts DEF Literals, Safe, Typed
<1>5. (escaped' \in BOOLEAN) /\ cur' \in cur .. Lim
  <2>1. escaped' \in BOOLEAN
    BY <1>4, Zenon DEF Quoted, QuotedEol, QuotedBslash, QuotedClose, QuotedOther
  <2> QED BY <1>1, <1>2, <1>3, <2>1
<1>6. CASE QuotedEol
  <2>1. Moves /\ mode' = mode /\ tokens' = tokens
    BY <1>1, <1>3, <1>6 DEF Moves, QuotedEol
  <2> QED BY <1>1, <1>4, <1>5, <2>1, LoopQuiet
<1>7. CASE QuotedBslash \/ QuotedOther
  <2>1. Ch \notin Eol
    BY <1>7, InkSigns DEF QuotedBslash, QuotedOther, Ink
  <2>2. mode' = mode /\ tokens' = tokens /\ UNCHANGED <<eol, lines>>
    BY <1>7 DEF QuotedBslash, QuotedOther
  <2>3. Moves
    BY <1>1, <1>2, <1>3, <2>1, <2>2, NoneOne DEF Moves
  <2> QED BY <1>1, <1>4, <1>5, <2>2, <2>3, LoopQuiet
<1>8. CASE QuotedClose
  <2>1. PICK type, flags :
          /\ type \in {"QUOTED_CHAR", "QUOTED_STRING"}
          /\ NewToken(type, flags, tok, cur - 1) /\ mode' = "start"
          /\ Ch \in Quote /\ UNCHANGED <<eol, lines>>
    <3>1. PICK type, flags :
            /\ type = (IF mode = "string" THEN "QUOTED_STRING" ELSE "QUOTED_CHAR")
            /\ flags = width
      OBVIOUS
    <3>2. /\ NewToken(type, flags, tok, cur - 1) /\ mode' = "start"
          /\ Ch = Close /\ UNCHANGED <<eol, lines>>
      BY <1>8, <3>1 DEF QuotedClose
    <3>3. Close \in Quote
      BY Zenon DEF Close, Quote
    <3>4. type \in {"QUOTED_CHAR", "QUOTED_STRING"}
      BY <3>1
    <3> QED BY <3>2, <3>3, <3>4
  <2>2. Ch \notin Eol
    BY <2>1, InkSigns DEF Quote, Ink
  <2>3. Moves
    BY <1>1, <1>2, <1>3, <2>1, <2>2, NoneOne DEF Moves
  <2>4. type \in Loops /\ Leaves(type, flags, 1, 1)
    BY <2>1, Zenon DEF Loops, Leaves
  <2>5. \E t : Emits(t)
    <3> PICK f, l : f = tok /\ l = cur - 1
      OBVIOUS
    <3>1. None(text, Eol, cur, l) /\ f - 1 = Began
      BY <1>1, <1>2, <1>4, NoneEmpty DEF Began
    <3>2. /\ f \in Int /\ l \in Int /\ f \in 1 .. Len(text) + 1 /\ l \in (f - 1) .. Len(text)
          /\ cur' = l + 1 + 1 /\ cur - 1 <= l /\ f - 1 <= l
          /\ l = IF type = "EOL" THEN f - 1
                 ELSE IF type = "COMMENT" /\ text[l] \in Eol THEN l - 1 ELSE l
      BY <1>1, <1>2, <1>3, <2>1
    <3>3. NewToken(type, flags, f, l) /\ 1 \in 0 .. 1
      BY <2>1
    <3>4. mode' = "start"
      BY <2>1
    <3> QED BY <1>4, <2>4, <3>1, <3>2, <3>3, <3>4, LoopEmits
  <2>6. tok' \in 1 .. cur'
    BY <1>1, <1>2
  <2>7. /\ width' \in {"1", "2", "4", "wchar"}
        /\ UNCHANGED <<text, mrk, parens>> /\ path' \in Trie \cup {<<>>}
    BY <1>1 DEF Safe, Typed
  <2> QED BY <1>5, <2>3, <2>5, <2>6, <2>7, EmitStep
<1> QED BY <1>6, <1>7, <1>8 DEF Quoted

LEMMA CommentStep == Safe /\ Comment => Safe'
<1> SUFFICES ASSUME Safe, Comment
             PROVE  Safe'
  OBVIOUS
<1>1. /\ mode = "comment" /\ More
      /\ UNCHANGED <<text, path, tok, mrk, acc, escaped, parens, width>>
  BY Zenon DEF Comment
<1>2. /\ Lim \in Nat /\ cur \in 1 .. Lim /\ eol \in 1 .. cur /\ Lim = Len(text) + 1
      /\ Len(text) \in Nat /\ tok \in 1 .. cur /\ path \in Trie \cup {<<>>}
  BY TextLen DEF Typed, Safe
<1>3. cur < Lim /\ Ch = text[cur]
  BY <1>1, <1>2 DEF More, AtEnd, Ch, At, Fills
<1>4. /\ mode \in Conditions /\ mode \notin Ends /\ mode # "start" /\ mode # "cpp_attribute"
      /\ mode \notin Literals /\ parens \in Nat
  BY <1>1 DEF Literals, Conditions, Ends, Safe, Typed
<1>5. escaped' \in BOOLEAN
  BY <1>1, Zenon DEF Safe, Typed
<1>6. CASE Ch \in Eol /\ cur' = cur + 1 /\ NEWLINE /\ UNCHANGED <<mode, tokens>>
  <2>1. Moves /\ mode' = mode /\ tokens' = tokens /\ cur' \in cur .. Lim
    BY <1>2, <1>3, <1>6 DEF Moves
  <2> QED BY <1>1, <1>4, <1>5, <2>1, LoopQuiet
<1>7. CASE Ch \notin Eol /\ cur' = cur + 1 /\ UNCHANGED <<mode, eol, lines, tokens>>
  <2>1. Moves /\ cur' \in cur .. Lim
    BY <1>2, <1>3, <1>7, NoneOne DEF Moves
  <2> QED BY <1>1, <1>4, <1>5, <1>7, <2>1, LoopQuiet
<1>8. ASSUME NEW flags, Leaves("COMMENT", flags, 0, 0), CommentCloses,
             NewToken("COMMENT", flags, tok, cur + 1),
             mode' = "start", cur' = cur + 2, UNCHANGED <<eol, lines>>
      PROVE  Safe'
  <2>1. /\ cur + 1 < Lim /\ text[cur + 1] = At(cur + 1) /\ text[cur] = "*"
        /\ text[cur] \notin Eol /\ text[cur + 1] \notin Eol
    <3>1. Ch = "*" /\ At(cur + 1) = "/" /\ Ink("*") /\ Ink("/")
      BY <1>8, InkSigns DEF CommentCloses
    <3> QED BY <1>3, <3>1 DEF Ink, At
  <2>2. None(text, Eol, cur, cur + 1)
    <3>1. None(text, Eol, cur, (cur + 1) - 1) /\ None(text, Eol, cur + 1, cur + 1)
      BY <1>2, <2>1, NoneOne
    <3> QED BY <1>2, <3>1, NoneJoins
  <2>3. Moves
    <3>1. cur' \in cur .. Lim /\ cur' - 1 = cur + 1
      BY <1>2, <1>8, <2>1
    <3> QED BY <1>8, <2>2, <3>1 DEF Moves
  <2>4. \E t : Emits(t)
    <3> PICK f, l : f = tok /\ l = cur + 1
      OBVIOUS
    <3>1. None(text, Eol, cur, l) /\ f - 0 = Began
      BY <1>2, <1>4, <2>2 DEF Began
    <3>2. /\ f \in Int /\ l \in Int /\ f \in 1 .. Len(text) + 1 /\ l \in (f - 1) .. Len(text)
          /\ cur' = l + 0 + 1 /\ cur - 1 <= l /\ f - 1 <= l
      BY <1>2, <1>8, <2>1
    <3>3. l = IF "COMMENT" = "EOL" THEN f - 1
                 ELSE IF "COMMENT" = "COMMENT" /\ text[l] \in Eol THEN l - 1 ELSE l
      BY <2>1
    <3>4. NewToken("COMMENT", flags, f, l) /\ 0 \in 0 .. 1 /\ "COMMENT" \in Loops
      BY <1>8 DEF Loops
    <3>5. mode' = "start"
      BY <1>8
    <3> QED BY <1>4, <1>8, <3>1, <3>2, <3>3, <3>4, <3>5, LoopEmits
  <2>5. tok' \in 1 .. cur'
    BY <1>1, <1>2, <1>8
  <2>6. /\ width' \in {"1", "2", "4", "wchar"}
        /\ UNCHANGED <<text, mrk, parens>> /\ path' \in Trie \cup {<<>>}
    BY <1>1 DEF Safe, Typed
  <2> QED BY <1>5, <2>3, <2>4, <2>5, <2>6, EmitStep
<1>9. \/ Ch \in Eol /\ cur' = cur + 1 /\ NEWLINE /\ UNCHANGED <<mode, tokens>>
      \/ Ch \notin Eol /\ cur' = cur + 1 /\ UNCHANGED <<mode, eol, lines, tokens>>
      \/ \E flags : /\ Leaves("COMMENT", flags, 0, 0) /\ CommentCloses
                    /\ NewToken("COMMENT", flags, tok, cur + 1)
                    /\ mode' = "start" /\ cur' = cur + 2 /\ UNCHANGED <<eol, lines>>
  BY Bare, Zenon DEF Comment
<1> QED BY <1>6, <1>7, <1>8, <1>9, Zenon

LEMMA CommentSlStep == Safe /\ CommentSl => Safe'
<1> SUFFICES ASSUME Safe, CommentSl
             PROVE  Safe'
  OBVIOUS
<1>1. /\ mode = "comment_sl" /\ More /\ cur' = cur + 1
      /\ UNCHANGED <<text, path, tok, mrk, acc, escaped, parens, width>>
  BY Zenon DEF CommentSl
<1>2. /\ Lim \in Nat /\ cur \in 1 .. Lim /\ eol \in 1 .. cur /\ Lim = Len(text) + 1
      /\ Len(text) \in Nat /\ tok \in 1 .. cur /\ path \in Trie \cup {<<>>}
  BY TextLen DEF Typed, Safe
<1>3. cur < Lim /\ Ch = text[cur] /\ cur' \in cur .. Lim
  BY <1>1, <1>2 DEF More, AtEnd, Ch, At, Fills
<1>4. /\ mode \in Conditions /\ mode \notin Ends /\ mode # "start" /\ mode # "cpp_attribute"
      /\ mode \notin Literals /\ parens \in Nat
  BY <1>1 DEF Literals, Conditions, Ends, Safe, Typed
<1>5. escaped' \in BOOLEAN
  BY <1>1, Zenon DEF Safe, Typed
<1>6. CASE Ch \notin Eol /\ UNCHANGED <<mode, eol, lines, tokens>>
  <2>1. Moves
    BY <1>1, <1>2, <1>3, <1>6, NoneOne DEF Moves
  <2> QED BY <1>1, <1>3, <1>4, <1>5, <1>6, <2>1, LoopQuiet
<1>7. ASSUME NEW flags, Leaves("COMMENT", flags, 0, 0), Ch \in Eol,
             NewToken("COMMENT", flags, tok, cur), NEWLINE, mode' = "start"
      PROVE  Safe'
  <2>1. Moves
    BY <1>1, <1>3, <1>7 DEF Moves
  <2>2. \E t : Emits(t)
    <3> PICK f, l, i : f = tok /\ l = cur /\ i = cur - 1
      OBVIOUS
    <3>1. None(text, Eol, cur, i) /\ f - 0 = Began
      BY <1>2, <1>4, NoneEmpty DEF Began
    <3>2. /\ f \in Int /\ l \in Int /\ f \in 1 .. Len(text) + 1 /\ l \in (f - 1) .. Len(text)
          /\ cur' = l + 0 + 1 /\ i \in Int /\ cur - 1 <= i /\ f - 1 <= i
      BY <1>1, <1>2, <1>3
    <3>3. i = IF "COMMENT" = "EOL" THEN f - 1
                 ELSE IF "COMMENT" = "COMMENT" /\ text[l] \in Eol THEN l - 1 ELSE l
      BY <1>3, <1>7
    <3>4. NewToken("COMMENT", flags, f, l) /\ 0 \in 0 .. 1 /\ "COMMENT" \in Loops
      BY <1>7 DEF Loops
    <3>5. mode' = "start"
      BY <1>7
    <3> QED BY <1>4, <1>7, <3>1, <3>2, <3>3, <3>4, <3>5, LoopEmits
  <2>3. tok' \in 1 .. cur'
    BY <1>1, <1>2
  <2>4. /\ width' \in {"1", "2", "4", "wchar"}
        /\ UNCHANGED <<text, mrk, parens>> /\ path' \in Trie \cup {<<>>}
    BY <1>1 DEF Safe, Typed
  <2> QED BY <1>5, <2>1, <2>2, <2>3, <2>4, EmitStep
<1>8. \/ Ch \notin Eol /\ UNCHANGED <<mode, eol, lines, tokens>>
      \/ \E flags : /\ Leaves("COMMENT", flags, 0, 0) /\ Ch \in Eol
                    /\ NewToken("COMMENT", flags, tok, cur) /\ NEWLINE /\ mode' = "start"
  BY Bare, Zenon DEF CommentSl
<1> QED BY <1>6, <1>7, <1>8, Zenon

LEMMA CppAttributeStep == Safe /\ CppAttribute => Safe'
<1> SUFFICES ASSUME Safe, CppAttribute
             PROVE  Safe'
  OBVIOUS
<1>1. /\ mode = "cpp_attribute" /\ More /\ cur' = cur + 1
      /\ UNCHANGED <<text, path, tok, mrk, acc, escaped, width>>
  BY Zenon DEF CppAttribute
<1>2. /\ Lim \in Nat /\ cur \in 1 .. Lim /\ eol \in 1 .. cur /\ Lim = Len(text) + 1
      /\ Len(text) \in Nat /\ tok \in 1 .. cur /\ path \in Trie \cup {<<>>}
      /\ parens \in Nat \ {0}
  BY <1>1, TextLen DEF Typed, Safe
<1>3. cur < Lim /\ Ch = text[cur] /\ cur' \in cur .. Lim
  BY <1>1, <1>2 DEF More, AtEnd, Ch, At, Fills
<1>4. /\ mode \in Conditions /\ mode \notin Ends /\ mode # "start" /\ mode \notin Literals
  BY <1>1 DEF Literals, Conditions, Ends
<1>5. escaped' \in BOOLEAN
  BY <1>1, Zenon DEF Safe, Typed
<1>6. ASSUME Ch \notin Eol, UNCHANGED <<mode, eol, lines, tokens>>, parens' \in Nat \ {0}
      PROVE  Safe'
  <2>1. Moves
    BY <1>1, <1>2, <1>3, <1>6, NoneOne DEF Moves
  <2> QED BY <1>1, <1>3, <1>4, <1>5, <1>6, <2>1, LoopQuiet
<1>7. ASSUME Ch \in Eol, NEWLINE, UNCHANGED <<mode, parens, tokens>>
      PROVE  Safe'
  <2>1. Moves
    BY <1>1, <1>3, <1>7 DEF Moves
  <2> QED BY <1>1, <1>2, <1>3, <1>4, <1>5, <1>7, <2>1, LoopQuiet
<1>8. ASSUME NEW flags, Leaves("CPP_ATTRIBUTE", flags, 0, 0), Ch = ")",
             NewToken("CPP_ATTRIBUTE", flags, tok, cur),
             mode' = "start", UNCHANGED <<parens, eol, lines>>
      PROVE  Safe'
  <2>1. text[cur] \notin Eol
    BY <1>3, <1>8 DEF Eol
  <2>2. Moves
    <3>1. None(text, Eol, cur, cur) /\ cur' - 1 = cur
      BY <1>1, <1>2, <2>1, NoneOne
    <3> QED BY <1>3, <1>8, <3>1 DEF Moves
  <2>3. \E t : Emits(t)
    <3> PICK f, l : f = tok /\ l = cur
      OBVIOUS
    <3>1. None(text, Eol, cur, l) /\ f - 0 = Began
      BY <1>2, <1>4, <2>1, NoneOne DEF Began
    <3>2. /\ f \in Int /\ l \in Int /\ f \in 1 .. Len(text) + 1 /\ l \in (f - 1) .. Len(text)
          /\ cur' = l + 0 + 1 /\ cur - 1 <= l /\ f - 1 <= l
      BY <1>1, <1>2, <1>3
    <3>3. l = IF "CPP_ATTRIBUTE" = "EOL" THEN f - 1
                 ELSE IF "CPP_ATTRIBUTE" = "COMMENT" /\ text[l] \in Eol THEN l - 1 ELSE l
      OBVIOUS
    <3>4. NewToken("CPP_ATTRIBUTE", flags, f, l) /\ 0 \in 0 .. 1 /\ "CPP_ATTRIBUTE" \in Loops
      BY <1>8 DEF Loops
    <3>5. mode' = "start"
      BY <1>8
    <3> QED BY <1>4, <1>8, <3>1, <3>2, <3>3, <3>4, <3>5, LoopEmits
  <2>4. tok' \in 1 .. cur'
    BY <1>1, <1>2
  <2>5. /\ width' \in {"1", "2", "4", "wchar"}
        /\ UNCHANGED <<text, mrk, parens>> /\ path' \in Trie \cup {<<>>}
    BY <1>1, <1>8 DEF Safe, Typed
  <2> QED BY <1>5, <2>2, <2>3, <2>4, <2>5, EmitStep
<1>9. \/ Ch \notin Eol /\ UNCHANGED <<mode, eol, lines, tokens>> /\ parens' \in Nat \ {0}
      \/ Ch \in Eol /\ NEWLINE /\ UNCHANGED <<mode, parens, tokens>>
      \/ \E flags : /\ Leaves("CPP_ATTRIBUTE", flags, 0, 0) /\ Ch = ")"
                    /\ NewToken("CPP_ATTRIBUTE", flags, tok, cur)
                    /\ mode' = "start" /\ UNCHANGED <<parens, eol, lines>>
  <2>1. "(" \notin Eol /\ ")" \notin Eol
    BY DEF Eol
  <2>2. \/ /\ Ch \notin Eol /\ parens' \in {parens, parens + 1}
           /\ UNCHANGED <<mode, eol, lines, tokens>>
        \/ /\ Ch \notin Eol /\ parens' = parens - 1 /\ parens # 1
           /\ UNCHANGED <<mode, eol, lines, tokens>>
        \/ Ch \in Eol /\ NEWLINE /\ UNCHANGED <<mode, parens, tokens>>
        \/ \E flags : /\ Leaves("CPP_ATTRIBUTE", flags, 0, 0) /\ Ch = ")"
                      /\ NewToken("CPP_ATTRIBUTE", flags, tok, cur)
                      /\ mode' = "start" /\ UNCHANGED <<parens, eol, lines>>
    BY <2>1, Bare, Zenon DEF CppAttribute
  <2> QED BY <1>2, <2>2
<1> QED BY <1>2, <1>6, <1>7, <1>8, <1>9

(***************************************************************************)
(* The rules: the token is what the state accepts, or what the mark holds. *)
(***************************************************************************)
LEMMA OutsideSame ==
  ASSUME NEW t, NEW k, t.type = k.type, t.flags = k.flags
  PROVE  Outside(t) = Outside(k)
BY Zenon DEF Outside

\* The rule of the kind k ends the token in front of the character c.
LEMMA RuleEmits ==
  ASSUME Safe, mode \in Dfa, mode' = "start", NEW k, IsKind(k), NEW c \in Int,
         tok + 1 <= c, c <= cur, tok + k.front + k.back <= c, cur' = c,
         NewToken(k.type, k.flags, tok + k.front, c - 1 - k.back)
  PROVE  \E t : Emits(t)
<1>1. /\ Lim \in Nat /\ cur \in 1 .. Lim /\ eol \in 1 .. cur /\ Lim = Len(text) + 1
      /\ Len(text) \in Nat /\ tok \in 1 .. cur /\ eol <= tok
  BY TextLen DEF Typed, Safe, Read
<1>2. PICK front \in 0 .. 1, back \in 0 .. 3 : front = k.front /\ back = k.back
  BY DEF IsKind
<1>3. PICK first, last, i : /\ first = tok + front /\ last = c - 1 - back /\ i = last
  OBVIOUS
<1>4. /\ first \in Int /\ last \in Int /\ first \in 1 .. Len(text) + 1
      /\ last \in (first - 1) .. Len(text) /\ eol <= first /\ last <= cur - 1
      /\ cur' = last + back + 1 /\ first - front = tok
  <2>1. \A t, f, b, d, e, m, n \in Int :
          /\ 1 <= t /\ e <= t /\ 0 <= f /\ 0 <= b /\ t + f + b <= d /\ d <= m /\ m <= n + 1
          => /\ t + f \in 1 .. n + 1 /\ d - 1 - b \in (t + f - 1) .. n
             /\ e <= t + f /\ d - 1 - b <= m - 1
             /\ d = d - 1 - b + b + 1 /\ t + f - f = t
    OBVIOUS
  <2>2. /\ tok \in Int /\ front \in Int /\ back \in Int /\ eol \in Int /\ cur \in Int
        /\ Len(text) \in Int /\ 1 <= tok /\ 0 <= front /\ 0 <= back /\ cur <= Len(text) + 1
    BY <1>1, <1>2, SMTT(60)
  <2>3. tok + front + back <= c /\ c <= cur /\ eol <= tok /\ cur' = c
    BY <1>1, <1>2
  <2>4. first \in Int /\ last \in Int
    BY <1>3, <2>2
  <2> QED BY <1>3, <2>1, <2>2, <2>3, <2>4
<1>5. PICK t : /\ tokens' = Append(tokens, t) /\ t.type = k.type /\ t.flags = k.flags
               /\ t.from = first /\ t.to = last /\ t.col = first - eol + 1 /\ t.line = lines
  BY <1>2, <1>3, NewTokenIs
<1>6. Outside(t).front = front /\ Outside(t).back = back
  BY <1>2, <1>5, OutsideSame DEF IsKind
<1>7. LineEnd(text, t) = last
  <2>1. t.type # "EOL" /\ t.type # "COMMENT"
    BY <1>5 DEF IsKind, Loops
  <2> QED BY <1>5, <2>1 DEF LineEnd
<1>8. Placed(text, t)
  <2> PICK x, e : x = text /\ e = eol
    OBVIOUS
  <2>1. None(x, Eol, e, cur - 1) /\ (e = 1 \/ x[e - 1] \in Eol)
        /\ lines = 1 + CountIn(x, Eol, 1, cur - 1)
    BY DEF Safe, Lined
  <2>2. e \in Nat \ {0} /\ e - 1 <= last /\ cur - 1 \in Int /\ last + 1 >= e
    BY <1>1, <1>4
  <2>3. None(x, Eol, e, last) /\ None(x, Eol, last + 1, cur - 1)
    BY <1>4, <2>1, <2>2, NoneWithin
  <2>4. CountIn(x, Eol, 1, cur - 1) = CountIn(x, Eol, 1, last)
    BY <1>4, <2>2, <2>3, CountSkip
  <2>5. t.from \in Nat \ {0} /\ t.from - 1 <= last /\ t.col = t.from - e + 1
    BY <1>4, <1>5, SMTT(60)
  <2>6. last = LineEnd(x, t) /\ t.line = 1 + CountIn(x, Eol, 1, last)
    BY <1>5, <1>7, <2>1, <2>4
  <2>7. e = 1 \/ (e > 1 /\ x[e - 1] \in Eol)
    BY <2>1, <2>2
  <2> QED BY <1>4, <2>2, <2>3, <2>5, <2>6, <2>7, PlacedByEol
<1>9. mode \notin Ends /\ Began = tok
  BY ModeFacts DEF Began
<1> QED BY <1>4, <1>5, <1>6, <1>8, <1>9 DEF Emits

LEMMA StoppedFacts ==
  ASSUME Stopped
  PROVE  /\ mode \in Dfa /\ mode # "bad"
         /\ Accepting <=> mode \in DOMAIN Accepts \cup {"word", "pragma"}
         /\ ~Accepting /\ mode # "dollar_1" => mode \in NeedsMark
BY ModeFacts DEF Stopped, Reading, Accepting

LEMMA AcceptStep == Safe /\ Accept => Safe'
<1> SUFFICES ASSUME Safe, Accept
             PROVE  Safe'
  OBVIOUS
<1>1. /\ mode \in Dfa /\ mode \in DOMAIN Accepts \cup {"word", "pragma"}
      /\ mode' = "start" /\ path' = <<>>
      /\ UNCHANGED <<text, cur, tok, mrk, acc, eol, lines, escaped, parens, width>>
  BY StoppedFacts DEF Accept
<1>2. PICK k, c : /\ k = KindAt(mode, path, cur) /\ c = cur
                  /\ NewToken(k.type, k.flags, tok + k.front, c - 1 - k.back)
  BY DEF Accept
<1>3. IsKind(k) /\ k.front + k.back <= Least(mode)
  <2> PICK m, p : m = mode /\ p = path
    OBVIOUS
  <2>1. k = KindAt(m, p, c)
    BY <1>2
  <2> QED BY <1>1, <2>1, KindFacts
<1>4. /\ Lim \in Nat /\ cur \in 1 .. Lim /\ eol \in 1 .. cur /\ tok \in 1 .. cur
      /\ tok + Least(mode) <= cur
  BY <1>1, TextLen DEF Safe, Typed, Read
<1>5. c \in Int /\ tok + 1 <= c /\ c <= cur /\ tok + k.front + k.back <= c /\ cur' = c
  <2>1. Least(mode) \in 1 .. 3
    BY LeastBounds
  <2>2. PICK f, b : f = k.front /\ b = k.back /\ f \in 0 .. 1 /\ b \in 0 .. 3
    BY <1>3 DEF IsKind
  <2>3. tok + f + b <= cur /\ tok + 1 <= cur
    BY <1>3, <1>4, <2>1, <2>2
  <2> QED BY <1>1, <1>2, <1>4, <2>2, <2>3
<1>6. \E t : Emits(t)
  BY <1>1, <1>2, <1>3, <1>5, RuleEmits
<1>7. Moves
  BY <1>1, <1>4 DEF Moves
<1>8. tok' \in 1 .. cur' /\ path' \in Trie \cup {<<>>}
  BY <1>1, <1>4
<1>9. escaped' \in BOOLEAN /\ width' \in {"1", "2", "4", "wchar"}
  BY <1>1, Zenon DEF Safe, Typed
<1> QED BY <1>1, <1>6, <1>7, <1>8, <1>9, EmitStep

LEMMA BacktrackStep == Safe /\ Backtrack => Safe'
<1> SUFFICES ASSUME Safe, Backtrack
             PROVE  Safe'
  OBVIOUS
<1>1. /\ mode \in Dfa /\ mode \in NeedsMark /\ mode \in Marked
      /\ mode' = "start" /\ path' = <<>> /\ cur' = mrk
      /\ UNCHANGED <<text, tok, mrk, acc, eol, lines, escaped, parens, width>>
  BY StoppedFacts DEF Backtrack, Marked
<1>2. PICK k, c : /\ k = acc /\ c = mrk
                  /\ NewToken(k.type, k.flags, tok + k.front, c - 1 - k.back)
  BY DEF Backtrack
<1>3. /\ Lim \in Nat /\ cur \in 1 .. Lim /\ eol \in 1 .. cur /\ tok \in 1 .. cur
      /\ eol <= tok /\ mrk \in 1 .. Lim /\ tok + 1 <= mrk /\ mrk <= cur
  BY <1>1, TextLen DEF Safe, Typed, Read, Mark
<1>4. IsKind(k) /\ tok + k.front + k.back <= c
  BY <1>1, <1>2 DEF Safe, Mark
<1>5. c \in Int /\ tok + 1 <= c /\ c <= cur /\ cur' = c
  BY <1>1, <1>2, <1>3
<1>6. \E t : Emits(t)
  BY <1>1, <1>2, <1>4, <1>5, RuleEmits
<1>7. Moves
  BY <1>1, <1>3 DEF Moves
<1>8. tok' \in 1 .. cur' /\ path' \in Trie \cup {<<>>}
  BY <1>1, <1>3
<1>9. escaped' \in BOOLEAN /\ width' \in {"1", "2", "4", "wchar"}
  BY <1>1, Zenon DEF Safe, Typed
<1> QED BY <1>1, <1>6, <1>7, <1>8, <1>9, EmitStep

(***************************************************************************)
(* The invariant.                                                          *)
(***************************************************************************)
LEMMA SafeInit == Init => Safe
<1> SUFFICES ASSUME Init
             PROVE  Safe
  OBVIOUS
<1>1. /\ text \in Texts /\ mode = "start" /\ path = <<>> /\ cur = 1 /\ tok = 1 /\ mrk = 1
      /\ eol = 1 /\ lines = 1 /\ escaped = FALSE /\ parens = 0 /\ width = "1"
      /\ tokens = <<>>
  BY Zenon DEF Init
<1>2. Lim \in Nat \ {0}
  BY <1>1, TextLen
<1>3. /\ mode \in Modes /\ mode \notin Dfa /\ mode \notin Marked /\ mode # "cpp_attribute"
      /\ mode \notin Ends
  BY <1>1, ModeFacts
<1>4. escaped \in BOOLEAN
  BY <1>1
<1>5. Typed
  BY <1>1, <1>2, <1>3, <1>4 DEF Typed
<1>6. Read /\ Mark
  BY <1>3 DEF Read, Mark
<1>7. Lined
  <2>1. None(text, Eol, 1, 0)
    BY NoneEmpty
  <2>2. CountIn(text, Eol, 1, 0) \in 0 .. 0
    BY CountBounds
  <2> QED BY <1>1, <2>1, <2>2 DEF Lined
<1>8. Joined
  <2>1. <<>> \in Seq({}) /\ DOMAIN <<>> = {} /\ Len(<<>>) = 0
    OBVIOUS
  <2>2. IsSeq(<<>>)
    BY <2>1 DEF IsSeq
  <2>3. Began = 1 /\ EndOf(tokens, Len(tokens)) = 0
    BY <1>1, <2>1 DEF Began, EndOf
  <2> QED BY <1>1, <2>1, <2>2, <2>3 DEF Joined
<1> QED BY <1>5, <1>6, <1>7, <1>8 DEF Safe

LEMMA SafeNext == Safe /\ [Next]_vars => Safe'
<1> SUFFICES ASSUME Safe, [Next]_vars
             PROVE  Safe'
  OBVIOUS
<1>1. CASE UNCHANGED vars
  <2>1. /\ UNCHANGED <<text, mode, path, cur, tok, mrk, acc, eol, lines, escaped, parens>>
        /\ UNCHANGED <<width, tokens>>
    BY <1>1 DEF vars
  <2>2. Typed'
    BY <2>1, Zenon DEF Safe, Typed, Lim
  <2>3. Read' /\ Mark' /\ Lined'
    BY <2>1, Zenon DEF Safe, Read, Mark, Lined
  <2>4. Joined'
    BY <2>1, Zenon DEF Safe, Joined, Began
  <2> QED BY <2>2, <2>3, <2>4 DEF Safe
<1>2. CASE Done
  BY <1>1, <1>2 DEF Done
<1>3. ASSUME Next, ~Done
      PROVE  Safe'
  BY <1>3, EndOfInputStep, StartStep, StartEolStep, StartQuoteStep, ReadStep, AcceptStep,
     BacktrackStep, FailStep, QuotedStep, CommentStep, CommentSlStep, CppAttributeStep DEF Next
<1> QED BY <1>1, <1>2, <1>3

\* What the steps keep.
THEOREM Invariance == Spec => []Safe
<1> QED BY SafeInit, SafeNext, PTL DEF Spec

LEMMA SafeTypeOK == Safe => TypeOK
<1> SUFFICES ASSUME Safe
             PROVE  TypeOK
  OBVIOUS
<1>1. /\ text \in Texts /\ mode \in Modes /\ path \in Trie \cup {<<>>}
      /\ escaped \in BOOLEAN /\ parens \in Nat /\ width \in {"1", "2", "4", "wchar"}
  BY Zenon DEF Safe, Typed
<1>2. /\ Lim \in Nat /\ Lim = Len(text) + 1 /\ cur \in 1 .. Lim /\ tok \in 1 .. cur
      /\ mrk \in 1 .. Lim /\ eol \in 1 .. cur
  BY TextLen DEF Safe, Typed
<1>3. {cur, tok, mrk, eol} \subseteq 1 .. Lim + 1
  BY <1>2
<1>4. lines \in 1 .. Len(text) + 1
  <2>1. CountIn(text, Eol, 1, cur - 1) \in 0 .. (cur - 1) - 1 + 1
    BY <1>2, CountBounds
  <2> QED BY <1>2, <2>1 DEF Safe, Lined
<1>5. \A i \in DOMAIN tokens : /\ tokens[i].from \in 1 .. Len(text) + 1
                               /\ tokens[i].to \in tokens[i].from - 1 .. Len(text)
  BY DEF Safe, Joined, Fits
<1> QED BY <1>1, <1>3, <1>4, <1>5, Zenon DEF TypeOK

\* TypeOK is an invariant: for every text the machine and its tokens stay in the
\* buffer, whatever the rules read ahead (psi_parser_scan, parser.re:286).
THEOREM TypeCorrect == Spec => []TypeOK
<1> QED BY Invariance, SafeTypeOK, PTL

LEMMA SafeTiling == Safe => Tiling
<1> SUFFICES ASSUME Safe
             PROVE  Tiling
  OBVIOUS
<1>1. InBuffer
  <2>1. Lim \in Nat /\ cur \in 1 .. Lim
    BY TextLen DEF Safe, Typed
  <2> QED BY <2>1 DEF InBuffer
<1>2. ASSUME AtStart
      PROVE  Len(tokens) \in DOMAIN tokens /\ Fits(text, tokens, Len(tokens))
  <2>1. Len(tokens) \in DOMAIN tokens
    BY <1>2, IsSeqAppend DEF AtStart, Safe, Joined
  <2> QED BY <2>1 DEF Safe, Joined
<1>3. Tiles
  <2> SUFFICES ASSUME AtStart
               PROVE  /\ Last.from - Outside(Last).front = EndOf(tokens, Len(tokens) - 1) + 1
                      /\ cur = EndOf(tokens, Len(tokens)) + 1
    BY DEF Tiles, EndOf
  <2>1. mode = "start" /\ Began = cur /\ mode \notin Ends
    BY DEF AtStart, Began, Ends
  <2> QED BY <1>2, <2>1 DEF Fits, Last, Safe, Joined
<1>4. Positions
  <2> SUFFICES ASSUME AtStart
               PROVE  Placed(text, Last)
    BY DEF Positions, Placed, LineEnd, Count, CountIn, None
  <2> QED BY <1>2 DEF Fits, Last
<1> QED BY <1>1, <1>3, <1>4 DEF Tiling

\* Tiling is an invariant: for every text, token follows token, the machine reads
\* at most one zero behind the text, and the line and column of a token are its own.
THEOREM TokensTile == Spec => []Tiling
<1> QED BY Invariance, SafeTiling, PTL

(***************************************************************************)
(* What is lost where the scan ends.                                       *)
(***************************************************************************)
AttributeModes == {"attr_sp", "attr_lp", "cpp_attribute"}

\* What the machine has read of a token tells what it is in.
Spelled ==
  /\ mode = "comment_sl" => eol <= tok
  /\ mode \in Literals => tok > 1 /\ text[tok - 1] \in Quote
  /\ mode = "slash" => text[tok] = "/" /\ cur = tok + 1
  /\ mode = "comment" => SubSeq(text, tok, tok + 1) = <<"/", "*">>
  /\ mode = "word" =>
       path = <<>> \/ path[1] \in {"l", "u"} \/ path = SubSeq(text, tok, cur - 1)
  /\ mode \in AttributeModes => SubSeq(text, tok, tok + Len(Attribute) - 1) = Attribute
  /\ mode = "dollar_1" => text[tok] = "$" /\ cur = tok + 1
  /\ mode = "bad" => text[tok] \notin First

Lossless == Safe /\ Spelled /\ LosesLittle

LEMMA AppendsOne ==
  ASSUME NEW S, NEW s \in Seq(S), NEW t \in Seq(S), Len(t) = Len(s) + 1,
         \A k \in 1 .. Len(s) : t[k] = s[k]
  PROVE  t = Append(s, t[Len(t)])
<1>1. PICK e \in S : e = t[Len(t)]
  OBVIOUS
<1>2. PICK u : u = Append(s, e)
  OBVIOUS
<1>3. /\ u \in Seq(S) /\ Len(u) = Len(s) + 1 /\ u[Len(s) + 1] = e
      /\ \A k \in 1 .. Len(s) : u[k] = s[k]
  BY <1>2, AppendProperties
<1>4. t = u
  BY <1>1, <1>3, SeqEqual
<1> QED BY <1>1, <1>2, <1>4

LEMMA SubSeqFacts ==
  ASSUME NEW S, NEW s \in Seq(S), NEW i \in 1 .. Len(s), NEW j \in i .. Len(s)
  PROVE  /\ SubSeq(s, i, i) = <<s[i]>>
         /\ Len(SubSeq(s, i, j)) = j - i + 1
         /\ j > i => SubSeq(s, i, j) = Append(SubSeq(s, i, j - 1), s[j])
         /\ j = i + 1 => SubSeq(s, i, j) = <<s[i], s[j]>>
<1>1. ASSUME NEW n \in i - 1 .. Len(s)
      PROVE  /\ SubSeq(s, i, n) \in Seq(S) /\ Len(SubSeq(s, i, n)) = n - i + 1
             /\ \A k \in 1 .. n - i + 1 : SubSeq(s, i, n)[k] = s[i + k - 1]
  <2>1. \A k \in i .. n : s[k] \in S
    OBVIOUS
  <2>2. i \in Int /\ n \in Int /\ (i <= n \/ n = i - 1)
    OBVIOUS
  <2> QED BY <2>1, <2>2, SubSeqProperties
<1>2. ASSUME NEW a \in Seq(S), Len(a) = 1
      PROVE  a = <<a[1]>>
  BY <1>2
<1>3. SubSeq(s, i, i) = <<s[i]>>
  <2> PICK a : a = SubSeq(s, i, i)
    OBVIOUS
  <2>1. a \in Seq(S) /\ Len(a) = 1 /\ a[1] = s[i]
    BY <1>1
  <2> QED BY <1>2, <2>1
<1>4. ASSUME j > i
      PROVE  SubSeq(s, i, j) = Append(SubSeq(s, i, j - 1), s[j])
  <2> PICK a, b : a = SubSeq(s, i, j - 1) /\ b = SubSeq(s, i, j)
    OBVIOUS
  <2>1. /\ a \in Seq(S) /\ Len(a) = j - i /\ \A k \in 1 .. j - i : a[k] = s[i + k - 1]
        /\ b \in Seq(S) /\ Len(b) = j - i + 1 /\ \A k \in 1 .. j - i + 1 : b[k] = s[i + k - 1]
    BY <1>1, <1>4
  <2>2. /\ \A k \in 1 .. Len(a) : b[k] = a[k]
        /\ Len(b) = Len(a) + 1 /\ b[Len(b)] = s[j]
    BY <2>1
  <2> QED BY <2>1, <2>2, AppendsOne
<1>5. ASSUME j = i + 1
      PROVE  SubSeq(s, i, j) = <<s[i], s[j]>>
  <2> PICK b : b = SubSeq(s, i, j)
    OBVIOUS
  <2>1. b \in Seq(S) /\ Len(b) = 2 /\ b[1] = s[i] /\ b[2] = s[j]
    BY <1>1, <1>5
  <2>2. PICK x \in S, y \in S : x = s[i] /\ y = s[j]
    BY <1>5
  <2>3. /\ <<x, y>> \in Seq(S) /\ Len(<<x, y>>) = 2
        /\ <<x, y>>[1] = x /\ <<x, y>>[2] = y
    OBVIOUS
  <2>4. b = <<x, y>>
    <3> PICK t : t = <<x, y>>
      OBVIOUS
    <3>1. t \in Seq(S) /\ Len(t) = 2 /\ t[1] = x /\ t[2] = y
      BY <2>3
    <3>2. \A k \in 1 .. Len(b) : b[k] = t[k]
      <4> TAKE k \in 1 .. Len(b)
      <4>1. k = 1 \/ k = 2
        BY <2>1
      <4> QED BY <2>1, <2>2, <3>1, <4>1
    <3>3. b = t
      BY <2>1, <3>1, <3>2, SeqEqual
    <3> QED BY <3>3
  <2> QED BY <2>2, <2>4
<1> QED BY <1>1, <1>3, <1>4, <1>5

LEMMA TrieIsSeq ==
  ASSUME NEW p \in Trie \cup {<<>>}
  PROVE  IsSeq(p)
<1>1. /\ IsSeq(<<>>) /\ IsSeq(<<"u", "8">>) /\ IsSeq(<<"U">>) /\ IsSeq(<<"L">>)
  <2>1. ASSUME NEW x, NEW y
        PROVE  IsSeq(<<x, y>>) /\ IsSeq(<<x>>) /\ IsSeq(<<>>)
    <3> PICK S : S = {x, y}
      OBVIOUS
    <3>1. <<x, y>> \in Seq(S) /\ <<x>> \in Seq(S) /\ <<>> \in Seq(S)
      OBVIOUS
    <3> QED BY <3>1, Zenon DEF IsSeq
  <2> QED BY <2>1, Zenon
<1>2. \A k \in Keywords \cup {Attribute} : IsSeq(k)
  BY SpellingAssumption, Zenon DEF IsSeq
<1>3. ASSUME NEW k, IsSeq(k), NEW n \in 1 .. Len(k)
      PROVE  IsSeq(SubSeq(k, 1, n))
  <2>1. PICK S : k \in Seq(S)
    BY <1>3 DEF IsSeq
  <2>2. \A l \in 1 .. n : k[l] \in S
    BY <1>3, <2>1
  <2>3. 1 \in Int /\ n \in Int
    OBVIOUS
  <2>4. SubSeq(k, 1, n) \in Seq(S)
    BY <2>2, <2>3, SubSeqProperties
  <2> QED BY <2>4 DEF IsSeq
<1>4. CASE p \in Trie
  <2>1. PICK k \in Keywords \cup {Attribute, <<"u", "8">>, <<"U">>, <<"L">>} :
          \E n \in 1 .. Len(k) : p = SubSeq(k, 1, n)
    BY <1>4, Zenon DEF Trie, Prefixes
  <2>2. IsSeq(k)
    BY <1>1, <1>2, <2>1, Zenon
  <2> QED BY <1>3, <2>1, <2>2, Zenon
<1> QED BY <1>1, <1>4

LEMMA AppendFirst ==
  ASSUME NEW p, IsSeq(p), p # <<>>, NEW c
  PROVE  Append(p, c)[1] = p[1]
BY IsSeqAppend

LEMMA EdgesSpelled ==
  /\ \A c : Edge("slash", c) = "comment" => c = "*"
  /\ \A c : Edge("dollar_1", c) = "stop" => c \notin Word
<1>1. \A c : Edge("slash", c) = SlashEdge(c) /\ Edge("dollar_1", c) = Dollar1Edge(c)
  BY Zenon DEF Edge
<1>2. \A c : SlashEdge(c) = "comment" => c = "*"
  BY Zenon DEF SlashEdge
<1>3. \A c : Dollar1Edge(c) = "stop" => c \notin Word
  BY DEF Dollar1Edge
<1> QED BY <1>1, <1>2, <1>3, Zenon

\* A step out of every state that Spelled and LosesLittle are about.
LEMMA SpelledElsewhere ==
  ASSUME mode' \notin {"comment_sl", "slash", "comment", "word", "dollar_1", "bad"},
         mode' \notin Literals, mode' \notin AttributeModes, mode' \notin Ends
  PROVE  Spelled' /\ LosesLittle'
BY DEF Spelled, LosesLittle, DropsOneToken, FailsOnlyAtBad, Ends

LEMMA SpelledStart == Lossless /\ (Start \/ StartQuote) => Spelled' /\ LosesLittle'
<1> SUFFICES ASSUME Lossless, Start \/ StartQuote
             PROVE  Spelled' /\ LosesLittle'
  OBVIOUS
<1>1. /\ Lim \in Nat /\ cur \in 1 .. Lim /\ Lim = Len(text) + 1 /\ text \in Seq(STRING)
  BY TextLen DEF Lossless, Safe, Typed
<1>2. CASE Start
  <2> PICK e : e = StartEdge(Ch)
    OBVIOUS
  <2>1. /\ mode = "start" /\ mode' = e /\ path' = OnTrie(<<Ch>>) /\ cur' = cur + 1
        /\ tok' = cur /\ text' = text /\ Ch \notin Eol \cup Quote
    BY <1>2 DEF Start, Enter
  <2>2. cur < Lim /\ Ch = text[cur]
    BY <1>1, <1>2, <2>1 DEF Start, More, AtEnd, Ch, At
  <2>3. e \in Starts
    BY StartEdges
  <2>4. /\ e \notin {"comment_sl", "comment"} /\ e \notin Literals /\ e \notin AttributeModes
        /\ e \notin Ends
    BY <2>3 DEF Starts, Literals, AttributeModes, Ends
  <2>5. LosesLittle'
    BY <2>1, <2>4 DEF LosesLittle, DropsOneToken, FailsOnlyAtBad, Ends
  <2>6. path' = <<>> \/ path' = SubSeq(text, tok', cur' - 1)
    <3>1. SubSeq(text, cur, cur) = <<Ch>>
      BY <1>1, <2>2, SubSeqFacts
    <3>2. cur' - 1 = cur
      BY <1>1, <2>1
    <3> QED BY <2>1, <3>1, <3>2 DEF OnTrie
  <2>7. /\ e = "slash" => text'[tok'] = "/"
        /\ e = "dollar_1" => text'[tok'] = "$"
        /\ e = "bad" => text'[tok'] \notin First
    BY <2>1, <2>2, StartEdges
  <2> QED BY <2>1, <2>4, <2>5, <2>6, <2>7 DEF Spelled
<1>3. CASE StartQuote
  <2>1. /\ mode' \in Literals /\ tok' = cur + 1 /\ Ch \in Quote /\ text' = text
    BY <1>3 DEF StartQuote, Enter, Literals
  <2>2. Ch = text[cur]
    BY <2>1, InkSigns, InkIsText DEF Quote
  <2>3. tok' > 1 /\ text'[tok' - 1] \in Quote
    BY <1>1, <2>1, <2>2
  <2>4. LosesLittle'
    BY <2>1 DEF LosesLittle, DropsOneToken, FailsOnlyAtBad, Literals
  <2> QED BY <2>1, <2>3, <2>4 DEF Spelled, Literals, AttributeModes
<1> QED BY <1>2, <1>3

LEMMA SpelledRead ==
  Lossless /\ (Advance \/ OpenAttribute \/ LiteralPrefix) => Spelled' /\ LosesLittle'
<1> SUFFICES ASSUME Lossless, Advance \/ OpenAttribute \/ LiteralPrefix
             PROVE  Spelled' /\ LosesLittle'
  OBVIOUS
<1> PICK e, p : e = mode' /\ p = path'
  OBVIOUS
<1>1. /\ mode \in Dfa /\ cur < Lim /\ Leads(mode, e) /\ Enter(e, p)
      /\ UNCHANGED <<text, tok, eol>>
  BY ReadInk DEF Lossless, Safe
<1>2. /\ Lim \in Nat /\ cur \in 1 .. Lim /\ eol \in 1 .. cur /\ tok \in 1 .. cur
      /\ Lim = Len(text) + 1 /\ text \in Seq(STRING) /\ tok + 1 <= cur /\ eol <= tok
  <2>1. tok + Least(mode) <= cur /\ Least(mode) \in 1 .. 3
    BY <1>1, LeastBounds DEF Lossless, Safe, Read
  <2> QED BY <1>1, <2>1, TextLen DEF Lossless, Safe, Typed, Read
<1>3. cur' = cur + 1 /\ Ch = text[cur]
  BY <1>1 DEF Enter, Ch, At
<1>4. /\ e \in Dfa \cup {"comment", "comment_sl", "cpp_attribute"}
      /\ e \notin {"slash", "bad", "dollar_1"}
      /\ e \in {"comment", "comment_sl"} => mode = "slash"
      /\ e \in AttributeModes => mode \in AttributeModes \/ (mode = "word" /\ path = Attribute)
      /\ e = "word" => mode = "word"
  BY <1>1, LeadsFacts DEF AttributeModes
<1>5. e \notin Literals /\ e \notin Ends
  BY <1>4, ModeFacts DEF Literals, Conditions, Ends
<1>6. e = "comment" => SubSeq(text, tok, tok + 1) = <<"/", "*">>
  <2> SUFFICES ASSUME e = "comment"
               PROVE  SubSeq(text, tok, tok + 1) = <<"/", "*">>
    OBVIOUS
  <2>1. mode = "slash" /\ text[tok] = "/" /\ cur = tok + 1
    BY <1>4 DEF Lossless, Spelled
  <2>2. Edge(mode, Ch) = e
    BY <2>1 DEF Advance, OpenAttribute, LiteralPrefix, Enter
  <2>3. text[tok + 1] = "*"
    BY <1>3, <2>1, <2>2, EdgesSpelled
  <2> QED BY <1>1, <1>2, <2>1, <2>3, SubSeqFacts
<1>7. e \in AttributeModes => SubSeq(text, tok, tok + Len(Attribute) - 1) = Attribute
  <2>1. CASE mode \in AttributeModes
    BY <2>1 DEF Lossless, Spelled
  <2>2. CASE mode = "word" /\ path = Attribute
    <3>1. Attribute # <<>> /\ Attribute[1] = "_"
      BY SpellingAssumption
    <3>2. Attribute = SubSeq(text, tok, cur - 1)
      BY <2>2, <3>1 DEF Lossless, Spelled
    <3>3. Len(Attribute) = cur - tok
      BY <1>1, <1>2, <3>2, SubSeqFacts
    <3>4. tok + Len(Attribute) - 1 = cur - 1
      BY <1>2, <3>3
    <3> QED BY <3>2, <3>4
  <2> QED BY <1>4, <2>1, <2>2
<1>8. e = "word" => path' = <<>> \/ path'[1] \in {"l", "u"} \/ path' = SubSeq(text, tok, cur)
  <2> SUFFICES ASSUME e = "word"
               PROVE  path' = <<>> \/ path'[1] \in {"l", "u"} \/ path' = SubSeq(text, tok, cur)
    OBVIOUS
  <2>1. mode = "word"
    BY <1>4
  <2>2. CASE LiteralPrefix
    <3>1. \E f \in Falls : path' = f.path
      BY <2>2 DEF LiteralPrefix, Enter
    <3> QED BY <3>1, FallsFacts
  <2>3. CASE Advance
    <3>1. path' = <<>> \/ (path # <<>> /\ path' = Append(path, Ch))
      BY <2>1, <2>3 DEF Advance, Enter, NextPath, OnTrie
    <3>2. CASE path # <<>> /\ path' = Append(path, Ch) /\ path[1] \in {"l", "u"}
      <4>1. IsSeq(path)
        BY TrieIsSeq DEF Lossless, Safe, Typed
      <4> QED BY <3>2, <4>1, AppendFirst
    <3>3. CASE path' = Append(path, Ch) /\ path = SubSeq(text, tok, cur - 1)
      BY <1>1, <1>2, <1>3, <3>3, SubSeqFacts
    <3> QED BY <2>1, <3>1, <3>2, <3>3 DEF Lossless, Spelled
  <2>4. CASE OpenAttribute
    BY <2>4 DEF OpenAttribute, Enter
  <2> QED BY <2>2, <2>3, <2>4
<1>9. LosesLittle'
  BY <1>5 DEF LosesLittle, DropsOneToken, FailsOnlyAtBad, Ends
<1>10. cur' - 1 = cur
  BY <1>2, <1>3
<1> QED BY <1>1, <1>2, <1>4, <1>5, <1>6, <1>7, <1>8, <1>9, <1>10 DEF Spelled

\* What is dropped where the buffer ends.
LEMMA SpelledEnd == Lossless /\ EndOfInput => Spelled' /\ LosesLittle'
<1> SUFFICES ASSUME Lossless, EndOfInput
             PROVE  Spelled' /\ LosesLittle'
  OBVIOUS
<1>1. /\ mode' = "done" /\ tok' = (IF mode = "start" THEN cur ELSE tok)
      /\ cur >= Lim /\ AtEnd /\ text' = text
  BY DEF EndOfInput
<1>2. /\ Lim \in Nat /\ cur \in 1 .. Lim /\ tok \in 1 .. cur /\ eol \in 1 .. cur
      /\ Lim = Len(text) + 1 /\ Len(text) \in Nat
  BY TextLen DEF Lossless, Safe, Typed
<1>3. cur = Len(text) + 1
  BY <1>1, <1>2
<1>4. mode \notin Ends
  BY <1>1, Zenon DEF AtEnd, Fills, Ends
<1>5. mode = "start" \/ mode \in Dfa \/ mode \in Conditions
  BY <1>4, ModeFacts DEF Lossless, Safe, Typed
<1>6. ASSUME eol <= tok
      PROVE  Count(Eol, tok, Len(text)) = 0
  <2>1. None(text, Eol, eol, Len(text))
    BY <1>2, <1>3 DEF Lossless, Safe, Lined
  <2>2. None(text, Eol, tok, Len(text))
    BY <1>2, <1>6, <2>1, NoneWithin
  <2>3. CountIn(text, Eol, tok, Len(text)) = 0
    BY <1>2, <2>2, CountZero
  <2> QED BY <2>3 DEF Count, CountIn
<1>7. \/ mode = "start"
      \/ Count(Eol, tok, Len(text)) = 0
      \/ tok > 1 /\ text[tok - 1] \in Quote
      \/ SubSeq(text, tok, tok + 1) = <<"/", "*">>
      \/ SubSeq(text, tok, tok + Len(Attribute) - 1) = Attribute
  <2>1. CASE mode \in Dfa \cup {"comment_sl"}
    <3>1. eol <= tok
      BY <2>1 DEF Lossless, Safe, Read, Spelled
    <3> QED BY <1>6, <3>1
  <2>2. CASE mode \in Literals
    BY <2>2 DEF Lossless, Spelled
  <2>3. CASE mode = "comment"
    BY <2>3 DEF Lossless, Spelled
  <2>4. CASE mode = "cpp_attribute"
    BY <2>4 DEF Lossless, Spelled, AttributeModes
  <2> QED BY <1>5, <2>1, <2>2, <2>3, <2>4 DEF Conditions, Literals
<1>8. mode = "start" => ~(tok' <= Len(text'))
  BY <1>1, <1>2, <1>3
<1>9. mode # "start" => tok' = tok
  BY <1>1
<1>10. DropsOneToken'
  <2>1. Count(Eol, tok, Len(text))' = CountIn(text', Eol, tok', Len(text'))
    BY DEF Count, CountIn
  <2>2. Count(Eol, tok, Len(text)) = CountIn(text, Eol, tok, Len(text))
    BY DEF Count, CountIn
  <2> QED BY <1>1, <1>7, <1>8, <1>9, <2>1, <2>2 DEF DropsOneToken
<1>11. FailsOnlyAtBad'
  BY <1>1 DEF FailsOnlyAtBad
<1>12. Spelled'
  BY <1>1 DEF Spelled, Literals, AttributeModes
<1> QED BY <1>10, <1>11, <1>12 DEF LosesLittle

\* Where the scan gives up.
LEMMA SpelledFail == Lossless /\ Fail => Spelled' /\ LosesLittle'
<1> SUFFICES ASSUME Lossless, Fail
             PROVE  Spelled' /\ LosesLittle'
  OBVIOUS
<1>1. mode' = "error" /\ UNCHANGED <<text, tok, cur>>
  BY DEF Fail
<1>2. CASE mode = "bad"
  <2>1. text[tok] \notin First
    BY <1>2 DEF Lossless, Spelled
  <2> QED BY <1>1, <2>1 DEF Spelled, LosesLittle, DropsOneToken, FailsOnlyAtBad, Literals,
            AttributeModes, First
<1>3. CASE mode = "dollar_1" /\ Stopped
  <2>1. text[tok] = "$" /\ cur = tok + 1
    BY <1>3 DEF Lossless, Spelled
  <2>2. Edge("dollar_1", Ch) = "stop"
    BY <1>3 DEF Stopped
  <2>3. At(tok + 1) \notin Word
    BY <2>1, <2>2, EdgesSpelled DEF Ch
  <2>4. At(tok + 1)' \notin Word
    BY <1>1, <2>3 DEF At, Lim
  <2> QED BY <1>1, <2>1, <2>4 DEF Spelled, LosesLittle, DropsOneToken, FailsOnlyAtBad,
            Literals, AttributeModes
<1> QED BY <1>2, <1>3 DEF Fail

\* The loops go on with what they are in, or end it.
LEMMA SpelledLoops ==
  Lossless /\ (Quoted \/ Comment \/ CommentSl \/ CppAttribute) => Spelled' /\ LosesLittle'
<1> SUFFICES ASSUME Lossless, Quoted \/ Comment \/ CommentSl \/ CppAttribute
             PROVE  Spelled' /\ LosesLittle'
  OBVIOUS
<1>1. /\ mode \in Conditions /\ UNCHANGED <<text, tok>> /\ mode' \in {mode, "start"}
      /\ mode = "comment_sl" /\ mode' = mode => eol' = eol
  <2>1. CASE Quoted
    BY <2>1 DEF Quoted, QuotedEol, QuotedBslash, QuotedClose, QuotedOther, Conditions
  <2>2. CASE Comment
    BY <2>2 DEF Comment, Conditions
  <2>3. CASE CommentSl
    BY <2>3 DEF CommentSl, Conditions
  <2>4. CASE CppAttribute
    BY <2>4 DEF CppAttribute, Conditions
  <2> QED BY <2>1, <2>2, <2>3, <2>4
<1>2. CASE mode' = "start"
  BY <1>2, SpelledElsewhere DEF Literals, AttributeModes, Ends
<1>3. CASE mode' = mode
  <2>1. LosesLittle'
    BY <1>1, <1>3 DEF LosesLittle, DropsOneToken, FailsOnlyAtBad, Conditions
  <2> QED BY <1>1, <1>3, <2>1 DEF Lossless, Spelled, Conditions, AttributeModes
<1> QED BY <1>1, <1>2, <1>3

LEMMA LosslessNext == Lossless /\ [Next]_vars => Lossless'
<1> SUFFICES ASSUME Lossless, [Next]_vars
             PROVE  Lossless'
  OBVIOUS
<1>1. Safe'
  BY SafeNext DEF Lossless
<1>2. CASE UNCHANGED vars
  <2>1. UNCHANGED <<text, mode, path, cur, tok, eol>>
    BY <1>2 DEF vars
  <2>2. Spelled'
    BY <2>1, Zenon DEF Lossless, Spelled
  <2>3. LosesLittle'
    BY <2>1, Zenon DEF Lossless, LosesLittle, DropsOneToken, FailsOnlyAtBad, Count, At, Lim
  <2> QED BY <1>1, <2>2, <2>3 DEF Lossless
<1>3. CASE StartEol \/ Accept \/ Backtrack
  <2>1. mode' = "start"
    BY <1>3 DEF StartEol, Accept, Backtrack
  <2>2. Spelled' /\ LosesLittle'
    BY <2>1, SpelledElsewhere DEF Literals, AttributeModes, Ends
  <2> QED BY <1>1, <2>2 DEF Lossless
<1>4. ASSUME Next, ~Done, ~(StartEol \/ Accept \/ Backtrack)
      PROVE  Spelled' /\ LosesLittle'
  BY <1>4, SpelledEnd, SpelledStart, SpelledRead, SpelledFail, SpelledLoops DEF Next
<1>5. Done => UNCHANGED vars
  BY DEF Done
<1> QED BY <1>1, <1>2, <1>3, <1>4, <1>5 DEF Lossless

\* LosesLittle is an invariant: whatever the text, no whole line is dropped where the
\* buffer ends but in a token that is still open, and the scan fails only at what no
\* token begins with (the checks of YYFILL and the rule of error in parser.re:286).
THEOREM LosesNothing == Spec => []LosesLittle
<1>1. Init => Lossless
  <2> SUFFICES ASSUME Init
               PROVE  Lossless
    OBVIOUS
  <2>1. mode = "start"
    BY DEF Init
  <2>2. Spelled /\ LosesLittle
    BY <2>1 DEF Spelled, LosesLittle, DropsOneToken, FailsOnlyAtBad, Literals, AttributeModes
  <2> QED BY <2>2, SafeInit DEF Lossless
<1>2. Lossless => LosesLittle
  BY DEF Lossless
<1> QED BY <1>1, <1>2, LosslessNext, PTL DEF Spec

=============================================================================

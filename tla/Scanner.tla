------------------------------ MODULE Scanner ------------------------------
(***************************************************************************)
(* The scanner, psi_parser_scan: rules in parser.re, the machine that re2c  *)
(* made of them in parser.c.  A mode is one state (or one kind of state) of *)
(* that machine, a step reads one character.  The machine looks at the      *)
(* character under cur; where the code asks YYFILL first, the end of the    *)
(* text ends the scan and what was read since tok is dropped; elsewhere the *)
(* zeros behind the text are read, and belong to nothing.                   *)
(*                                                                          *)
(* A token keeps the span of its text, the type of its rule (one type for   *)
(* all operators and one for all keywords: the span tells which), its flags *)
(* and where it was found.  Letters stand for both their cases except L and *)
(* U, whose case matters in front of a quote.                               *)
(***************************************************************************)
EXTENDS Integers, Sequences, FiniteSets

CONSTANTS
  Texts,       \* the texts to scan: sequences of characters
  Keywords,    \* how the keywords of parser.re:367-447 are spelled
  Attribute,   \* how __attribute__ is spelled
  Pragma,      \* how pragma is spelled
  Once         \* how once is spelled

ASSUME TextsAssumption == Texts \subseteq Seq(STRING)
ASSUME SpellingAssumption ==
  /\ Keywords \cup {Attribute, Pragma, Once} \subseteq Seq(STRING) \ {<<>>}
  /\ Pragma \in Keywords /\ Attribute \notin Keywords /\ Attribute[1] = "_"
  \* let, undef and uint8_t are keywords: a literal's prefix runs into them
  /\ \A p \in {<<"l", "e">>, <<"u", "n">>, <<"u", "i", "n">>} :
       \E k \in Keywords : Len(k) > Len(p) /\ SubSeq(k, 1, Len(p)) = p

VARIABLES
  text,      \* the buffer of the input, without the zeros behind it
  mode,      \* the state of the machine
  path,      \* while a word may become a keyword: what was read of it
  cur, tok,  \* the next character; the first one of the token
  mrk, acc,  \* where the last token that could end did, and what it was
  eol,       \* the first character of the line
  lines,     \* I->lines
  escaped, parens, width,
  tokens

vars == <<text, mode, path, cur, tok, mrk, acc, eol, lines, escaped, parens,
          width, tokens>>

(***************************************************************************)
(* Characters                                                               *)
(***************************************************************************)
Eol == {"\n", "\r"}
Sp == {" ", "\t", "\f"}
Quote == {"'", "\""}
Octal == {"0", "1", "2", "3", "4", "5", "6", "7"}
Digit == Octal \cup {"8", "9"}
HexDigit == Digit \cup {"a", "b", "c", "d", "e", "f"}
Ell == {"l", "L"}
Yu == {"u", "U"}
NameStart == {"a", "b", "c", "d", "e", "f", "g", "h", "i", "j", "k", "l", "m",
              "n", "o", "p", "q", "r", "s", "t", "u", "v", "w", "x", "y", "z",
              "L", "U", "_"}
Word == NameStart \cup Digit
HeaderChar == Word \cup {"-", ".", "/"}

Singles == {"%", "(", ")", "*", ",", ":", ";", "?", "[", "]", "^", "{", "}", "~"}
Pairs == {<<"!", "=">>, <<"#", "#">>, <<"&", "&">>, <<"=", "=">>,
          <<">", "=">>, <<">", ">">>, <<"|", "|">>}

Lim == Len(text) + 1
At(i) == IF i < Lim THEN text[i] ELSE "nul"

(***************************************************************************)
(* The words: how far a keyword is spelled, and where the code goes from a  *)
(* prefix of a literal.  The rules of u8, u, U and L end without goto start *)
(* and run into the next state of the machine, which reads on as if a       *)
(* keyword had begun: in L"..  the quote counts as the e of let.            *)
(***************************************************************************)
Prefixes(S) == UNION {{SubSeq(s, 1, n) : n \in 1 .. Len(s)} : s \in S}

Trie == Prefixes(Keywords \cup {Attribute, <<"u", "8">>, <<"U">>, <<"L">>})

OnTrie_never(p) == p

OnTrie(p) == IF p \in Trie THEN p ELSE <<>>

Falls == {[word |-> <<"L">>, width |-> "wchar", path |-> OnTrie(<<"l", "e">>)],
          [word |-> <<"U">>, width |-> "4", path |-> OnTrie(<<"u", "n">>)],
          [word |-> <<"u">>, width |-> "2", path |-> <<"u", "8">>],
          [word |-> <<"u", "8">>, width |-> "1", path |-> OnTrie(<<"u", "i", "n">>)]}

IsPrefix(c) ==
  /\ \E f \in Falls : f.word = path
  /\ c = "\"" \/ (c = "'" /\ path # <<"u", "8">>)

\* pragma, at least one character of a word, once: read up to the character i.
OnceReadAt(i) ==
  /\ i - tok > Len(Pragma) + Len(Once)
  /\ SubSeq(text, i - Len(Once), i - 1) = Once

(***************************************************************************)
(* What the machine accepts where it stops: the type and flags of the       *)
(* token, and how many characters at its front and its back it leaves out.  *)
(***************************************************************************)
Kind(type, flags, front, back) ==
  [type |-> type, flags |-> flags, front |-> front, back |-> back]

Operators == {"op", "pair", "sign", "dot", "slash", "lt", "bslash"}

Accepts ==
  [m \in Operators \cup {"space", "dollar", "nsname", "header_end", "zero", "int",
     "oct", "hex", "frac", "digits", "u", "l", "lu", "ul", "ull", "flt_f", "flt_l",
     "df", "dd", "dl"} |->
   CASE m = "space" -> Kind("WHITESPACE", "", 0, 0)
     [] m = "dollar" -> Kind("DOLLAR_NAME", "", 0, 0)
     [] m = "nsname" -> Kind("NSNAME", "", 0, 0)
     [] m = "header_end" -> Kind("CPP_HEADER", "", 1, 1)
     [] m \in {"zero", "int", "oct", "hex"} -> Kind("NUMBER", "INT", 0, 0)
     [] m \in {"frac", "digits"} -> Kind("NUMBER", "FLT", 0, 0)
     [] m = "u" -> Kind("NUMBER", "INT|U", 0, 1)
     [] m = "l" -> Kind("NUMBER", "INT|L", 0, 1)
     [] m \in {"lu", "ul"} -> Kind("NUMBER", "INT|UL", 0, 2)
     [] m = "ull" -> Kind("NUMBER", "INT|ULL", 0, 3)
     [] m = "flt_f" -> Kind("NUMBER", "FLT|F", 0, 1)
     [] m = "flt_l" -> Kind("NUMBER", "FLT|L", 0, 1)
     [] m = "df" -> Kind("NUMBER", "FLT|DF", 0, 2)
     [] m = "dd" -> Kind("NUMBER", "FLT|DD", 0, 2)
     [] m = "dl" -> Kind("NUMBER", "FLT|DL", 0, 2)
     [] OTHER -> Kind("op", "", 0, 0)]

AcceptsWord(p) == Kind(IF p \in Keywords THEN "KEYWORD" ELSE "NAME", "", 0, 0)

\* The states that note where they are before they read on (mrk = ++cur).
Marks == {"sign", "dot", "lt", "zero", "int", "hex", "frac", "digits", "l",
          "nsname", "word", "pragma"}

\* The states that ask for more text before they read on.
Fills == {"space", "dollar", "ns1", "nsname", "header", "int", "oct", "hex",
          "frac", "digits", "hexfrac", "pragma", "attr_sp",
          "character", "string", "comment", "comment_sl", "cpp_attribute"}

(***************************************************************************)
(* Where a state goes on a character; "stop" when it goes nowhere.          *)
(***************************************************************************)
\* The state the first character of a token leads to.
StartEdge(c) ==
  CASE c \in Sp -> "space"
    [] c \in Singles -> "op"
    [] c \in {"!", "#", "&", "=", ">", "|"} -> "pair"
    [] c = "+" \/ c = "-" -> "sign"
    [] c = "." -> "dot"
    [] c = "/" -> "slash"
    [] c = "<" -> "lt"
    [] c = "\\" -> "bslash"
    [] c = "$" -> "dollar_1"
    [] c = "0" -> "zero"
    [] c \in Digit \ {"0"} -> "int"
    [] c \in NameStart -> "word"
    [] OTHER -> "bad"

\* A sign or a point starts a number, or stands for itself.
SignEdge(c) ==
  CASE c = "." -> "need_digit" [] c = "0" -> "zero"
    [] c \in Digit \ {"0"} -> "int" [] OTHER -> "stop"

DotEdge(c) == IF c = "." THEN "dot_dot" ELSE IF c \in Digit THEN "digits" ELSE "stop"
DotDotEdge(c) == IF c = "." THEN "op" ELSE "stop"

NeedDigitEdge(c) == IF c \in Digit THEN "digits" ELSE "stop"

ExpEdge_signed(c) == IF c \in {"+", "-"} THEN "need_digit" ELSE "stop"

ExpEdge(c) ==
  IF c \in {"+", "-"} THEN "need_digit" ELSE NeedDigitEdge(c)

\* The suffixes of integers and of fractions.
IntSuffix(c) == IF c \in Ell THEN "l" ELSE IF c \in Yu THEN "u" ELSE "stop"

FltSuffix(c) ==
  CASE c = "d" -> "d" [] c = "f" -> "flt_f" [] c \in Ell -> "flt_l"
    [] OTHER -> "stop"

LEdge(c) == IF c \in Ell THEN "l_l" ELSE IF c \in Yu THEN "lu" ELSE "stop"
LLEdge(c) == IF c \in Yu THEN "ull" ELSE "stop"
UEdge(c) == IF c \in Ell THEN "ul" ELSE "stop"
ULEdge(c) == IF c \in Ell THEN "ull" ELSE "stop"
DEdge(c) ==
  CASE c = "d" -> "dd" [] c = "f" -> "df" [] c \in Ell -> "dl" [] OTHER -> "stop"

OctEdge(c) == IF c \in Octal THEN "oct" ELSE IntSuffix(c)

ZeroEdge(c) ==
  CASE c = "." -> "frac" [] c = "e" -> "exp" [] c = "x" -> "hex_x"
    [] OTHER -> OctEdge(c)

IntEdge(c) ==
  CASE c = "." -> "frac" [] c = "e" -> "exp" [] c \in Digit -> "int"
    [] OTHER -> IntSuffix(c)

FracEdge(c) ==
  CASE c \in Digit -> "frac" [] c = "e" -> "exp" [] OTHER -> FltSuffix(c)

DigitsEdge(c) == IF c \in Digit THEN "digits" ELSE FltSuffix(c)

HexXEdge(c) == IF c \in HexDigit THEN "hex" ELSE "stop"

HexEdge(c) ==
  CASE c \in HexDigit -> "hex" [] c = "." -> "hexfrac" [] c = "p" -> "exp"
    [] OTHER -> IntSuffix(c)

HexFracEdge(c) ==
  CASE c \in HexDigit -> "hexfrac" [] c = "p" -> "exp" [] OTHER -> "stop"

\* < may open the name of a header; it is one if > comes after it.
ChevronEdge(c) ==
  CASE c \in HeaderChar -> "header" [] c \in {"<", "="} -> "op" [] OTHER -> "stop"

HeaderEdge_overLines(c) ==
  CASE c = ">" -> "header_end" [] c = "nul" -> "stop" [] OTHER -> "header"

HeaderEdge(c) ==
  CASE c \in HeaderChar -> "header" [] c = ">" -> "header_end" [] OTHER -> "stop"

SlashEdge(c) ==
  CASE c = "*" -> "comment" [] c = "/" -> "comment_sl" [] OTHER -> "stop"

\* Names with backslashes in them.
BslashEdge(c) == IF c \in NameStart THEN "nsname" ELSE "stop"

NsNameEdge(c) ==
  CASE c \in Word -> "nsname" [] c = "\\" -> "ns1" [] OTHER -> "stop"

Dollar1Edge(c) == IF c \in Word THEN "dollar" ELSE "stop"

DollarEdge(c) == IF c \in Word THEN "dollar" ELSE "stop"

\* A word; after pragma the machine looks for once at the end of it, after a
\* blank or a parenthesis __attribute__ may begin.
PragmaEdge(c) ==
  CASE c \in Word -> "pragma" [] c = "\\" -> "ns1" [] OTHER -> "stop"

WordEdge(c) ==
  CASE c \in Word -> IF path = Pragma THEN "pragma" ELSE "word"
    [] c = "\\" -> "ns1"
    [] path = Attribute /\ c \in Sp -> "attr_sp"
    [] path = Attribute /\ c = "(" -> "attr_lp"
    [] OTHER -> "stop"

AttrSpEdge(c) ==
  CASE c \in Sp -> "attr_sp" [] c = "(" -> "attr_lp" [] OTHER -> "stop"

AttrLpEdge(c) == IF c = "(" THEN "cpp_attribute" ELSE "stop"

Edge(m, c) ==
  CASE m = "space" -> IF c \in Sp THEN "space" ELSE "stop"
    [] m = "pair" -> IF <<text[tok], c>> \in Pairs THEN "op" ELSE "stop"
    [] m = "sign" -> SignEdge(c)       [] m = "dot" -> DotEdge(c)
    [] m = "dot_dot" -> DotDotEdge(c)  [] m = "need_digit" -> NeedDigitEdge(c)
    [] m = "exp" -> ExpEdge(c)         [] m = "zero" -> ZeroEdge(c)
    [] m = "oct" -> OctEdge(c)         [] m = "int" -> IntEdge(c)
    [] m = "frac" -> FracEdge(c)       [] m = "digits" -> DigitsEdge(c)
    [] m = "hex_x" -> HexXEdge(c)      [] m = "hex" -> HexEdge(c)
    [] m = "hexfrac" -> HexFracEdge(c) [] m = "l" -> LEdge(c)
    [] m = "l_l" -> LLEdge(c)          [] m = "u" -> UEdge(c)
    [] m = "ul" -> ULEdge(c)           [] m = "d" -> DEdge(c)
    [] m = "lt" -> ChevronEdge(c)      [] m = "header" -> HeaderEdge(c)
    [] m = "slash" -> SlashEdge(c)     [] m = "bslash" -> BslashEdge(c)
    [] m = "ns1" -> BslashEdge(c)      [] m = "nsname" -> NsNameEdge(c)
    [] m = "dollar_1" -> Dollar1Edge(c) [] m = "dollar" -> DollarEdge(c)
    [] m = "pragma" -> PragmaEdge(c)   [] m = "word" -> WordEdge(c)
    [] m = "attr_sp" -> AttrSpEdge(c)  [] m = "attr_lp" -> AttrLpEdge(c)
    [] OTHER -> "stop"

Conditions == {"character", "string", "comment", "comment_sl", "cpp_attribute"}
Ends == {"done", "error"}
Dfa == DOMAIN Accepts \cup {"word", "pragma", "dot_dot", "need_digit", "exp",
         "hex_x", "hexfrac", "l_l", "d", "header", "ns1", "dollar_1",
         "attr_sp", "attr_lp", "bad"}
Modes == Dfa \cup Conditions \cup Ends \cup {"start"}

\* What the state under way accepts, and whether it does.
Accepting == mode \in DOMAIN Accepts \cup {"word", "pragma"}

KindAt(m, p, i) ==
  CASE m = "word" -> AcceptsWord(p)
    [] m = "pragma" -> Kind(IF OnceReadAt(i) THEN "PRAGMA_ONCE" ELSE "NAME", "", 0, 0)
    [] OTHER -> Accepts[m]

(***************************************************************************)
(* The steps.                                                               *)
(***************************************************************************)
Init ==
  /\ text \in Texts
  /\ mode = "start" /\ path = <<>>
  /\ cur = 1 /\ tok = 1 /\ mrk = 1 /\ acc = Kind("op", "", 0, 0)
  /\ eol = 1 /\ lines = 1
  /\ escaped = FALSE /\ parens = 0 /\ width = "1"
  /\ tokens = <<>>

\* cur moves into the state m, which may note where it is.
Enter(m, p) ==
  /\ mode' = m /\ path' = p /\ cur' = cur + 1
  /\ IF m \in Marks
       THEN mrk' = cur + 1 /\ acc' = KindAt(m, p, cur + 1)
       ELSE UNCHANGED <<mrk, acc>>

\* NEWTOKEN: the text from first to last is a token.
NewToken(type, flags, first, last) ==
  tokens' = Append(tokens, [type |-> type, flags |-> flags, from |-> first,
                            to |-> last, col |-> first - eol + 1, line |-> lines])

NEWLINE == eol' = cur' /\ lines' = lines + 1

\* The scan asks for more text where there is none.
AtEnd == mode \in Fills \cup {"start"} \/ (mode = "word" /\ path = <<>>)
EndOfInput_asks ==
  /\ AtEnd /\ cur >= Lim
  /\ mode' = IF mode = "start" THEN "done" ELSE mode
  /\ tok' = IF mode = "start" THEN cur ELSE tok
  /\ UNCHANGED <<text, path, cur, mrk, acc, eol, lines, escaped, parens, width, tokens>>

EndOfInput ==
  /\ AtEnd /\ cur >= Lim
  /\ mode' = "done"
  /\ tok' = IF mode = "start" THEN cur ELSE tok
  /\ UNCHANGED <<text, path, cur, mrk, acc, eol, lines, escaped, parens, width, tokens>>

More == ~(AtEnd /\ cur >= Lim)

Ch == At(cur)

\* start: the first character of a token.
Start ==
  /\ mode = "start" /\ More
  /\ Ch \notin Eol \cup Quote
  /\ tok' = cur /\ width' = "1"
  /\ Enter(StartEdge(Ch), OnTrie(<<Ch>>))
  /\ UNCHANGED <<text, eol, lines, escaped, parens, tokens>>

\* The end of a line is a token, and the line after it begins.
StartEol ==
  /\ mode = "start" /\ More
  /\ Ch \in Eol
  /\ tok' = cur /\ width' = "1" /\ cur' = cur + 1
  /\ NewToken("EOL", "", cur, cur)
  /\ NEWLINE
  /\ UNCHANGED <<text, mode, path, mrk, acc, escaped, parens>>

\* A quote is no part of the token it opens.
StartQuote ==
  /\ mode = "start" /\ More
  /\ Ch \in Quote
  /\ tok' = cur + 1 /\ width' = "1" /\ escaped' = FALSE
  /\ Enter(IF Ch = "'" THEN "character" ELSE "string", <<>>)
  /\ UNCHANGED <<text, eol, lines, parens, tokens>>

Reading == mode \in Dfa \ {"bad"} /\ More

NextPath == IF mode = "word" /\ path # <<>> THEN OnTrie(Append(path, Ch)) ELSE <<>>

\* One more character of the token.
Advance ==
  /\ Reading
  /\ Edge(mode, Ch) \notin {"stop", "cpp_attribute"}
  /\ Enter(Edge(mode, Ch), NextPath)
  /\ UNCHANGED <<text, tok, eol, lines, escaped, parens, width, tokens>>

\* "__attribute__" SP* "((": two parentheses are open.
OpenAttribute ==
  /\ Reading
  /\ Edge(mode, Ch) = "cpp_attribute"
  /\ Enter("cpp_attribute", <<>>)
  /\ parens' = 2
  /\ UNCHANGED <<text, tok, eol, lines, escaped, width, tokens>>

\* A quote behind u8, u, U or L: the rule sets the width and runs on.
LiteralPrefix ==
  /\ Reading
  /\ mode = "word" /\ IsPrefix(Ch)
  /\ \E f \in Falls : f.word = path /\ width' = f.width /\ Enter("word", f.path)
  /\ UNCHANGED <<text, tok, eol, lines, escaped, parens, tokens>>

Stopped ==
  /\ Reading
  /\ Edge(mode, Ch) = "stop"
  /\ ~(mode = "word" /\ IsPrefix(Ch))

\* The rule of the state the machine stops in; a suffix is read but left out.
Accept ==
  /\ Stopped
  /\ Accepting
  /\ LET k == KindAt(mode, path, cur)
     IN NewToken(k.type, k.flags, tok + k.front, cur - 1 - k.back)
  /\ mode' = "start" /\ path' = <<>>
  /\ UNCHANGED <<text, cur, tok, mrk, acc, eol, lines, escaped, parens, width>>

\* What was read since the mark leads nowhere: the rule of the mark.
Backtrack_forward ==
  /\ Stopped
  /\ ~Accepting /\ mode # "dollar_1"
  /\ NewToken(acc.type, acc.flags, tok + acc.front, mrk - 1 - acc.back)
  /\ mode' = "start" /\ path' = <<>>
  /\ UNCHANGED <<text, cur, tok, mrk, acc, eol, lines, escaped, parens, width>>

Backtrack ==
  /\ Stopped
  /\ ~Accepting /\ mode # "dollar_1"
  /\ NewToken(acc.type, acc.flags, tok + acc.front, mrk - 1 - acc.back)
  /\ mode' = "start" /\ path' = <<>> /\ cur' = mrk
  /\ UNCHANGED <<text, tok, mrk, acc, eol, lines, escaped, parens, width>>

\* error: what starts no token ends the scan, and its tokens are freed.
Fail ==
  /\ mode = "bad" \/ (mode = "dollar_1" /\ Stopped)
  /\ mode' = "error" /\ tokens' = <<>>
  /\ UNCHANGED <<text, path, cur, tok, mrk, acc, eol, lines, escaped, parens, width>>

\* character: and string:, up to the quote that no backslash escapes.
Close == IF mode = "character" THEN "'" ELSE "\""

QuotedEol == Ch \in Eol /\ NEWLINE /\ UNCHANGED <<mode, escaped, tokens>>

QuotedBslash ==
  Ch = "\\" /\ escaped' = ~escaped /\ UNCHANGED <<mode, eol, lines, tokens>>

QuotedClose ==
  /\ Ch = Close /\ ~escaped
  /\ NewToken(IF mode = "string" THEN "QUOTED_STRING" ELSE "QUOTED_CHAR",
              width, tok, cur - 1)
  /\ mode' = "start"
  /\ UNCHANGED <<escaped, eol, lines>>

QuotedOther ==
  /\ Ch \notin Eol \cup {"\\"} /\ (Ch = Close => escaped)
  /\ escaped' = FALSE
  /\ UNCHANGED <<mode, eol, lines, tokens>>

Quoted ==
  /\ mode \in {"character", "string"} /\ More
  /\ cur' = cur + 1
  /\ QuotedEol \/ QuotedBslash \/ QuotedClose \/ QuotedOther
  /\ UNCHANGED <<text, path, tok, mrk, acc, parens, width>>

\* comment: up to the first */.
CommentCloses == Ch = "*" /\ At(cur + 1) = "/"

Comment ==
  /\ mode = "comment" /\ More
  /\ \/ /\ Ch \in Eol
        /\ cur' = cur + 1 /\ NEWLINE
        /\ UNCHANGED <<mode, tokens>>
     \/ /\ CommentCloses
        /\ NewToken("COMMENT", "", tok, cur + 1)
        /\ mode' = "start" /\ cur' = cur + 2
        /\ UNCHANGED <<eol, lines>>
     \/ /\ Ch \notin Eol /\ ~CommentCloses
        /\ cur' = cur + 1
        /\ UNCHANGED <<mode, eol, lines, tokens>>
  /\ UNCHANGED <<text, path, tok, mrk, acc, escaped, parens, width>>

\* comment_sl: up to the end of the line, and with it.
CommentSl ==
  /\ mode = "comment_sl" /\ More
  /\ cur' = cur + 1
  /\ IF Ch \in Eol
       THEN /\ NewToken("COMMENT", "", tok, cur)
            /\ NEWLINE
            /\ mode' = "start"
       ELSE UNCHANGED <<mode, eol, lines, tokens>>
  /\ UNCHANGED <<text, path, tok, mrk, acc, escaped, parens, width>>

\* cpp_attribute: up to the parenthesis that closes the first one.
CppAttribute ==
  /\ mode = "cpp_attribute" /\ More
  /\ cur' = cur + 1
  /\ \/ /\ Ch = "("
        /\ parens' = parens + 1
        /\ UNCHANGED <<mode, eol, lines, tokens>>
     \/ /\ Ch = ")" /\ parens = 1
        /\ NewToken("CPP_ATTRIBUTE", "", tok, cur)
        /\ mode' = "start"
        /\ UNCHANGED <<parens, eol, lines>>
     \/ /\ Ch = ")" /\ parens # 1
        /\ parens' = parens - 1
        /\ UNCHANGED <<mode, eol, lines, tokens>>
     \/ /\ Ch \in Eol
        /\ NEWLINE
        /\ UNCHANGED <<mode, parens, tokens>>
     \/ /\ Ch \notin Eol \cup {"(", ")"}
        /\ UNCHANGED <<mode, parens, eol, lines, tokens>>
  /\ UNCHANGED <<text, path, tok, mrk, acc, escaped, width>>

Done == mode \in Ends /\ UNCHANGED vars

Next ==
  \/ EndOfInput \/ Start \/ StartEol \/ StartQuote
  \/ Advance \/ OpenAttribute \/ LiteralPrefix \/ Accept \/ Backtrack \/ Fail
  \/ Quoted \/ Comment \/ CommentSl \/ CppAttribute
  \/ Done

Spec == Init /\ [][Next]_vars /\ WF_vars(Next)

(***************************************************************************)
(* What the rules of parser.re mean, without a machine: numbers.            *)
(***************************************************************************)
All(s, S) == \A i \in DOMAIN s : s[i] \in S

DecConst(s) == s # <<>> /\ s[1] # "0" /\ All(s, Digit)
OctConst(s) == s # <<>> /\ s[1] = "0" /\ All(s, Octal)
HexConst(s) == Len(s) > 2 /\ s[1] = "0" /\ s[2] = "x"
               /\ All(SubSeq(s, 3, Len(s)), HexDigit)

Point(s, S) == s # <<>> /\ s[1] = "." /\ All(Tail(s), S)

Exponent(s, e) ==
  /\ Len(s) > 1 /\ s[1] = e
  /\ LET n == IF s[2] \in {"+", "-"} THEN 3 ELSE 2
     IN Len(s) >= n /\ All(SubSeq(s, n, Len(s)), Digit)

IntConst(s) == DecConst(s) \/ OctConst(s) \/ HexConst(s)

FltConst(s) ==
  \E i \in 0 .. Len(s) : \E j \in i .. Len(s) :
    LET num == SubSeq(s, 1, i)
        point == SubSeq(s, i + 1, j)
        exp == SubSeq(s, j + 1, Len(s))
        dec == num = <<"0">> \/ DecConst(num)
    IN \/ dec /\ (point = <<>> \/ Point(point, Digit)) /\ Exponent(exp, "e")
       \/ dec /\ Point(point, Digit) /\ exp = <<>>
       \/ num = <<>> /\ Point(point, Digit) /\ Len(point) > 1 /\ exp = <<>>
       \/ HexConst(num) /\ (point = <<>> \/ Point(point, HexDigit)) /\ Exponent(exp, "p")

\* [+-]? in front of a number.
Unsigned(s) == IF s # <<>> /\ s[1] \in {"+", "-"} THEN Tail(s) ELSE s

Small(s) == [i \in DOMAIN s |-> IF s[i] = "L" THEN "l" ELSE IF s[i] = "U" THEN "u" ELSE s[i]]

\* The flags a number with that suffix has; "" where there is no such number.
Flags(s, suffix) ==
  LET n == Unsigned(s)
      x == Small(suffix)
  IN CASE IntConst(n) /\ x = <<>> -> "INT"
       [] IntConst(n) /\ x = <<"u">> -> "INT|U"
       [] IntConst(n) /\ x = <<"l">> -> "INT|L"
       [] IntConst(n) /\ x \in {<<"l", "u">>, <<"u", "l">>} -> "INT|UL"
       [] IntConst(n) /\ x \in {<<"l", "l", "u">>, <<"u", "l", "l">>} -> "INT|ULL"
       [] FltConst(n) /\ x = <<>> -> "FLT"
       [] FltConst(n) /\ x = <<"f">> -> "FLT|F"
       [] FltConst(n) /\ x = <<"l">> -> "FLT|L"
       [] FltConst(n) /\ x = <<"d", "f">> -> "FLT|DF"
       [] FltConst(n) /\ x = <<"d", "d">> -> "FLT|DD"
       [] FltConst(n) /\ x = <<"d", "l">> -> "FLT|DL"
       [] OTHER -> ""

(***************************************************************************)
(* Properties.  They are about the token that was added last, where the     *)
(* next one starts.                                                         *)
(***************************************************************************)
AtStart == mode = "start" /\ tokens # <<>>
Last == tokens[Len(tokens)]
Span(t) == SubSeq(text, t.from, t.to)
Count(S, i, j) == Cardinality({k \in i .. j : text[k] \in S})

TypeOK ==
  /\ text \in Texts /\ mode \in Modes /\ path \in Trie \cup {<<>>}
  /\ {cur, tok, mrk, eol} \subseteq 1 .. Lim + 1
  /\ lines \in 1 .. Len(text) + 1
  /\ escaped \in BOOLEAN /\ parens \in Nat
  /\ width \in {"1", "2", "4", "wchar"}
  /\ \A i \in DOMAIN tokens :
       /\ tokens[i].from \in 1 .. Len(text) + 1
       /\ tokens[i].to \in tokens[i].from - 1 .. Len(text)

\* The machine reads the text and at most one zero behind it: psi_parser_open_*
\* puts YYMAXFILL of them there, and only loops ask YYFILL.
InBuffer == cur <= Lim

\* Token follows token: what lies between two of them is the quotes, the chevrons
\* or the suffix that their rules leave out, and no character is in two.
Outside(t) ==
  IF t.type \in {"QUOTED_CHAR", "QUOTED_STRING", "CPP_HEADER"}
    THEN [front |-> 1, back |-> 1]
    ELSE [front |-> 0,
          back |-> CASE t.flags \in {"INT|U", "INT|L", "FLT|F", "FLT|L"} -> 1
                     [] t.flags \in {"INT|UL", "FLT|DF", "FLT|DD", "FLT|DL"} -> 2
                     [] t.flags = "INT|ULL" -> 3
                     [] OTHER -> 0]

Tiles ==
  AtStart =>
    LET n == Len(tokens)
        End(i) == IF i = 0 THEN 0 ELSE tokens[i].to + Outside(tokens[i]).back
    IN /\ Last.from - Outside(Last).front = End(n - 1) + 1
       /\ cur = End(n) + 1

\* A number is as long as the rules allow, with its suffix, and told as what it
\* is: the machine that reads ahead for points, exponents and suffixes and steps
\* back where they are incomplete agrees with the regular expressions.
Numbers ==
  AtStart /\ Last.type = "NUMBER" =>
    /\ Last.flags = Flags(Span(Last), SubSeq(text, Last.to + 1, cur - 1))
    /\ Last.flags # ""
    /\ \A e \in cur .. Len(text) : \A k \in 0 .. 3 :
         e - k >= Last.from =>
           Flags(SubSeq(text, Last.from, e - k), SubSeq(text, e - k + 1, e)) = ""

\* A word ends where its characters end, and is a keyword when it is spelled like
\* one; but for words that the prefix of a literal made, which hold its quote.
Words ==
  AtStart /\ Last.type \in {"NAME", "KEYWORD", "PRAGMA_ONCE"} =>
    LET s == Span(Last)
        quotes == {i \in DOMAIN s : s[i] \in Quote}
    IN /\ At(cur) \notin Word
       /\ IF quotes = {}
            THEN /\ (Last.type = "KEYWORD") <=> s \in Keywords
                 /\ All(s, Word)
            ELSE quotes \subseteq {2, 3} /\ s[1] \in {"L", "U", "u"}

\* The line of a token is that of its end, and its column counts from the end of
\* the line before; a token that holds ends of lines has no column in its line.
Positions ==
  AtStart =>
    LET i == IF Last.type = "EOL" THEN Last.from - 1
             ELSE IF Last.type = "COMMENT" /\ text[Last.to] \in Eol THEN Last.to - 1
             ELSE Last.to
    IN /\ Last.line = 1 + Count(Eol, 1, i)
       /\ Count(Eol, Last.from, i) = 0 =>
            /\ Last.col >= 1
            /\ \A k \in Last.from - Last.col + 1 .. Last.from - 1 : text[k] \notin Eol
            /\ Last.from - Last.col = 0 \/ text[Last.from - Last.col] \in Eol

\* A literal ends at the first quote of its kind that no backslash escapes: one
\* after a run of an even number of them, ends of lines in the run not counting.
Escaped(first, i) ==
  LET run == {k \in first .. i - 1 : \A j \in k .. i - 1 : text[j] \in Eol \cup {"\\"}}
  IN Cardinality({k \in run : text[k] = "\\"}) % 2 = 1

QuotesClose ==
  AtStart /\ Last.type \in {"QUOTED_CHAR", "QUOTED_STRING"} =>
    LET q == IF Last.type = "QUOTED_CHAR" THEN "'" ELSE "\""
    IN /\ text[Last.from - 1] = q
       /\ \A i \in Last.from .. Last.to + 1 :
            text[i] = q /\ ~Escaped(Last.from, i) <=> i = Last.to + 1

\* A comment ends at the first */ after its /*, or with its line.
CommentsClose ==
  AtStart /\ Last.type = "COMMENT" =>
    LET Closes(i) == IF text[Last.from + 1] = "*"
                       THEN i >= Last.from + 3 /\ text[i - 1] = "*" /\ text[i] = "/"
                       ELSE text[i] \in Eol
    IN /\ text[Last.from] = "/" /\ text[Last.from + 1] \in {"*", "/"}
       /\ \A i \in Last.from + 2 .. Last.to : Closes(i) <=> i = Last.to

\* An attribute ends where as many parentheses are closed as were opened in it,
\* and not before.
ParensClose ==
  AtStart /\ Last.type = "CPP_ATTRIBUTE" =>
    LET Open(i) == Count({"("}, Last.from, i) - Count({")"}, Last.from, i)
    IN \A i \in Last.from + Len(Attribute) .. Last.to :
         Open(i) <= 0 /\ Count({"("}, Last.from, i) > 0 <=> i = Last.to

\* The end of the text loses no whole line: what is dropped there is one token
\* under way, with an end of line in it only when it is still open.
DropsOneToken ==
  mode = "done" /\ tok <= Len(text) =>
    \/ Count(Eol, tok, Len(text)) = 0
    \/ tok > 1 /\ text[tok - 1] \in Quote
    \/ SubSeq(text, tok, tok + 1) = <<"/", "*">>
    \/ SubSeq(text, tok, tok + Len(Attribute) - 1) = Attribute

\* The scan fails only at a character no token begins with.
FailsOnlyAtBad ==
  mode = "error" =>
    \/ text[tok] = "$" /\ At(tok + 1) \notin Word
    \/ text[tok] \notin Word \cup Singles \cup Sp \cup Eol \cup Quote
         \cup {"!", "#", "&", "=", ">", "|", "+", "-", ".", "/", "<", "\\", "$"}

\* The pointers of the parser and what it counts agree: with the buffer, with the
\* token before and with the place in the text that the token is said to be at.
Tiling == InBuffer /\ Tiles /\ Positions

\* A token is whole, whichever loop scans it: it ends where what it is ends.
TokensWhole == Numbers /\ Words /\ QuotesClose /\ CommentsClose /\ ParensClose

\* Nothing is lost at the end, where the buffer ends or where the scan gives up,
\* but what cannot be a token (parser.re:286).
LosesLittle == DropsOneToken /\ FailsOnlyAtBad

\* Every text is scanned to its end or to an error.
Terminates == <>(mode \in Ends)
====

-------------------------- MODULE CppStage2_proofs --------------------------
(***************************************************************************)
(* The walk of stage 2, for every set of inputs: the cursor and the types, *)
(* what is left in the list, and the directives as those of CppCond.       *)
(* Most of it is about what the expansion of a macro, a table over the     *)
(* tokens of its body or of its call, makes of the list.                   *)
(***************************************************************************)
EXTENDS CppStage2, SequenceLemmas, TLAPS

(* Tokens whose text is a spelling, and those of them that do not end a    *)
(* line.                                                                   *)
Word == [ty : STRING, txt : Names]
Plain == {w \in Word : w.ty # "EOL"}

(* Names is the set of all spellings: those of the tokens of the inputs    *)
(* and what ## makes of them; # makes a string of one.  An included file   *)
(* was preprocessed, and has no newline left.                              *)
Glued == \A a \in Names : \A b \in Names : a \o b \in Names
Spellings ==
  /\ Names \subseteq STRING /\ Glued
  /\ EOL \in Word
  /\ \A a \in Names : Tok("STRING", a) \in Word
  /\ Header \in Seq(Plain)
  /\ \A in \in Inputs : in.lines \in Seq(Seq(Word))

-----------------------------------------------------------------------------

(* What an expansion leaves has no newline.                                *)
PlainCopies == [tokens : Seq(Plain), stringify : BOOLEAN, paste : BOOLEAN]

LEMMA PlainIsWord ==
  ASSUME Spellings
  PROVE  /\ Plain \subseteq Word /\ Word \subseteq Token
         /\ PlainCopies \subseteq Copies
<1>1. Plain \subseteq Word /\ Names \subseteq STRING
  BY Zenon DEF Plain, Spellings
<1>2. Word \subseteq Token
  BY <1>1 DEF Word, Token
<1>3. ASSUME NEW s \in Seq(Plain)
      PROVE  s \in Tokens
  <2>1. Plain \subseteq Token
    BY <1>1, <1>2
  <2>2. s \in Seq(Token)
    BY <2>1, Widened
  <2> QED BY <2>2 DEF Tokens
<1>4. PlainCopies \subseteq Copies
  BY <1>3 DEF PlainCopies, Copies
<1> QED BY <1>1, <1>2, <1>4

LEMMA TokenExpanded ==
  ASSUME Spellings, NEW s \in PlainCopies, NEW tok \in Word
  PROVE  ExpandToken(s, tok) \in PlainCopies
<1>1. /\ s.tokens \in Seq(Plain) /\ s.stringify \in BOOLEAN /\ s.paste \in BOOLEAN
      /\ tok.ty \in STRING /\ tok.txt \in Names
  BY DEF PlainCopies, Word
<1>2. CASE tok.ty = "EOL"
  BY <1>2, Zenon DEF ExpandToken
<1>3. CASE tok.ty = "HASH"
  <2>1. ExpandToken(s, tok) = [s EXCEPT !.stringify = TRUE]
    BY <1>3, Zenon DEF ExpandToken
  <2> QED BY <2>1 DEF PlainCopies
<1>4. CASE tok.ty = "PASTE"
  <2>1. ExpandToken(s, tok) = [s EXCEPT !.paste = TRUE]
    BY <1>4, Zenon DEF ExpandToken
  <2> QED BY <2>1 DEF PlainCopies
<1>5. CASE tok.ty \notin {"EOL", "HASH", "PASTE"}
  <2> DEFINE glued == Append(Front(s.tokens), Tok(Last(s.tokens).ty, Last(s.tokens).txt \o tok.txt))
             one == IF s.stringify THEN Tok("STRING", tok.txt) ELSE tok
             made == IF s.paste /\ s.tokens # <<>> THEN glued ELSE Append(s.tokens, one)
  <2>1. ExpandToken(s, tok) = [s EXCEPT !.tokens = made, !.stringify = FALSE, !.paste = FALSE]
    BY <1>5, Zenon DEF ExpandToken
  <2>2. one \in Plain
    <3>1. tok \in Plain
      BY <1>5, Zenon DEF Plain
    <3>2. Tok("STRING", tok.txt) \in Plain
      <4>1. Tok("STRING", tok.txt) \in Word
        BY <1>1, Zenon DEF Spellings
      <4>2. Tok("STRING", tok.txt).ty # "EOL"
        BY Zenon DEF Tok
      <4> QED BY <4>1, <4>2, Zenon DEF Plain
    <3> QED BY <3>1, <3>2, Zenon
  <2>3. ASSUME s.tokens # <<>>
        PROVE  glued \in Seq(Plain)
    <3>1. PICK r \in Seq(Plain) : r = s.tokens
      BY <1>1
    <3>2. r # <<>> /\ Len(r) \in Nat \ {0}
      BY <2>3, <3>1
    <3>3. Last(r) \in Plain /\ Front(r) \in Seq(Plain)
      BY <3>2 DEF Last, Front
    <3>4. Last(r).ty \in STRING /\ Last(r).txt \in Names /\ Last(r).ty # "EOL"
      BY <3>3 DEF Plain, Word
    <3>5. Last(r).txt \o tok.txt \in Names
      BY <1>1, <3>4, Zenon DEF Spellings, Glued
    <3>6. PICK x \in Names : x = Last(r).txt \o tok.txt
      BY <3>5, Zenon
    <3>7. Tok(Last(r).ty, x) \in Plain
      BY <3>4, <3>6 DEF Plain, Word, Tok
    <3>8. Append(Front(r), Tok(Last(r).ty, x)) \in Seq(Plain)
      BY <3>3, <3>7
    <3> QED BY <3>1, <3>6, <3>8, Zenon
  <2>4. made \in Seq(Plain)
    <3> HIDE DEF glued, one
    <3> QED BY <1>1, <2>2, <2>3
  <2> HIDE DEF made
  <2> QED BY <2>1, <2>4 DEF PlainCopies
<1> QED BY <1>2, <1>3, <1>4, <1>5

LEMMA TokensExpanded ==
  ASSUME Spellings, NEW tokens \in Seq(Word)
  PROVE  ExpandTokens(tokens) \in Seq(Plain)
<1> DEFINE n == Len(tokens)
           start == [tokens |-> <<>>, stringify |-> FALSE, paste |-> FALSE]
           step == [k \in 1 .. n |-> [s \in PlainCopies |-> ExpandToken(s, tokens[k])]]
           Fits(c) == c = [i \in 0 .. n |-> IF i = 0 THEN start
                                          ELSE [s \in Copies |-> ExpandToken(s, tokens[i])][c[i - 1]]]
           copy == CHOOSE c : Fits(c)
<1>1. n \in Nat /\ \A k \in 1 .. n : tokens[k] \in Word
  OBVIOUS
<1>2. ExpandTokens(tokens) = copy[n].tokens
  BY Zenon DEF ExpandTokens
<1>3. start \in PlainCopies
  BY DEF PlainCopies
<1>4. ASSUME NEW k \in 1 .. n, NEW s \in PlainCopies
      PROVE  /\ ExpandToken(s, tokens[k]) \in PlainCopies
             /\ [r \in Copies |-> ExpandToken(r, tokens[k])][s] = ExpandToken(s, tokens[k])
  <2>1. tokens[k] \in Word /\ s \in Copies
    BY <1>1, PlainIsWord
  <2> QED BY <2>1, TokenExpanded
<1> HIDE DEF start, n
<1>5. step \in [1 .. n -> [PlainCopies -> PlainCopies]]
  BY <1>4
<1>6. PICK f \in [0 .. n -> PlainCopies] : IsTable(f, n, start, step)
  <2> HIDE DEF step
  <2> QED BY <1>1, <1>3, <1>5, TableExists
<1>7. Fits(f)
  <2>1. ASSUME NEW i \in 0 .. n
        PROVE  f[i] = IF i = 0 THEN start
                      ELSE [s \in Copies |-> ExpandToken(s, tokens[i])][f[i - 1]]
    <3>1. CASE i = 0
      BY <1>6, <3>1 DEF IsTable
    <3>2. CASE i # 0
      <4>1. i \in 1 .. n /\ i - 1 \in 0 .. n
        BY <1>1, <3>2
      <4>2. f[i - 1] \in PlainCopies
        BY <4>1
      <4>3. f[i] = step[i][f[i - 1]]
        BY <1>6, <4>1 DEF IsTable
      <4>4. step[i][f[i - 1]] = ExpandToken(f[i - 1], tokens[i])
        BY <4>1, <4>2
      <4> QED BY <1>4, <3>2, <4>1, <4>2, <4>3, <4>4
    <3> QED BY <3>1, <3>2
  <2> QED BY <2>1
<1>8. Fits(copy)
  <2> HIDE DEF Fits
  <2> QED BY <1>7, Zenon
<1>9. copy[0] = start
  <2>1. PICK c : c = copy /\ Fits(c)
    BY <1>8, Zenon
  <2>2. 0 \in 0 .. n
    BY <1>1
  <2> QED BY <2>1, <2>2
<1>10. ASSUME NEW i \in 1 .. n, copy[i - 1] \in PlainCopies
       PROVE  copy[i] \in PlainCopies
  <2>1. PICK c : c = copy /\ Fits(c)
    BY <1>8, Zenon
  <2>2. i \in 0 .. n /\ i # 0
    BY <1>1
  <2> HIDE DEF copy
  <2>3. c[i] = IF i = 0 THEN start
               ELSE [s \in Copies |-> ExpandToken(s, tokens[i])][c[i - 1]]
    BY <2>1, <2>2
  <2>4. c[i] = [s \in Copies |-> ExpandToken(s, tokens[i])][c[i - 1]]
    BY <2>2, <2>3
  <2>5. c[i - 1] \in PlainCopies
    BY <1>10, <2>1
  <2>6. c[i] = ExpandToken(c[i - 1], tokens[i])
    BY <1>4, <2>4, <2>5
  <2> QED BY <1>4, <2>1, <2>5, <2>6
<1>11. copy[n] \in PlainCopies
  <2>1. PICK c : c = copy
    OBVIOUS
  <2>2. c[0] \in PlainCopies /\ \A i \in 1 .. n : c[i - 1] \in PlainCopies => c[i] \in PlainCopies
    BY <1>3, <1>9, <1>10, <2>1
  <2> HIDE DEF copy
  <2>3. \A i \in 0 .. n : c[i] \in PlainCopies
    BY <1>1, <2>2, StaysAlong
  <2> QED BY <1>1, <2>1, <2>3
<1> QED BY <1>2, <1>11 DEF PlainCopies

-----------------------------------------------------------------------------

(* The tokens of a call are read one by one: those of the call that was    *)
(* read are at least its two parentheses, and all are in the list.         *)
CallTokens == [status : {"reading", "read", "fail", "abort"},
               args : Seq(Seq(Word)), open : Nat, last : Nat]
WordCalls == {c \in CallTokens : c.args # <<>> /\ c.open # 0}

LEMMA WordCallIsCall ==
  ASSUME Spellings
  PROVE  WordCalls \subseteq Calls
<1>1. Word \subseteq Token
  BY PlainIsWord
<1>2. ASSUME NEW a \in Seq(Seq(Word))
      PROVE  a \in Seq(Tokens)
  <2>1. ASSUME NEW s \in Seq(Word)
        PROVE  s \in Tokens
    BY <1>1, Widened DEF Tokens
  <2>2. Seq(Word) \subseteq Tokens
    BY <2>1
  <2> QED BY <2>2, Widened
<1> QED BY <1>2 DEF WordCalls, CallTokens, Calls

LEMMA ToArgTyped ==
  ASSUME NEW s \in WordCalls, NEW tok \in Word
  PROVE  /\ ToArg(s, tok) \in WordCalls
         /\ ToArg(s, tok).status = s.status /\ ToArg(s, tok).last = s.last
         /\ ToArg(s, tok).open = s.open
<1>1. s \in CallTokens /\ s.args \in Seq(Seq(Word)) /\ s.args # <<>> /\ s.open # 0
  BY DEF WordCalls, CallTokens
<1>2. PICK args \in Seq(Seq(Word)) : args = s.args
  BY <1>1
<1>3. PICK n : n = Len(args)
  OBVIOUS
<1>4. n \in 1 .. Len(args) /\ args[n] \in Seq(Word)
  BY <1>1, <1>2, <1>3
<1>5. PICK given : given = [args EXCEPT ![n] = Append(@, tok)]
  OBVIOUS
<1>6. given \in Seq(Seq(Word)) /\ given # <<>>
  <2>1. Append(args[n], tok) \in Seq(Word)
    BY <1>4
  <2> QED BY <1>3, <1>4, <1>5, <2>1
<1>7. ToArg(s, tok) = [s EXCEPT !.args = given]
  BY <1>1, <1>2, <1>3, <1>5 DEF ToArg, CallTokens
<1> QED BY <1>1, <1>6, <1>7 DEF WordCalls, CallTokens

ReadOn(s, c, count) ==
  /\ c \in WordCalls /\ c.last = s.last /\ c.status \in {"reading", "read", "fail"}
  /\ c.status = "read" => Len(c.args) >= count

LEMMA CallTokenRead ==
  ASSUME NEW s \in WordCalls, s.status = "reading", NEW tok \in Word, NEW count \in Nat
  PROVE  ReadOn(s, ReadCallToken(s, tok, count), count)
<1> DEFINE c == ReadCallToken(s, tok, count)
<1> SUFFICES ReadOn(s, c, count)
  OBVIOUS
<1> USE DEF ReadOn
<1>1. /\ s \in CallTokens /\ s.args \in Seq(Seq(Word)) /\ s.args # <<>> /\ s.open \in Nat \ {0}
      /\ Len(s.args) \in Nat
  BY DEF WordCalls, CallTokens
<1>2. PICK a \in WordCalls : a = ToArg(s, tok)
  BY ToArgTyped
<1>3. a.status = "reading" /\ a.last = s.last /\ a.open = s.open /\ a \in CallTokens
  BY <1>2, ToArgTyped DEF WordCalls
<1>4. CASE tok.ty = "LPAREN"
  <2>1. c = [a EXCEPT !.open = @ + 1]
    BY <1>2, <1>4, Zenon DEF ReadCallToken
  <2> HIDE DEF c
  <2>2. PICK o \in Nat \ {0} : o = a.open + 1
    BY <1>1, <1>3
  <2>3. c = [a EXCEPT !.open = o]
    BY <2>1, <2>2, Zenon
  <2> QED BY <1>3, <2>3 DEF WordCalls, CallTokens
<1>5. CASE tok.ty = "RPAREN"
  <2>1. c = IF s.open > 1 THEN [a EXCEPT !.open = @ - 1]
            ELSE [s EXCEPT !.status = IF Len(s.args) < count THEN "fail" ELSE "read"]
    BY <1>2, <1>5, Zenon DEF ReadCallToken
  <2> HIDE DEF c
  <2>2. CASE s.open > 1
    <3>1. PICK o \in Nat \ {0} : o = a.open - 1
      BY <1>1, <1>3, <2>2
    <3>2. c = [a EXCEPT !.open = o]
      BY <2>1, <2>2, <3>1, Zenon
    <3> QED BY <1>3, <3>2 DEF WordCalls, CallTokens
  <2>3. CASE ~(s.open > 1)
    <3>1. PICK x \in {"fail", "read"} : x = IF Len(s.args) < count THEN "fail" ELSE "read"
      OBVIOUS
    <3>2. c = [s EXCEPT !.status = x]
      BY <2>1, <2>3, <3>1, Zenon
    <3>3. x = "read" => Len(s.args) >= count
      BY <1>1, <3>1
    <3>4. c.args = s.args /\ c.status = x /\ c \in WordCalls /\ c.last = s.last
      BY <1>1, <3>1, <3>2 DEF WordCalls, CallTokens
    <3> QED BY <3>1, <3>3, <3>4
  <2> QED BY <2>2, <2>3
<1>6. CASE tok.ty = "COMMA" /\ s.open = 1
  <2>1. c = IF Len(s.args) >= count THEN [s EXCEPT !.status = "fail"]
            ELSE [s EXCEPT !.args = Append(@, <<>>)]
    BY <1>6, Zenon DEF ReadCallToken
  <2>2. Append(s.args, <<>>) \in Seq(Seq(Word)) /\ Append(s.args, <<>>) # <<>>
    BY <1>1
  <2> HIDE DEF c
  <2> QED BY <1>1, <2>1, <2>2 DEF WordCalls, CallTokens
<1>7. CASE tok.ty \notin {"LPAREN", "RPAREN"} /\ ~(tok.ty = "COMMA" /\ s.open = 1)
  <2>1. c = a
    BY <1>2, <1>7, Zenon DEF ReadCallToken
  <2> HIDE DEF c
  <2> QED BY <1>3, <2>1
<1> QED BY <1>4, <1>5, <1>6, <1>7

OneRead(t, count, s) ==
  IF s.status # "reading" THEN s
  ELSE IF ~Valid(t, s.last + 1) THEN [s EXCEPT !.status = "fail"]
  ELSE [ReadCallToken(s, Current(t, s.last + 1), count) EXCEPT !.last = @ + 1]

Progress(t, i, count, k, c) ==
  /\ c.status = "reading" => c.last = i + 1 + k /\ c.last < Len(t)
  /\ c.status = "read" => Len(c.args) >= count /\ c.last \in i + 2 .. Len(t) - 1

LEMMA OneReadTyped ==
  ASSUME NEW t \in Seq(Word), NEW count \in Nat, NEW s \in WordCalls
  PROVE  OneRead(t, count, s) \in WordCalls
<1>1. s \in CallTokens /\ s.last \in Nat /\ Len(t) \in Nat
  BY DEF WordCalls, CallTokens
<1>2. CASE s.status # "reading"
  BY <1>2 DEF OneRead
<1>3. CASE s.status = "reading" /\ ~Valid(t, s.last + 1)
  BY <1>1, <1>3 DEF OneRead, WordCalls, CallTokens
<1>4. CASE s.status = "reading" /\ Valid(t, s.last + 1)
  <2>1. Current(t, s.last + 1) \in Word
    BY <1>1, <1>4 DEF Valid, Current
  <2>2. PICK c : c = ReadCallToken(s, Current(t, s.last + 1), count) /\ ReadOn(s, c, count)
    BY <1>4, <2>1, CallTokenRead
  <2>3. PICK l \in Nat : l = c.last + 1
    BY <1>1, <2>2 DEF ReadOn
  <2>4. OneRead(t, count, s) = [c EXCEPT !.last = l]
    BY <1>4, <2>2, <2>3 DEF OneRead
  <2> QED BY <2>2, <2>4 DEF ReadOn, WordCalls, CallTokens
<1> QED BY <1>2, <1>3, <1>4

LEMMA OneReadProgress ==
  ASSUME NEW t \in Seq(Word), NEW i \in Nat, NEW count \in Nat, NEW s \in WordCalls,
         NEW k \in Nat \ {0}, Progress(t, i, count, k - 1, s)
  PROVE  Progress(t, i, count, k, OneRead(t, count, s))
<1>1. s \in CallTokens /\ s.last \in Nat /\ Len(t) \in Nat
  BY DEF WordCalls, CallTokens
<1>2. CASE s.status # "reading"
  BY <1>2 DEF OneRead, Progress
<1>3. CASE s.status = "reading" /\ ~Valid(t, s.last + 1)
  <2>1. OneRead(t, count, s).status = "fail"
    BY <1>1, <1>3 DEF OneRead, CallTokens
  <2> QED BY <2>1 DEF Progress
<1>4. CASE s.status = "reading" /\ Valid(t, s.last + 1)
  <2>1. Current(t, s.last + 1) \in Word
    BY <1>1, <1>4 DEF Valid, Current
  <2>2. PICK c : c = ReadCallToken(s, Current(t, s.last + 1), count) /\ ReadOn(s, c, count)
    BY <1>4, <2>1, CallTokenRead
  <2>3. PICK l \in Nat : l = c.last + 1
    BY <1>1, <2>2 DEF ReadOn
  <2>4. PICK d : d = OneRead(t, count, s)
    OBVIOUS
  <2>5. d = [c EXCEPT !.last = l]
    BY <1>4, <2>2, <2>3, <2>4 DEF OneRead
  <2>6. d.last = l /\ d.status = c.status /\ d.args = c.args
    BY <2>2, <2>5 DEF ReadOn, WordCalls, CallTokens
  <2>7. l = i + 1 + k /\ l < Len(t) /\ l \in i + 2 .. Len(t) - 1
    <3>1. s.last = i + 1 + (k - 1) /\ l = s.last + 1 /\ s.last + 1 < Len(t)
      BY <1>4, <2>2, <2>3 DEF Progress, ReadOn, Valid
    <3> QED BY <1>1, <3>1
  <2>8. Progress(t, i, count, k, d)
    BY <2>2, <2>6, <2>7 DEF Progress, ReadOn
  <2> QED BY <2>4, <2>8
<1> QED BY <1>2, <1>3, <1>4

CallIs(t, i, count, c) ==
  /\ c.status \in {"read", "fail", "abort"}
  /\ c.status = "read" => /\ c.args \in Seq(Seq(Word)) /\ Len(c.args) >= count
                          /\ c.last \in i + 2 .. Len(t) - 1

LEMMA CallRead ==
  ASSUME Spellings, NEW t \in Seq(Word), NEW i \in Nat, NEW count \in Nat
  PROVE  CallIs(t, i, count, ReadCall(t, i, count))
<1> DEFINE n == Len(t)
           start == [status |-> "reading", args |-> <<<<>>>>, open |-> 1, last |-> i + 1]
           advance == [s \in Calls |->
                        IF s.status # "reading" THEN s
                        ELSE IF ~Valid(t, s.last + 1) THEN [s EXCEPT !.status = "fail"]
                        ELSE [ReadCallToken(s, Current(t, s.last + 1), count) EXCEPT !.last = @ + 1]]
           Fits(c) == c = [k \in 0 .. n |-> IF k = 0 THEN start ELSE advance[c[k - 1]]]
           read == CHOOSE c : Fits(c)
           step == [k \in 1 .. n |-> [s \in WordCalls |-> OneRead(t, count, s)]]
           Reached == {p \in Nat \X WordCalls : Progress(t, i, count, p[1], p[2])}
<1>1. n \in Nat
  OBVIOUS
<1>2. start \in WordCalls
  <2> HIDE DEF advance, Fits, read, step, Reached
  <2>1. <<>> \in Seq(Word)
    OBVIOUS
  <2>2. PICK a : a = <<<<>>>>
    OBVIOUS
  <2>3. a \in Seq(Seq(Word)) /\ a # <<>>
    BY <2>1, <2>2
  <2>4. start = [status |-> "reading", args |-> a, open |-> 1, last |-> i + 1]
    BY <2>2
  <2> HIDE DEF start
  <2> QED BY <2>3, <2>4 DEF WordCalls, CallTokens
<1>3. CASE ~Valid(t, i + 1)
  <2>1. ReadCall(t, i, count) = [start EXCEPT !.status = "abort"]
    BY <1>3, Zenon DEF ReadCall
  <2>2. ReadCall(t, i, count).status = "abort"
    BY <2>1
  <2> QED BY <2>2 DEF CallIs
<1>4. CASE Valid(t, i + 1) /\ Current(t, i + 1).ty # "LPAREN"
  <2>1. ReadCall(t, i, count) = [start EXCEPT !.status = "fail"]
    BY <1>4, Zenon DEF ReadCall
  <2>2. ReadCall(t, i, count).status = "fail"
    BY <2>1
  <2> QED BY <2>2 DEF CallIs
<1>5. CASE Valid(t, i + 1) /\ Current(t, i + 1).ty = "LPAREN"
  <2>1. ReadCall(t, i, count) = read[n]
    BY <1>5, Zenon DEF ReadCall
  <2>2. ASSUME NEW s \in WordCalls
        PROVE  advance[s] = OneRead(t, count, s) /\ OneRead(t, count, s) \in WordCalls
    <3>1. s \in Calls
      BY WordCallIsCall
    <3> QED BY <3>1, OneReadTyped DEF OneRead
  <2>3. Progress(t, i, count, 0, start)
    BY <1>5 DEF Progress, Valid
  <2> HIDE DEF start, n, advance
  <2>4. step \in [1 .. n -> [WordCalls -> WordCalls]]
    BY <2>2
  <2>5. PICK f \in [0 .. n -> WordCalls] : IsTable(f, n, start, step)
    <3> HIDE DEF step
    <3> QED BY <1>1, <1>2, <2>4, TableExists
  <2>6. Fits(f)
    <3>1. ASSUME NEW k \in 0 .. n
          PROVE  f[k] = IF k = 0 THEN start ELSE advance[f[k - 1]]
      <4>1. CASE k = 0
        BY <2>5, <4>1 DEF IsTable
      <4>2. CASE k # 0
        <5>1. k \in 1 .. n /\ k - 1 \in 0 .. n
          BY <1>1, <4>2
        <5>2. f[k - 1] \in WordCalls
          BY <5>1
        <5>3. f[k] = step[k][f[k - 1]]
          BY <2>5, <5>1 DEF IsTable
        <5>4. step[k][f[k - 1]] = OneRead(t, count, f[k - 1])
          BY <5>1, <5>2
        <5> QED BY <2>2, <4>2, <5>2, <5>3, <5>4
      <4> QED BY <4>1, <4>2
    <3> QED BY <3>1
  <2>7. PICK c : c = read /\ Fits(c)
    <3> HIDE DEF Fits
    <3> QED BY <2>6, Zenon
  <2> HIDE DEF read
  <2> DEFINE g == [k \in 0 .. n |-> <<k, c[k]>>]
  <2>8. g[0] \in Reached
    <3>1. c[0] = start
      BY <1>1, <2>7
    <3>2. g[0] = <<0, start>>
      BY <1>1, <3>1
    <3> QED BY <1>2, <2>3, <3>2
  <2>9. ASSUME NEW k \in 1 .. n, g[k - 1] \in Reached
        PROVE  g[k] \in Reached
    <3>1. k \in 0 .. n /\ k # 0 /\ k - 1 \in 0 .. n /\ k \in Nat \ {0}
      BY <1>1
    <3>2. PICK s : s = c[k - 1]
      OBVIOUS
    <3>3. g[k - 1] = <<k - 1, s>>
      BY <3>1, <3>2
    <3>4. s \in WordCalls /\ Progress(t, i, count, k - 1, s)
      BY <2>9, <3>3
    <3>5. c[k] = advance[s]
      BY <2>7, <3>1, <3>2
    <3>6. c[k] = OneRead(t, count, s) /\ c[k] \in WordCalls
      BY <2>2, <3>4, <3>5
    <3>7. Progress(t, i, count, k, c[k])
      BY <3>1, <3>4, <3>6, OneReadProgress
    <3>8. g[k] = <<k, c[k]>>
      BY <3>1
    <3> QED BY <3>1, <3>6, <3>7, <3>8
  <2>10. g[n] \in Reached
    <3>1. PICK h : h = g
      OBVIOUS
    <3>2. h[0] \in Reached /\ \A k \in 1 .. n : h[k - 1] \in Reached => h[k] \in Reached
      BY <2>8, <2>9, <3>1
    <3> HIDE DEF g, Reached
    <3>3. \A k \in 0 .. n : h[k] \in Reached
      BY <1>1, <3>2, StaysAlong
    <3> QED BY <1>1, <3>1, <3>3
  <2>11. c[n] \in WordCalls /\ Progress(t, i, count, n, c[n])
    <3>1. g[n] = <<n, c[n]>>
      BY <1>1
    <3> QED BY <2>10, <3>1
  <2>12. c[n].status # "reading"
    <3>1. ~(i + 1 + n < n)
      BY <1>1
    <3> QED BY <2>11, <3>1 DEF Progress, n
  <2>13. CallIs(t, i, count, c[n])
    <3>1. c[n].status # "abort" \/ c[n].status = "abort"
      OBVIOUS
    <3>2. c[n] \in CallTokens
      BY <2>11 DEF WordCalls
    <3>3. c[n].status \in {"read", "fail", "abort"} /\ c[n].args \in Seq(Seq(Word))
      BY <2>12, <3>2 DEF CallTokens
    <3> QED BY <2>11, <3>3 DEF CallIs, Progress
  <2> QED BY <2>1, <2>7, <2>13
<1> QED BY <1>3, <1>4, <1>5

-----------------------------------------------------------------------------

(* What is deleted and inserted does not touch what is in front of it.     *)
Removed(s, u, o, n) ==
  /\ u \in Seq(Word) /\ Len(u) = Len(s) - n
  /\ \A k \in 1 .. o : u[k] = s[k]

Inserted(s, u, o, e) ==
  /\ u \in Seq(Word) /\ Len(u) = Len(s) + Len(e)
  /\ \A k \in 1 .. o : u[k] = s[k]
  /\ \A k \in 1 .. Len(e) : u[o + k] = e[k]
  /\ \A k \in o + 1 .. Len(s) : u[k + Len(e)] = s[k]

LEMMA DelRangeRemoves ==
  ASSUME NEW s \in Seq(Word), NEW o \in Nat, NEW n \in Nat, o + n <= Len(s)
  PROVE  Removed(s, DelRange(s, o, n), o, n)
<1>1. PICK e \in Seq(Word) : e = <<>> /\ Len(e) = 0
  <2>1. <<>> \in Seq(Word) /\ Len(<<>>) = 0
    OBVIOUS
  <2> QED BY <2>1
<1>2. DelRange(s, o, n) = Splice(s, o, n, e)
  <2>1. PICK a : a = SubSeq(s, 1, o)
    OBVIOUS
  <2>2. a \in Seq(Word)
    <3>1. 1 \in 1 .. Len(s) + 1 /\ o \in 1 - 1 .. Len(s)
      OBVIOUS
    <3> QED BY <2>1, <3>1, SubSeqProperties
  <2>3. a \o e = a
    BY <1>1, <2>2
  <2> QED BY <2>1, <2>3 DEF DelRange, Splice
<1>3. PICK u : u = Splice(s, o, n, e)
  OBVIOUS
<1>4. u \in Seq(Word) /\ IsSplice(u, s, o, n, e)
  BY <1>3, Spliced
<1>5. Len(s) - n + Len(e) = Len(s) - n
  BY <1>1
<1> QED BY <1>2, <1>3, <1>4, <1>5 DEF Removed, IsSplice

LEMMA InsRangeInserts ==
  ASSUME NEW s \in Seq(Word), NEW o \in Nat, o <= Len(s), NEW e \in Seq(Word)
  PROVE  Inserted(s, InsRange(s, o, e), o, e)
<1>1. PICK n \in Nat : n = 0
  OBVIOUS
<1>2. o + n <= Len(s) /\ o + n + 1 = o + 1 /\ Len(s) \in Nat /\ Len(e) \in Nat
  BY <1>1
<1>3. InsRange(s, o, e) = Splice(s, o, n, e)
  BY <1>2 DEF InsRange, Splice
<1>4. PICK u : u = Splice(s, o, n, e)
  OBVIOUS
<1>5. u \in Seq(Word) /\ IsSplice(u, s, o, n, e)
  BY <1>2, <1>4, Spliced
<1>6. ASSUME NEW k \in o + 1 .. Len(s)
      PROVE  u[k + Len(e)] = s[k]
  <2>1. k - n + Len(e) = k + Len(e) /\ k \in o + n + 1 .. Len(s)
    BY <1>1, <1>2
  <2> QED BY <1>5, <2>1 DEF IsSplice
<1>7. Len(s) - n + Len(e) = Len(s) + Len(e)
  BY <1>1, <1>2
<1> QED BY <1>3, <1>4, <1>5, <1>6, <1>7 DEF Inserted, IsSplice

-----------------------------------------------------------------------------

(* The macros: a name, parameters and a body of words.                     *)
MacroType == [call : BOOLEAN, sig : Seq(Names), tokens : Seq(Word)]

LEMMA PieceTyped ==
  ASSUME NEW macro \in MacroType, NEW args \in Seq(Seq(Word)), Len(args) >= Len(macro.sig),
         NEW tok \in Word
  PROVE  Piece(macro, args, tok) \in Seq(Word)
<1>1. PICK s : s = Params(macro, tok)
  OBVIOUS
<1>2. macro.sig \in Seq(Names)
  BY DEF MacroType
<1>3. s \in SUBSET (1 .. Len(macro.sig)) /\ 1 .. Len(macro.sig) \subseteq Nat
  BY <1>1, <1>2 DEF Params
<1>4. CASE s = {}
  <2>1. Piece(macro, args, tok) = <<tok>>
    BY <1>1, <1>4 DEF Piece
  <2> QED BY <2>1
<1>5. CASE s # {}
  <2>1. s \in SUBSET Nat
    BY <1>3
  <2>2. \E p \in s : \A q \in s : p <= q
    BY <1>5, <2>1, LeastElement
  <2>3. PICK p \in s : p = CHOOSE x \in s : \A q \in s : x <= q
    BY <2>2, Zenon
  <2>4. Piece(macro, args, tok) = args[p]
    BY <1>1, <1>5, <2>3, Zenon DEF Piece
  <2>5. p \in 1 .. Len(args)
    BY <1>2, <1>3
  <2> QED BY <2>4, <2>5
<1> QED BY <1>4, <1>5

LEMMA SubstitutedTyped ==
  ASSUME NEW macro \in MacroType, NEW args \in Seq(Seq(Word)), Len(args) >= Len(macro.sig)
  PROVE  Substituted(macro, args) \in Seq(Word)
<1>1. macro.tokens \in Seq(Word)
  BY DEF MacroType
<1>2. PICK body \in Seq(Word) : body = macro.tokens
  BY <1>1
<1>3. ASSUME NEW k \in 1 .. Len(body)
      PROVE  Piece(macro, args, body[k]) \in Seq(Word)
  <2>1. body[k] \in Word
    OBVIOUS
  <2> QED BY <2>1, PieceTyped
<1>4. PICK pieces : pieces = [k \in 1 .. Len(body) |-> Piece(macro, args, body[k])]
  OBVIOUS
<1>5. pieces \in Seq(Seq(Word))
  BY <1>3, <1>4
<1>6. DOMAIN body = 1 .. Len(body)
  OBVIOUS
<1>7. Substituted(macro, args) = FlattenSeq(pieces)
  BY <1>2, <1>4, <1>6, Zenon DEF Substituted
<1> QED BY <1>5, <1>7, Flattened

-----------------------------------------------------------------------------

(* What a macro leaves of the list: the cursor does not go on, and in      *)
(* front of it is no newline if there was none.                            *)
PlainTo(s, i) == \A k \in 1 .. i : s[k].ty # "EOL"

Replaced(s, i, u, j) ==
  /\ u \in Seq(Word) /\ j \in 0 .. Len(u) /\ j <= i
  /\ PlainTo(s, i) => PlainTo(u, j)

LEMMA RemovedReplaces ==
  ASSUME NEW s \in Seq(Word), NEW i \in Nat, i < Len(s), NEW u, Removed(s, u, i, 1)
  PROVE  Replaced(s, i, u, Clamp(i, Len(u)))
<1>1. PICK j, m : j = Clamp(i, Len(u)) /\ m = Len(u)
  OBVIOUS
<1>2. m \in Nat /\ m = Len(s) - 1 /\ i <= m /\ u \in Seq(Word) /\ \A k \in 1 .. i : u[k] = s[k]
  BY <1>1 DEF Removed
<1>3. j \in 0 .. m /\ j <= i /\ j \in Nat
  BY <1>1, <1>2 DEF Clamp
<1>4. ASSUME PlainTo(s, i)
      PROVE  PlainTo(u, j)
  <2>1. ASSUME NEW k \in 1 .. j
        PROVE  u[k].ty # "EOL"
    <3>1. k \in 1 .. i
      BY <1>3
    <3> QED BY <1>2, <1>4, <3>1 DEF PlainTo
  <2> QED BY <2>1 DEF PlainTo
<1> QED BY <1>1, <1>2, <1>3, <1>4 DEF Replaced

LEMMA DefExpanded ==
  ASSUME Spellings, NEW s \in Seq(Word), NEW i \in Nat, i < Len(s), NEW macro \in MacroType
  PROVE  Replaced(s, i, ExpandDef(s, i, macro).toks, ExpandDef(s, i, macro).index)
<1>1. PICK a : a = DelCur(s, i) /\ Removed(s, a, i, 1)
  <2>1. i + 1 <= Len(s) /\ 1 \in Nat
    OBVIOUS
  <2>2. Removed(s, DelRange(s, i, 1), i, 1)
    BY <2>1, DelRangeRemoves
  <2> QED BY <2>2 DEF DelCur
<1>2. a \in Seq(Word) /\ Len(a) = Len(s) - 1 /\ \A k \in 1 .. i : a[k] = s[k]
  BY <1>1 DEF Removed
<1>3. PICK e \in Seq(Word) : e = ExpandTokens(macro.tokens)
  <2>1. macro.tokens \in Seq(Word)
    BY DEF MacroType
  <2>2. PICK p \in Seq(Plain) : p = ExpandTokens(macro.tokens)
    BY <2>1, TokensExpanded
  <2>3. Plain \subseteq Word
    BY PlainIsWord
  <2>4. p \in Seq(Word)
    BY <2>3, Widened
  <2> QED BY <2>2, <2>4
<1>4. PICK u : u = InsRange(a, i, e) /\ Inserted(a, u, i, e)
  <2>1. i <= Len(a)
    BY <1>2
  <2> QED BY <1>2, <2>1, InsRangeInserts
<1>5. /\ u \in Seq(Word) /\ Len(u) = Len(a) + Len(e) /\ Len(e) \in Nat
      /\ \A k \in 1 .. i : u[k] = a[k]
  BY <1>4 DEF Inserted
<1>6. ExpandDef(s, i, macro).toks = u /\ ExpandDef(s, i, macro).index = i
  BY <1>1, <1>3, <1>4 DEF ExpandDef
<1>7. i \in 0 .. Len(u) /\ i <= i
  BY <1>2, <1>5
<1>8. PlainTo(s, i) => PlainTo(u, i)
  BY <1>2, <1>5 DEF PlainTo
<1> QED BY <1>5, <1>6, <1>7, <1>8 DEF Replaced

(* The call is taken out and the expansion put where it was, or in front   *)
(* of the token before it, which is the last one then.                     *)
LEMMA CallReplaced ==
  ASSUME NEW s \in Seq(Word), NEW i \in Nat, NEW last \in i + 2 .. Len(s) - 1,
         NEW left, Removed(s, left, i, last - i + 1),
         NEW at, at = Seek(Clamp(last, Len(left)), left, i),
         NEW e \in Seq(Plain), e \in Seq(Word), NEW u, Inserted(left, u, at, e)
  PROVE  Replaced(s, i, u, Seek(at, u, i))
<1>1. PICK m, l, n, j : m = Len(left) /\ l = Len(e) /\ n = Len(s) /\ j = Seek(at, u, i)
  OBVIOUS
<1>2. /\ left \in Seq(Word) /\ m = n - (last - i + 1) /\ n \in Nat /\ m \in Nat /\ i <= m
      /\ \A k \in 1 .. i : left[k] = s[k]
  BY <1>1 DEF Removed
<1>3. /\ u \in Seq(Word) /\ Len(u) = m + l /\ l \in Nat
      /\ \A k \in 1 .. at : u[k] = left[k]
      /\ \A k \in 1 .. l : u[at + k] = e[k]
      /\ \A k \in at + 1 .. m : u[k + l] = left[k]
  <2>1. Len(e) \in Nat
    BY LenProperties
  <2> QED BY <1>1, <2>1 DEF Inserted
<1>4. /\ at \in 0 .. i /\ at <= m
      /\ at # i => m = i /\ at = i - 1
  <2>1. last \in Nat /\ last > i
    OBVIOUS
  <2>2. CASE i < m
    BY <1>1, <2>2 DEF Seek, Valid
  <2>3. CASE ~(i < m)
    <3>1. at = Clamp(last, m) /\ m = i
      BY <1>1, <1>2, <2>3 DEF Seek, Valid
    <3>2. at = IF m > 0 THEN m - 1 ELSE 0
      BY <1>2, <2>1, <3>1 DEF Clamp
    <3> QED BY <1>2, <3>1, <3>2
  <2> QED BY <2>2, <2>3
<1>5. j \in 0 .. m + l /\ j <= i /\ j \in Nat
  BY <1>1, <1>2, <1>3, <1>4 DEF Seek, Valid
<1>6. ASSUME PlainTo(s, i), NEW k \in 1 .. j
      PROVE  u[k].ty # "EOL"
  <2>1. k \in 1 .. i
    BY <1>5
  <2>2. CASE k <= at
    <3>1. k \in 1 .. at
      BY <1>4, <2>2
    <3>2. u[k] = s[k]
      BY <1>2, <1>3, <2>1, <3>1
    <3> QED BY <1>6, <2>1, <3>2 DEF PlainTo
  <2>3. CASE ~(k <= at) /\ k <= at + l
    <3>1. PICK x \in 1 .. l : at + x = k
      <4>1. k - at \in 1 .. l /\ at + (k - at) = k
        BY <1>3, <1>4, <2>3
      <4> QED BY <4>1
    <3>2. u[k] = e[x] /\ e[x] \in Plain
      BY <1>1, <1>3, <3>1
    <3> QED BY <3>2 DEF Plain
  <2>4. CASE ~(k <= at + l)
    <3>1. PICK x \in at + 1 .. m : x + l = k
      <4>1. k - l \in at + 1 .. m /\ (k - l) + l = k
        BY <1>3, <1>4, <1>5, <2>4
      <4> QED BY <4>1
    <3>2. x \in 1 .. i
      BY <1>3, <1>4, <2>1, <3>1
    <3>3. u[k] = s[x]
      BY <1>2, <1>3, <3>1, <3>2
    <3> QED BY <1>6, <3>2, <3>3 DEF PlainTo
  <2> QED BY <1>3, <1>4, <2>2, <2>3, <2>4
<1>7. PlainTo(s, i) => PlainTo(u, j)
  BY <1>6 DEF PlainTo
<1> QED BY <1>1, <1>3, <1>5, <1>7 DEF Replaced

LEMMA CallExpanded ==
  ASSUME Spellings, NEW s \in Seq(Word), NEW i \in Nat, NEW macro \in MacroType,
         ReadCall(s, i, Len(macro.sig)).status = "read"
  PROVE  Replaced(s, i, ExpandCall(s, i, macro).toks, ExpandCall(s, i, macro).index)
<1>1. Len(macro.sig) \in Nat
  BY DEF MacroType
<1>2. PICK c : c = ReadCall(s, i, Len(macro.sig)) /\ CallIs(s, i, Len(macro.sig), c)
  BY <1>1, CallRead
<1>3. /\ c.args \in Seq(Seq(Word)) /\ Len(c.args) >= Len(macro.sig)
      /\ c.last \in i + 2 .. Len(s) - 1
  BY <1>2 DEF CallIs
<1>4. PICK last \in i + 2 .. Len(s) - 1 : last = c.last
  BY <1>3
<1>5. PICK n : n = last - i + 1
  OBVIOUS
<1>6. PICK left : left = DelRange(s, i, n) /\ Removed(s, left, i, n)
  <2>1. n \in Nat /\ i + n <= Len(s)
    BY <1>5
  <2> QED BY <2>1, DelRangeRemoves
<1>7. PICK at : at = Seek(Clamp(last, Len(left)), left, i)
  OBVIOUS
<1>8. PICK e \in Seq(Plain) : e = ExpandTokens(Substituted(macro, c.args)) /\ e \in Seq(Word)
  <2>1. Substituted(macro, c.args) \in Seq(Word)
    BY <1>3, SubstitutedTyped
  <2>2. PICK e \in Seq(Plain) : e = ExpandTokens(Substituted(macro, c.args))
    BY <2>1, TokensExpanded
  <2>3. Plain \subseteq Word
    BY PlainIsWord
  <2>4. e \in Seq(Word)
    BY <2>3, Widened
  <2> QED BY <2>2, <2>4
<1>9. PICK u : u = InsRange(left, at, e) /\ Inserted(left, u, at, e)
  <2>1. left \in Seq(Word) /\ Len(left) \in Nat
    BY <1>6 DEF Removed
  <2>2. at \in Nat /\ at <= Len(left)
    BY <1>7, <2>1 DEF Seek, Clamp, Valid
  <2> QED BY <1>8, <2>1, <2>2, InsRangeInserts
<1>10. Replaced(s, i, u, Seek(at, u, i))
  BY <1>5, <1>6, <1>7, <1>8, <1>9, CallReplaced
<1>11. ExpandCall(s, i, macro) = [toks |-> u, index |-> Seek(at, u, i)]
  BY <1>2, <1>4, <1>5, <1>6, <1>7, <1>8, <1>9, Zenon DEF ExpandCall
<1>12. ExpandCall(s, i, macro).toks = u /\ ExpandCall(s, i, macro).index = Seek(at, u, i)
  BY <1>11
<1> QED BY <1>10, <1>12, Zenon

MacrosTyped(ms) == \A n \in DOMAIN ms : ms[n] \in MacroType

LEMMA Expanded ==
  ASSUME Spellings, NEW s \in Seq(Word), NEW i \in Nat, NEW ms, MacrosTyped(ms),
         Attempt(s, i, ms) \in {"yes", "overflow"}
  PROVE  Replaced(s, i, ExpandAt(s, i, ms).toks, ExpandAt(s, i, ms).index)
<1>1. Valid(s, i) /\ Current(s, i).txt \in DOMAIN ms
  BY Zenon DEF Attempt
<1>2. PICK macro \in MacroType : macro = ms[Current(s, i).txt]
  BY <1>1, Zenon DEF MacrosTyped
<1>3. CASE macro.call
  <2>1. PICK c : c = ReadCall(s, i, Len(macro.sig)) /\ CallIs(s, i, Len(macro.sig), c)
    <3>1. Len(macro.sig) \in Nat
      BY DEF MacroType
    <3> QED BY <3>1, CallRead
  <2>2. c.status \notin {"abort", "fail"}
    BY <1>1, <1>2, <1>3, <2>1, Zenon DEF Attempt
  <2>3. c.status = "read"
    BY <2>1, <2>2, Zenon DEF CallIs
  <2>4. ReadCall(s, i, Len(macro.sig)).status = "read"
    BY <2>1, <2>3, Zenon
  <2>5. ExpandAt(s, i, ms) = ExpandCall(s, i, macro)
    BY <1>2, <1>3, Zenon DEF ExpandAt
  <2>6. Replaced(s, i, ExpandCall(s, i, macro).toks, ExpandCall(s, i, macro).index)
    BY <2>4, CallExpanded
  <2> QED BY <2>5, <2>6, Zenon
<1>4. CASE ~macro.call
  <2>1. ExpandAt(s, i, ms) = ExpandDef(s, i, macro)
    BY <1>2, <1>4, Zenon DEF ExpandAt
  <2>2. i < Len(s)
    BY <1>1 DEF Valid
  <2>3. Replaced(s, i, ExpandDef(s, i, macro).toks, ExpandDef(s, i, macro).index)
    BY <2>2, DefExpanded
  <2> QED BY <2>1, <2>3, Zenon
<1> QED BY <1>3, <1>4

-----------------------------------------------------------------------------

FlagType == [is_eol : BOOLEAN, do_cpp : BOOLEAN, do_expansion : BOOLEAN,
             skip_paren : BOOLEAN, skip_all : BOOLEAN]

(* The state is well typed, and a directive is being collected or not.     *)
Typed ==
  /\ toks \in Seq(Word) /\ line \in Seq(Word)
  /\ DOMAIN macros \subseteq Names /\ MacrosTyped(macros)
  /\ index \in 0 .. Len(toks)
  /\ flags \in FlagType /\ flags.do_cpp = (line # <<>>)
  /\ outcome \in {"running", "parsed", "failed", "corrupted"}

LEMMA InDirectiveTyped ==
  ASSUME NEW f \in FlagType
  PROVE  InDirective(f) \in FlagType /\ InDirective(f).do_cpp = f.do_cpp
<1>1. PICK g : g = InDirective(f)
  OBVIOUS
<1>2. /\ f.is_eol \in BOOLEAN /\ f.do_cpp \in BOOLEAN /\ f.do_expansion \in BOOLEAN
      /\ f.skip_paren \in BOOLEAN /\ f.skip_all \in BOOLEAN
  BY DEF FlagType
<1>3. CASE g = [f EXCEPT !.do_expansion = FALSE, !.skip_all = TRUE]
  BY <1>1, <1>3 DEF FlagType
<1>4. CASE g = [f EXCEPT !.do_expansion = FALSE, !.skip_paren = TRUE]
  BY <1>1, <1>4 DEF FlagType
<1>5. CASE g = [f EXCEPT !.do_expansion = FALSE]
  BY <1>1, <1>5 DEF FlagType
<1>6. CASE g = f
  BY <1>1, <1>6
<1>7. CASE g = [f EXCEPT !.skip_paren = FALSE]
  BY <1>1, <1>7 DEF FlagType
<1>8. CASE g = [f EXCEPT !.do_expansion = TRUE]
  BY <1>1, <1>8 DEF FlagType
<1>9. CASE g = [f EXCEPT !.do_expansion = ~f.skip_all]
  BY <1>1, <1>9 DEF FlagType
<1>10. \/ g = [f EXCEPT !.do_expansion = FALSE, !.skip_all = TRUE]
       \/ g = [f EXCEPT !.do_expansion = FALSE, !.skip_paren = TRUE]
       \/ g = [f EXCEPT !.do_expansion = FALSE]
       \/ g = f
       \/ g = [f EXCEPT !.skip_paren = FALSE]
       \/ g = [f EXCEPT !.do_expansion = TRUE]
       \/ g = [f EXCEPT !.do_expansion = ~f.skip_all]
  BY <1>1, Zenon DEF InDirective
<1> QED BY <1>3, <1>4, <1>5, <1>6, <1>7, <1>8, <1>9, <1>10

(* Only a hash begins a directive; none ends at a token.                   *)
LEMMA NotedTyped ==
  ASSUME flags \in FlagType
  PROVE  /\ Noted \in FlagType
         /\ Noted.do_cpp # flags.do_cpp => Noted.do_cpp /\ Cur.ty = "HASH"
<1>1. PICK f \in FlagType : f = flags
  OBVIOUS
<1>2. PICK g : g = Noted
  OBVIOUS
<1>3. CASE Cur.ty = "HASH"
  <2>1. g = IF f.is_eol THEN [f EXCEPT !.do_cpp = TRUE, !.is_eol = FALSE] ELSE f
    BY <1>1, <1>2, <1>3, Zenon DEF Noted
  <2>2. CASE f.is_eol
    BY <1>1, <1>2, <1>3, <2>1, <2>2 DEF FlagType
  <2>3. CASE ~f.is_eol
    BY <1>1, <1>2, <2>1, <2>3
  <2> QED BY <2>2, <2>3
<1>4. CASE Cur.ty = "EOL"
  <2>1. g = [f EXCEPT !.is_eol = TRUE, !.skip_all = FALSE, !.do_expansion = TRUE]
    BY <1>1, <1>2, <1>4, Zenon DEF Noted
  <2>2. g \in FlagType /\ g.do_cpp = f.do_cpp
    BY <2>1 DEF FlagType
  <2> QED BY <1>1, <1>2, <2>2
<1>5. CASE Cur.ty \notin {"HASH", "EOL"}
  <2>1. PICK h : h = [f EXCEPT !.is_eol = FALSE]
    OBVIOUS
  <2>2. g = IF h.do_cpp THEN InDirective(h) ELSE h
    BY <1>1, <1>2, <1>5, <2>1, Zenon DEF Noted
  <2>3. h \in FlagType /\ h.do_cpp = f.do_cpp
    BY <2>1 DEF FlagType
  <2>4. InDirective(h) \in FlagType /\ InDirective(h).do_cpp = h.do_cpp
    BY <2>3, InDirectiveTyped
  <2>5. g \in FlagType /\ g.do_cpp = f.do_cpp
    BY <2>2, <2>3, <2>4, Zenon
  <2> QED BY <1>1, <1>2, <2>5
<1> QED BY <1>3, <1>4, <1>5

-----------------------------------------------------------------------------

(* The walk: in front of the cursor is no newline.                         *)
Kept == PlainTo(toks, index)
Done == outcome = "parsed" => index = Len(toks)

LEMMA CurDeleted ==
  ASSUME Typed, Valid(toks, index), Deletes
  PROVE  Replaced(toks, index, toks', index')
<1>1. PICK s \in Seq(Word), i \in Nat : s = toks /\ i = index
  BY DEF Typed
<1>2. PICK u, j : u = toks' /\ j = index'
  OBVIOUS
<1>3. i < Len(s) /\ i + 1 <= Len(s) /\ 1 \in Nat
  BY <1>1 DEF Valid
<1>4. Removed(s, DelRange(s, i, 1), i, 1)
  BY <1>3, DelRangeRemoves
<1>5. u = DelRange(s, i, 1) /\ j = Clamp(i, Len(u))
  BY <1>1, <1>2 DEF Deletes, DelCur
<1>6. Replaced(s, i, u, Clamp(i, Len(u)))
  BY <1>3, <1>4, <1>5, RemovedReplaces
<1> QED BY <1>1, <1>2, <1>5, <1>6

LEMMA RoundReplaces ==
  ASSUME Spellings, Typed, ExpandRound
  PROVE  /\ Replaced(toks, index, toks', index')
         /\ outcome' = outcome \/ outcome' = "corrupted"
<1>1. PICK s \in Seq(Word), i \in Nat, ms \in {macros} : s = toks /\ i = index /\ ms = macros
  BY DEF Typed
<1>2. PICK u, j : u = toks' /\ j = index'
  OBVIOUS
<1>3. MacrosTyped(ms) /\ i <= Len(s)
  BY <1>1 DEF Typed
<1>4. CASE /\ Expandable(toks, index) /\ outcome' = outcome
           /\ \E e \in {ExpandAt(toks, index, macros)} : toks' = e.toks /\ index' = e.index
  <2>1. Attempt(s, i, ms) \in {"yes", "overflow"}
    BY <1>1, <1>4, Zenon DEF Expandable, Try
  <2>2. Replaced(s, i, ExpandAt(s, i, ms).toks, ExpandAt(s, i, ms).index)
    BY <1>3, <2>1, Expanded
  <2>3. u = ExpandAt(s, i, ms).toks /\ j = ExpandAt(s, i, ms).index
    BY <1>1, <1>2, <1>4, Zenon
  <2>4. Replaced(s, i, u, j)
    BY <2>2, <2>3, Zenon
  <2> QED BY <1>1, <1>2, <1>4, <2>4, Zenon
<1>5. CASE toks' = toks /\ index' = index /\ (outcome' = outcome \/ outcome' = "corrupted")
  <2>1. Replaced(s, i, s, i)
    BY <1>3 DEF Replaced
  <2> QED BY <1>1, <1>5, <2>1
<1> QED BY <1>4, <1>5, Zenon DEF ExpandRound

(* Reading a token and replacing names: the flags and the line go on, the  *)
(* macros and the groups stay.                                             *)
LEMMA ReadTyped ==
  ASSUME Spellings, Typed, Kept, outcome = "running", Read
  PROVE  /\ Typed' /\ Kept' /\ outcome' # "parsed"
         /\ UNCHANGED <<level, skip, seen, effects, macros>>
<1>1. /\ toks \in Seq(Word) /\ line \in Seq(Word) /\ index \in 0 .. Len(toks)
      /\ flags \in FlagType /\ flags.do_cpp = (line # <<>>)
      /\ DOMAIN macros \subseteq Names /\ MacrosTyped(macros)
  BY DEF Typed
<1>2. Valid(toks, index) /\ flags' = Noted
  BY DEF Read
<1>3. Noted \in FlagType /\ (Noted.do_cpp # flags.do_cpp => Noted.do_cpp /\ Cur.ty = "HASH")
  BY <1>1, NotedTyped
<1>4. Cur \in Word
  BY <1>1, <1>2 DEF Cur, Current, Valid
<1>5. ASSUME UNCHANGED <<level, skip, seen, effects, macros>>, outcome' \in {"running", "corrupted"},
             toks' \in Seq(Word), index' \in 0 .. Len(toks'), PlainTo(toks', index'),
             line' \in Seq(Word), Noted.do_cpp = (line' # <<>>)
      PROVE  /\ Typed' /\ Kept' /\ outcome' # "parsed"
             /\ UNCHANGED <<level, skip, seen, effects, macros>>
  <2>1. Typed'
    BY <1>1, <1>2, <1>3, <1>5 DEF Typed, MacrosTyped
  <2> QED BY <1>5, <2>1 DEF Kept
<1>6. ASSUME Replaced(toks, index, toks', index')
      PROVE  toks' \in Seq(Word) /\ index' \in 0 .. Len(toks') /\ PlainTo(toks', index')
  BY <1>6 DEF Replaced, Kept
<1>7. ASSUME ~Noted.do_cpp
      PROVE  Noted.do_cpp = (line # <<>>)
  <2>1. Noted.do_cpp = flags.do_cpp
    BY <1>3, <1>7
  <2> QED BY <1>1, <2>1
<1>8. CASE Drop /\ Unexpanded
  <2>1. Replaced(toks, index, toks', index') /\ line' = line
    BY <1>2, <1>8, CurDeleted DEF Drop
  <2>2. ~Noted.do_cpp
    BY <1>8 DEF Drop, Drops
  <2>3. Noted.do_cpp = (line' # <<>>)
    BY <1>7, <2>1, <2>2
  <2> QED BY <1>1, <1>5, <1>6, <1>8, <2>1, <2>3 DEF Unexpanded, condVars
<1>9. CASE Collect /\ Unexpanded
  <2>1. Replaced(toks, index, toks', index') /\ line' = Append(line, Cur) /\ Noted.do_cpp
    BY <1>2, <1>9, CurDeleted DEF Collect
  <2>2. line' \in Seq(Word) /\ line' # <<>>
    BY <1>1, <1>4, <2>1
  <2>3. Noted.do_cpp = (line' # <<>>)
    BY <1>3, <2>1, <2>2 DEF FlagType
  <2> QED BY <1>5, <1>6, <1>9, <2>1, <2>2, <2>3 DEF Unexpanded, condVars
<1>10. CASE Keep /\ Unexpanded
  <2>1. toks' = toks /\ index' = index + 1 /\ line' = line /\ ~Noted.do_cpp /\ Cur.ty # "EOL"
    BY <1>10 DEF Keep, Drops
  <2>2. index' \in 0 .. Len(toks')
    BY <1>1, <1>2, <2>1 DEF Valid
  <2>3. PlainTo(toks', index')
    <3>1. ASSUME NEW k \in 1 .. index + 1
          PROVE  toks[k].ty # "EOL"
      <4>1. CASE k = index + 1
        BY <2>1, <4>1 DEF Cur, Current
      <4>2. CASE k # index + 1
        <5>1. k \in 1 .. index
          BY <1>1, <4>2
        <5> QED BY <5>1 DEF Kept, PlainTo
      <4> QED BY <4>1, <4>2
    <3>2. PlainTo(toks, index + 1)
      BY <3>1 DEF PlainTo
    <3> QED BY <2>1, <3>2
  <2>4. Noted.do_cpp = (line' # <<>>)
    BY <1>7, <2>1
  <2> QED BY <1>1, <1>5, <1>10, <2>1, <2>2, <2>3, <2>4 DEF Unexpanded, condVars
<1>11. CASE Expand
  <2>1. ExpandRound /\ line' = line /\ Cur.ty = "NAME"
        /\ UNCHANGED <<level, skip, seen, effects, macros>>
    BY <1>11 DEF Expand, Expands
  <2>2. Replaced(toks, index, toks', index') /\ outcome' \in {"running", "corrupted"}
    BY <2>1, RoundReplaces
  <2>3. Noted.do_cpp = flags.do_cpp
    BY <1>3, <2>1
  <2>4. Noted.do_cpp = (line' # <<>>)
    BY <1>1, <2>1, <2>3
  <2> QED BY <1>1, <1>5, <1>6, <2>1, <2>2, <2>4
<1> QED BY <1>8, <1>9, <1>10, <1>11 DEF Read

LEMMA AgainTyped ==
  ASSUME Spellings, Typed, Kept, outcome = "running", ExpandAgain
  PROVE  /\ Typed' /\ Kept' /\ outcome' # "parsed"
         /\ UNCHANGED <<level, skip, seen, effects, macros>>
<1>1. /\ UNCHANGED <<level, skip, seen, effects, macros, line, flags>>
      /\ ExpandRound \/ UNCHANGED <<toks, index, outcome>>
  BY DEF ExpandAgain
<1>2. toks' \in Seq(Word) /\ index' \in 0 .. Len(toks') /\ PlainTo(toks', index')
  BY <1>1, RoundReplaces DEF Replaced, Kept, Typed
<1>3. outcome' \in {"running", "corrupted"}
  BY <1>1, RoundReplaces
<1>4. Typed'
  BY <1>1, <1>2, <1>3 DEF Typed, MacrosTyped
<1> QED BY <1>1, <1>2, <1>3, <1>4 DEF Kept

-----------------------------------------------------------------------------

(* A well-formed directive that names something has a name, and #define    *)
(* declares a macro.                                                       *)
Named == {"IFDEF", "IFNDEF", "UNDEF", "DEFINE"}

LEMMA ShapeIs ==
  ASSUME Typed, line # <<>>
  PROVE  /\ Tail(Shape) \in Seq(STRING) /\ Len(Tail(Shape)) = Len(line) - 1
         /\ \A k \in 1 .. Len(line) - 1 : Tail(Shape)[k] = line[k + 1].ty
<1>1. PICK l \in Seq(Word) : l = line /\ l # <<>>
  BY DEF Typed
<1>2. PICK s : s = Shape
  OBVIOUS
<1>3. ASSUME NEW k \in 1 .. Len(l)
      PROVE  l[k].ty \in STRING
  <2>1. l[k] \in Word
    OBVIOUS
  <2> QED BY <2>1 DEF Word
<1>4. s = [k \in 1 .. Len(l) |-> l[k].ty]
  BY <1>1, <1>2 DEF Shape
<1>5. s \in Seq(STRING) /\ Len(s) = Len(l) /\ s # <<>>
  BY <1>1, <1>3, <1>4
<1>6. /\ Tail(s) \in Seq(STRING) /\ Len(Tail(s)) = Len(s) - 1
      /\ \A k \in 1 .. Len(s) - 1 : Tail(s)[k] = s[k + 1]
  BY <1>5
<1> QED BY <1>1, <1>2, <1>4, <1>5, <1>6

LEMMA NamedHasName ==
  ASSUME Typed, line # <<>>, WellFormed, Len(line) > 1, line[2].ty \in Named
  PROVE  /\ Len(line) > 2 /\ Arg \in Names
         /\ line[2].ty = "DEFINE" /\ Len(line) > 3 /\ line[4].ty = "NO_WHITESPACE" => IsSig
<1>1. PICK l \in Seq(Word) : l = line /\ l # <<>> /\ Len(l) > 1
  BY DEF Typed
<1>2. PICK s \in Seq(STRING) : s = Tail(Shape)
  BY ShapeIs
<1>3. Len(s) = Len(l) - 1 /\ \A k \in 1 .. Len(l) - 1 : s[k] = l[k + 1].ty
  BY <1>1, <1>2, ShapeIs
<1>4. Len(s) >= 1 /\ s[1] \in Named /\ s[1] = l[2].ty
  BY <1>1, <1>3
<1>5. \/ s \in {<<>>, <<"ELSE">>, <<"ENDIF">>, <<"INCLUDE", "HEADER">>}
      \/ s \in {"IFDEF", "IFNDEF", "UNDEF"} \X {"NAME"}
      \/ s # <<>> /\ s[1] \in {"IF", "ELIF"}
      \/ Len(s) > 1 /\ s[1] = "DEFINE" /\ s[2] = "NAME"
           /\ (Len(s) > 2 /\ s[3] = "NO_WHITESPACE" => IsSig)
  BY <1>2, Zenon DEF WellFormed
<1>6. s \notin {<<>>, <<"ELSE">>, <<"ENDIF">>, <<"INCLUDE", "HEADER">>}
  BY <1>4 DEF Named
<1>7. s[1] \notin {"IF", "ELIF"}
  BY <1>4 DEF Named
<1>8. CASE s \in {"IFDEF", "IFNDEF", "UNDEF"} \X {"NAME"}
  <2>1. Len(s) = 2 /\ s[1] # "DEFINE"
    BY <1>8
  <2>2. Len(l) > 2 /\ l[3].txt \in Names
    <3>1. Len(l) > 2 /\ l[3] \in Word
      BY <1>3, <2>1
    <3> QED BY <3>1 DEF Word
  <2> QED BY <1>1, <1>4, <2>1, <2>2 DEF Arg
<1>9. CASE Len(s) > 1 /\ (Len(s) > 2 /\ s[3] = "NO_WHITESPACE" => IsSig)
  <2>1. Len(l) > 2 /\ l[3].txt \in Names
    <3>1. Len(l) > 2 /\ l[3] \in Word
      BY <1>3, <1>9
    <3> QED BY <3>1 DEF Word
  <2>2. Len(l) > 3 => s[3] = l[4].ty /\ Len(s) > 2
    BY <1>3
  <2> QED BY <1>1, <1>9, <2>1, <2>2 DEF Arg
<1> QED BY <1>5, <1>6, <1>7, <1>8, <1>9

LEMMA SigEnds ==
  ASSUME Typed, SigEnd > 5
  PROVE  SigEnd \in 6 .. Len(line)
<1>1. PICK l \in Seq(Word) : l = line
  BY DEF Typed
<1> DEFINE closing == {k \in DOMAIN line : line[k].ty = "RPAREN"}
<1>3. closing \in SUBSET Nat /\ closing \subseteq 1 .. Len(l)
  BY <1>1
<1>4. SigEnd = IF closing = {} THEN 0 ELSE CHOOSE k \in closing : \A j \in closing : k <= j
  BY Zenon DEF SigEnd
<1> HIDE DEF closing
<1>5. closing # {}
  BY <1>4
<1>6. \E k \in closing : \A j \in closing : k <= j
  BY <1>3, <1>5, LeastElement
<1>7. SigEnd \in closing
  BY <1>4, <1>5, <1>6, Zenon
<1> QED BY <1>1, <1>3, <1>7

LEMMA DeclaredTyped ==
  ASSUME Typed, line # <<>>, WellFormed, Is("DEFINE")
  PROVE  Declared \in MacroType /\ Arg \in Names
<1>1. PICK l \in Seq(Word) : l = line
  BY DEF Typed
<1>2. Len(line) > 1 /\ line[2].ty = "DEFINE" /\ line[2].ty \in Named
  BY DEF Is, Named
<1>3. Len(l) > 2 /\ Arg \in Names /\ (Len(l) > 3 /\ l[4].ty = "NO_WHITESPACE" => IsSig)
  BY <1>1, <1>2, NamedHasName
<1>4. CASE Len(l) > 3 /\ l[4].ty = "NO_WHITESPACE"
  <2>1. SigEnd > 5
    BY <1>3, <1>4 DEF IsSig
  <2>2. PICK end \in 6 .. Len(l) : end = SigEnd
    BY <1>1, <2>1, SigEnds
  <2>3. PICK sig : sig = [n \in 1 .. (end - 5) \div 2 |-> l[4 + 2 * n].txt]
    OBVIOUS
  <2>4. PICK c \in Nat : c = (end - 5) \div 2 /\ 2 * c <= end - 5
    OBVIOUS
  <2>5. ASSUME NEW n \in 1 .. c
        PROVE  l[4 + 2 * n].txt \in Names
    <3>1. 4 + 2 * n \in 1 .. Len(l)
      BY <2>4
    <3>2. l[4 + 2 * n] \in Word
      BY <3>1
    <3> QED BY <3>2 DEF Word
  <2>6. sig \in Seq(Names)
    BY <2>3, <2>4, <2>5
  <2>7. SubSeq(l, end + 1, Len(l)) \in Seq(Word)
    OBVIOUS
  <2>8. Declared = [call |-> TRUE, sig |-> sig, tokens |-> SubSeq(l, end + 1, Len(l))]
    BY <1>1, <1>4, <2>2, <2>3, Zenon DEF Declared
  <2> QED BY <1>3, <2>6, <2>7, <2>8 DEF MacroType
<1>5. CASE ~(Len(l) > 3 /\ l[4].ty = "NO_WHITESPACE")
  <2>1. Declared = [call |-> FALSE, sig |-> <<>>, tokens |-> SubSeq(l, 4, Len(l))]
    BY <1>1, <1>5, Zenon DEF Declared
  <2>2. SubSeq(l, 4, Len(l)) \in Seq(Word) /\ <<>> \in Seq(Names)
    BY <1>3
  <2> QED BY <1>3, <2>1, <2>2 DEF MacroType
<1> QED BY <1>4, <1>5

-----------------------------------------------------------------------------

(* What is proved about the execution of directives.  No assertion of a    *)
(* conditional fails, whatever the assertions of conditions do.            *)
Conditionals == INSTANCE CppCond_proofs WITH defs <- DOMAIN macros, status <- "running"

LEMMA OpenIsOpen ==
  ASSUME MaxLevel <= Width, Conditionals!IInv, NEW c \in BOOLEAN, Cond!Open(c)
  PROVE  Conditionals!Open(c) /\ status' = status
<1>1. level < MaxLevel /\ level \in Nat /\ Width \in Nat \ {0} /\ MaxLevel \in Nat
  BY MaskAssumption DEF Cond!Open, Conditionals!IInv, Conditionals!TypeOK
<1>2. ~Conditionals!Masked(level + 1, seen)
  BY <1>1, Conditionals!FreshBitClear
<1>3. ~Cond!Masked(level + 1, seen)
  BY <1>2 DEF Cond!Masked, Conditionals!Masked, Cond!Bit, Conditionals!Bit
<1> QED BY <1>2, <1>3 DEF Cond!Open, Conditionals!Open, Cond!Bit, Conditionals!Bit

LEMMA BranchIsBranch ==
  ASSUME MaxLevel <= Width, Conditionals!IInv, NEW c \in BOOLEAN, Cond!Branch(c)
  PROVE  Conditionals!Branch(c) /\ status' = status
<1>1. skip <= level /\ skip \in Nat /\ level \in Nat
  BY MaskAssumption DEF Conditionals!IInv, Conditionals!TypeOK, Conditionals!LevelsConsistent
<1> QED BY <1>1 DEF Cond!Branch, Conditionals!Branch, Cond!Bit, Conditionals!Bit,
              Cond!Masked, Conditionals!Masked, Cond!Skipped, Conditionals!Skipped

LEMMA EndifIsEndif ==
  ASSUME Cond!Endif
  PROVE  Conditionals!Endif /\ status' = status
BY DEF Cond!Endif, Conditionals!Endif, Cond!Bit, Conditionals!Bit, Cond!Skipped, Conditionals!Skipped

(* What a directive does to the groups and to the names of macros.         *)
DirectiveStep ==
  \/ \E c \in BOOLEAN : Conditionals!Open(c) \/ Conditionals!Branch(c)
  \/ Conditionals!Endif
  \/ \E n \in Names : Conditionals!Define(n) \/ Conditionals!Undef(n)

LEMMA ConditionalStep ==
  ASSUME MaxLevel <= Width, Conditionals!IInv, Conditional
  PROVE  /\ DirectiveStep \/ UNCHANGED <<level, skip, seen, effects>>
         /\ status' = status
<1>1. ASSUME NEW c, Cond!Open(c) /\ c \in BOOLEAN
      PROVE  DirectiveStep /\ status' = status
  BY <1>1, OpenIsOpen DEF DirectiveStep
<1>2. ASSUME NEW c, Cond!Branch(c) /\ c \in BOOLEAN
      PROVE  DirectiveStep /\ status' = status
  BY <1>2, BranchIsBranch DEF DirectiveStep
<1>3. CASE Cond!Ifdef(Arg)
  <2>1. (Arg \in DOMAIN macros) \in BOOLEAN /\ Cond!Open(Arg \in DOMAIN macros)
    BY <1>3 DEF Cond!Ifdef
  <2> QED BY <1>1, <2>1
<1>4. CASE Cond!Ifndef(Arg)
  <2>1. (Arg \notin DOMAIN macros) \in BOOLEAN /\ Cond!Open(Arg \notin DOMAIN macros)
    BY <1>4 DEF Cond!Ifndef
  <2> QED BY <1>1, <2>1
<1>5. Value \in BOOLEAN
  BY Zenon DEF Value
<1>6. CASE Cond!If(Value)
  <2>1. Cond!Open(Value)
    BY <1>6 DEF Cond!If
  <2> QED BY <1>1, <1>5, <2>1
<1>7. CASE Cond!Elif(Value)
  <2>1. Cond!Branch(Value)
    BY <1>7 DEF Cond!Elif
  <2> QED BY <1>2, <1>5, <2>1
<1>8. CASE Cond!Else
  <2>1. TRUE \in BOOLEAN /\ Cond!Branch(TRUE)
    BY <1>8 DEF Cond!Else
  <2> QED BY <1>2, <2>1, Zenon
<1>9. CASE Cond!Endif
  BY <1>9, EndifIsEndif DEF DirectiveStep
<1>10. CASE UNCHANGED <<level, skip, seen, effects, status>>
  BY <1>10
<1> QED BY <1>3, <1>4, <1>6, <1>7, <1>8, <1>9, <1>10, Zenon DEF Conditional

(* One directive: the words stay words, and the groups and the names of    *)
(* macros take a step of CppCond, or none.                                 *)
LEMMA ExecTyped ==
  ASSUME Spellings, MaxLevel <= Width, Conditionals!IInv, Typed, Kept,
         line # <<>>, WellFormed, Exec, Valid(toks, index)
  PROVE  /\ toks' \in Seq(Word) /\ index' \in 0 .. Len(toks') /\ PlainTo(toks', index')
         /\ DOMAIN macros' \subseteq Names /\ MacrosTyped(macros')
         /\ DirectiveStep \/ UNCHANGED <<level, skip, seen, effects, DOMAIN macros>>
<1>1. /\ toks \in Seq(Word) /\ index \in 0 .. Len(toks) /\ PlainTo(toks, index)
      /\ DOMAIN macros \subseteq Names /\ MacrosTyped(macros)
  BY DEF Typed, Kept
<1>2. CASE UNCHANGED <<macros, toks, index>> /\ Conditional
  BY <1>1, <1>2, ConditionalStep
<1>3. CASE /\ Is("DEFINE")
           /\ macros' = IF skip = 0
                        THEN [n \in DOMAIN macros \union {Arg} |-> IF n = Arg THEN Declared ELSE macros[n]]
                        ELSE macros
           /\ UNCHANGED <<level, skip, seen, effects, status, toks, index>>
  <2>1. PICK d \in MacroType, a \in Names : d = Declared /\ a = Arg
    BY <1>3, DeclaredTyped
  <2>2. macros' = IF skip = 0
                  THEN [n \in DOMAIN macros \union {a} |-> IF n = a THEN d ELSE macros[n]] ELSE macros
    BY <1>3, <2>1, Zenon
  <2>3. DOMAIN macros' \subseteq Names /\ MacrosTyped(macros')
    BY <1>1, <2>2 DEF MacrosTyped
  <2>4. DOMAIN macros' = IF skip = 0 THEN DOMAIN macros \union {a} ELSE DOMAIN macros
    BY <2>2
  <2>5. Conditionals!Define(a)
    BY <1>3, <2>4 DEF Conditionals!Define
  <2>6. DirectiveStep
    BY <2>5 DEF DirectiveStep
  <2> QED BY <1>1, <1>3, <2>3, <2>6
<1>4. CASE /\ Is("UNDEF")
           /\ macros' = IF skip = 0 THEN [n \in DOMAIN macros \ {Arg} |-> macros[n]] ELSE macros
           /\ UNCHANGED <<level, skip, seen, effects, status, toks, index>>
  <2>1. PICK a \in Names : a = Arg
    <3>1. Len(line) > 1 /\ line[2].ty \in Named
      BY <1>4 DEF Is, Named
    <3>2. Arg \in Names
      BY <3>1, NamedHasName
    <3> QED BY <3>2
  <2>2. macros' = IF skip = 0 THEN [n \in DOMAIN macros \ {a} |-> macros[n]] ELSE macros
    BY <1>4, <2>1, Zenon
  <2>3. DOMAIN macros' \subseteq Names /\ MacrosTyped(macros')
    BY <1>1, <2>2 DEF MacrosTyped
  <2>4. DOMAIN macros' = IF skip = 0 THEN DOMAIN macros \ {a} ELSE DOMAIN macros
    BY <2>2
  <2>5. Conditionals!Undef(a)
    BY <1>4, <2>4 DEF Conditionals!Undef
  <2>6. DirectiveStep
    BY <2>5 DEF DirectiveStep
  <2> QED BY <1>1, <1>4, <2>3, <2>6
<1>5. CASE /\ skip # 0 /\ UNCHANGED <<toks, index>>
           /\ UNCHANGED <<level, skip, seen, effects, status, macros>>
  BY <1>1, <1>5
<1>6. CASE /\ skip = 0 /\ toks' = InsRange(toks, index, Header) /\ index' = index + Len(Header)
           /\ UNCHANGED <<level, skip, seen, effects, status, macros>>
  <2>1. PICK s \in Seq(Word), i \in Nat : s = toks /\ i = index /\ i <= Len(s)
    BY <1>1
  <2>2. PICK e \in Seq(Plain) : e = Header /\ e \in Seq(Word)
    <3>1. Header \in Seq(Plain)
      BY Zenon DEF Spellings
    <3>2. Plain \subseteq Word
      BY PlainIsWord
    <3>3. Header \in Seq(Word)
      BY <3>1, <3>2, Widened
    <3> QED BY <3>1, <3>3
  <2>3. PICK u : u = InsRange(s, i, e) /\ Inserted(s, u, i, e)
    BY <2>1, <2>2, InsRangeInserts
  <2>4. PICK l \in Nat : l = Len(e)
    BY <2>2
  <2>5. u \in Seq(Word) /\ i + l \in 0 .. Len(u)
    BY <2>1, <2>3, <2>4 DEF Inserted
  <2>6. PlainTo(u, i + l)
    <3>1. ASSUME NEW k \in 1 .. i + l
          PROVE  u[k].ty # "EOL"
      <4>1. CASE k <= i
        <5>1. k \in 1 .. i /\ u[k] = s[k]
          BY <2>3, <4>1 DEF Inserted
        <5>2. s[k].ty # "EOL"
          BY <1>1, <2>1, <5>1 DEF PlainTo
        <5> QED BY <5>1, <5>2
      <4>2. CASE ~(k <= i)
        <5>1. PICK x \in 1 .. l : i + x = k
          <6>1. k - i \in 1 .. l /\ i + (k - i) = k
            BY <4>2
          <6> QED BY <6>1
        <5>2. u[k] = e[x] /\ e[x] \in Plain
          BY <2>2, <2>3, <2>4, <5>1 DEF Inserted
        <5> QED BY <5>2 DEF Plain
      <4> QED BY <4>1, <4>2
    <3> QED BY <3>1 DEF PlainTo
  <2>7. toks' = u /\ index' = i + l
    BY <1>6, <2>1, <2>2, <2>3, <2>4
  <2> QED BY <1>1, <1>6, <2>5, <2>6, <2>7
<1>7. CASE UNCHANGED <<level, skip, seen, effects, macros, toks, index>>
  BY <1>1, <1>7
<1> QED BY <1>2, <1>3, <1>4, <1>5, <1>6, <1>7, Zenon DEF Exec

LEMMA ExecuteTyped ==
  ASSUME Spellings, MaxLevel <= Width, Conditionals!IInv, Typed, Kept,
         outcome = "running", Execute
  PROVE  /\ Typed' /\ Kept' /\ outcome' # "parsed"
         /\ DirectiveStep \/ UNCHANGED <<level, skip, seen, effects, DOMAIN macros>>
<1>1. /\ toks \in Seq(Word) /\ index \in 0 .. Len(toks) /\ PlainTo(toks, index)
      /\ DOMAIN macros \subseteq Names /\ MacrosTyped(macros)
      /\ flags \in FlagType /\ flags.do_cpp = (line # <<>>)
  BY DEF Typed, Kept
<1>2. /\ Valid(toks, index) /\ flags' = [Noted EXCEPT !.do_cpp = FALSE] /\ line' = <<>>
      /\ flags.do_cpp
  BY DEF Execute
<1>3. flags' \in FlagType /\ flags'.do_cpp = (line' # <<>>) /\ line' \in Seq(Word)
  <2>1. PICK f \in FlagType : f = Noted
    BY <1>1, NotedTyped
  <2>2. flags' = [f EXCEPT !.do_cpp = FALSE]
    BY <1>2, <2>1
  <2>3. flags' \in FlagType /\ flags'.do_cpp = FALSE
    BY <2>2 DEF FlagType
  <2>4. line' = <<>> /\ <<>> \in Seq(Word)
    BY <1>2
  <2> QED BY <2>3, <2>4
<1>4. ASSUME toks' \in Seq(Word), index' \in 0 .. Len(toks'), PlainTo(toks', index'),
             DOMAIN macros' \subseteq Names, MacrosTyped(macros'), outcome' \in {"running", "failed"}
      PROVE  Typed' /\ Kept' /\ outcome' # "parsed"
  <2>1. Typed'
    BY <1>3, <1>4 DEF Typed, MacrosTyped
  <2> QED BY <1>4, <2>1 DEF Kept
<1>5. CASE WellFormed /\ Exec /\ outcome' = outcome
  BY <1>1, <1>2, <1>4, <1>5, ExecTyped
<1>6. CASE outcome' = "failed" /\ UNCHANGED <<condVars, toks, index>>
  BY <1>1, <1>4, <1>6 DEF condVars
<1> QED BY <1>5, <1>6 DEF Execute

-----------------------------------------------------------------------------

(* The inductive invariant: the state is well typed, in front of the       *)
(* cursor is no newline, the walk ends at the end of the list, and the     *)
(* numbers of the conditionals are consistent.                             *)
IInv ==
  /\ Typed /\ Kept /\ Done
  /\ status \in {"running", "aborted"}
  /\ Conditionals!IInv

LEMMA DirectiveIsNext ==
  ASSUME DirectiveStep
  PROVE  Conditionals!Next
<1>1. ASSUME NEW c \in BOOLEAN, Conditionals!Open(c)
      PROVE  Conditionals!Exec
  <2>1. Conditionals!If(c)
    BY <1>1 DEF Conditionals!If
  <2> QED BY <2>1 DEF Conditionals!Exec
<1>2. ASSUME NEW c \in BOOLEAN, Conditionals!Branch(c)
      PROVE  Conditionals!Exec
  <2>1. Conditionals!Elif(c)
    BY <1>2 DEF Conditionals!Elif
  <2> QED BY <2>1 DEF Conditionals!Exec
<1>3. ASSUME Conditionals!Endif \/ \E n \in Names : Conditionals!Define(n) \/ Conditionals!Undef(n)
      PROVE  Conditionals!Exec
  BY <1>3 DEF Conditionals!Exec
<1>4. Conditionals!Exec
  BY <1>1, <1>2, <1>3 DEF DirectiveStep
<1> QED BY <1>4 DEF Conditionals!Next

(* Every step is a step of the conditional state, or none.                 *)
LEMMA NextTyped ==
  ASSUME Spellings, MaxLevel <= Width, IInv, Next
  PROVE  /\ Typed' /\ Kept' /\ Done'
         /\ Conditionals!Next \/ UNCHANGED <<level, skip, seen, effects, DOMAIN macros>>
<1>1. Typed /\ Kept /\ Conditionals!IInv /\ outcome = "running"
  BY DEF IInv, Next
<1>2. CASE Read
  <2>1. Typed' /\ Kept' /\ outcome' # "parsed" /\ UNCHANGED <<level, skip, seen, effects, macros>>
    BY <1>1, <1>2, ReadTyped
  <2> QED BY <2>1 DEF Done
<1>3. CASE ExpandAgain
  <2>1. Typed' /\ Kept' /\ outcome' # "parsed" /\ UNCHANGED <<level, skip, seen, effects, macros>>
    BY <1>1, <1>3, AgainTyped
  <2> QED BY <2>1 DEF Done
<1>4. CASE Execute
  <2>1. /\ Typed' /\ Kept' /\ outcome' # "parsed"
        /\ DirectiveStep \/ UNCHANGED <<level, skip, seen, effects, DOMAIN macros>>
    BY <1>1, <1>4, ExecuteTyped
  <2> QED BY <2>1, DirectiveIsNext DEF Done
<1>5. CASE Finish
  <2>1. /\ ~Valid(toks, index) /\ outcome' = "parsed"
        /\ UNCHANGED <<level, skip, seen, effects, macros, toks, index, line, flags>>
    BY <1>5 DEF Finish, condVars
  <2>2. index = Len(toks)
    BY <1>1, <2>1 DEF Typed, Valid
  <2>3. Typed'
    BY <1>1, <2>1 DEF Typed, MacrosTyped
  <2> QED BY <1>1, <2>1, <2>2, <2>3 DEF Done, Kept
<1> QED BY <1>2, <1>3, <1>4, <1>5 DEF Next

LEMMA StatusStep ==
  ASSUME MaxLevel <= Width, IInv, Next
  PROVE  status' \in {"running", "aborted"}
<1>1. status = "running" /\ Conditionals!IInv
  BY DEF IInv, Next
<1>2. ASSUME Read \/ ExpandAgain
      PROVE  status' \in {status, "aborted"}
  BY <1>2 DEF Read, Unexpanded, condVars, Expand, ExpandAgain, ExpandRound
<1>3. ASSUME Exec
      PROVE  status' \in {status, "aborted"}
  BY <1>1, <1>3, ConditionalStep DEF Exec
<1>4. ASSUME Execute \/ Finish
      PROVE  status' \in {status, "aborted"}
  BY <1>3, <1>4 DEF Execute, Finish, condVars
<1> QED BY <1>1, <1>2, <1>4 DEF Next

LEMMA StepIInv ==
  ASSUME Spellings, MaxLevel <= Width, IInv, [Next]_vars
  PROVE  IInv'
<1>1. CASE Next
  <2>1. [Conditionals!Next]_(Conditionals!vars)
    BY <1>1, NextTyped DEF Conditionals!vars
  <2>2. Conditionals!IInv /\ Width \in Nat \ {0} /\ MaxLevel \in Nat
    BY MaskAssumption DEF IInv
  <2>3. Conditionals!IInv'
    BY <2>1, <2>2, Conditionals!StepIInv
  <2> QED BY <1>1, <2>3, NextTyped, StatusStep DEF IInv
<1>2. CASE UNCHANGED vars
  <2>1. UNCHANGED <<level, skip, seen, effects, status, macros, toks, index, line, flags, outcome>>
    BY <1>2 DEF vars, condVars
  <2>2. Conditionals!IInv' <=> Conditionals!IInv
    BY <2>1 DEF Conditionals!IInv, Conditionals!TypeOK, Conditionals!LevelsConsistent,
         Conditionals!AssertsHold, Conditionals!Masked, Conditionals!Bit, Conditionals!Kinds
  <2> QED BY <2>1, <2>2 DEF IInv, Typed, MacrosTyped, Kept, Done
<1> QED BY <1>1, <1>2

LEMMA TextTyped ==
  ASSUME Spellings, NEW in \in Inputs
  PROVE  Text(in) \in Seq(Word)
<1>1. in.lines \in Seq(Seq(Word)) /\ EOL \in Word
  BY Zenon DEF Spellings
<1>2. PICK lines \in Seq(Seq(Word)), e \in Word : lines = in.lines /\ e = EOL
  BY <1>1
<1>3. PICK ended : ended = [i \in 1 .. Len(lines) |-> Append(lines[i], e)]
  OBVIOUS
<1>4. ended \in Seq(Seq(Word)) /\ DOMAIN lines = 1 .. Len(lines)
  <2>1. ASSUME NEW i \in 1 .. Len(lines)
        PROVE  Append(lines[i], e) \in Seq(Word)
    <3>1. lines[i] \in Seq(Word)
      OBVIOUS
    <3> QED BY <3>1
  <2> QED BY <1>3, <2>1
<1>5. PICK all \in Seq(Word) : all = FlattenSeq(ended)
  BY <1>4, Flattened
<1>6. Text(in) = IF in.eol \/ all = <<>> THEN all ELSE Front(all)
  BY <1>2, <1>3, <1>4, <1>5, Zenon DEF Text
<1>7. all # <<>> => Front(all) \in Seq(Word)
  BY DEF Front
<1> QED BY <1>6, <1>7

LEMMA SameInit == Init => Conditionals!Init
BY DEF Init, Conditionals!Init

LEMMA InitIInv ==
  ASSUME Spellings, Init
  PROVE  IInv
<1>1. toks \in Seq(Word) /\ index = 0 /\ Len(toks) \in Nat
  BY TextTyped DEF Init
<1>2. DOMAIN macros = {} /\ line = <<>> /\ line \in Seq(Word)
  BY DEF Init
<1>3. flags \in FlagType /\ ~flags.do_cpp
  BY DEF Init, InitialFlags, FlagType
<1>4. outcome = "running" /\ status = "running"
  BY DEF Init
<1>5. Typed
  BY <1>1, <1>2, <1>3, <1>4 DEF Typed, MacrosTyped, FlagType
<1>6. Kept /\ Done
  BY <1>1, <1>4 DEF Kept, Done, PlainTo
<1>7. Conditionals!IInv
  <2>1. Conditionals!Init /\ Width \in Nat \ {0} /\ MaxLevel \in Nat
    BY SameInit, MaskAssumption
  <2> QED BY <2>1, Conditionals!InitIInv
<1> QED BY <1>4, <1>5, <1>6, <1>7 DEF IInv

LEMMA Invariance == ASSUME Spellings, MaxLevel <= Width PROVE Spec => []IInv
<1>1. Init => IInv
  BY InitIInv
<1>2. IInv /\ [Next]_vars => IInv'
  BY StepIInv
<1> QED BY <1>1, <1>2, PTL DEF Spec

-----------------------------------------------------------------------------

(* The cursor stays in the list, directives are collected while the flag   *)
(* says so, only names are defined, and the numbers of the conditionals    *)
(* are in their ranges (cpp.c:191-323), whatever lists are put in and out. *)
THEOREM TypeCorrect ==
  ASSUME Spellings, MaxLevel <= Width
  PROVE  Spec => []TypeOK
<1>1. ASSUME IInv PROVE TypeOK
  <2>1. Cond!TypeOK
    BY <1>1 DEF IInv, Cond!TypeOK, Cond!Kinds, Conditionals!IInv, Conditionals!TypeOK, Conditionals!Kinds
  <2>2. FlagType = [DOMAIN InitialFlags -> BOOLEAN]
    BY DEF FlagType, InitialFlags
  <2> QED BY <1>1, <2>1, <2>2 DEF IInv, Typed, TypeOK
<1> QED BY <1>1, Invariance, PTL

(* The grammar is given no newline (parser.c:217): those of directives and *)
(* of text are dropped (cpp.c:215, 305), and neither macros nor included   *)
(* files bring one in (cpp_tokiter.c:247, cpp.c:409).                      *)
THEOREM NoNewlineIsLeft ==
  ASSUME Spellings, MaxLevel <= Width
  PROVE  Spec => []OneLine
<1>1. ASSUME IInv PROVE OneLine
  <2>1. ASSUME outcome = "parsed", NEW k \in DOMAIN toks
        PROVE  toks[k].ty # "EOL"
    <3>1. k \in 1 .. index
      BY <1>1, <2>1 DEF IInv, Typed, Done
    <3> QED BY <1>1, <3>1 DEF IInv, Kept, PlainTo
  <2> QED BY <2>1 DEF OneLine
<1> QED BY <1>1, Invariance, PTL

(* A step that moves the cursor on is one over live text, which stays.     *)
LEMMA StepKeepsText ==
  ASSUME Spellings, IInv, Next, index' > index
  PROVE  skip = 0 /\ \A k \in 1 .. index : toks'[k] = toks[k]
<1>1. Typed /\ outcome = "running" /\ index \in Nat
  BY DEF IInv, Typed, Next
<1>2. ASSUME Replaced(toks, index, toks', index')
      PROVE  FALSE
  <2>1. index' \in 0 .. Len(toks') /\ index' <= index
    BY <1>2 DEF Replaced
  <2> QED BY <1>1, <2>1
<1>3. CASE Read
  <2>1. Valid(toks, index)
    BY <1>3 DEF Read
  <2>2. CASE Drop \/ Collect
    <3>1. Deletes
      BY <2>2 DEF Drop, Collect
    <3> QED BY <1>1, <1>2, <2>1, <3>1, CurDeleted
  <2>3. CASE Keep
    BY <2>3 DEF Keep, Drops
  <2>4. CASE Expand
    BY <1>1, <1>2, <2>4, RoundReplaces DEF Expand
  <2> QED BY <1>3, <2>2, <2>3, <2>4 DEF Read
<1>4. CASE ExpandAgain
  <2>1. ExpandRound \/ index' = index
    BY <1>4 DEF ExpandAgain
  <2> QED BY <1>1, <1>2, <2>1, RoundReplaces
<1>5. CASE Execute
  <2>1. \/ skip = 0 /\ toks' = InsRange(toks, index, Header)
        \/ index' = index
    BY <1>5 DEF Execute, Exec
  <2>2. skip = 0 /\ toks' = InsRange(toks, index, Header)
    BY <1>1, <2>1
  <2>3. PICK s \in Seq(Word), i \in Nat : s = toks /\ i = index /\ i <= Len(s)
    BY <1>1 DEF Typed
  <2>4. PICK e \in Seq(Word) : e = Header
    <3>1. Header \in Seq(Plain)
      BY Zenon DEF Spellings
    <3>2. Plain \subseteq Word
      BY PlainIsWord
    <3>3. Header \in Seq(Word)
      BY <3>1, <3>2, Widened
    <3> QED BY <3>3
  <2>5. PICK u : u = InsRange(s, i, e) /\ Inserted(s, u, i, e)
    BY <2>3, <2>4, InsRangeInserts
  <2>6. toks' = u
    BY <2>2, <2>3, <2>4, <2>5
  <2> QED BY <2>2, <2>3, <2>5, <2>6 DEF Inserted
<1>6. CASE Finish
  BY <1>1, <1>6 DEF Finish
<1> QED BY <1>3, <1>4, <1>5, <1>6 DEF Next

(* Text is walked past only where no group is skipped (cpp.c:265, 317,     *)
(* 418), and what is walked past then is not touched by that.              *)
THEOREM OnlyLiveTextIsKept ==
  ASSUME Spellings, MaxLevel <= Width
  PROVE  Spec => SkippedIsLost
<1>1. IInv /\ [Next]_vars
        => [index' > index => skip = 0 /\ \A k \in 1 .. index : toks'[k] = toks[k]]_vars
  BY StepKeepsText
<1> QED BY <1>1, Invariance, PTL DEF Spec, SkippedIsLost

(* A step of the walk is a directive of CppCond or leaves the groups and   *)
(* the names of macros alone, and the assertions of cpp_exp.c hold, though *)
(* others may not.                                                         *)
LEMMA ConditionalsAct ==
  ASSUME Spellings, MaxLevel <= Width
  PROVE  Spec => Conditionals!Spec
<1>1. Init => Conditionals!Init
  BY SameInit
<1>2. IInv /\ [Next]_vars => [Conditionals!Next]_(Conditionals!vars)
  <2> SUFFICES ASSUME IInv, [Next]_vars
               PROVE  Conditionals!Next \/ UNCHANGED <<level, skip, seen, effects, DOMAIN macros>>
    BY DEF Conditionals!vars
  <2> QED BY NextTyped DEF vars, condVars
<1> QED BY <1>1, <1>2, Invariance, PTL DEF Spec, Conditionals!Spec

LEMMA SameSpec == Conditionals!Spec => Sound!Spec
<1> USE DEF Sound!Bit, Conditionals!Bit, Sound!Masked, Conditionals!Masked,
            Sound!Skipped, Conditionals!Skipped, Sound!Kinds, Conditionals!Kinds
<1>1. Conditionals!Init => Sound!Init
  BY DEF Sound!Init, Conditionals!Init
<1>2. /\ \A c : Conditionals!Open(c) <=> Sound!Open(c)
      /\ \A c : Conditionals!Branch(c) <=> Sound!Branch(c)
      /\ Conditionals!Endif <=> Sound!Endif
      /\ \A n : Conditionals!Define(n) <=> Sound!Define(n)
      /\ \A n : Conditionals!Undef(n) <=> Sound!Undef(n)
      /\ \A k : Conditionals!Effect(k) <=> Sound!Effect(k)
  <2>1. \A c : Conditionals!Open(c) <=> Sound!Open(c)
    BY DEF Sound!Open, Conditionals!Open
  <2>2. \A c : Conditionals!Branch(c) <=> Sound!Branch(c)
    BY DEF Sound!Branch, Conditionals!Branch
  <2>3. Conditionals!Endif <=> Sound!Endif
    BY DEF Sound!Endif, Conditionals!Endif
  <2>4. /\ \A n : Conditionals!Define(n) <=> Sound!Define(n)
        /\ \A n : Conditionals!Undef(n) <=> Sound!Undef(n)
        /\ \A k : Conditionals!Effect(k) <=> Sound!Effect(k)
    BY DEF Sound!Define, Conditionals!Define, Sound!Undef, Conditionals!Undef,
           Sound!Effect, Conditionals!Effect
  <2> QED BY <2>1, <2>2, <2>3, <2>4
<1>3. Conditionals!Exec => Sound!Exec
  BY <1>2 DEF Sound!Exec, Conditionals!Exec,
       Sound!Ifdef, Conditionals!Ifdef, Sound!Ifndef, Conditionals!Ifndef, Sound!If, Conditionals!If,
       Sound!Elif, Conditionals!Elif, Sound!Else, Conditionals!Else
<1>4. [Conditionals!Next]_(Conditionals!vars) => [Sound!Next]_(Sound!vars)
  BY <1>3 DEF Sound!Next, Conditionals!Next, Sound!vars, Conditionals!vars
<1> QED BY <1>1, <1>4, PTL DEF Conditionals!Spec, Sound!Spec

(* A step of the walk is a directive of CppCond that fails no assertion of *)
(* types/cpp_exp.c, or leaves the groups and the names of macros alone:    *)
(* the lines that are kept, dropped or expanded are no other way to change *)
(* them (cpp.c:293).                                                       *)
THEOREM ConditionalsImplemented ==
  ASSUME Spellings, MaxLevel <= Width
  PROVE  Spec => ImplementsCond
BY ConditionalsAct, SameSpec, PTL DEF ImplementsCond

(* So the directives of a text act on one stack of groups, as those of     *)
(* CppCond do (types/cpp_exp.c:221), whatever macros their lines had.      *)
THEOREM OneStackOfGroups ==
  ASSUME Spellings, MaxLevel <= Width
  PROVE  Spec => Conditionals!ImplementsGroups
<1>1. Spec => Conditionals!Spec
  BY ConditionalsAct
<1>2. Width \in Nat \ {0} /\ MaxLevel \in Nat
  BY MaskAssumption
<1>3. Conditionals!Spec => Conditionals!ImplementsGroups
  BY <1>2, Conditionals!Refinement
<1> QED BY <1>1, <1>3, PTL

=============================================================================

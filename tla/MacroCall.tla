----------------------------- MODULE MacroCall -----------------------------
(***************************************************************************)
(* psi_cpp_tokiter_expand: how a macro replaces a token, or a call of it    *)
(* the tokens of the call (cpp_tokiter.c).  A macro is what #define left:   *)
(* [call, sig, tokens]; call says whether there is a list of parameters.    *)
(*                                                                          *)
(* The tokens of a call are read up to the parenthesis that closes it, over *)
(* ends of lines too; where they do not fit the parameters the name stays.  *)
(* The arguments go into the body as they are, and the result is read again *)
(* from its first token.                                                    *)
(***************************************************************************)
EXTENDS CppTokiter

Tok(ty, txt) == [ty |-> ty, txt |-> txt]

Token == [ty : STRING, txt : STRING]
Tokens == Seq(Token)

(***************************************************************************)
(* psi_cpp_tokiter_expand_tokens: a copy of the tokens without ends of      *)
(* lines; a hash makes a string of the token behind it, ## glues it to the  *)
(* token before.                                                            *)
(***************************************************************************)
Copies == [tokens : Tokens, stringify : BOOLEAN, paste : BOOLEAN]

ExpandToken(s, tok) ==
  CASE tok.ty = "EOL" -> s
    [] tok.ty = "HASH" -> [s EXCEPT !.stringify = TRUE]
    [] tok.ty = "PASTE" -> [s EXCEPT !.paste = TRUE]
    [] OTHER ->
         [s EXCEPT !.tokens =
            IF s.paste /\ @ # <<>>
              THEN Append(Front(@), Tok(Last(@).ty, Last(@).txt \o tok.txt))
              ELSE Append(@, IF s.stringify THEN Tok("STRING", tok.txt) ELSE tok),
          !.stringify = FALSE, !.paste = FALSE]

ExpandTokens(tokens) ==
  LET start == [tokens |-> <<>>, stringify |-> FALSE, paste |-> FALSE]
      next(tok) == [s \in Copies |-> ExpandToken(s, tok)]
      copy[i \in 0 .. Len(tokens)] ==
        IF i = 0 THEN start ELSE next(tokens[i])[copy[i - 1]]
  IN copy[Len(tokens)].tokens

(***************************************************************************)
(* psi_cpp_tokiter_read_call_tokens, one token of the call: s.args are the  *)
(* arguments so far, s.open the parentheses that are, s.last where the last *)
(* token that was read is; count is the number of parameters.               *)
(***************************************************************************)
ToArg(s, tok) == [s EXCEPT !.args[Len(s.args)] = Append(@, tok)]

ReadCallToken(s, tok, count) ==
  CASE tok.ty = "LPAREN" -> [ToArg(s, tok) EXCEPT !.open = @ + 1]
    [] tok.ty = "RPAREN" ->
         IF s.open > 1 THEN [ToArg(s, tok) EXCEPT !.open = @ - 1]
         ELSE [s EXCEPT !.status = IF Len(s.args) < count THEN "fail" ELSE "read"]
    [] tok.ty = "COMMA" /\ s.open = 1 ->
         IF Len(s.args) >= count THEN [s EXCEPT !.status = "fail"]
         ELSE [s EXCEPT !.args = Append(@, <<>>)]
    [] OTHER -> ToArg(s, tok)

Calls == [status : {"reading", "read", "fail", "abort"},
          args : Seq(Tokens), open : Nat, last : Nat]

\* The call whose name is at the cursor i: "abort" where the list ends with the
\* name (psi_cpp_tokiter_current asserts that there is a token), else whether
\* its arguments were read, which they are, and where its last token is.
ReadCall(toks, i, count) ==
  LET start == [status |-> "reading", args |-> <<<<>>>>, open |-> 1, last |-> i + 1]
      next[s \in Calls] ==
        IF s.status # "reading" THEN s
        ELSE IF ~Valid(toks, s.last + 1) THEN [s EXCEPT !.status = "fail"]
        ELSE [ReadCallToken(s, Current(toks, s.last + 1), count) EXCEPT !.last = @ + 1]
      read[n \in 0 .. Len(toks)] == IF n = 0 THEN start ELSE next[read[n - 1]]
  IN CASE ~Valid(toks, i + 1) -> [start EXCEPT !.status = "abort"]
       [] Valid(toks, i + 1) /\ Current(toks, i + 1).ty # "LPAREN" ->
            [start EXCEPT !.status = "fail"]
       [] OTHER -> read[Len(toks)]

(***************************************************************************)
(* psi_cpp_tokiter_expand_call_tokens: the body with its parameters         *)
(* replaced.  The list it is collected in has room for one token until one  *)
(* is in it: psi_plist_add_r writes two of them past its end.               *)
(***************************************************************************)
Params(macro, tok) ==
  {s \in DOMAIN macro.sig : tok.ty = "NAME" /\ macro.sig[s] = tok.txt}

Piece(macro, args, tok) ==
  LET s == Params(macro, tok)
  IN IF s = {} THEN <<tok>> ELSE args[CHOOSE p \in s : \A q \in s : p <= q]

Substituted(macro, args) ==
  FlattenSeq([k \in DOMAIN macro.tokens |-> Piece(macro, args, macro.tokens[k])])

Overflows(macro, args) ==
  \E k \in DOMAIN macro.tokens :
    /\ Len(Piece(macro, args, macro.tokens[k])) > 1
    /\ \A j \in 1 .. k - 1 : Piece(macro, args, macro.tokens[j]) = <<>>

(***************************************************************************)
(* psi_cpp_tokiter_expand_call: the call is deleted, and the cursor is to   *)
(* be where it began; where nothing is left there it stays with the token   *)
(* before, and the expansion goes in front of that one.                     *)
(***************************************************************************)
Seek(i, toks, start) == IF Valid(toks, start) THEN start ELSE i

ExpandCall(toks, start, macro) ==
  LET call == ReadCall(toks, start, Len(macro.sig))
      left == DelRange(toks, start, call.last - start + 1)
      at == Seek(Clamp(call.last, Len(left)), left, start)
      new == InsRange(left, at, ExpandTokens(Substituted(macro, call.args)))
  IN [toks |-> new, index |-> Seek(at, new, start)]

\* psi_cpp_tokiter_expand_def: deleting the last token moves the cursor, and the
\* program moves it back.
ExpandDef(toks, i, macro) ==
  [toks |-> InsRange(DelCur(toks, i), i, ExpandTokens(macro.tokens)), index |-> i]

(***************************************************************************)
(* psi_cpp_tokiter_expand: the macro is found by the text of the token,     *)
(* whatever its type.  One that consists of its own name only is left       *)
(* alone.                                                                   *)
(***************************************************************************)
Attempt(toks, i, macros) ==
  IF ~Valid(toks, i) \/ Current(toks, i).txt \notin DOMAIN macros THEN "no"
  ELSE LET name == Current(toks, i).txt
           macro == macros[name]
       IN IF macro.call
            THEN LET call == ReadCall(toks, i, Len(macro.sig))
                 IN CASE call.status = "abort" -> "abort"
                      [] call.status = "fail" -> "no"
                      [] OTHER -> IF Overflows(macro, call.args) THEN "overflow" ELSE "yes"
            ELSE IF Len(macro.tokens) = 1 /\ macro.tokens[1].txt = name THEN "no" ELSE "yes"

ExpandAt(toks, i, macros) ==
  LET macro == macros[Current(toks, i).txt]
  IN IF macro.call THEN ExpandCall(toks, i, macro) ELSE ExpandDef(toks, i, macro)

=============================================================================

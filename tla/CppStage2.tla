------------------------------ MODULE CppStage2 ------------------------------
(***************************************************************************)
(* psi_cpp_stage2 (cpp.c): the walk over the tokens that stage 1 left.     *)
(* A line that begins with a hash is taken out of the list, token by       *)
(* token, and executed at its newline (CppCond); the names in other lines  *)
(* are replaced by their macros; skipped lines and newlines are deleted.   *)
(* What is left in the list is the preprocessed text.                      *)
(*                                                                         *)
(* A token is [ty, txt].  How a macro replaces its uses is MacroCall; an   *)
(* included file is the tokens it was preprocessed to (CppInclude has the  *)
(* nested call).                                                           *)
(***************************************************************************)
EXTENDS MacroCall

CONSTANTS
  Names,      \* macro names
  Width,      \* bits of the mask of branches seen
  MaxLevel,   \* bound on the nesting of conditional groups
  Inputs,     \* the inputs: [lines |-> sequence of lines, eol |-> BOOLEAN]
  Header      \* the tokens every #include inserts

ASSUME MaskAssumption == Width \in Nat \ {0} /\ MaxLevel \in Nat

VARIABLES
  level, skip, seen, effects, status,   \* see CppCond
  macros,     \* cpp->defs: name -> its macro
  input,      \* the input, which does not change
  toks,       \* cpp->tokens
  index,      \* cpp->index
  line,       \* parser_tokens: the tokens of the directive being read
  flags,      \* the local variables of psi_cpp_stage2
  expanding,  \* inside `while (psi_cpp_tokiter_expand(cpp))'
  outcome

condVars == <<level, skip, seen, effects, status, macros>>
vars == <<condVars, input, toks, index, line, flags, expanding, outcome>>

Cond == INSTANCE CppCond WITH defs <- DOMAIN macros

EOL == Tok("EOL", "")

(* The tokens of an input: its last line may have no newline.              *)
Text(in) ==
  LET all == FlattenSeq([i \in DOMAIN in.lines |-> Append(in.lines[i], EOL)])
  IN  IF in.eol \/ all = <<>> THEN all ELSE Front(all)

InitialFlags == [is_eol |-> TRUE, do_cpp |-> FALSE, do_expansion |-> TRUE,
                 skip_paren |-> FALSE, skip_all |-> FALSE]

Init ==
  /\ level = 0 /\ skip = 0 /\ seen = {} /\ effects = {} /\ status = "running"
  /\ macros = <<>>
  /\ input \in Inputs
  /\ toks = Text(input)
  /\ index = 0
  /\ line = <<>>
  /\ flags = InitialFlags
  /\ expanding = FALSE
  /\ outcome = "running"

Cur == Current(toks, index)

-----------------------------------------------------------------------------

(* Fault: the names of #ifdef and #undef are expanded.                     *)
InDirectiveExpandsNames(f) ==
  CASE Cur.ty = "DEFINE" -> [f EXCEPT !.do_expansion = FALSE, !.skip_all = TRUE]
    [] Cur.ty = "NAME" -> f
    [] OTHER -> [f EXCEPT !.do_expansion = ~f.skip_all]

(* What a token inside a directive does to the flags.                      *)
InDirective(f) ==
  CASE Cur.ty = "DEFINE" -> [f EXCEPT !.do_expansion = FALSE, !.skip_all = TRUE]
    [] Cur.ty = "DEFINED" -> [f EXCEPT !.do_expansion = FALSE, !.skip_paren = TRUE]
    [] Cur.ty \in {"IFDEF", "IFNDEF", "UNDEF"} -> [f EXCEPT !.do_expansion = FALSE]
    [] Cur.ty = "LPAREN" ->
         IF f.skip_all THEN f
         ELSE IF f.skip_paren THEN [f EXCEPT !.skip_paren = FALSE]
         ELSE [f EXCEPT !.do_expansion = TRUE]
    [] Cur.ty = "NAME" -> f
    [] OTHER -> [f EXCEPT !.do_expansion = ~f.skip_all]

(* The flags after looking at the current token.                           *)
Noted ==
  CASE Cur.ty = "HASH" ->
         IF flags.is_eol THEN [flags EXCEPT !.do_cpp = TRUE, !.is_eol = FALSE] ELSE flags
    [] Cur.ty = "EOL" ->
         [flags EXCEPT !.is_eol = TRUE, !.skip_all = FALSE, !.do_expansion = TRUE]
    [] OTHER ->
         LET f == [flags EXCEPT !.is_eol = FALSE]
         IN  IF f.do_cpp THEN InDirective(f) ELSE f

(* Fault: a macro is expanded even where it stands for its own name.       *)
Try_itself(list, i) ==
  IF Valid(list, i) /\ Current(list, i).txt \in DOMAIN macros
    THEN LET m == macros[Current(list, i).txt]
         IN IF m.call THEN Attempt(list, i, macros) ELSE "yes"
    ELSE "no"

(* What psi_cpp_tokiter_expand does at i, and whether it says it did.      *)
Try(list, i) == Attempt(list, i, macros)
Expandable(list, i) == Try(list, i) \in {"yes", "overflow"}

Deletes == toks' = DelCur(toks, index) /\ index' = Clamp(index, Len(toks'))

(* What happens to the current token.                                      *)
Drops == ~Noted.do_cpp /\ (Cur.ty = "EOL" \/ skip # 0)
Expands ==
  ~Drops /\ Noted.do_expansion /\ Cur.ty = "NAME" /\ Try(toks, index) # "no"

Drop ==
  /\ Drops
  /\ Deletes
  /\ UNCHANGED <<line, expanding>>

(* One round of `while (psi_cpp_tokiter_expand(cpp))': what is behind the  *)
(* end of a list may be anything, and the program may run on or die of it; *)
(* a name that takes arguments must not be the last token.                 *)
ExpandRound ==
  \/ /\ Expandable(toks, index)
     /\ \E e \in {ExpandAt(toks, index, macros)} : toks' = e.toks /\ index' = e.index
     /\ expanding' = TRUE
     /\ UNCHANGED <<status, outcome>>
  \/ /\ Try(toks, index) = "overflow"
     /\ outcome' = "corrupted"
     /\ UNCHANGED <<toks, index, expanding, status>>
  \/ /\ Try(toks, index) = "abort"
     /\ status' = "aborted"
     /\ UNCHANGED <<toks, index, expanding, outcome>>

Expand ==
  /\ Expands
  /\ ExpandRound
  /\ UNCHANGED <<level, skip, seen, effects, macros, line>>

Unexpanded == UNCHANGED <<condVars, outcome>>

(* Fault: the hash is deleted and not collected.                           *)
CollectLosesHash ==
  /\ Noted.do_cpp /\ Cur.ty # "EOL" /\ ~Expands
  /\ line' = IF Cur.ty = "HASH" THEN line ELSE Append(line, Cur)
  /\ Deletes
  /\ UNCHANGED expanding

Collect ==
  /\ Noted.do_cpp /\ Cur.ty # "EOL" /\ ~Expands
  /\ line' = Append(line, Cur)
  /\ Deletes
  /\ UNCHANGED expanding

Keep ==
  /\ ~Noted.do_cpp /\ ~Drops /\ ~Expands
  /\ index' = index + 1
  /\ UNCHANGED <<toks, line, expanding>>

Read ==
  /\ ~expanding /\ Valid(toks, index)
  /\ \/ (Drop \/ Collect \/ Keep) /\ Unexpanded
     \/ Expand
  /\ flags' = Noted
  /\ UNCHANGED input

(* The other rounds of the inner loop: the flags are not looked at.        *)
ExpandAgain ==
  /\ expanding
  /\ \/ ExpandRound
     \/ /\ Try(toks, index) = "no"
        /\ expanding' = FALSE
        /\ UNCHANGED <<toks, index, status, outcome>>
  /\ UNCHANGED <<level, skip, seen, effects, macros, input, line, flags>>

-----------------------------------------------------------------------------

(* The collected line, as types and as a directive of parser_proc_grammar. *)
Shape == [i \in DOMAIN line |-> line[i].ty]
Is(ty) == Len(line) > 1 /\ line[2].ty = ty
Arg == line[3].txt

(* Operators are those of NumExp; a call that is left is a number, too.     *)
Parses[kind \in {"condition", "arguments"}, s \in Seq(STRING)] ==
  IF kind = "condition" THEN
    \/ s \in {<<"NUMBER">>, <<"NAME">>, <<"DEFINED", "NAME">>,
              <<"DEFINED", "LPAREN", "NAME", "RPAREN">>}
    \/ /\ Len(s) > 2 /\ SubSeq(s, 1, 2) = <<"NAME", "LPAREN">> /\ Last(s) = "RPAREN"
       /\ Len(s) = 3 \/ Parses["arguments", SubSeq(s, 3, Len(s) - 1)]
  ELSE
    \/ Parses["condition", s]
    \/ \E k \in DOMAIN s : /\ s[k] = "COMMA"
                           /\ Parses["condition", SubSeq(s, 1, k - 1)]
                           /\ Parses["arguments", SubSeq(s, k + 1, Len(s))]

IsCondition(s) == Parses["condition", s]

(* The list of parameters: names and commas, up to the first parenthesis   *)
(* that closes.                                                            *)
SigEnd ==
  LET closing == {k \in DOMAIN line : line[k].ty = "RPAREN"}
  IN IF closing = {} THEN 0 ELSE CHOOSE k \in closing : \A j \in closing : k <= j
IsSig ==
  /\ Shape[5] = "LPAREN" /\ SigEnd > 5
  /\ SigEnd = 6 \/ SigEnd % 2 = 1
  /\ \A k \in 6 .. SigEnd - 1 : Shape[k] = IF k % 2 = 0 THEN "NAME" ELSE "COMMA"

WellFormed ==
  LET s == Tail(Shape) IN
  \/ s \in {<<>>, <<"ELSE">>, <<"ENDIF">>, <<"INCLUDE", "HEADER">>}
  \/ s \in {"IFDEF", "IFNDEF", "UNDEF"} \X {"NAME"}
  \/ s # <<>> /\ s[1] \in {"IF", "ELIF"} /\ IsCondition(Tail(s))
  \/ Len(s) > 1 /\ s[1] = "DEFINE" /\ s[2] = "NAME"
       /\ (Len(s) > 2 /\ s[3] = "NO_WHITESPACE" => Len(s) > 3 /\ IsSig)

(* A name in the condition of an #if that is still a macro's fails an      *)
(* assertion of number.c; any other name is 0, and so is a call.           *)
Value ==
  \/ line[3].ty = "NUMBER" /\ Arg # "0"
  \/ line[3].ty = "DEFINED" /\ \E t \in Range(line) : t.ty = "NAME" /\ t.txt \in DOMAIN macros
Evaluated ==
  \/ Is("IF") /\ skip = 0
  \/ Is("ELIF") /\ level > 0 /\ skip = level /\ ~Cond!Masked(level, seen)
Asserts == Evaluated /\ Tail(Tail(Shape)) = <<"NAME">> /\ Arg \in DOMAIN macros

Conditional ==
  \/ Is("IFDEF") /\ Cond!Ifdef(Arg)
  \/ Is("IFNDEF") /\ Cond!Ifndef(Arg)
  \/ Is("IF") /\ ~Asserts /\ Cond!If(Value)
  \/ Is("ELIF") /\ ~Asserts /\ Cond!Elif(Value)
  \/ Is("ELSE") /\ Cond!Else
  \/ Is("ENDIF") /\ Cond!Endif
  \/ /\ Len(line) = 1 \/ (level = 0 /\ (Is("ELIF") \/ Is("ELSE") \/ Is("ENDIF")))
     /\ UNCHANGED <<level, skip, seen, effects, status>>

(* What a #define declares: the token stage 1 puts in front of a           *)
(* parenthesis that follows the name at once makes a list of parameters.   *)
Declared ==
  IF Len(line) > 3 /\ line[4].ty = "NO_WHITESPACE"
    THEN [call |-> TRUE,
          sig |-> [n \in 1 .. (SigEnd - 5) \div 2 |-> line[4 + 2 * n].txt],
          tokens |-> SubSeq(line, SigEnd + 1, Len(line))]
    ELSE [call |-> FALSE, sig |-> <<>>, tokens |-> SubSeq(line, 4, Len(line))]

(* Exec is the action of the collected directive; Asserts stops the        *)
(* program, and a malformed line ends the walk.                            *)
Exec ==
  \/ /\ UNCHANGED <<macros, toks, index>>
     /\ Conditional
  \/ /\ Is("DEFINE")
     /\ macros' = IF skip = 0
                  THEN [n \in DOMAIN macros \union {Arg} |-> IF n = Arg THEN Declared ELSE macros[n]]
                  ELSE macros
     /\ UNCHANGED <<level, skip, seen, effects, status, toks, index>>
  \/ /\ Is("UNDEF")
     /\ macros' = IF skip = 0
                  THEN [n \in DOMAIN macros \ {Arg} |-> macros[n]] ELSE macros
     /\ UNCHANGED <<level, skip, seen, effects, status, toks, index>>
  \/ /\ Is("INCLUDE")
     /\ \/ skip # 0 /\ UNCHANGED <<toks, index>>
        \/ skip = 0 /\ toks' = InsRange(toks, index, Header) /\ index' = index + Len(Header)
     /\ UNCHANGED <<level, skip, seen, effects, status, macros>>
  \/ /\ Asserts
     /\ status' = "aborted"
     /\ UNCHANGED <<level, skip, seen, effects, macros, toks, index>>

(* The newline of a directive stays in the list, and is dropped when it is *)
(* looked at again.                                                        *)
Execute ==
  /\ ~expanding /\ Valid(toks, index) /\ flags.do_cpp /\ Cur.ty = "EOL"
  /\ flags' = [Noted EXCEPT !.do_cpp = FALSE]
  /\ line' = <<>>
  /\ \/ WellFormed /\ Exec /\ UNCHANGED outcome
     \/ /\ ~WellFormed
        /\ outcome' = "failed"
        /\ UNCHANGED <<condVars, toks, index>>
  /\ UNCHANGED <<input, expanding>>

(* A directive without its newline is thrown away.                         *)
Finish ==
  /\ ~expanding /\ ~Valid(toks, index)
  /\ outcome' = "parsed"
  /\ UNCHANGED <<condVars, input, toks, index, line, flags, expanding>>

Next ==
  /\ outcome = "running" /\ status = "running"
  /\ Read \/ ExpandAgain \/ Execute \/ Finish

(* Stage 2 is a loop of one thread.                                        *)
Spec == Init /\ [][Next]_vars /\ WF_vars(Next)

-----------------------------------------------------------------------------

TypeOK ==
  /\ Cond!TypeOK
  /\ index \in 0 .. Len(toks)
  /\ flags \in [DOMAIN InitialFlags -> BOOLEAN]
  /\ flags.do_cpp = (line # <<>>)
  /\ outcome \in {"running", "parsed", "failed", "corrupted"}

(* The parser is handed one line: a newline ends a directive or is dropped, *)
(* also where macros, their arguments and headers are inserted.            *)
OneLine == outcome = "parsed" => \A k \in DOMAIN toks : toks[k].ty # "EOL"

(* Text is walked past only where no group is skipped, and what was walked *)
(* past is not touched by that.                                            *)
SkippedIsLost ==
  [][index' > index => skip = 0 /\ \A k \in 1 .. index : toks'[k] = toks[k]]_vars

(* The directives act on level, skip and seen as in CppCond, and none of   *)
(* their assertions fails: those of conditions and calls may.              *)
Sound == INSTANCE CppCond WITH defs <- DOMAIN macros, status <- "running"
ImplementsCond == Sound!Spec

Reference == INSTANCE CppText

(* When the last newline is dropped the cursor goes back to the last token *)
(* that was kept, and it is walked over again: a second look must not see  *)
(* it in a skipped group, or as a macro that was defined after it.         *)
Settled(ref) ==
  /\ Reference!Live(ref.groups)
  /\ ref.out = <<>> \/ Last(ref.out).txt \notin DOMAIN ref.macros

(* The walk over the tokens leaves what preprocessing line by line leaves, *)
(* fails where that fails, and dies of an assertion only at a condition    *)
(* that has a macro left in it.                                            *)
OutputIsLiveText ==
  LET ref == Reference!Preprocessed(input.lines) IN
  /\ outcome = "parsed" => ref.end = "ok" /\ (Settled(ref) => toks = ref.out)
  /\ outcome = "failed" => ref.end = "fails"
  /\ status = "aborted" => ref.end = "dies"

(* Stage 2 ends, although macros replace names by names and the cursor     *)
(* goes back.                                                              *)
Terminates == <>(outcome # "running" \/ status = "aborted")

=============================================================================

------------------------------ MODULE CppStage1 ------------------------------
(***************************************************************************)
(* psi_cpp_stage1 (cpp.c): comments, attributes and blanks are stripped,   *)
(* continued lines are joined, and a parenthesis that follows the name of  *)
(* a macro being defined without a blank is marked, by a NO_WHITESPACE     *)
(* token, as the start of a parameter list.                                *)
(*                                                                         *)
(* A token is [ty, at]: its type, and its place in the scanned input.  A   *)
(* single-line comment is scanned together with its newline; of the other  *)
(* types only those stage 1 looks at are told apart.                       *)
(***************************************************************************)
EXTENDS CppTokiter

CONSTANT Inputs   \* the scanned inputs: sequences of token types

Types == {"EOL", "HASH", "DEFINE", "NAME", "LPAREN", "WHITESPACE", "COMMENT",
          "LINE_COMMENT", "BSLASH", "NO_WHITESPACE", "OTHER"}

ASSUME InputsAssumption == \A s \in Inputs : s \in Seq(Types)

VARIABLES
  input,    \* the scanned input
  toks,     \* cpp->tokens
  index,    \* cpp->index
  flags     \* the local variables of psi_cpp_stage1

vars == <<input, toks, index, flags>>

InitialFlags ==
  [name |-> FALSE, define |-> FALSE, hash |-> FALSE, eol |-> TRUE,
   esc |-> FALSE, ws |-> FALSE]

Init ==
  /\ input \in Inputs
  /\ toks = [p \in DOMAIN input |-> [ty |-> input[p], at |-> p]]
  /\ index = 0
  /\ flags = InitialFlags

Ty == Current(toks, index).ty

-----------------------------------------------------------------------------

(* strip comments and attributes                                           *)
IsComment(ty) == ty \in {"COMMENT", "LINE_COMMENT"}

Strip ==
  /\ IsComment(Ty)
  /\ toks' = DelCur(toks, index)
  /\ index' = Clamp(index, Len(toks'))
  /\ UNCHANGED <<input, flags>>

(* Fault: only the newline of a continued line is deleted.                 *)
SpliceLeavesSlash ==
  /\ Ty = "EOL" /\ flags.esc
  /\ toks' = DelCur(toks, index)
  /\ index' = Clamp(index, Len(toks'))
  /\ flags' = [flags EXCEPT !.esc = FALSE]
  /\ UNCHANGED input

(* Fault: the cursor goes back although nothing was deleted.               *)
SpliceOnlyGoesBack ==
  /\ Ty = "EOL" /\ flags.esc
  /\ index' = Prev(index)
  /\ flags' = [flags EXCEPT !.esc = FALSE]
  /\ UNCHANGED <<input, toks>>

(* Fault: the cursor stays where it was in the longer list.                *)
SpliceStays ==
  /\ Ty = "EOL" /\ flags.esc
  /\ toks' = DelRange(toks, index - 1, 2)
  /\ flags' = [flags EXCEPT !.esc = FALSE]
  /\ UNCHANGED <<input, index>>

(* line continuations                                                      *)
Splice ==
  /\ Ty = "EOL" /\ flags.esc
  /\ toks' = DelRange(toks, index - 1, 2)
  /\ index' = Prev(Clamp(index, Len(toks')))
  /\ flags' = [flags EXCEPT !.esc = FALSE]
  /\ UNCHANGED input

Esc(ty) == CASE ty = "BSLASH" -> ~flags.esc
             [] ty = "EOL" -> flags.esc
             [] OTHER -> FALSE

Blank ==
  /\ Ty = "WHITESPACE"
  /\ toks' = DelCur(toks, index)
  /\ index' = Clamp(index, Len(toks'))
  /\ flags' = [flags EXCEPT !.esc = Esc(Ty), !.name = FALSE, !.ws = TRUE]
  /\ UNCHANGED input

MarksParen == Ty = "LPAREN" /\ flags.name /\ ~flags.ws

Mark ==
  /\ MarksParen
  /\ toks' = InsCur(toks, index, [ty |-> "NO_WHITESPACE", at |-> Current(toks, index).at])
  /\ flags' = [flags EXCEPT !.esc = Esc(Ty), !.name = FALSE]
  /\ UNCHANGED <<input, index>>

Walked ==
  LET f == [flags EXCEPT !.esc = Esc(Ty), !.ws = FALSE] IN
  CASE Ty = "EOL" -> [f EXCEPT !.eol = TRUE]
    [] Ty = "HASH" -> IF f.eol THEN [f EXCEPT !.hash = TRUE, !.eol = FALSE] ELSE f
    [] Ty = "DEFINE" -> IF f.hash THEN [f EXCEPT !.define = TRUE, !.hash = FALSE] ELSE f
    [] Ty = "NAME" -> IF f.define THEN [f EXCEPT !.name = TRUE, !.define = FALSE] ELSE f
    [] OTHER -> [f EXCEPT !.name = FALSE, !.define = FALSE, !.hash = FALSE, !.eol = FALSE]

Walk ==
  /\ ~IsComment(Ty) /\ Ty # "WHITESPACE"
  /\ ~(Ty = "EOL" /\ flags.esc) /\ ~MarksParen
  /\ flags' = Walked
  /\ index' = index + 1
  /\ UNCHANGED <<input, toks>>

Done == ~Valid(toks, index)

Next == ~Done /\ (Strip \/ Splice \/ Blank \/ Mark \/ Walk)

(* Stage 1 is a loop of one thread.                                        *)
Spec == Init /\ [][Next]_vars /\ WF_vars(Next)

-----------------------------------------------------------------------------

TypeOK ==
  /\ index \in 0 .. Len(toks)
  /\ \A i \in DOMAIN toks : toks[i].ty \in Types /\ toks[i].at \in DOMAIN input
  /\ flags \in [DOMAIN InitialFlags -> BOOLEAN]

(* The comment-free input, as positions.                                   *)
Bare == SelectSeq([p \in DOMAIN input |-> p], LAMBDA p : ~IsComment(input[p]))

(* The length of the run of backslashes that ends before the k-th position *)
(* of the comment-free input.                                              *)
SlashesBefore(k) ==
  LET run == {n \in 0 .. k - 1 : \A j \in k - n .. k - 1 : input[Bare[j]] = "BSLASH"}
  IN  CHOOSE n \in run : \A m \in run : m <= n

Continues(k) == input[Bare[k]] = "EOL" /\ SlashesBefore(k) % 2 = 1

(* What stage 1 is to leave: no blank, no backslash with its newline.      *)
Kept ==
  SelectSeq(Bare, LAMBDA p :
    /\ input[p] # "WHITESPACE"
    /\ \A k \in DOMAIN Bare :
         Continues(k) => p # Bare[k] /\ p # Bare[k - 1])

Places(s) == [i \in DOMAIN s |-> s[i].at]
Unmarked == SelectSeq(toks, LAMBDA t : t.ty # "NO_WHITESPACE")
Marked == {t.at : t \in {toks[i] : i \in {j \in DOMAIN toks : toks[j].ty = "NO_WHITESPACE"}}}

(* Stage 1 deletes the comments, the blanks and each backslash with its     *)
(* newline, and keeps everything else in order, although the cursor goes   *)
(* back over tokens it has seen.                                           *)
KeepsTheRest == Done => Places(Unmarked) = Kept

(* Stage 1 ends, although the cursor goes back.                            *)
Terminates == <>Done

(* p stands at the end of a #define and its macro's name, on a line of     *)
(* their own with nothing but blanks in between.                           *)
BlankBetween(p, q) == p < q /\ \A r \in p + 1 .. q - 1 : input[r] = "WHITESPACE"
EndsLine(q) == input[q] = "EOL" /\ \E k \in DOMAIN Bare : Bare[k] = q /\ ~Continues(k)
LineStart(p) == \E q \in 0 .. p - 1 : BlankBetween(q, p) /\ (q = 0 \/ EndsLine(q))
EndsDefineHead(p) ==
  /\ input[p] = "NAME"
  /\ \E d \in 1 .. p : \E h \in 1 .. d :
       /\ input[d] = "DEFINE" /\ input[h] = "HASH"
       /\ BlankBetween(d, p) /\ BlankBetween(h, d) /\ LineStart(h)

(* "#define foo(a,b,c)" is told from "#define foo (1,2,3)".                 *)
HeadsTold ==
  Done => \A p \in DOMAIN input :
            p > 1 /\ input[p] = "LPAREN" =>
              /\ EndsDefineHead(p - 1) => p \in Marked
              /\ (\E q \in 1 .. p - 2 : EndsDefineHead(q) /\ BlankBetween(q, p))
                   => p \notin Marked

(* What stage 2 is given (cpp.c:98): the rest of the tokens, with the heads *)
(* of function-like macros told.                                           *)
LeavesTokens == KeepsTheRest /\ HeadsTold

=============================================================================

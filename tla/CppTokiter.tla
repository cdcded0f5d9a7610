----------------------------- MODULE CppTokiter -----------------------------
(***************************************************************************)
(* The token list of the preprocessor and the cursor that walks over it    *)
(* while it changes (cpp_tokiter.c over plist.c).  The cursor is the       *)
(* program's index, which starts at 0; `toks' is a sequence.               *)
(*                                                                         *)
(* Deleting never moves the cursor, unless that leaves it past the end:    *)
(* then it goes back to the last token, which is walked over a second      *)
(* time.                                                                   *)
(***************************************************************************)
EXTENDS Naturals, Sequences, SequencesExt

Valid(toks, i) == i < Len(toks)
Current(toks, i) == toks[i + 1]

(* Where a cursor at i is left in a list that shrank to `count' tokens.    *)
Clamp(i, count) ==
  IF i < count THEN i ELSE IF count > 0 THEN count - 1 ELSE 0

DelRange(toks, offset, num) ==
  SubSeq(toks, 1, offset) \o SubSeq(toks, offset + num + 1, Len(toks))

DelCur(toks, i) == DelRange(toks, i, 1)

InsRange(toks, offset, eles) ==
  SubSeq(toks, 1, offset) \o eles \o SubSeq(toks, offset + 1, Len(toks))

InsCur(toks, i, tok) == InsRange(toks, i, <<tok>>)

Prev(i) == IF i > 0 THEN i - 1 ELSE 0

=============================================================================

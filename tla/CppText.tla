------------------------------- MODULE CppText -------------------------------
(***************************************************************************)
(* What preprocessing a text promises, line by line and without a cursor:  *)
(* the tokens of the lines in live groups, with their macros replaced as   *)
(* they are defined at that line, and the tokens of included headers.      *)
(* Preprocessing fails at a line that begins with a hash and is no         *)
(* directive once its macros are replaced, and dies of a condition that    *)
(* has a macro left in it: one that stands for itself, or has arguments    *)
(* and is not called.                                                      *)
(***************************************************************************)
EXTENDS Naturals, Sequences, FiniteSets, SequencesExt, FiniteSetsExt

CONSTANT Header    \* the tokens every #include inserts

Types(line) == [i \in DOMAIN line |-> line[i].ty]

Count(line, ty) == Cardinality({i \in DOMAIN line : line[i].ty = ty})

(* Where a call that begins the line ends, and its arguments, between the   *)
(* commas that no parenthesis inside of it encloses.                       *)
Balance(line, k) == [open |-> Count(SubSeq(line, 1, k), "LPAREN"),
                     closed |-> Count(SubSeq(line, 1, k), "RPAREN")]
Ends(line) ==
  {k \in 2 .. Len(line) : line[k].ty = "RPAREN"
                            /\ Balance(line, k).open = Balance(line, k).closed}
CallEnd(line) == CHOOSE k \in Ends(line) : \A j \in Ends(line) : k <= j
Commas(line) ==
  {k \in 2 .. CallEnd(line) : line[k].ty = "COMMA"
                              /\ Balance(line, k).open = Balance(line, k).closed + 1}
Args(line) ==
  LET cuts == <<2>> \o SetToSortSeq(Commas(line), <) \o <<CallEnd(line)>>
  IN [j \in 1 .. Len(cuts) - 1 |-> SubSeq(line, cuts[j] + 1, cuts[j + 1] - 1)]

(* A line begins with a use of a macro: a name that does not stand for      *)
(* itself, and a call with as many arguments as there are parameters.  A   *)
(* macro of no parameters takes what it is given.                          *)
BeginsUse(line, macros) ==
  /\ line # <<>> /\ line[1].ty = "NAME" /\ line[1].txt \in DOMAIN macros
  /\ LET macro == macros[line[1].txt] IN
     IF macro.call
       THEN /\ Len(line) > 1 /\ line[2].ty = "LPAREN" /\ Ends(line) # {}
            /\ Len(Args(line)) = IF macro.sig = <<>> THEN 1 ELSE Len(macro.sig)
       ELSE macro.tokens # <<line[1]>>

UseEnd(line, macros) == IF macros[line[1].txt].call THEN CallEnd(line) ELSE 1

(* ## joins its neighbours, # makes a string of the token behind it.       *)
Texts == Seq([ty : STRING, txt : STRING])

Joined(body) ==
  LET joined[s \in Texts] ==
        CASE s = <<>> -> <<>>
          [] Len(s) > 1 /\ s[1].ty = "HASH" ->
               joined[<<[s[2] EXCEPT !.ty = "STRING"]>> \o SubSeq(s, 3, Len(s))]
          [] Len(s) > 2 /\ s[2].ty = "PASTE" ->
               joined[<<[s[1] EXCEPT !.txt = @ \o s[3].txt]>> \o SubSeq(s, 4, Len(s))]
          [] OTHER -> <<s[1]>> \o joined[Tail(s)]
  IN joined[body]

(* The arguments are replaced before they are put into the body, but not   *)
(* those next to # and ##; what comes of it is read again, with the rest.  *)
Parameter(macro, tok) == {p \in DOMAIN macro.sig : tok.ty = "NAME" /\ macro.sig[p] = tok.txt}

Stays(body, k) ==
  \/ k > 1 /\ body[k - 1].ty \in {"HASH", "PASTE"}
  \/ k < Len(body) /\ body[k + 1].ty = "PASTE"

Filled(macro, given, replaced) ==
  Joined(FlattenSeq([k \in DOMAIN macro.tokens |->
    LET which == Parameter(macro, macro.tokens[k]) IN
    IF which = {} THEN <<macro.tokens[k]>>
    ELSE (IF Stays(macro.tokens, k) THEN given ELSE replaced)[CHOOSE p \in which : TRUE]]))

Expansion(text, macros) ==
  LET expanded[line \in Texts] ==
        IF line = <<>> THEN <<>>
        ELSE IF ~BeginsUse(line, macros) THEN <<line[1]>> \o expanded[Tail(line)]
        ELSE LET macro == macros[line[1].txt]
                 given == IF macro.call THEN Args(line) ELSE <<>>
                 replaced == [p \in DOMAIN given |-> expanded[given[p]]]
             IN expanded[Filled(macro, given, replaced)
                           \o SubSeq(line, UseEnd(line, macros) + 1, Len(line))]
  IN expanded[text]

(* The operands of `defined' are names, not uses of a macro.               *)
Operand(line, i) ==
  /\ line[i].ty = "NAME"
  /\ \/ i > 1 /\ line[i - 1].ty = "DEFINED"
     \/ i > 2 /\ line[i - 2].ty = "DEFINED" /\ line[i - 1].ty = "LPAREN"

ExpandedLine(line, macros) ==
  Expansion([i \in DOMAIN line |->
               IF Operand(line, i) THEN [line[i] EXCEPT !.ty = "OPERAND"] ELSE line[i]], macros)

-----------------------------------------------------------------------------

Live(groups) == \A i \in DOMAIN groups : groups[i] = "live"

Opened(groups, c) == Append(groups, IF Live(groups) /\ c THEN "live" ELSE "waiting")

Branched(groups, c) ==
  IF groups = <<>> THEN groups
  ELSE Append(Front(groups),
         CASE Last(groups) = "live" -> "done"
           [] Last(groups) = "waiting" /\ c /\ Live(Front(groups)) -> "live"
           [] OTHER -> Last(groups))

Closed(groups) == IF groups = <<>> THEN groups ELSE Front(groups)

(* A call without a macro is a number if its arguments are: a condition is  *)
(* made smaller until no call is left.                                     *)
Called(types, i) ==
  /\ types[i] = "NAME" /\ i + 1 \in DOMAIN types /\ types[i + 1] = "LPAREN"
  /\ \E n \in 0 .. Len(types) :
       /\ i + n + 2 \in DOMAIN types /\ types[i + n + 2] = "RPAREN"
       /\ n = 0 \/ n % 2 = 1
       /\ \A j \in 1 .. n : types[i + 1 + j] \in IF j % 2 = 1 THEN {"NAME", "NUMBER"} ELSE {"COMMA"}
IsCall(types) ==
  LET reduced[s \in Seq(STRING)] ==
        LET calls == {i \in DOMAIN s : Called(s, i)} IN
        IF calls = {} THEN s
        ELSE LET i == Max(calls)
                 close == Min({k \in i + 2 .. Len(s) : s[k] = "RPAREN"})
             IN reduced[SubSeq(s, 1, i - 1) \o <<"NUMBER">> \o SubSeq(s, close + 1, Len(s))]
  IN types # <<>> /\ types[1] = "NAME" /\ Len(types) > 1 /\ reduced[types] = <<"NUMBER">>

(* A condition; one that is evaluated is to have no macro left in it.      *)
Condition(tokens, macros) ==
  LET defined(i) == tokens[i].txt \in DOMAIN macros IN
  CASE Types(tokens) = <<"NUMBER">> ->
         [ok |-> TRUE, value |-> tokens[1].txt # "0", left |-> FALSE]
    [] Types(tokens) = <<"NAME">> -> [ok |-> TRUE, value |-> FALSE, left |-> defined(1)]
    [] Types(tokens) = <<"DEFINED", "OPERAND">> ->
         [ok |-> TRUE, value |-> defined(2), left |-> FALSE]
    [] Types(tokens) = <<"DEFINED", "LPAREN", "OPERAND", "RPAREN">> ->
         [ok |-> TRUE, value |-> defined(3), left |-> FALSE]
    [] OTHER -> [ok |-> IsCall(Types(tokens)), value |-> FALSE, left |-> FALSE]

(* Whether an #if or an #elif has a say in these groups.                   *)
Matters(groups, kind) ==
  IF kind = "IF" THEN Live(groups)
  ELSE groups # <<>> /\ Last(groups) = "waiting" /\ Live(Front(groups))

(* What #define makes of the tokens after the name: a list of parameters    *)
(* follows at once.                                                        *)
Macro(tokens) ==
  IF tokens # <<>> /\ tokens[1].ty = "NO_WHITESPACE"
    THEN LET end == CallEnd(tokens)
             list == SelectSeq(SubSeq(tokens, 3, end - 1), LAMBDA t : t.ty # "COMMA")
         IN [call |-> TRUE, sig |-> [p \in DOMAIN list |-> list[p].txt],
             tokens |-> SubSeq(tokens, end + 1, Len(tokens))]
    ELSE [call |-> FALSE, sig |-> <<>>, tokens |-> tokens]

(* The state after a line, s = [groups, macros, out, ok].                  *)
After(s, text) ==
  LET live == Live(s.groups)
      kind == IF Len(text) > 1 THEN text[2].ty ELSE "nothing"
      name == text[3].txt
      cond == Condition(ExpandedLine(SubSeq(text, 3, Len(text)), s.macros), s.macros)
  IN
  CASE s.end # "ok" -> s
    [] text = <<>> \/ text[1].ty # "HASH" ->
         IF live THEN [s EXCEPT !.out = @ \o Expansion(text, s.macros)] ELSE s
    [] kind = "nothing" -> s
    [] kind = "DEFINE" ->
         IF live
         THEN [s EXCEPT !.macros = name :> Macro(SubSeq(text, 4, Len(text))) @@ @] ELSE s
    [] kind = "UNDEF" ->
         IF live
         THEN [s EXCEPT !.macros = [n \in DOMAIN @ \ {name} |-> @[n]]] ELSE s
    [] kind = "IFDEF" -> [s EXCEPT !.groups = Opened(@, name \in DOMAIN s.macros)]
    [] kind = "IFNDEF" -> [s EXCEPT !.groups = Opened(@, name \notin DOMAIN s.macros)]
    [] kind \in {"IF", "ELIF"} /\ cond.ok /\ cond.left /\ Matters(s.groups, kind) ->
         [s EXCEPT !.end = "dies"]
    [] kind = "IF" /\ cond.ok -> [s EXCEPT !.groups = Opened(@, cond.value)]
    [] kind = "ELIF" /\ cond.ok -> [s EXCEPT !.groups = Branched(@, cond.value)]
    [] kind = "ELSE" -> [s EXCEPT !.groups = Branched(@, TRUE)]
    [] kind = "ENDIF" -> [s EXCEPT !.groups = Closed(@)]
    [] kind = "INCLUDE" -> IF live THEN [s EXCEPT !.out = @ \o Header] ELSE s
    [] OTHER -> [s EXCEPT !.end = "fails"]

Preprocessed(lines) ==
  FoldLeft(After, [groups |-> <<>>, macros |-> <<>>, out |-> <<>>, end |-> "ok"], lines)

=============================================================================

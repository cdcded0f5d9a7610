------------------------------- MODULE CppCond -------------------------------
(***************************************************************************)
(* The conditional-inclusion state of struct psi_cpp, and the execution of *)
(* one directive by psi_cpp_exp_exec (types/cpp_exp.c).                    *)
(*                                                                         *)
(* The preprocessor does not keep a stack of groups.  It keeps the nesting *)
(* `level', the level at which skipping began (`skip', 0 when nothing is   *)
(* skipped), and a bit mask `seen' with bit `level' set when a branch of   *)
(* the group at that level was selected.  The mask is an unsigned int:     *)
(* 1 << level picks bit level % Width, on the machines psi builds for.     *)
(***************************************************************************)
EXTENDS Naturals

CONSTANTS
  Names,      \* macro names
  Width,      \* bits of an unsigned int: 32 in the program
  MaxLevel    \* bound on the nesting of groups

ASSUME WidthAssumption == Width \in Nat \ {0}
ASSUME LevelAssumption == MaxLevel \in Nat

VARIABLES
  level,      \* cpp->level
  skip,       \* cpp->skip
  seen,       \* cpp->seen, as the set of the bits that are 1
  defs,       \* the keys of cpp->defs
  effects,    \* kinds of the other directives executed so far
  status      \* "running", or "aborted" after a failed assert()

vars == <<level, skip, seen, defs, effects, status>>

(* The directives that only act, or do not: their effect is modelled in    *)
(* CppInclude where it is an inclusion.                                    *)
Kinds == {"error", "warning", "include", "include_next", "import", "pragma_once"}

(* A name may have the program's predefined macros' definition already.    *)
Init ==
  /\ level = 0
  /\ skip = 0
  /\ seen = {}
  /\ defs \in SUBSET Names
  /\ effects = {}
  /\ status = "running"

TypeOK ==
  /\ level \in 0 .. MaxLevel
  /\ skip \in 0 .. MaxLevel
  /\ seen \subseteq 0 .. Width - 1
  /\ defs \subseteq Names
  /\ effects \subseteq Kinds
  /\ status \in {"running", "aborted"}

Bit(l) == l % Width

Skipped(l, s) == s = l
Masked(l, m) == Bit(l) \in m

-----------------------------------------------------------------------------

(* #if, #ifdef and #ifndef, with the value of their condition.             *)
Open(c) ==
  /\ level < MaxLevel
  /\ level' = level + 1
  /\ IF skip = 0
     THEN IF c
          THEN /\ status' = IF Masked(level + 1, seen) THEN "aborted" ELSE status
               /\ seen' = seen \union {Bit(level + 1)}
               /\ UNCHANGED skip
          ELSE /\ skip' = level + 1
               /\ UNCHANGED <<seen, status>>
     ELSE UNCHANGED <<skip, seen, status>>
  /\ UNCHANGED <<defs, effects>>

(* Mutants of Endif: a lone #endif that is executed, and an #endif that    *)
(* leaves the mask.                                                        *)
EndifUnguarded ==
  /\ skip' = IF Skipped(level, skip) THEN 0 ELSE skip
  /\ seen' = seen \ {Bit(level)}
  /\ level' = level - 1
  /\ UNCHANGED <<defs, effects, status>>

EndifKeepsMask ==
  /\ level > 0
  /\ skip' = IF Skipped(level, skip) THEN 0 ELSE skip
  /\ level' = level - 1
  /\ UNCHANGED <<seen, defs, effects, status>>

(* A lone #endif is a warning and changes nothing.                         *)
Endif ==
  /\ level > 0
  /\ skip' = IF Skipped(level, skip) THEN 0 ELSE skip
  /\ seen' = seen \ {Bit(level)}
  /\ level' = level - 1
  /\ UNCHANGED <<defs, effects, status>>

(* Fault: a branch that selects itself without looking at the mask.        *)
BranchIgnoresMask(c) ==
  /\ level > 0
  /\ \/ /\ Skipped(level, skip)
        /\ skip' = IF c THEN 0 ELSE skip
        /\ seen' = IF c THEN seen \union {Bit(level)} ELSE seen
     \/ /\ skip = 0
        /\ skip' = level
        /\ UNCHANGED seen
     \/ /\ ~Skipped(level, skip) /\ skip # 0
        /\ UNCHANGED <<skip, seen>>
  /\ UNCHANGED <<level, defs, effects, status>>

(* #elif, with the value of its condition, and #else, whose condition is   *)
(* TRUE.  Nothing tells a second #else of a group from the first.          *)
Branch(c) ==
  /\ level > 0
  /\ \/ \* skip is set on this level and the level has not been masked yet
        /\ Skipped(level, skip) /\ ~Masked(level, seen)
        /\ skip' = IF c THEN 0 ELSE skip
        /\ seen' = IF c THEN seen \union {Bit(level)} ELSE seen
        /\ UNCHANGED status
     \/ \* the previous block masked this level
        /\ skip = 0 /\ Masked(level, seen)
        /\ skip' = level
        /\ UNCHANGED <<seen, status>>
     \/ /\ ~(Skipped(level, skip) /\ ~Masked(level, seen))
        /\ ~(skip = 0 /\ Masked(level, seen))
        /\ status' = IF skip > level THEN "aborted" ELSE status
        /\ UNCHANGED <<skip, seen>>
  /\ UNCHANGED <<level, defs, effects>>

-----------------------------------------------------------------------------

(* Fault: a #define that is executed inside skipped text.                  *)
DefineAlways(n) ==
  /\ defs' = defs \union {n}
  /\ UNCHANGED <<level, skip, seen, effects, status>>

Define(n) ==
  /\ defs' = IF skip = 0 THEN defs \union {n} ELSE defs
  /\ UNCHANGED <<level, skip, seen, effects, status>>

Undef(n) ==
  /\ defs' = IF skip = 0 THEN defs \ {n} ELSE defs
  /\ UNCHANGED <<level, skip, seen, effects, status>>

Effect(k) ==
  /\ effects' = IF skip = 0 THEN effects \union {k} ELSE effects
  /\ UNCHANGED <<level, skip, seen, defs, status>>

Ifdef(n) == Open(n \in defs)
Ifndef(n) == Open(n \notin defs)
If(c) == Open(c)
Elif(c) == Branch(c)
Else == Branch(TRUE)

(* psi_cpp_exp_exec: one directive; nothing runs after a failed assert.    *)
Exec ==
  \/ \E n \in Names : Ifdef(n) \/ Ifndef(n) \/ Define(n) \/ Undef(n)
  \/ \E c \in BOOLEAN : If(c) \/ Elif(c)
  \/ Else
  \/ Endif
  \/ \E k \in Kinds : Effect(k)

Next == status = "running" /\ Exec

Spec == Init /\ [][Next]_vars

-----------------------------------------------------------------------------

(* What the three numbers mean together.  Where nothing is skipped every   *)
(* open level has its bit; where skipping began at level s, every level    *)
(* below s has its bit and no level above s has: those groups opened       *)
(* inside skipped text.  No other bit is set.                              *)
LevelsConsistent ==
  /\ skip <= level
  /\ \A l \in 1 .. level :
       /\ skip = 0 \/ l < skip => Masked(l, seen)
       /\ skip # 0 /\ l > skip => ~Masked(l, seen)
  /\ \A b \in seen : \E l \in 1 .. level : b = Bit(l)

(* The assertions of cpp_exp.c hold: a level is never masked twice and     *)
(* skipping never starts above the level the directive stands at.          *)
AssertsHold == status = "running"

(* A group whose selected branch is over stays closed up to its #endif,    *)
(* whatever #else and #elif lines follow: at most one branch of a group is *)
(* ever processed.                                                         *)
OverStaysOver ==
  [][\A l \in 1 .. MaxLevel :
       l <= level /\ l <= level' /\ skip = l /\ Masked(l, seen) => skip' = l]_vars

(* The three numbers implement a stack of groups.                          *)
GroupAt(l) == IF skip = 0 \/ l < skip THEN "live"
              ELSE IF Masked(l, seen) THEN "done" ELSE "waiting"

Groups == INSTANCE CppGroups WITH
            MaxDepth <- MaxLevel, depth <- level,
            groups <- [l \in 1 .. level |-> GroupAt(l)]

ImplementsGroups == Groups!Spec

=============================================================================

------------------------------ MODULE CppGroups ------------------------------
(***************************************************************************)
(* What conditional inclusion promises, independently of how the           *)
(* preprocessor keeps track of it.  A source line stands inside a stack of *)
(* conditional groups, #if ... #elif ... #else ... #endif.  Each group is  *)
(* live where the line stands in its selected branch, waiting as long as   *)
(* none of its branches was selected, and done after the selected one.     *)
(* A directive has an effect only where every group is live.               *)
(***************************************************************************)
EXTENDS Naturals

CONSTANTS
  Names,     \* macro names
  Kinds,     \* the other directives that have an effect: #error, #include ...
  MaxDepth   \* bound on the nesting of groups, a natural number

VARIABLES
  depth,     \* number of open groups
  groups,    \* groups[i] is the i-th open group, the outermost first
  defs,      \* names that have a definition
  effects    \* kinds of directive executed so far

vars == <<depth, groups, defs, effects>>

Group == {"live", "waiting", "done"}

TypeOK ==
  /\ depth \in 0 .. MaxDepth
  /\ groups \in [1 .. depth -> Group]
  /\ defs \subseteq Names
  /\ effects \subseteq Kinds

Init ==
  /\ depth = 0
  /\ groups = [i \in 1 .. 0 |-> "live"]
  /\ defs \in SUBSET Names
  /\ effects = {}

ActiveTo(n) == \A i \in 1 .. n : groups[i] = "live"
Active == ActiveTo(depth)

(* A group opens with its first branch, selected if the condition holds in *)
(* a place that is itself active.                                          *)
Open(c) ==
  /\ depth < MaxDepth
  /\ depth' = depth + 1
  /\ groups' = [i \in 1 .. depth + 1 |->
                  IF i \in 1 .. depth THEN groups[i]
                  ELSE IF Active /\ c THEN "live" ELSE "waiting"]
  /\ UNCHANGED <<defs, effects>>

(* A further branch is selected if nothing before it was.  #else is a      *)
(* branch whose condition holds.                                           *)
Branch(c) ==
  /\ depth > 0
  /\ groups' = [groups EXCEPT ![depth] =
                  IF @ = "live" THEN "done"
                  ELSE IF @ = "waiting" /\ ActiveTo(depth - 1) /\ c THEN "live"
                  ELSE @]
  /\ UNCHANGED <<depth, defs, effects>>

Close ==
  /\ depth > 0
  /\ depth' = depth - 1
  /\ groups' = [i \in 1 .. depth - 1 |-> groups[i]]
  /\ UNCHANGED <<defs, effects>>

Define(n) ==
  /\ defs' = IF Active THEN defs \union {n} ELSE defs
  /\ UNCHANGED <<depth, groups, effects>>

Undef(n) ==
  /\ defs' = IF Active THEN defs \ {n} ELSE defs
  /\ UNCHANGED <<depth, groups, effects>>

Effect(k) ==
  /\ effects' = IF Active THEN effects \union {k} ELSE effects
  /\ UNCHANGED <<depth, groups, defs>>

Next ==
  \/ \E c \in BOOLEAN : Open(c) \/ Branch(c)
  \/ Close
  \/ \E n \in Names : Define(n) \/ Undef(n) \/ Open(n \in defs) \/ Open(n \notin defs)
  \/ \E k \in Kinds : Effect(k)

Spec == Init /\ [][Next]_vars

=============================================================================

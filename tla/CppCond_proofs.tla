--------------------------- MODULE CppCond_proofs ---------------------------
(***************************************************************************)
(* For every set of names, every mask width and every nesting up to that   *)
(* width, the level, skip and seen numbers of struct psi_cpp behave as a   *)
(* stack of conditional groups.                                            *)
(***************************************************************************)
EXTENDS CppCond, TLAPS

(* A level below the width is its own bit, and level Width takes the bit 0 *)
(* that no other level up to it has.                                       *)
LEMMA ModSmall ==
  ASSUME NEW l \in Nat, l < Width
  PROVE  l % Width = l
BY WidthAssumption

LEMMA ModSelf == Width % Width = 0
BY WidthAssumption

(* Two levels share no bit of the mask as long as nesting does not exceed  *)
(* its width: 1 << cpp->level in types/cpp_exp.c.                          *)
LEMMA BitDistinct ==
  ASSUME MaxLevel <= Width,
         NEW l \in 1 .. MaxLevel, NEW m \in 1 .. MaxLevel, Bit(l) = Bit(m)
  PROVE  l = m
BY ModSmall, ModSelf, WidthAssumption, LevelAssumption DEF Bit

LEMMA BitRange ==
  ASSUME NEW l \in Nat
  PROVE  Bit(l) \in 0 .. Width - 1
BY WidthAssumption DEF Bit

-----------------------------------------------------------------------------

(* The inductive invariant.  The assertions hold because a level that is   *)
(* just opened has no bit (LevelsConsistent), which in turn needs #endif   *)
(* to clear the bit of the level it closes.                                *)
IInv == TypeOK /\ LevelsConsistent /\ AssertsHold

LEMMA InitIInv == Init => IInv
<1> SUFFICES ASSUME Init PROVE IInv
  OBVIOUS
<1>1. TypeOK
  BY LevelAssumption DEF Init, TypeOK
<1>2. LevelsConsistent /\ AssertsHold
  BY DEF Init, LevelsConsistent, AssertsHold
<1> QED BY <1>1, <1>2 DEF IInv

(* The bit of a level that is not open, or that opened inside skipped      *)
(* text, is clear.                                                         *)
LEMMA FreshBitClear ==
  ASSUME MaxLevel <= Width, IInv, level < MaxLevel
  PROVE  ~Masked(level + 1, seen)
<1>1. SUFFICES ASSUME Bit(level + 1) \in seen PROVE FALSE
  BY DEF Masked
<1>2. PICK l \in 1 .. level : Bit(level + 1) = Bit(l)
  BY <1>1 DEF IInv, LevelsConsistent
<1>3. level + 1 \in 1 .. MaxLevel /\ l \in 1 .. MaxLevel /\ l # level + 1
  BY LevelAssumption DEF IInv, TypeOK
<1> QED BY <1>2, <1>3, BitDistinct

(* #if, #ifdef and #ifndef keep the invariant.                             *)
LEMMA OpenIInv ==
  ASSUME MaxLevel <= Width, IInv, NEW c \in BOOLEAN, Open(c)
  PROVE  IInv'
<1> USE DEF IInv, TypeOK, AssertsHold
<1>1. level \in Nat /\ level < MaxLevel /\ level' = level + 1 /\ MaxLevel \in Nat
  BY LevelAssumption DEF Open
<1>2. Bit(level + 1) \in 0 .. Width - 1
  BY <1>1, BitRange
<1>3. ~Masked(level + 1, seen)
  BY <1>1, FreshBitClear
<1>4. status' = "running"
  BY <1>3 DEF Open
<1>5. TypeOK'
  <2>1. skip' = skip \/ skip' = level + 1
    BY DEF Open
  <2>2. seen' = seen \/ seen' = seen \union {Bit(level + 1)}
    BY DEF Open
  <2>3. seen' \subseteq 0 .. Width - 1
    BY <1>2, <2>2
  <2>4. defs' = defs /\ effects' = effects
    BY DEF Open
  <2> QED BY <1>1, <1>4, <2>1, <2>3, <2>4
<1>6. LevelsConsistent'
  <2>1. CASE skip = 0 /\ c
    <3>1. seen' = seen \union {Bit(level + 1)} /\ skip' = 0
      BY <2>1 DEF Open
    <3> QED BY <1>1, <2>1, <3>1 DEF LevelsConsistent, Masked
  <2>2. CASE skip = 0 /\ ~c
    <3>1. seen' = seen /\ skip' = level + 1
      BY <2>2 DEF Open
    <3> QED BY <1>1, <2>2, <3>1 DEF LevelsConsistent, Masked
  <2>3. CASE skip # 0
    <3>1. seen' = seen /\ skip' = skip
      BY <2>3 DEF Open
    <3> QED BY <1>1, <1>3, <2>3, <3>1 DEF LevelsConsistent, Masked
  <2> QED BY <2>1, <2>2, <2>3
<1> QED BY <1>4, <1>5, <1>6

(* #elif and #else keep the invariant.                                     *)
LEMMA BranchIInv ==
  ASSUME MaxLevel <= Width, IInv, NEW c \in BOOLEAN, Branch(c)
  PROVE  IInv'
<1> USE DEF IInv, TypeOK, AssertsHold
<1>1. level \in 1 .. MaxLevel /\ level' = level /\ MaxLevel \in Nat
  BY LevelAssumption DEF Branch
<1>2. Bit(level) \in 0 .. Width - 1
  BY <1>1, BitRange
<1>3. CASE Skipped(level, skip) /\ ~Masked(level, seen) /\ c
  <2>1. skip = level /\ skip' = 0 /\ seen' = seen \union {Bit(level)} /\ status' = status
    BY <1>1, <1>3 DEF Branch, Skipped
  <2>2. LevelsConsistent'
    BY <1>1, <2>1 DEF LevelsConsistent, Masked
  <2>3. defs' = defs /\ effects' = effects
    BY DEF Branch
  <2>4. seen' \subseteq 0 .. Width - 1
    BY <1>2, <2>1
  <2> QED BY <1>1, <2>1, <2>2, <2>3, <2>4
<1>4. CASE skip = 0 /\ Masked(level, seen)
  <2>1. skip' = level /\ seen' = seen /\ status' = status
    BY <1>1, <1>4 DEF Branch, Skipped
  <2>2. LevelsConsistent'
    BY <1>1, <1>4, <2>1 DEF LevelsConsistent, Masked
  <2>3. defs' = defs /\ effects' = effects
    BY DEF Branch
  <2> QED BY <1>1, <2>1, <2>2, <2>3
<1>5. CASE /\ ~(Skipped(level, skip) /\ ~Masked(level, seen) /\ c)
           /\ ~(skip = 0 /\ Masked(level, seen))
  <2>1. skip' = skip /\ seen' = seen /\ status' = "running"
    BY <1>1, <1>5 DEF Branch, Skipped, LevelsConsistent
  <2>2. LevelsConsistent'
    BY <1>1, <2>1 DEF LevelsConsistent, Masked
  <2>3. defs' = defs /\ effects' = effects
    BY DEF Branch
  <2> QED BY <1>1, <2>1, <2>2, <2>3
<1> QED BY <1>3, <1>4, <1>5

(* #endif keeps the invariant.                                             *)
LEMMA EndifIInv ==
  ASSUME MaxLevel <= Width, IInv, Endif
  PROVE  IInv'
<1> USE DEF IInv, TypeOK, AssertsHold
<1>1. level \in 1 .. MaxLevel /\ level' = level - 1 /\ MaxLevel \in Nat
  BY LevelAssumption DEF Endif
<1>2. seen' = seen \ {Bit(level)} /\ status' = status
  BY DEF Endif
<1>3. skip' = IF skip = level THEN 0 ELSE skip
  BY DEF Endif, Skipped
<1>4. \A l \in 1 .. level - 1 : Bit(l) # Bit(level)
  BY <1>1, BitDistinct
<1>5. \A l \in 1 .. level - 1 : Masked(l, seen)' <=> Masked(l, seen)
  BY <1>2, <1>4 DEF Masked, Bit
<1>6. skip' <= level' /\ skip' \in 0 .. MaxLevel
  BY <1>1, <1>3 DEF LevelsConsistent
<1>7. ASSUME NEW l \in 1 .. level'
      PROVE  /\ skip' = 0 \/ l < skip' => Masked(l, seen)'
             /\ skip' # 0 /\ l > skip' => ~Masked(l, seen)'
  BY <1>1, <1>3, <1>5, <1>7 DEF LevelsConsistent
<1>8. ASSUME NEW b \in seen'
      PROVE  \E l \in 1 .. level' : b = Bit(l)
  <2>1. b \in seen /\ b # Bit(level)
    BY <1>2, <1>8
  <2>2. PICK l \in 1 .. level : b = Bit(l)
    BY <2>1 DEF LevelsConsistent
  <2> QED BY <1>1, <2>1, <2>2
<1>9. LevelsConsistent'
  BY <1>6, <1>7, <1>8 DEF LevelsConsistent, Bit, Masked
<1>10. defs' = defs /\ effects' = effects
  BY DEF Endif
<1>11. seen' \subseteq 0 .. Width - 1
  BY <1>2
<1> QED BY <1>1, <1>2, <1>6, <1>9, <1>10, <1>11

(* The directives that only act leave the three numbers alone.             *)
LEMMA ActIInv ==
  ASSUME IInv,
         \/ \E n \in Names : Define(n) \/ Undef(n)
         \/ \E k \in Kinds : Effect(k)
  PROVE  IInv'
<1>1. UNCHANGED <<level, skip, seen, status>>
  BY DEF Define, Undef, Effect
<1>2. defs' \subseteq Names /\ effects' \subseteq Kinds
  BY DEF IInv, TypeOK, Define, Undef, Effect
<1> QED BY <1>1, <1>2 DEF IInv, TypeOK, LevelsConsistent, AssertsHold, Masked, Bit

(* psi_cpp_exp_exec opens a group, starts another branch of one, closes    *)
(* one, or acts.                                                           *)
LEMMA NextCases ==
  ASSUME Next
  PROVE  \/ \E c \in BOOLEAN : Open(c) \/ Branch(c)
         \/ Endif
         \/ \E n \in Names : Define(n) \/ Undef(n)
         \/ \E k \in Kinds : Effect(k)
<1>1. \A n \in Names : (n \in defs) \in BOOLEAN /\ (n \notin defs) \in BOOLEAN
  OBVIOUS
<1>2. ASSUME NEW n \in Names, Ifdef(n) \/ Ifndef(n)
      PROVE  \E c \in BOOLEAN : Open(c)
  BY <1>1, <1>2 DEF Ifdef, Ifndef
<1>3. ASSUME NEW c \in BOOLEAN, If(c) PROVE Open(c)
  BY <1>3 DEF If
<1>4. ASSUME NEW c \in BOOLEAN, Elif(c) PROVE Branch(c)
  BY <1>4 DEF Elif
<1>5. ASSUME Else PROVE Branch(TRUE)
  BY <1>5 DEF Else
<1> QED BY <1>2, <1>3, <1>4, <1>5, Zenon DEF Next, Exec

LEMMA StepIInv ==
  ASSUME MaxLevel <= Width, IInv, [Next]_vars
  PROVE  IInv'
<1>1. ASSUME NEW c \in BOOLEAN, Open(c) \/ Branch(c) PROVE IInv'
  BY <1>1, OpenIInv, BranchIInv
<1>2. CASE Endif
  BY <1>2, EndifIInv
<1>3. CASE \/ \E n \in Names : Define(n) \/ Undef(n)
           \/ \E k \in Kinds : Effect(k)
  BY <1>3, ActIInv
<1>4. CASE UNCHANGED vars
  BY <1>4 DEF vars, IInv, TypeOK, LevelsConsistent, AssertsHold, Masked, Bit
<1> QED BY <1>1, <1>2, <1>3, <1>4, NextCases

-----------------------------------------------------------------------------

LEMMA Invariance == ASSUME MaxLevel <= Width PROVE Spec => []IInv
<1>1. Init => IInv
  BY InitIInv
<1>2. IInv /\ [Next]_vars => IInv'
  BY StepIInv
<1> QED BY <1>1, <1>2, PTL DEF Spec

(* Type correctness of the state of psi_cpp_exp_exec.                      *)
THEOREM TypeCorrect == ASSUME MaxLevel <= Width PROVE Spec => []TypeOK
<1>1. IInv => TypeOK
  BY DEF IInv
<1> QED BY <1>1, Invariance, PTL

(* level, skip and seen always describe one stack of groups.               *)
THEOREM AlwaysConsistent == ASSUME MaxLevel <= Width PROVE Spec => []LevelsConsistent
<1>1. IInv => LevelsConsistent
  BY DEF IInv
<1> QED BY <1>1, Invariance, PTL

(* No assertion of cpp_exp.c fails while nesting fits the mask.            *)
THEOREM NoAssertFails == ASSUME MaxLevel <= Width PROVE Spec => []AssertsHold
<1>1. IInv => AssertsHold
  BY DEF IInv
<1> QED BY <1>1, Invariance, PTL

(* At most one branch of a group is processed: once a selected branch is   *)
(* over, the group is skipped up to its #endif.                            *)
THEOREM OneBranch == ASSUME MaxLevel <= Width PROVE Spec => OverStaysOver
<1>1. ASSUME IInv, [Next]_vars, ~UNCHANGED vars,
             NEW l \in 1 .. MaxLevel,
             l <= level, l <= level', skip = l, Masked(l, seen)
      PROVE  skip' = l
  <2> USE DEF IInv, TypeOK
  <2>1. ASSUME NEW c \in BOOLEAN, Open(c) PROVE skip' = l
    BY <1>1, <2>1 DEF Open
  <2>2. ASSUME NEW c \in BOOLEAN, Branch(c) PROVE skip' = l
    BY <1>1, <2>2, LevelAssumption DEF Branch, Skipped
  <2>3. CASE Endif
    BY <1>1, <2>3, LevelAssumption DEF Endif, Skipped
  <2>4. ASSUME NEW n \in Names, Define(n) \/ Undef(n) PROVE skip' = l
    BY <1>1, <2>4 DEF Define, Undef
  <2>5. ASSUME NEW k \in Kinds, Effect(k) PROVE skip' = l
    BY <1>1, <2>5 DEF Effect
  <2> QED BY <1>1, <2>1, <2>2, <2>3, <2>4, <2>5, NextCases
<1>2. IInv /\ [Next]_vars =>
        [\A l \in 1 .. MaxLevel :
           l <= level /\ l <= level' /\ skip = l /\ Masked(l, seen) => skip' = l]_vars
  BY <1>1
<1> QED BY <1>2, Invariance, PTL DEF Spec, OverStaysOver

-----------------------------------------------------------------------------

(* The stack of groups that the three numbers stand for.                   *)
GroupStack == [l \in 1 .. level |-> GroupAt(l)]

(* Nothing is skipped exactly where every group is live.                   *)
LEMMA ActiveIffNotSkipping ==
  ASSUME IInv
  PROVE  /\ Groups!Active <=> skip = 0
         /\ level > 0 => (Groups!ActiveTo(level - 1) <=> skip = 0 \/ skip = level)
<1> USE DEF IInv, TypeOK, LevelsConsistent, Groups!Active, Groups!ActiveTo, GroupAt
<1>1. level \in Nat /\ skip \in 0 .. level
  BY LevelAssumption
<1>2. \A l \in 1 .. level : GroupStack[l] = "live" <=> (skip = 0 \/ l < skip)
  BY <1>1 DEF GroupStack
<1>3. ASSUME skip # 0 PROVE skip \in 1 .. level /\ GroupStack[skip] # "live"
  BY <1>1, <1>2, <1>3
<1> QED BY <1>1, <1>2, <1>3 DEF GroupStack

(* The directives that open a group.                                       *)
LEMMA OpenRefines ==
  ASSUME MaxLevel <= Width, IInv, NEW c \in BOOLEAN, Open(c)
  PROVE  Groups!Open(c)
<1> USE DEF IInv, TypeOK
<1>1. level \in Nat /\ level < MaxLevel /\ level' = level + 1
  BY LevelAssumption DEF Open
<1>2. ~Masked(level + 1, seen)
  BY <1>1, FreshBitClear
<1>3. \A l \in 1 .. level : Bit(l) # Bit(level + 1)
  BY <1>1, BitDistinct, LevelAssumption
<1>4. ASSUME NEW l \in 1 .. level PROVE GroupAt(l)' = GroupAt(l)
  <2>1. Masked(l, seen)' <=> Masked(l, seen)
    BY <1>3 DEF Open, Masked, Bit
  <2>2. (skip' = 0 \/ l < skip') <=> (skip = 0 \/ l < skip)
    BY <1>1, LevelAssumption DEF Open
  <2> QED BY <2>1, <2>2 DEF GroupAt
<1>5. ASSUME NEW l, l = level + 1
      PROVE  GroupAt(l)' = IF skip = 0 /\ c THEN "live" ELSE "waiting"
  <2>1. CASE skip = 0 /\ c
    BY <1>5, <2>1 DEF Open, GroupAt
  <2>2. CASE skip = 0 /\ ~c
    BY <1>1, <1>2, <1>5, <2>2 DEF Open, GroupAt, Masked, Bit
  <2>3. CASE skip # 0
    BY <1>1, <1>2, <1>5, <2>3, LevelAssumption DEF Open, GroupAt, Masked, Bit, LevelsConsistent
  <2> QED BY <2>1, <2>2, <2>3
<1>6. Groups!Active <=> skip = 0
  BY ActiveIffNotSkipping
<1>7. GroupStack' = [i \in 1 .. level + 1 |->
                       IF i \in 1 .. level THEN GroupStack[i]
                       ELSE IF Groups!Active /\ c THEN "live" ELSE "waiting"]
  <2>1. \A i \in 1 .. level + 1 : i \notin 1 .. level => i = level + 1
    BY <1>1
  <2> QED BY <1>1, <1>4, <1>5, <1>6, <2>1 DEF GroupStack
<1> QED BY <1>1, <1>7 DEF Groups!Open, GroupStack, Open

(* #elif and #else.                                                        *)
LEMMA BranchRefines ==
  ASSUME MaxLevel <= Width, IInv, NEW c \in BOOLEAN, Branch(c)
  PROVE  Groups!Branch(c)
<1> USE DEF IInv, TypeOK
<1>1. level \in 1 .. MaxLevel /\ level' = level /\ MaxLevel \in Nat /\ skip \in 0 .. level
  BY LevelAssumption DEF Branch, LevelsConsistent
<1>2. \A l \in 1 .. level - 1 : Bit(l) # Bit(level)
  BY <1>1, BitDistinct
<1>3. ASSUME NEW l \in 1 .. level - 1 PROVE GroupAt(l)' = GroupAt(l)
  <2>1. Masked(l, seen)' <=> Masked(l, seen)
    BY <1>2 DEF Branch, Masked, Bit
  <2>2. (skip' = 0 \/ l < skip') <=> (skip = 0 \/ l < skip)
    BY <1>1 DEF Branch, Skipped
  <2> QED BY <2>1, <2>2 DEF GroupAt
<1>4. Groups!ActiveTo(level - 1) <=> skip = 0 \/ skip = level
  BY <1>1, ActiveIffNotSkipping
<1>5. GroupAt(level)' = IF GroupAt(level) = "live" THEN "done"
                        ELSE IF GroupAt(level) = "waiting" /\ Groups!ActiveTo(level - 1) /\ c
                        THEN "live" ELSE GroupAt(level)
  <2>1. CASE skip = 0
    <3>1. Masked(level, seen) /\ skip' = level /\ seen' = seen
      BY <1>1, <2>1 DEF Branch, Skipped, LevelsConsistent
    <3> QED BY <1>1, <2>1, <3>1 DEF GroupAt, Masked, Bit
  <2>2. CASE skip = level /\ ~Masked(level, seen)
    <3>1. CASE c
      <4>1. skip' = 0
        BY <1>1, <2>2, <3>1 DEF Branch, Skipped
      <4> QED BY <1>1, <1>4, <2>2, <3>1, <4>1 DEF GroupAt
    <3>2. CASE ~c
      <4>1. skip' = skip /\ seen' = seen
        BY <1>1, <2>2, <3>2 DEF Branch, Skipped
      <4> QED BY <1>1, <2>2, <3>2, <4>1 DEF GroupAt, Masked, Bit
    <3> QED BY <3>1, <3>2
  <2>3. CASE skip # 0 /\ ~(skip = level /\ ~Masked(level, seen))
    <3>1. skip' = skip /\ seen' = seen
      BY <1>1, <2>3 DEF Branch, Skipped
    <3> QED BY <1>1, <1>4, <2>3, <3>1 DEF GroupAt, Masked, Bit
  <2> QED BY <2>1, <2>2, <2>3
<1>6. GroupStack' = [GroupStack EXCEPT ![level] =
                       IF @ = "live" THEN "done"
                       ELSE IF @ = "waiting" /\ Groups!ActiveTo(level - 1) /\ c THEN "live"
                       ELSE @]
  <2>1. \A l \in 1 .. level : l # level => l \in 1 .. level - 1
    BY <1>1
  <2> QED BY <1>1, <1>3, <1>5, <2>1 DEF GroupStack
<1> QED BY <1>1, <1>6 DEF Groups!Branch, GroupStack, Branch

(* #endif.                                                                 *)
LEMMA EndifRefines ==
  ASSUME MaxLevel <= Width, IInv, Endif
  PROVE  Groups!Close
<1> USE DEF IInv, TypeOK
<1>1. level \in 1 .. MaxLevel /\ level' = level - 1 /\ MaxLevel \in Nat /\ skip \in 0 .. level
  BY LevelAssumption DEF Endif, LevelsConsistent
<1>2. \A l \in 1 .. level - 1 : Bit(l) # Bit(level)
  BY <1>1, BitDistinct
<1>3. ASSUME NEW l \in 1 .. level - 1 PROVE GroupAt(l)' = GroupAt(l)
  <2>1. Masked(l, seen)' <=> Masked(l, seen)
    BY <1>2 DEF Endif, Masked, Bit
  <2>2. (skip' = 0 \/ l < skip') <=> (skip = 0 \/ l < skip)
    BY <1>1 DEF Endif, Skipped
  <2> QED BY <2>1, <2>2 DEF GroupAt
<1>4. GroupStack' = [i \in 1 .. level - 1 |-> GroupStack[i]]
  BY <1>1, <1>3 DEF GroupStack
<1> QED BY <1>1, <1>4 DEF Groups!Close, GroupStack, Endif

(* The directives that only act.                                           *)
LEMMA DefineRefines ==
  ASSUME IInv, NEW n \in Names
  PROVE  /\ Define(n) => Groups!Define(n)
         /\ Undef(n) => Groups!Undef(n)
<1>1. Groups!Active <=> skip = 0
  BY ActiveIffNotSkipping
<1>2. UNCHANGED <<level, skip, seen>> => GroupStack' = GroupStack
  BY DEF GroupStack, GroupAt, Masked, Bit
<1>3. ASSUME Define(n) PROVE Groups!Define(n)
  BY <1>1, <1>2, <1>3 DEF Define, Groups!Define, GroupStack
<1>4. ASSUME Undef(n) PROVE Groups!Undef(n)
  BY <1>1, <1>2, <1>4 DEF Undef, Groups!Undef, GroupStack
<1> QED BY <1>3, <1>4

LEMMA EffectRefines ==
  ASSUME IInv, NEW k \in Kinds, Effect(k)
  PROVE  Groups!Effect(k)
<1>1. Groups!Active <=> skip = 0
  BY ActiveIffNotSkipping
<1>2. UNCHANGED <<level, skip, seen>> => GroupStack' = GroupStack
  BY DEF GroupStack, GroupAt, Masked, Bit
<1> QED BY <1>1, <1>2 DEF Effect, Groups!Effect, GroupStack

LEMMA StutterRefines ==
  ASSUME UNCHANGED vars
  PROVE  UNCHANGED Groups!vars
BY DEF vars, Groups!vars, GroupAt, Masked, Bit

(* The level, skip and seen numbers implement the stack of groups: every   *)
(* directive does to them what it would do to the stack.                   *)
THEOREM Refinement == ASSUME MaxLevel <= Width PROVE Spec => ImplementsGroups
<1>1. Init => Groups!Init
  <2>1. ASSUME Init PROVE GroupStack = [i \in 1 .. 0 |-> "live"]
    BY <2>1 DEF Init, GroupStack
  <2> QED BY <2>1 DEF Init, Groups!Init, GroupStack
<1>2. IInv /\ [Next]_vars => [Groups!Next]_Groups!vars
  <2> SUFFICES ASSUME IInv, [Next]_vars PROVE [Groups!Next]_Groups!vars
    OBVIOUS
  <2>1. ASSUME NEW c \in BOOLEAN, Open(c) \/ Branch(c) PROVE Groups!Next
    BY <2>1, OpenRefines, BranchRefines DEF Groups!Next
  <2>2. CASE Endif
    BY <2>2, EndifRefines DEF Groups!Next
  <2>3. ASSUME NEW n \in Names, Define(n) \/ Undef(n) PROVE Groups!Next
    <3>1. Groups!Define(n) \/ Groups!Undef(n)
      BY <2>3, DefineRefines
    <3> QED BY <3>1 DEF Groups!Next
  <2>4. ASSUME NEW k \in Kinds, Effect(k) PROVE Groups!Next
    BY <2>4, EffectRefines DEF Groups!Next
  <2>5. CASE UNCHANGED vars
    BY <2>5, StutterRefines
  <2> QED BY <2>1, <2>2, <2>3, <2>4, <2>5, NextCases
<1> QED BY <1>1, <1>2, Invariance, PTL DEF Spec, ImplementsGroups, Groups!Spec

=============================================================================

-------------------------- MODULE CppInclude_proofs --------------------------
(***************************************************************************)
(* For every set of files, search path and mask: files are processed in    *)
(* one conditional state as one file would be, and those that close the    *)
(* groups they open do not touch each other's.                             *)
(***************************************************************************)
EXTENDS CppInclude, SequenceLemmas, TLAPS

(* What is proved about the execution of directives.                       *)
Conditionals == INSTANCE CppCond_proofs

-----------------------------------------------------------------------------

LEMMA Minimum ==
  ASSUME NEW S \in SUBSET Nat, S # {}
  PROVE  Min(S) \in S
BY LeastElement DEF Min

(* The operators on the conditional state are those of CppCond_proofs.     *)
LEMMA SameOperators ==
  /\ Cond!Init <=> Conditionals!Init
  /\ Cond!TypeOK <=> Conditionals!TypeOK
  /\ \A c : Cond!Open(c) <=> Conditionals!Open(c)
  /\ \A c : Cond!Branch(c) <=> Conditionals!Branch(c)
  /\ Cond!Endif <=> Conditionals!Endif
  /\ \A n : Cond!Define(n) <=> Conditionals!Define(n)
  /\ \A n : Cond!Undef(n) <=> Conditionals!Undef(n)
  /\ \A k : Cond!Effect(k) <=> Conditionals!Effect(k)
<1> USE DEF Cond!Bit, Conditionals!Bit, Cond!Masked, Conditionals!Masked,
            Cond!Skipped, Conditionals!Skipped, Cond!Kinds, Conditionals!Kinds
<1>1. Cond!Init <=> Conditionals!Init
  BY DEF Cond!Init, Conditionals!Init
<1>2. Cond!TypeOK <=> Conditionals!TypeOK
  BY DEF Cond!TypeOK, Conditionals!TypeOK
<1>3. \A c : Cond!Open(c) <=> Conditionals!Open(c)
  BY DEF Cond!Open, Conditionals!Open
<1>4. \A c : Cond!Branch(c) <=> Conditionals!Branch(c)
  BY DEF Cond!Branch, Conditionals!Branch
<1>5. Cond!Endif <=> Conditionals!Endif
  BY DEF Cond!Endif, Conditionals!Endif
<1>6. /\ \A n : Cond!Define(n) <=> Conditionals!Define(n)
      /\ \A n : Cond!Undef(n) <=> Conditionals!Undef(n)
      /\ \A k : Cond!Effect(k) <=> Conditionals!Effect(k)
  BY DEF Cond!Define, Conditionals!Define, Cond!Undef, Conditionals!Undef,
         Cond!Effect, Conditionals!Effect
<1> QED BY <1>1, <1>2, <1>3, <1>4, <1>5, <1>6

LEMMA SameNext == Conditionals!Next => Cond!Next
<1>1. Cond!Exec <=> Conditionals!Exec
  BY SameOperators DEF Cond!Exec, Conditionals!Exec, Cond!Kinds, Conditionals!Kinds,
       Cond!Ifdef, Conditionals!Ifdef, Cond!Ifndef, Conditionals!Ifndef, Cond!If, Conditionals!If,
       Cond!Elif, Conditionals!Elif, Cond!Else, Conditionals!Else
<1> QED BY <1>1 DEF Cond!Next, Conditionals!Next

(* What a line that neither includes nor fails does to the groups.         *)
LEMMA CondStepCases ==
  ASSUME NEW l, IsLine(l), CondStep(l)
  PROVE  \/ l.op \in {"if", "ifdef", "ifndef"} /\ \E c \in BOOLEAN : Conditionals!Open(c)
         \/ l.op \in {"elif", "else"} /\ \E c \in BOOLEAN : Conditionals!Branch(c)
         \/ l.op = "endif" /\ Conditionals!Endif
         \/ /\ l.op \in {"define", "undef", "error", "warning"}
            /\ \/ \E n \in Names : Conditionals!Define(n) \/ Conditionals!Undef(n)
               \/ \E k \in Conditionals!Kinds : Conditionals!Effect(k)
         \/ l.op \in {"elif", "else", "endif"} /\ level = 0 /\ UNCHANGED condVars
<1>1. ASSUME NEW c, Cond!Open(c) /\ c \in BOOLEAN
      PROVE  \E b \in BOOLEAN : Conditionals!Open(b)
  BY <1>1, SameOperators
<1>2. ASSUME NEW c, Cond!Branch(c) /\ c \in BOOLEAN
      PROVE  \E b \in BOOLEAN : Conditionals!Branch(b)
  BY <1>2, SameOperators
<1>3. CASE l.op = "ifdef" /\ Cond!Ifdef(l.arg)
  <2>1. (l.arg \in defs) \in BOOLEAN
    OBVIOUS
  <2>2. Cond!Open(l.arg \in defs)
    BY <1>3 DEF Cond!Ifdef
  <2> QED BY <1>1, <1>3, <2>1, <2>2
<1>4. CASE l.op = "ifndef" /\ Cond!Ifndef(l.arg)
  <2>1. (l.arg \notin defs) \in BOOLEAN
    OBVIOUS
  <2>2. Cond!Open(l.arg \notin defs)
    BY <1>4 DEF Cond!Ifndef
  <2> QED BY <1>1, <1>4, <2>1, <2>2
<1>5. CASE l.op = "if" /\ Cond!If(l.arg)
  <2>1. l.arg \in BOOLEAN /\ Cond!Open(l.arg)
    BY <1>5 DEF Cond!If, IsLine
  <2> QED BY <1>1, <1>5, <2>1
<1>6. CASE l.op = "elif" /\ Cond!Elif(l.arg)
  <2>1. l.arg \in BOOLEAN /\ Cond!Branch(l.arg)
    BY <1>6 DEF Cond!Elif, IsLine
  <2> QED BY <1>2, <1>6, <2>1
<1>7. CASE l.op = "else" /\ Cond!Else
  <2>1. TRUE \in BOOLEAN /\ Cond!Branch(TRUE)
    BY <1>7 DEF Cond!Else
  <2> QED BY <1>2, <1>7, <2>1, Zenon
<1>8. CASE l.op = "endif" /\ Cond!Endif
  BY <1>8, SameOperators
<1>9. CASE l.op = "define" /\ Cond!Define(l.arg)
  <2>1. l.arg \in Names /\ Conditionals!Define(l.arg)
    BY <1>9, SameOperators DEF IsLine
  <2> QED BY <1>9, <2>1
<1>10. CASE l.op = "undef" /\ Cond!Undef(l.arg)
  <2>1. l.arg \in Names /\ Conditionals!Undef(l.arg)
    BY <1>10, SameOperators DEF IsLine
  <2> QED BY <1>10, <2>1
<1>11. CASE l.op \in {"error", "warning"} /\ Cond!Effect(l.op)
  <2>1. l.op \in Conditionals!Kinds /\ Conditionals!Effect(l.op)
    BY <1>11, SameOperators DEF Conditionals!Kinds
  <2> QED BY <1>11, <2>1
<1>12. CASE l.op \in {"elif", "else", "endif"} /\ level = 0 /\ UNCHANGED condVars
  BY <1>12
<1> QED BY <1>3, <1>4, <1>5, <1>6, <1>7, <1>8, <1>9, <1>10, <1>11, <1>12 DEF CondStep

-----------------------------------------------------------------------------

(* Files that include another stand at the line that does.                 *)
Includes(files, f) ==
  /\ f.pos <= Len(files[f.path].lines)
  /\ files[f.path].lines[f.pos].op \in Inclusions

(* The state is well typed, the words level, skip and seen are consistent, *)
(* and as long as no result is known some file is being processed.         *)
SharedInv ==
  /\ TypeOK /\ Conditionals!IInv
  /\ outcome = "running" => stack # <<>>
  /\ \A n \in 1 .. Len(stack) - 1 : Includes(fs, stack[n])

LEMMA FileFacts ==
  ASSUME fs \in FileSystems, NEW p \in DOMAIN fs
  PROVE  /\ IsFile(fs[p]) /\ Len(fs[p].lines) \in Nat
         /\ DOMAIN fs[p].lines = 1 .. Len(fs[p].lines)
         /\ RunsLines(fs[p]) <= Len(fs[p].lines)
         /\ fs[p].eol => RunsLines(fs[p]) = Len(fs[p].lines)
<1>1. IsFile(fs[p])
  BY FilesAssumption
<1>2. Len(fs[p].lines) \in Nat /\ DOMAIN fs[p].lines = 1 .. Len(fs[p].lines)
  BY <1>1, LenProperties DEF IsFile
<1> QED BY <1>1, <1>2 DEF RunsLines

LEMMA TopFacts ==
  ASSUME TypeOK, stack # <<>>
  PROVE  /\ stack \in Seq(FrameType) /\ Len(stack) \in Nat \ {0} /\ Len(stack) <= MaxFrames
         /\ Top = stack[Len(stack)] /\ Top \in FrameType
         /\ fs \in FileSystems /\ Top.path \in DOMAIN fs /\ Top.pos \in Nat \ {0}
         /\ Top.level \in 0 .. MaxLevel /\ Top.seen \subseteq 0 .. Width - 1
         /\ Top.pos <= Len(fs[Top.path].lines) + 1
<1>1. stack \in Seq(FrameType) /\ Len(stack) \in Nat \ {0} /\ Len(stack) <= MaxFrames
  BY DEF TypeOK
<1>2. Top = stack[Len(stack)] /\ Top \in FrameType
  BY <1>1 DEF Top
<1>3. /\ Top.path \in DOMAIN fs /\ Top.pos \in Nat \ {0}
      /\ Top.level \in 0 .. MaxLevel /\ Top.seen \subseteq 0 .. Width - 1
  BY <1>2 DEF FrameType
<1>4. fs \in FileSystems /\ Top.pos <= Len(fs[Top.path].lines) + 1
  <2>1. Len(stack) \in 1 .. Len(stack)
    BY <1>1
  <2> QED BY <1>2, <2>1 DEF TypeOK
<1> QED BY <1>1, <1>2, <1>3, <1>4

(* The line that is executed.                                              *)
LEMMA LineFacts ==
  ASSUME TypeOK, stack # <<>>, Top.pos <= RunsLines(fs[Top.path])
  PROVE  /\ Top.pos \in 1 .. Len(fs[Top.path].lines)
         /\ IsLine(Line) /\ Line = fs[Top.path].lines[Top.pos]
<1>1. /\ fs \in FileSystems /\ Top.path \in DOMAIN fs /\ Top.pos \in Nat \ {0}
  BY TopFacts
<1>2. /\ IsFile(fs[Top.path]) /\ Len(fs[Top.path].lines) \in Nat
      /\ DOMAIN fs[Top.path].lines = 1 .. Len(fs[Top.path].lines)
      /\ RunsLines(fs[Top.path]) \in Int
      /\ RunsLines(fs[Top.path]) <= Len(fs[Top.path].lines)
  BY <1>1, FileFacts DEF RunsLines
<1>3. Top.pos \in 1 .. Len(fs[Top.path].lines)
  BY <1>1, <1>2
<1> QED BY <1>2, <1>3 DEF IsFile, Line

-----------------------------------------------------------------------------

(* Every step is a step of the conditional state, or none.                 *)
LEMMA OpenIsNext ==
  ASSUME status = "running",
         \/ \E c \in BOOLEAN : Conditionals!Open(c) \/ Conditionals!Branch(c)
         \/ Conditionals!Endif
         \/ \E n \in Names : Conditionals!Define(n) \/ Conditionals!Undef(n)
         \/ \E k \in Conditionals!Kinds : Conditionals!Effect(k)
  PROVE  Conditionals!Next
<1>1. ASSUME NEW c \in BOOLEAN, Conditionals!Open(c)
      PROVE  Conditionals!Exec
  <2>1. Conditionals!If(c)
    BY <1>1 DEF Conditionals!If
  <2> QED BY <2>1 DEF Conditionals!Exec
<1>2. ASSUME NEW c \in BOOLEAN, Conditionals!Branch(c)
      PROVE  Conditionals!Exec
  <2>1. Conditionals!Elif(c)
    BY <1>2 DEF Conditionals!Elif
  <2> QED BY <2>1 DEF Conditionals!Exec
<1>3. ASSUME \/ Conditionals!Endif
             \/ \E n \in Names : Conditionals!Define(n) \/ Conditionals!Undef(n)
             \/ \E k \in Conditionals!Kinds : Conditionals!Effect(k)
      PROVE  Conditionals!Exec
  BY <1>3 DEF Conditionals!Exec
<1>4. Conditionals!Exec
  BY <1>1, <1>2, <1>3
<1> QED BY <1>4 DEF Conditionals!Next

LEMMA LineIsNext ==
  ASSUME status = "running", NEW l, IsLine(l), CondStep(l)
  PROVE  Conditionals!Next \/ UNCHANGED condVars
BY CondStepCases, OpenIsNext

LEMMA InclusionIsNext ==
  ASSUME status = "running", NEW op, op \in Inclusions \union {"pragma_once"}, Cond!Effect(op)
  PROVE  Conditionals!Next
<1>1. op \in Conditionals!Kinds /\ Conditionals!Effect(op)
  BY SameOperators DEF Inclusions, Conditionals!Kinds
<1> QED BY <1>1, OpenIsNext

LEMMA CondNext ==
  ASSUME SharedInv, Next
  PROVE  Conditionals!Next \/ UNCHANGED condVars
<1>1. status = "running" /\ outcome = "running" /\ stack # <<>> /\ TypeOK
  BY DEF Next, SharedInv
<1>2. CASE Return \/ Malformed
  BY <1>2 DEF Return, Malformed
<1>3. CASE Top.pos <= RunsLines(fs[Top.path]) /\ (Execute \/ PragmaOnce \/ Include)
  <2>1. IsLine(Line)
    BY <1>1, <1>3, LineFacts
  <2>2. CASE Execute
    BY <1>1, <2>1, <2>2, LineIsNext DEF Execute
  <2>3. CASE PragmaOnce
    BY <1>1, <2>3, InclusionIsNext DEF PragmaOnce
  <2>4. CASE Include
    <3>1. Line.op \in Inclusions /\ Cond!Effect(Line.op)
      BY <2>4 DEF Include
    <3> QED BY <1>1, <3>1, InclusionIsNext
  <2> QED BY <1>3, <2>2, <2>3, <2>4
<1> QED BY <1>2, <1>3 DEF Next

LEMMA CondInv ==
  ASSUME MaxLevel <= Width, SharedInv, Conditionals!Next \/ UNCHANGED condVars
  PROVE  Conditionals!IInv' /\ Cond!TypeOK'
<1>1. [Conditionals!Next]_(Conditionals!vars)
  BY DEF condVars, Conditionals!vars
<1>2. Conditionals!IInv /\ Width \in Nat \ {0} /\ MaxLevel \in Nat
  BY MaskAssumption DEF SharedInv
<1>3. Conditionals!IInv'
  BY <1>1, <1>2, Conditionals!StepIInv
<1>4. Cond!TypeOK'
  BY <1>3 DEF Conditionals!IInv, Conditionals!TypeOK, Cond!TypeOK, Cond!Kinds, Conditionals!Kinds
<1> QED BY <1>3, <1>4

-----------------------------------------------------------------------------

(* The next line: the frame on top moves on.                               *)
LEMMA AdvancedStack ==
  ASSUME fs \in FileSystems, NEW s \in Seq(FrameType), s # <<>>,
         \A n \in 1 .. Len(s) : s[n].pos <= Len(fs[s[n].path].lines) + 1,
         s[Len(s)].pos <= Len(fs[s[Len(s)].path].lines)
  PROVE  LET t == Advanced(s)
             f == s[Len(s)]
         IN
         /\ t \in Seq(FrameType) /\ Len(t) = Len(s)
         /\ t[Len(s)] = [f EXCEPT !.pos = @ + 1]
         /\ \A n \in 1 .. Len(s) - 1 : t[n] = s[n]
         /\ \A n \in 1 .. Len(t) : t[n].pos <= Len(fs[t[n].path].lines) + 1
<1>1. PICK f \in FrameType : f = s[Len(s)]
  OBVIOUS
<1>2. PICK g : g = [f EXCEPT !.pos = f.pos + 1]
  OBVIOUS
<1>3. g \in FrameType
  <2>1. f.pos \in Nat \ {0} /\ f.pos + 1 \in Nat \ {0}
    BY DEF FrameType
  <2> QED BY <1>2, <2>1 DEF FrameType
<1>4. Advanced(s) = [s EXCEPT ![Len(s)] = g]
  <2>1. Len(s) \in DOMAIN s
    OBVIOUS
  <2> QED BY <1>1, <1>2, <2>1 DEF Advanced
<1>5. PICK t : t = Advanced(s)
  OBVIOUS
<1>6. /\ t \in Seq(FrameType) /\ Len(t) = Len(s) /\ t[Len(s)] = g
      /\ \A n \in 1 .. Len(s) - 1 : t[n] = s[n]
  BY <1>3, <1>4, <1>5, LastReplaced
<1>7. g.path = f.path /\ g.pos = f.pos + 1 /\ f.pos \in Nat
  BY <1>2 DEF FrameType
<1>8. Len(fs[f.path].lines) + 1 >= f.pos + 1
  <2>1. f.path \in DOMAIN fs /\ f.pos <= Len(fs[f.path].lines)
    BY <1>1 DEF FrameType
  <2>2. Len(fs[f.path].lines) \in Nat
    BY <2>1, FileFacts
  <2> QED BY <1>7, <2>1, <2>2
<1>9. ASSUME NEW n \in 1 .. Len(t)
      PROVE  t[n].pos <= Len(fs[t[n].path].lines) + 1
  <2>1. CASE n = Len(s)
    BY <1>6, <1>7, <1>8, <2>1
  <2>2. CASE n # Len(s)
    <3>1. n \in 1 .. Len(s) - 1 /\ n \in 1 .. Len(s)
      BY <1>6, <2>2
    <3> QED BY <1>6, <3>1
  <2> QED BY <2>1, <2>2
<1> QED BY <1>1, <1>2, <1>5, <1>6, <1>9

LEMMA PassShared ==
  ASSUME SharedInv, Conditionals!IInv', Cond!TypeOK', stack # <<>>,
         Top.pos <= Len(fs[Top.path].lines), stack' = Advanced(stack), fs' = fs,
         once' \subseteq DOMAIN fs, search' \in 0 .. Len(Dirs) + 1, outcome' = outcome
  PROVE  SharedInv'
<1>1. /\ stack \in Seq(FrameType) /\ Len(stack) \in Nat \ {0} /\ Len(stack) <= MaxFrames
      /\ Top = stack[Len(stack)] /\ fs \in FileSystems
  BY TopFacts DEF SharedInv
<1>2. \A n \in 1 .. Len(stack) : stack[n].pos <= Len(fs[stack[n].path].lines) + 1
  BY DEF SharedInv, TypeOK
<1>3. /\ stack' \in Seq(FrameType) /\ Len(stack') = Len(stack)
      /\ \A n \in 1 .. Len(stack) - 1 : stack'[n] = stack[n]
      /\ \A n \in 1 .. Len(stack') : stack'[n].pos <= Len(fs[stack'[n].path].lines) + 1
  BY <1>1, <1>2, AdvancedStack
<1>4. FrameType' = FrameType
  BY DEF FrameType
<1>5. outcome \in {"running", "parsed", "failed", "exhausted"}
  BY DEF SharedInv, TypeOK
<1>6. TypeOK'
  BY <1>1, <1>3, <1>4, <1>5 DEF TypeOK
<1>7. stack' # <<>>
  BY <1>1, <1>3
<1>8. \A n \in 1 .. Len(stack') - 1 : Includes(fs', stack'[n])
  BY <1>1, <1>3 DEF SharedInv, Includes
<1> QED BY <1>6, <1>7, <1>8 DEF SharedInv

LEMMA EnteredFrame ==
  ASSUME TypeOK, NEW path \in DOMAIN fs, NEW how \in Inclusions \union {"main"}
  PROVE  Frame(path, how) \in FrameType
<1>1. level \in 0 .. MaxLevel /\ skip \in 0 .. MaxLevel /\ seen \in SUBSET (0 .. Width - 1)
  BY DEF TypeOK, Cond!TypeOK
<1> QED BY <1>1 DEF Frame, FrameType

LEMMA EnterShared ==
  ASSUME SharedInv, Conditionals!IInv', Cond!TypeOK', outcome = "running", stack # <<>>,
         Top.pos \in 1 .. Len(fs[Top.path].lines), Line.op \in Inclusions,
         NEW path \in DOMAIN fs, Enter(path, Line.op), fs' = fs,
         once' \subseteq DOMAIN fs, search' \in 0 .. Len(Dirs) + 1
  PROVE  SharedInv'
<1>1. /\ stack \in Seq(FrameType) /\ Len(stack) \in Nat \ {0} /\ Len(stack) <= MaxFrames
      /\ Top = stack[Len(stack)] /\ fs \in FileSystems /\ TypeOK
  BY TopFacts DEF SharedInv
<1>2. /\ \A n \in 1 .. Len(stack) : stack[n].pos <= Len(fs[stack[n].path].lines) + 1
      /\ \A n \in 1 .. Len(stack) - 1 : Includes(fs, stack[n])
  BY DEF SharedInv, TypeOK
<1>3. FrameType' = FrameType
  BY DEF FrameType
<1>4. CASE Len(stack) < MaxFrames
  <2>1. PICK f : f = Frame(path, Line.op)
    OBVIOUS
  <2>2. f \in FrameType /\ f.pos = 1 /\ f.path = path
    BY <1>1, <2>1, EnteredFrame DEF Frame
  <2>3. stack' = Append(stack, f) /\ outcome' = outcome
    BY <1>4, <2>1 DEF Enter
  <2>4. /\ stack' \in Seq(FrameType) /\ Len(stack') = Len(stack) + 1
        /\ \A n \in 1 .. Len(stack) : stack'[n] = stack[n]
        /\ stack'[Len(stack) + 1] = f
    BY <1>1, <2>2, <2>3, AppendProperties
  <2>5. 1 <= Len(fs[path].lines) + 1
    BY <1>1, FileFacts
  <2>6. \A n \in 1 .. Len(stack') : stack'[n].pos <= Len(fs[stack'[n].path].lines) + 1
    <3> SUFFICES ASSUME NEW n \in 1 .. Len(stack')
                 PROVE  stack'[n].pos <= Len(fs[stack'[n].path].lines) + 1
      OBVIOUS
    <3>1. CASE n = Len(stack) + 1
      BY <2>2, <2>4, <2>5, <3>1
    <3>2. CASE n \in 1 .. Len(stack)
      BY <1>2, <2>4, <3>2
    <3> QED BY <1>1, <2>4, <3>1, <3>2
  <2>7. TypeOK'
    <3>1. Len(stack') <= MaxFrames
      BY <1>1, <1>4, <2>4, FramesAssumption
    <3> QED BY <1>1, <1>3, <2>3, <2>4, <2>6, <3>1 DEF TypeOK
  <2>8. \A n \in 1 .. Len(stack') - 1 : Includes(fs', stack'[n])
    <3> SUFFICES ASSUME NEW n \in 1 .. Len(stack)
                 PROVE  Includes(fs', stack'[n])
      BY <1>1, <2>4
    <3>1. Includes(fs, stack[n])
      <4>1. Includes(fs, Top)
        <5>1. PICK p, k : p = Top.path /\ k = Top.pos
          OBVIOUS
        <5>2. k <= Len(fs[p].lines)
          BY <1>1, <5>1
        <5>3. fs[p].lines[k].op \in Inclusions
          BY <1>1, <5>1 DEF Line
        <5> QED BY <5>1, <5>2, <5>3 DEF Includes
      <4> QED BY <1>1, <1>2, <4>1
    <3> QED BY <2>4, <3>1 DEF Includes
  <2>9. stack' # <<>>
    BY <1>1, <2>4
  <2> QED BY <2>7, <2>8, <2>9 DEF SharedInv
<1>5. CASE ~(Len(stack) < MaxFrames)
  <2>1. stack' = stack /\ outcome' = "exhausted"
    BY <1>5 DEF Enter
  <2>2. TypeOK'
    BY <1>1, <1>2, <1>3, <2>1 DEF TypeOK
  <2>3. \A n \in 1 .. Len(stack') - 1 : Includes(fs', stack'[n])
    BY <1>2, <2>1 DEF Includes
  <2> QED BY <2>1, <2>2, <2>3 DEF SharedInv
<1> QED BY <1>4, <1>5

LEMMA LeaveShared ==
  ASSUME SharedInv, Conditionals!IInv', Cond!TypeOK', outcome = "running", stack # <<>>,
         NEW result \in {"parsed", "failed"}, Leave(result), fs' = fs, search' = search
  PROVE  SharedInv'
<1>1. /\ stack \in Seq(FrameType) /\ Len(stack) \in Nat \ {0} /\ Len(stack) <= MaxFrames
      /\ Top.path \in DOMAIN fs /\ fs \in FileSystems
  BY TopFacts DEF SharedInv
<1>2. /\ \A n \in 1 .. Len(stack) : stack[n].pos <= Len(fs[stack[n].path].lines) + 1
      /\ \A n \in 1 .. Len(stack) - 1 : Includes(fs, stack[n])
      /\ once \subseteq DOMAIN fs /\ search \in 0 .. Len(Dirs) + 1
  BY DEF SharedInv, TypeOK
<1>3. FrameType' = FrameType
  BY DEF FrameType
<1>4. CASE Len(stack) = 1
  <2>1. stack' = <<>> /\ outcome' = result /\ once' = once
    BY <1>4 DEF Leave
  <2>2. Len(stack') = 0 /\ stack' \in Seq(FrameType) /\ 0 <= MaxFrames
    BY <2>1, FramesAssumption
  <2>3. TypeOK'
    BY <1>1, <1>2, <1>3, <2>1, <2>2 DEF TypeOK
  <2>4. result # "running"
    OBVIOUS
  <2> QED BY <2>1, <2>2, <2>3, <2>4 DEF SharedInv
<1>5. CASE Len(stack) # 1
  <2>1. stack' = Advanced(Front(stack)) /\ outcome' = outcome /\ once' = once \union {Top.path}
    BY <1>5 DEF Leave
  <2>2. PICK s : s = Front(stack)
    OBVIOUS
  <2>3. /\ s \in Seq(FrameType) /\ Len(s) = Len(stack) - 1
        /\ \A n \in 1 .. Len(stack) - 1 : s[n] = stack[n]
    BY <1>1, <2>2, LastRemoved DEF Front
  <2>4. /\ s # <<>> /\ Len(s) \in 1 .. Len(stack) - 1
        /\ \A n \in 1 .. Len(s) : n \in 1 .. Len(stack) - 1 /\ n \in 1 .. Len(stack)
    BY <1>1, <1>5, <2>3
  <2>5. \A n \in 1 .. Len(s) : s[n].pos <= Len(fs[s[n].path].lines) + 1
    BY <1>2, <2>3, <2>4
  <2>6. s[Len(s)].pos <= Len(fs[s[Len(s)].path].lines)
    BY <1>2, <2>3, <2>4 DEF Includes
  <2>7. /\ stack' \in Seq(FrameType) /\ Len(stack') = Len(s)
        /\ \A n \in 1 .. Len(s) - 1 : stack'[n] = s[n]
        /\ \A n \in 1 .. Len(stack') : stack'[n].pos <= Len(fs[stack'[n].path].lines) + 1
    BY <1>1, <2>1, <2>2, <2>3, <2>4, <2>5, <2>6, AdvancedStack
  <2>8. TypeOK'
    <3>1. Len(stack') <= MaxFrames
      BY <1>1, <2>3, <2>7, FramesAssumption
    <3> QED BY <1>1, <1>2, <1>3, <2>1, <2>7, <3>1 DEF TypeOK
  <2>9. \A n \in 1 .. Len(stack') - 1 : Includes(fs', stack'[n])
    <3> SUFFICES ASSUME NEW n \in 1 .. Len(stack') - 1
                 PROVE  Includes(fs', stack'[n])
      OBVIOUS
    <3>1. stack'[n] = stack[n] /\ Includes(fs, stack[n])
      BY <1>1, <1>2, <2>3, <2>4, <2>7
    <3> QED BY <3>1 DEF Includes
  <2>10. stack' # <<>>
    BY <2>4, <2>7
  <2> QED BY <2>8, <2>9, <2>10 DEF SharedInv
<1> QED BY <1>4, <1>5

LEMMA SearchBounds ==
  ASSUME search \in 0 .. Len(Dirs) + 1, NEW op
  PROVE  /\ SearchStart(op) \in 1 .. Len(Dirs) + 1 /\ SearchEnd(op) \in 1 .. Len(Dirs) + 1
         /\ Len(Dirs) \in Nat \ {0}
<1>1. Len(Dirs) \in Nat \ {0}
  BY DirsAssumption
<1>2. PICK n \in Nat \ {0} : n = Len(Dirs)
  BY <1>1
<1>3. NextStart \in 1 .. n + 1
  BY <1>2 DEF NextStart
<1>4. SearchStart(op) \in 1 .. n + 1
  BY <1>3 DEF SearchStart
<1>5. SearchEnd(op) \in 1 .. n + 1
  BY <1>2 DEF SearchEnd
<1> QED BY <1>2, <1>4, <1>5

(* An inclusion passes on to the next line or enters a file of that name.  *)
LEMMA IncludeCases ==
  ASSUME SharedInv, stack # <<>>, Include
  PROVE  /\ Line.op \in Inclusions /\ Cond!Effect(Line.op)
         /\ fs' = fs /\ once' = once /\ search' \in 0 .. Len(Dirs) + 1
         /\ \/ stack' = Advanced(stack) /\ outcome' = outcome
            \/ skip = 0 /\ \E path \in DOMAIN fs :
                             path[2] = Line.arg.name /\ Enter(path, Line.op)
<1> DEFINE op == Line.op
           h == Line.arg
<1>1. op \in Inclusions /\ Cond!Effect(op) /\ fs' = fs /\ once' = once
  BY DEF Include
<1>2. search \in 0 .. Len(Dirs) + 1
  BY DEF SharedInv, TypeOK
<1>3. /\ SearchStart(op) \in 1 .. Len(Dirs) + 1 /\ SearchEnd(op) \in 1 .. Len(Dirs) + 1
      /\ Len(Dirs) \in Nat \ {0}
  BY <1>2, SearchBounds
<1>4. OwnPath(h)[2] = h.name
  BY DEF OwnPath
<1>5. CASE skip # 0
  BY <1>1, <1>2, <1>5 DEF Include, Pass
<1>6. CASE /\ skip = 0 /\ TriesFirst(op, h)
           /\ \/ KnownAtFirst(op, h) /\ Pass
              \/ ~KnownAtFirst(op, h) /\ OwnPath(h) \in DOMAIN fs /\ Enter(OwnPath(h), op)
           /\ UNCHANGED search
  BY <1>1, <1>2, <1>4, <1>6 DEF Pass
<1>7. CASE skip = 0 /\ Absolute(h) /\ Pass /\ UNCHANGED search
  BY <1>1, <1>2, <1>7 DEF Pass
<1>8. CASE skip = 0 /\ ~Absolute(h) /\ Hits(op, h) = {} /\ search' = SearchEnd(op) /\ Pass
  <2>1. search' \in 0 .. Len(Dirs) + 1
    BY <1>3, <1>8
  <2> QED BY <1>1, <1>8, <2>1 DEF Pass
<1>9. CASE /\ skip = 0 /\ Hits(op, h) # {} /\ search' = Min(Hits(op, h))
           /\ LET path == <<DirAt(search'), h.name>> IN
                IF Known(op, path) THEN Pass ELSE Enter(path, op)
  <2>1. Hits(op, h) \in SUBSET Nat
    BY <1>3 DEF Hits
  <2>2. search' \in Hits(op, h)
    BY <1>9, <2>1, Minimum
  <2>3. search' \in SearchStart(op) .. SearchEnd(op)
    BY <2>2 DEF Hits
  <2>4. search' \in 0 .. Len(Dirs) + 1
    BY <1>3, <2>3
  <2>5. PICK path : path = <<DirAt(search'), h.name>>
    OBVIOUS
  <2>6. Known(op, path) \/ path \in DOMAIN fs
    BY <2>2, <2>5 DEF Hits
  <2>7. path[2] = h.name
    BY <2>5
  <2>8. CASE Known(op, path)
    BY <1>1, <1>9, <2>4, <2>5, <2>8 DEF Pass
  <2>9. CASE ~Known(op, path)
    <3>1. Enter(path, op)
      BY <1>9, <2>5, <2>9
    <3> QED BY <1>1, <1>9, <2>4, <2>6, <2>7, <2>9, <3>1
  <2> QED BY <2>8, <2>9
<1> QED BY <1>5, <1>6, <1>7, <1>8, <1>9 DEF Include

LEMMA InitShared == Init => SharedInv
<1> SUFFICES ASSUME Init PROVE SharedInv
  OBVIOUS
<1>1. Conditionals!IInv /\ Cond!TypeOK
  <2>1. Conditionals!Init /\ Width \in Nat \ {0} /\ MaxLevel \in Nat
    BY SameOperators, MaskAssumption DEF Init
  <2>2. Conditionals!IInv
    BY <2>1, Conditionals!InitIInv
  <2> QED BY <2>2, SameOperators DEF Conditionals!IInv
<1>2. fs \in FileSystems /\ Main \in DOMAIN fs /\ Len(fs[Main].lines) \in Nat
  BY FilesAssumption, FileFacts DEF Init
<1>3. PICK f : f = Frame(Main, "main")
  OBVIOUS
<1>4. f \in FrameType /\ f.path = Main /\ f.pos = 1
  <2>1. level \in 0 .. MaxLevel /\ skip \in 0 .. MaxLevel /\ seen \in SUBSET (0 .. Width - 1)
    BY <1>1 DEF Cond!TypeOK
  <2> QED BY <1>2, <1>3, <2>1 DEF Frame, FrameType
<1>5. stack = <<f>> /\ stack \in Seq(FrameType) /\ Len(stack) = 1 /\ stack[1] = f
  BY <1>3, <1>4 DEF Init
<1>6. \A n \in 1 .. Len(stack) : stack[n].pos <= Len(fs[stack[n].path].lines) + 1
  BY <1>2, <1>4, <1>5
<1>7. /\ once \subseteq DOMAIN fs /\ search \in 0 .. Len(Dirs) + 1 /\ outcome = "running"
  <2>1. Len(Dirs) \in Nat
    BY DirsAssumption
  <2> QED BY <2>1 DEF Init
<1>8. Len(stack) <= MaxFrames
  BY <1>5, FramesAssumption
<1>9. TypeOK
  BY <1>1, <1>2, <1>5, <1>6, <1>7, <1>8 DEF TypeOK
<1> QED BY <1>1, <1>5, <1>9 DEF SharedInv

LEMMA StepShared ==
  ASSUME MaxLevel <= Width, SharedInv, [Next]_vars
  PROVE  SharedInv'
<1>1. CASE Next
  <2>1. outcome = "running" /\ status = "running" /\ stack # <<>> /\ TypeOK
    BY <1>1 DEF Next, SharedInv
  <2>2. Conditionals!IInv' /\ Cond!TypeOK'
    BY <1>1, CondNext, CondInv
  <2>3. once \subseteq DOMAIN fs /\ search \in 0 .. Len(Dirs) + 1 /\ Top.path \in DOMAIN fs
    BY <2>1, TopFacts DEF TypeOK
  <2>4. CASE Return \/ Malformed
    BY <2>1, <2>2, <2>4, LeaveShared DEF Return, Malformed
  <2>5. CASE Top.pos <= RunsLines(fs[Top.path]) /\ (Execute \/ PragmaOnce \/ Include)
    <3>1. Top.pos \in 1 .. Len(fs[Top.path].lines)
      BY <2>1, <2>5, LineFacts
    <3>2. Top.pos <= Len(fs[Top.path].lines)
      BY <3>1
    <3>3. CASE Execute
      BY <2>1, <2>2, <2>3, <3>2, <3>3, PassShared DEF Execute
    <3>4. CASE PragmaOnce
      <4>1. once' \subseteq DOMAIN fs
        BY <2>3, <3>4 DEF PragmaOnce
      <4> QED BY <2>1, <2>2, <2>3, <3>2, <3>4, <4>1, PassShared DEF PragmaOnce
    <3>5. CASE Include
      <4>1. /\ Line.op \in Inclusions /\ fs' = fs /\ once' = once
            /\ search' \in 0 .. Len(Dirs) + 1
            /\ \/ stack' = Advanced(stack) /\ outcome' = outcome
               \/ \E path \in DOMAIN fs : Enter(path, Line.op)
        BY <2>1, <3>5, IncludeCases
      <4>2. CASE stack' = Advanced(stack) /\ outcome' = outcome
        BY <2>1, <2>2, <2>3, <3>2, <4>1, <4>2, PassShared
      <4>3. CASE \E path \in DOMAIN fs : Enter(path, Line.op)
        BY <2>1, <2>2, <2>3, <3>1, <4>1, <4>3, EnterShared
      <4> QED BY <4>1, <4>2, <4>3
    <3> QED BY <2>5, <3>3, <3>4, <3>5
  <2> QED BY <1>1, <2>4, <2>5 DEF Next
<1>2. CASE UNCHANGED vars
  <2>1. Conditionals!IInv' /\ Cond!TypeOK'
    BY <1>2, CondInv DEF vars, condVars
  <2>2. TypeOK'
    BY <1>2, <2>1 DEF vars, SharedInv, TypeOK, FrameType
  <2> QED BY <1>2, <2>1, <2>2 DEF vars, SharedInv, Includes
<1> QED BY <1>1, <1>2

LEMMA SharedInvariance == ASSUME MaxLevel <= Width PROVE Spec => []SharedInv
BY InitShared, StepShared, PTL DEF Spec

(* The stack of files, the once table and the search pointer are what the  *)
(* code takes them for: files that exist, a position in each that is not   *)
(* behind its end, paths, and a place in the search path (cpp.h).          *)
THEOREM TypeCorrect == ASSUME MaxLevel <= Width PROVE Spec => []TypeOK
<1>1. SharedInv => TypeOK
  BY DEF SharedInv
<1> QED BY <1>1, SharedInvariance, PTL

(* Whatever files are included in whatever place, the shared conditional   *)
(* state changes as by the directives of one file (cpp.c:341).             *)
THEOREM ConditionalsImplemented == ASSUME MaxLevel <= Width PROVE Spec => ImplementsCond
<1>1. Init => Cond!Init
  BY DEF Init
<1>2. SharedInv /\ [Next]_vars => [Cond!Next]_(Cond!vars)
  <2> SUFFICES ASSUME SharedInv, [Next]_vars
               PROVE  Conditionals!Next \/ UNCHANGED condVars
    BY SameNext DEF condVars, Cond!vars
  <2> QED BY CondNext DEF vars, condVars
<1> QED BY <1>1, <1>2, SharedInvariance, PTL DEF Spec, ImplementsCond, Cond!Spec

-----------------------------------------------------------------------------

(* How many groups the lines before a line leave open.                     *)
Depth(files, p) ==
  CHOOSE d \in [1 .. Len(files[p].lines) + 1 -> Nat] :
    Nests(files[p], d, p \notin Includable(files))

Base(files, f) == f.level + Depth(files, f.path)[f.pos]

(* lv is a level to go on at from where the file f stands, if other files  *)
(* may have left groups open, or the level, if all are whole.              *)
Fits(files, f, lv) ==
  /\ lv >= Base(files, f)
  /\ (\A p \in DOMAIN files : Whole(files[p])) => lv = Base(files, f)

(* The groups that were open where f was entered are still live, and no    *)
(* other bit was set then.                                                 *)
Keeps(f, sk, m) ==
  /\ f.skip = 0 /\ (sk = 0 \/ sk > f.level)
  /\ \A l \in 1 .. f.level : Conditionals!Bit(l) \in m <=> Conditionals!Bit(l) \in f.seen
  /\ \A b \in f.seen : \E l \in 1 .. f.level : b = Conditionals!Bit(l)

(* The files under way are nested as their groups are.                     *)
Nested ==
  /\ \A i \in 1 .. Len(stack), j \in 1 .. Len(stack) :
       i <= j => stack[i].level <= stack[j].level
  /\ \A i \in 1 .. Len(stack) : Keeps(stack[i], skip, seen)
  /\ \A i \in 1 .. Len(stack) - 1 :
       Fits(fs, stack[i], stack[i + 1].level) /\ stack[i + 1].path \in Includable(fs)
  /\ stack # <<>> => Fits(fs, Top, level) /\ stack[1].level = 0

(* The inductive invariant.                                                *)
IInv == SharedInv /\ Nested

LEMMA DepthFacts ==
  ASSUME FilesNest, fs \in FileSystems, NEW p \in DOMAIN fs
  PROVE  /\ Depth(fs, p) \in [1 .. Len(fs[p].lines) + 1 -> Nat]
         /\ Nests(fs[p], Depth(fs, p), p \notin Includable(fs))
BY DEF FilesNest, Depth

LEMMA Predecessor ==
  \A n \in Nat \ {0} : n # 1 => \E k \in 1 .. n - 1 : k + 1 = n
<1> SUFFICES ASSUME NEW n \in Nat \ {0}, n # 1
             PROVE  \E k \in 1 .. n - 1 : k + 1 = n
  OBVIOUS
<1>1. n - 1 \in 1 .. n - 1 /\ (n - 1) + 1 = n
  OBVIOUS
<1> QED BY <1>1

LEMMA TopDepth ==
  ASSUME FilesNest, IInv, stack # <<>>
  PROVE  LET d == Depth(fs, Top.path) IN
         /\ d[Top.pos] \in Nat /\ Base(fs, Top) = Top.level + d[Top.pos]
         /\ Top.level \in Nat /\ level \in Nat /\ Top.level <= level
         /\ Whole(fs[Top.path]) => d[Len(fs[Top.path].lines) + 1] = 0
<1>1. /\ fs \in FileSystems /\ Top.path \in DOMAIN fs /\ Top.pos \in Nat \ {0}
      /\ Top.level \in 0 .. MaxLevel /\ Top.pos <= Len(fs[Top.path].lines) + 1
      /\ Len(fs[Top.path].lines) \in Nat
  BY TopFacts, FileFacts DEF IInv, SharedInv
<1>2. PICK d \in [1 .. Len(fs[Top.path].lines) + 1 -> Nat] :
        /\ d = Depth(fs, Top.path)
        /\ Nests(fs[Top.path], d, Top.path \notin Includable(fs))
  BY <1>1, DepthFacts
<1>3. level \in Nat
  BY MaskAssumption DEF IInv, SharedInv, TypeOK, Cond!TypeOK
<1>4. d[Top.pos] \in Nat
  BY <1>1, <1>2
<1>5. level >= Top.level + d[Top.pos]
  BY <1>2 DEF IInv, Nested, Fits, Base
<1>6. Top.level \in Nat
  BY <1>1, MaskAssumption
<1>7. Top.level <= level
  BY <1>3, <1>4, <1>5, <1>6
<1>8. Whole(fs[Top.path]) => d[Len(fs[Top.path].lines) + 1] = 0
  BY <1>2 DEF Nests
<1> QED BY <1>2, <1>3, <1>4, <1>6, <1>7, <1>8 DEF Base

(* A branch or an end of a group belongs to a group of its own file.       *)
LEMMA OwnGroup ==
  ASSUME FilesNest, IInv, stack # <<>>, Top.pos \in 1 .. Len(fs[Top.path].lines)
  PROVE  LET d == Depth(fs, Top.path)
             op == Line.op
         IN
         /\ d[Top.pos + 1] \in Nat
         /\ op \in {"if", "ifdef", "ifndef"} => d[Top.pos + 1] = d[Top.pos] + 1
         /\ op = "endif" => d[Top.pos + 1] = IF d[Top.pos] > 0 THEN d[Top.pos] - 1 ELSE 0
         /\ op \notin {"if", "ifdef", "ifndef", "endif"} => d[Top.pos + 1] = d[Top.pos]
         /\ op \in {"elif", "else", "endif"} /\ level > 0 => level > Top.level
         /\ op \in {"elif", "else", "endif"} /\ d[Top.pos] = 0 => Top.level = 0
<1>1. /\ fs \in FileSystems /\ Top.path \in DOMAIN fs /\ Len(fs[Top.path].lines) \in Nat
      /\ Len(stack) \in Nat \ {0} /\ Top = stack[Len(stack)]
  BY TopFacts, FileFacts DEF IInv, SharedInv
<1>2. PICK d \in [1 .. Len(fs[Top.path].lines) + 1 -> Nat] :
        /\ d = Depth(fs, Top.path)
        /\ Nests(fs[Top.path], d, Top.path \notin Includable(fs))
  BY <1>1, DepthFacts
<1>3. IsDepth(d, fs[Top.path].lines, Top.path \notin Includable(fs))
  BY <1>2 DEF Nests
<1>4. /\ Line.op \in {"if", "ifdef", "ifndef"} => d[Top.pos + 1] = d[Top.pos] + 1
      /\ Line.op = "endif" => d[Top.pos + 1] = IF d[Top.pos] > 0 THEN d[Top.pos] - 1 ELSE 0
      /\ Line.op \notin {"if", "ifdef", "ifndef", "endif"} => d[Top.pos + 1] = d[Top.pos]
      /\ Line.op \in {"elif", "else", "endif"} => Top.path \notin Includable(fs) \/ d[Top.pos] > 0
  BY <1>3 DEF IsDepth, Line
<1>5. Top.path \notin Includable(fs) => Top.level = 0
  <2>1. CASE Len(stack) = 1
    BY <1>1, <2>1 DEF IInv, Nested
  <2>2. CASE Len(stack) # 1
    <3>1. PICK k \in 1 .. Len(stack) - 1 : k + 1 = Len(stack)
      BY <1>1, <2>2, Predecessor, Zenon
    <3>2. stack[k + 1].path \in Includable(fs)
      BY DEF IInv, Nested
    <3> QED BY <1>1, <3>1, <3>2
  <2> QED BY <2>1, <2>2
<1>6. /\ d[Top.pos] \in Nat /\ Top.level \in Nat /\ level \in Nat
      /\ level >= Top.level + d[Top.pos]
  BY <1>2, TopDepth DEF IInv, Nested, Fits, Base
<1>7. d[Top.pos + 1] \in Nat
  BY <1>1, <1>2, SMTT(60)
<1>8. Line.op \in {"elif", "else", "endif"} => (level > 0 => level > Top.level) /\ (d[Top.pos] = 0 => Top.level = 0)
  BY <1>4, <1>5, <1>6
<1> QED BY <1>2, <1>4, <1>7, <1>8

-----------------------------------------------------------------------------

(* What is done to a group leaves the groups around it as they are.        *)
LEMMA BitDistinct ==
  ASSUME MaxLevel <= Width,
         NEW l \in 1 .. MaxLevel, NEW m \in 1 .. MaxLevel, l # m
  PROVE  Conditionals!Bit(l) # Conditionals!Bit(m)
BY MaskAssumption, Conditionals!BitDistinct

LEMMA OpenKeeps ==
  ASSUME MaxLevel <= Width, SharedInv, NEW f \in FrameType, f.level <= level, Keeps(f, skip, seen),
         NEW c \in BOOLEAN, Conditionals!Open(c)
  PROVE  Keeps(f, skip', seen')
<1>1. /\ level \in Nat /\ MaxLevel \in Nat /\ f.level \in Nat /\ level + 1 \in 1 .. MaxLevel
      /\ skip \in Nat
  BY MaskAssumption DEF Conditionals!Open, SharedInv, TypeOK, Cond!TypeOK, FrameType
<1>2. /\ skip' = skip \/ skip' = level + 1
      /\ seen' = seen \/ seen' = seen \union {Conditionals!Bit(level + 1)}
  BY DEF Conditionals!Open
<1>3. \A l \in 1 .. f.level : Conditionals!Bit(l) # Conditionals!Bit(level + 1)
  BY <1>1, BitDistinct
<1>4. skip' = 0 \/ skip' > f.level
  BY <1>1, <1>2 DEF Keeps
<1>5. \A l \in 1 .. f.level : Conditionals!Bit(l) \in seen' <=> Conditionals!Bit(l) \in f.seen
  BY <1>2, <1>3 DEF Keeps
<1> QED BY <1>4, <1>5 DEF Keeps

LEMMA CloseKeeps ==
  ASSUME MaxLevel <= Width, SharedInv, NEW f \in FrameType, f.level < level, Keeps(f, skip, seen),
         (\E c \in BOOLEAN : Conditionals!Branch(c)) \/ Conditionals!Endif
  PROVE  Keeps(f, skip', seen')
<1>1. /\ level \in Nat /\ MaxLevel \in Nat /\ f.level \in Nat /\ level \in 1 .. MaxLevel
      /\ skip \in Nat
  BY MaskAssumption DEF SharedInv, TypeOK, Cond!TypeOK, FrameType
<1>2. /\ skip' = skip \/ skip' = level \/ skip' = 0
      /\ \/ seen' = seen \/ seen' = seen \union {Conditionals!Bit(level)}
         \/ seen' = seen \ {Conditionals!Bit(level)}
  BY DEF Conditionals!Branch, Conditionals!Endif
<1>3. \A l \in 1 .. f.level : Conditionals!Bit(l) # Conditionals!Bit(level)
  BY <1>1, BitDistinct
<1>4. skip' = 0 \/ skip' > f.level
  BY <1>1, <1>2 DEF Keeps
<1>5. \A l \in 1 .. f.level : Conditionals!Bit(l) \in seen' <=> Conditionals!Bit(l) \in f.seen
  BY <1>2, <1>3 DEF Keeps
<1> QED BY <1>4, <1>5 DEF Keeps

-----------------------------------------------------------------------------

LEMMA AdvanceNested ==
  ASSUME FilesNest, IInv, stack # <<>>, Top.pos \in 1 .. Len(fs[Top.path].lines),
         stack' = Advanced(stack), fs' = fs,
         Fits(fs, [Top EXCEPT !.pos = @ + 1], level'),
         \A f \in FrameType :
           f.level <= Top.level /\ Keeps(f, skip, seen) => Keeps(f, skip', seen')
  PROVE  Nested'
<1>1. /\ stack \in Seq(FrameType) /\ Len(stack) \in Nat \ {0}
      /\ Top = stack[Len(stack)] /\ Top \in FrameType /\ fs \in FileSystems
  BY TopFacts DEF IInv, SharedInv
<1>2. \A n \in 1 .. Len(stack) : stack[n].pos <= Len(fs[stack[n].path].lines) + 1
  BY DEF IInv, SharedInv, TypeOK
<1>3. PICK g : g = [Top EXCEPT !.pos = @ + 1]
  OBVIOUS
<1>4. /\ g.level = Top.level /\ g.path = Top.path /\ g.skip = Top.skip /\ g.seen = Top.seen
  BY <1>1, <1>3 DEF FrameType
<1>5. PICK s : s = stack'
  OBVIOUS
<1>6. /\ s \in Seq(FrameType) /\ Len(s) = Len(stack) /\ s[Len(stack)] = g
      /\ \A n \in 1 .. Len(stack) - 1 : s[n] = stack[n]
  BY <1>1, <1>2, <1>3, <1>5, AdvancedStack
<1>7. \A n \in 1 .. Len(stack) :
        s[n].level = stack[n].level /\ s[n].path = stack[n].path
        /\ s[n].skip = stack[n].skip /\ s[n].seen = stack[n].seen
  <2> SUFFICES ASSUME NEW n \in 1 .. Len(stack)
               PROVE  s[n].level = stack[n].level /\ s[n].path = stack[n].path
                      /\ s[n].skip = stack[n].skip /\ s[n].seen = stack[n].seen
    OBVIOUS
  <2>1. CASE n = Len(stack)
    BY <1>1, <1>4, <1>6, <2>1
  <2>2. CASE n # Len(stack)
    <3>1. n \in 1 .. Len(stack) - 1
      BY <1>1, <2>2
    <3> QED BY <1>6, <3>1
  <2> QED BY <2>1, <2>2
<1>8. \A i \in 1 .. Len(s), j \in 1 .. Len(s) : i <= j => s[i].level <= s[j].level
  BY <1>6, <1>7 DEF IInv, Nested
<1>9. \A i \in 1 .. Len(s) : Keeps(s[i], skip', seen')
  <2> SUFFICES ASSUME NEW i \in 1 .. Len(stack)
               PROVE  Keeps(s[i], skip', seen')
    BY <1>6
  <2>1. stack[i] \in FrameType /\ Keeps(stack[i], skip, seen)
    BY <1>1 DEF IInv, Nested
  <2>2. stack[i].level <= Top.level
    <3>1. Len(stack) \in 1 .. Len(stack) /\ i <= Len(stack)
      BY <1>1
    <3> QED BY <1>1, <3>1 DEF IInv, Nested
  <2>3. Keeps(stack[i], skip', seen')
    BY <2>1, <2>2
  <2> QED BY <1>7, <2>3 DEF Keeps
<1>10. \A i \in 1 .. Len(s) - 1 : Fits(fs, s[i], s[i + 1].level) /\ s[i + 1].path \in Includable(fs)
  <2> SUFFICES ASSUME NEW i \in 1 .. Len(stack) - 1
               PROVE  Fits(fs, s[i], s[i + 1].level) /\ s[i + 1].path \in Includable(fs)
    BY <1>6
  <2>1. s[i] = stack[i] /\ i + 1 \in 1 .. Len(stack)
    BY <1>1, <1>6
  <2> QED BY <1>7, <2>1 DEF IInv, Nested
<1>11. Fits(fs, g, level') /\ s[1].level = 0
  BY <1>1, <1>3, <1>7 DEF IInv, Nested
<1>12. Top' = g
  BY <1>5, <1>6 DEF Top
<1> QED BY <1>5, <1>6, <1>8, <1>9, <1>10, <1>11, <1>12 DEF Nested

(* A line that is no inclusion.                                            *)
LEMMA LineNested ==
  ASSUME MaxLevel <= Width, FilesNest, IInv, stack # <<>>,
         Top.pos <= RunsLines(fs[Top.path]), CondStep(Line)
  PROVE  /\ Fits(fs, [Top EXCEPT !.pos = @ + 1], level')
         /\ \A f \in FrameType :
              f.level <= Top.level /\ Keeps(f, skip, seen) => Keeps(f, skip', seen')
<1> DEFINE d == Depth(fs, Top.path)
           g == [Top EXCEPT !.pos = @ + 1]
           op == Line.op
<1>1. /\ Top.pos \in 1 .. Len(fs[Top.path].lines) /\ IsLine(Line) /\ Top \in FrameType
  BY TopFacts, LineFacts DEF IInv, SharedInv
<1>2. /\ d[Top.pos] \in Nat /\ d[Top.pos + 1] \in Nat /\ Top.level \in Nat /\ level \in Nat
      /\ Top.level <= level /\ Base(fs, Top) = Top.level + d[Top.pos]
  BY <1>1, TopDepth, OwnGroup
<1>3. /\ op \in {"if", "ifdef", "ifndef"} => d[Top.pos + 1] = d[Top.pos] + 1
      /\ op = "endif" => d[Top.pos + 1] = IF d[Top.pos] > 0 THEN d[Top.pos] - 1 ELSE 0
      /\ op \notin {"if", "ifdef", "ifndef", "endif"} => d[Top.pos + 1] = d[Top.pos]
      /\ op \in {"elif", "else", "endif"} /\ level > 0 => level > Top.level
      /\ op \in {"elif", "else", "endif"} /\ d[Top.pos] = 0 => Top.level = 0
  BY <1>1, OwnGroup
<1>4. /\ level >= Top.level + d[Top.pos]
      /\ WholeFiles => level = Top.level + d[Top.pos]
  BY <1>2 DEF IInv, Nested, Fits, WholeFiles
<1>5. Base(fs, g) = Top.level + d[Top.pos + 1]
  BY <1>1 DEF Base, FrameType
<1> HIDE DEF d
<1>6. ASSUME NEW f \in FrameType, f.level <= Top.level
      PROVE  f.level \in Nat /\ f.level <= level
  BY <1>2, <1>6, MaskAssumption DEF FrameType
<1>7. SharedInv
  BY DEF IInv
<1>8. CASE op \in {"if", "ifdef", "ifndef"} /\ \E c \in BOOLEAN : Conditionals!Open(c)
  <2>1. level' = level + 1
    BY <1>8 DEF Conditionals!Open
  <2>2. Fits(fs, g, level')
    BY <1>2, <1>3, <1>4, <1>5, <1>8, <2>1 DEF Fits, WholeFiles
  <2> QED BY <1>6, <1>7, <1>8, <2>2, OpenKeeps
<1>9. CASE op \in {"elif", "else"} /\ \E c \in BOOLEAN : Conditionals!Branch(c)
  <2>1. level' = level /\ level > 0
    BY <1>9 DEF Conditionals!Branch
  <2>2. Fits(fs, g, level')
    <3>1. d[Top.pos + 1] = d[Top.pos]
      BY <1>3, <1>9
    <3> QED BY <1>4, <1>5, <2>1, <3>1 DEF Fits, WholeFiles
  <2>3. level > Top.level
    BY <1>3, <1>9, <2>1
  <2>4. \A f \in FrameType : f.level <= Top.level => f.level < level
    BY <1>2, <1>6, <2>3
  <2> QED BY <1>7, <1>9, <2>2, <2>4, CloseKeeps
<1>10. CASE op = "endif" /\ Conditionals!Endif
  <2>1. level' = level - 1 /\ level > 0
    BY <1>10 DEF Conditionals!Endif
  <2>2. level > Top.level
    BY <1>3, <1>10, <2>1
  <2>3. Fits(fs, g, level')
    <3>1. CASE d[Top.pos] > 0
      <4>1. d[Top.pos + 1] = d[Top.pos] - 1
        BY <1>3, <1>10, <3>1
      <4> QED BY <1>2, <1>4, <1>5, <2>1, <4>1 DEF Fits, WholeFiles
    <3>2. CASE d[Top.pos] = 0
      <4>1. d[Top.pos + 1] = 0 /\ Top.level = 0
        BY <1>3, <1>10, <3>2
      <4> QED BY <1>2, <1>4, <1>5, <2>1, <3>2, <4>1 DEF Fits, WholeFiles
    <3> QED BY <1>2, <3>1, <3>2
  <2>4. \A f \in FrameType : f.level <= Top.level => f.level < level
    BY <1>2, <1>6, <2>2
  <2> QED BY <1>7, <1>10, <2>3, <2>4, CloseKeeps
<1>11. CASE /\ op \in {"define", "undef", "error", "warning"}
            /\ \/ \E n \in Names : Conditionals!Define(n) \/ Conditionals!Undef(n)
               \/ \E k \in Conditionals!Kinds : Conditionals!Effect(k)
  <2>1. level' = level /\ skip' = skip /\ seen' = seen
    BY <1>11 DEF Conditionals!Define, Conditionals!Undef, Conditionals!Effect
  <2>2. d[Top.pos + 1] = d[Top.pos]
    BY <1>3, <1>11
  <2> QED BY <1>4, <1>5, <2>1, <2>2 DEF Fits, WholeFiles
<1>12. CASE op \in {"elif", "else", "endif"} /\ level = 0 /\ UNCHANGED condVars
  <2>1. level' = level /\ skip' = skip /\ seen' = seen
    BY <1>12 DEF condVars
  <2>2. d[Top.pos] = 0 /\ Top.level = 0
    BY <1>2, <1>4, <1>12
  <2>3. d[Top.pos + 1] = 0
    BY <1>3, <1>12, <2>2
  <2> QED BY <1>4, <1>5, <1>12, <2>1, <2>2, <2>3 DEF Fits, WholeFiles
<1> QED BY <1>1, <1>8, <1>9, <1>10, <1>11, <1>12, CondStepCases

(* A line that changes no group.                                           *)
LEMMA QuietNested ==
  ASSUME FilesNest, IInv, stack # <<>>, Top.pos \in 1 .. Len(fs[Top.path].lines),
         Line.op \in Inclusions \union {"pragma_once"}, Cond!Effect(Line.op),
         stack' = Advanced(stack), fs' = fs
  PROVE  Nested'
<1> DEFINE d == Depth(fs, Top.path)
           g == [Top EXCEPT !.pos = @ + 1]
<1>1. level' = level /\ skip' = skip /\ seen' = seen
  BY DEF Cond!Effect
<1>2. d[Top.pos + 1] = d[Top.pos] /\ Base(fs, Top) = Top.level + d[Top.pos]
  BY TopDepth, OwnGroup DEF Inclusions
<1>3. Top \in FrameType
  BY TopFacts DEF IInv, SharedInv
<1>4. Base(fs, g) = Top.level + d[Top.pos + 1]
  BY <1>3 DEF Base, FrameType
<1>5. Fits(fs, g, level')
  BY <1>1, <1>2, <1>4 DEF IInv, Nested, Fits
<1> QED BY <1>1, <1>5, AdvanceNested

(* An inclusion leaves the groups of its own file as they are.             *)
LEMMA InclusionDepth ==
  ASSUME FilesNest, fs \in FileSystems, NEW f \in FrameType, Includes(fs, f)
  PROVE  Base(fs, [f EXCEPT !.pos = @ + 1]) = Base(fs, f)
<1>1. f.path \in DOMAIN fs /\ f.pos \in Nat \ {0}
  BY DEF FrameType
<1>2. Len(fs[f.path].lines) \in Nat
  BY <1>1, FileFacts
<1>3. PICK d \in [1 .. Len(fs[f.path].lines) + 1 -> Nat] :
        /\ d = Depth(fs, f.path)
        /\ Nests(fs[f.path], d, f.path \notin Includable(fs))
  BY <1>1, DepthFacts
<1>4. f.pos \in 1 .. Len(fs[f.path].lines)
  BY <1>1, <1>2 DEF Includes
<1>5. d[f.pos + 1] = d[f.pos]
  <2>1. IsDepth(d, fs[f.path].lines, f.path \notin Includable(fs))
    BY <1>3 DEF Nests
  <2>2. fs[f.path].lines[f.pos].op \notin {"if", "ifdef", "ifndef", "endif"}
    BY DEF Includes, Inclusions
  <2> QED BY <1>4, <2>1, <2>2 DEF IsDepth
<1>6. PICK g : g = [f EXCEPT !.pos = @ + 1]
  OBVIOUS
<1>7. g.level = f.level /\ g.path = f.path /\ g.pos = f.pos + 1
  BY <1>6 DEF FrameType
<1> QED BY <1>3, <1>5, <1>6, <1>7 DEF Base

LEMMA EnteredNested ==
  ASSUME FilesNest, IInv, stack # <<>>, Top.pos \in 1 .. Len(fs[Top.path].lines),
         Line.op \in Inclusions, Cond!Effect(Line.op), skip = 0, fs' = fs,
         NEW path \in DOMAIN fs, path[2] = Line.arg.name,
         stack' = Append(stack, Frame(path, Line.op))
  PROVE  Nested'
<1>1. /\ stack \in Seq(FrameType) /\ Len(stack) \in Nat \ {0}
      /\ Top = stack[Len(stack)] /\ Top \in FrameType /\ fs \in FileSystems
      /\ Top.path \in DOMAIN fs
  BY TopFacts DEF IInv, SharedInv
<1>2. PICK f : f = Frame(path, Line.op)
  OBVIOUS
<1>3. f.level = level /\ f.skip = 0 /\ f.seen = seen /\ f.path = path /\ f.pos = 1
  BY <1>2 DEF Frame
<1>4. f \in FrameType
  BY <1>2, EnteredFrame DEF IInv, SharedInv
<1>5. PICK s : s = stack'
  OBVIOUS
<1>6. /\ s \in Seq(FrameType) /\ Len(s) = Len(stack) + 1
      /\ \A n \in 1 .. Len(stack) : s[n] = stack[n]
      /\ s[Len(stack) + 1] = f
  BY <1>1, <1>2, <1>4, <1>5, AppendProperties
<1>7. level' = level /\ skip' = skip /\ seen' = seen
  BY DEF Cond!Effect
<1>8. Top.level <= level /\ level \in Nat
  BY TopDepth
<1>9. \A i \in 1 .. Len(stack) : stack[i].level \in Nat /\ stack[i].level <= Top.level
  <2> SUFFICES ASSUME NEW i \in 1 .. Len(stack)
               PROVE  stack[i].level \in Nat /\ stack[i].level <= Top.level
    OBVIOUS
  <2>1. stack[i] \in FrameType
    BY <1>1
  <2>2. stack[i].level \in Nat
    BY <2>1, MaskAssumption DEF FrameType
  <2>3. Len(stack) \in 1 .. Len(stack) /\ i <= Len(stack)
    BY <1>1
  <2> QED BY <1>1, <2>2, <2>3 DEF IInv, Nested
<1>10. Top.level \in Nat
  BY <1>1, MaskAssumption DEF FrameType
<1>11. \A i \in 1 .. Len(s), j \in 1 .. Len(s) : i <= j => s[i].level <= s[j].level
  <2> SUFFICES ASSUME NEW i \in 1 .. Len(s), NEW j \in 1 .. Len(s), i <= j
               PROVE  s[i].level <= s[j].level
    OBVIOUS
  <2>1. CASE j \in 1 .. Len(stack)
    <3>1. i \in 1 .. Len(stack)
      BY <1>1, <2>1
    <3> QED BY <1>6, <2>1, <3>1 DEF IInv, Nested
  <2>2. CASE j = Len(stack) + 1 /\ i \in 1 .. Len(stack)
    <3>1. stack[i].level <= level
      BY <1>8, <1>9, <1>10, <2>2
    <3> QED BY <1>3, <1>6, <2>2, <3>1
  <2>3. CASE j = Len(stack) + 1 /\ i = Len(stack) + 1
    BY <1>3, <1>6, <1>8, <2>3
  <2> QED BY <1>1, <1>6, <2>1, <2>2, <2>3
<1>12. Keeps(f, 0, seen)
  <2>1. \A b \in seen : \E l \in 1 .. level : b = Conditionals!Bit(l)
    BY DEF IInv, SharedInv, Conditionals!IInv, Conditionals!LevelsConsistent
  <2> QED BY <1>3, <2>1 DEF Keeps
<1>13. \A i \in 1 .. Len(s) : Keeps(s[i], skip', seen')
  <2> SUFFICES ASSUME NEW i \in 1 .. Len(s)
               PROVE  Keeps(s[i], skip, seen)
    BY <1>7
  <2>1. CASE i \in 1 .. Len(stack)
    BY <1>6, <2>1 DEF IInv, Nested
  <2>2. CASE i = Len(stack) + 1
    BY <1>6, <1>12, <2>2
  <2> QED BY <1>1, <1>6, <2>1, <2>2
<1>14. path \in Includable(fs)
  <2>1. Top.pos \in DOMAIN fs[Top.path].lines
    BY <1>1, FileFacts
  <2> QED BY <1>1, <2>1 DEF Includable, Line
<1>15. \A i \in 1 .. Len(s) - 1 : Fits(fs, s[i], s[i + 1].level) /\ s[i + 1].path \in Includable(fs)
  <2> SUFFICES ASSUME NEW i \in 1 .. Len(stack)
               PROVE  Fits(fs, s[i], s[i + 1].level) /\ s[i + 1].path \in Includable(fs)
    BY <1>1, <1>6
  <2>1. CASE i = Len(stack)
    <3>1. s[i] = Top /\ s[i + 1] = f
      BY <1>1, <1>6, <2>1
    <3>2. Fits(fs, Top, level)
      BY DEF IInv, Nested
    <3> QED BY <1>3, <1>14, <3>1, <3>2
  <2>2. CASE i # Len(stack)
    <3>1. i \in 1 .. Len(stack) - 1 /\ i + 1 \in 1 .. Len(stack)
      BY <1>1, <2>2
    <3>2. s[i] = stack[i] /\ s[i + 1] = stack[i + 1]
      BY <1>6, <3>1
    <3> QED BY <3>1, <3>2 DEF IInv, Nested
  <2> QED BY <2>1, <2>2
<1>16. Fits(fs, f, level)
  <2>1. Nests(fs[path], Depth(fs, path), path \notin Includable(fs))
    BY <1>1, DepthFacts
  <2>2. Depth(fs, path)[1] = 0
    BY <2>1 DEF Nests, IsDepth
  <2>3. Base(fs, f) = level
    BY <1>3, <1>8, <2>2 DEF Base
  <2> QED BY <1>8, <2>3 DEF Fits
<1>17. s[1].level = 0
  <2>1. 1 \in 1 .. Len(stack)
    BY <1>1
  <2> QED BY <1>6, <2>1 DEF IInv, Nested
<1>18. Top' = f
  BY <1>5, <1>6 DEF Top
<1> QED BY <1>5, <1>6, <1>7, <1>11, <1>13, <1>15, <1>16, <1>17, <1>18 DEF Nested

(* At the end of a file the groups it opened are closed, if all are whole. *)
LEMMA LeftLevel ==
  ASSUME FilesNest, IInv, stack # <<>>, Return \/ (Top.pos <= RunsLines(fs[Top.path]) /\ Malformed)
  PROVE  WholeFiles => level = Top.level
<1> SUFFICES ASSUME WholeFiles
             PROVE  level = Top.level
  OBVIOUS
<1>1. /\ fs \in FileSystems /\ Top.path \in DOMAIN fs /\ Top.pos \in Nat
      /\ Top.pos <= Len(fs[Top.path].lines) + 1 /\ TypeOK
  BY TopFacts DEF IInv, SharedInv
<1>2. /\ Whole(fs[Top.path]) /\ fs[Top.path].eol
      /\ \A n \in DOMAIN fs[Top.path].lines : fs[Top.path].lines[n].op # "malformed"
  BY <1>1 DEF WholeFiles, Whole
<1>3. /\ Len(fs[Top.path].lines) \in Nat /\ RunsLines(fs[Top.path]) = Len(fs[Top.path].lines)
      /\ DOMAIN fs[Top.path].lines = 1 .. Len(fs[Top.path].lines)
  BY <1>1, <1>2, FileFacts
<1>4. Top.pos = Len(fs[Top.path].lines) + 1
  <2>1. CASE Return
    BY <1>1, <1>3, <2>1 DEF Return
  <2>2. CASE Top.pos <= RunsLines(fs[Top.path]) /\ Malformed
    <3>1. Top.pos \in DOMAIN fs[Top.path].lines
      BY <1>1, <1>3, <2>2, LineFacts
    <3> QED BY <1>2, <2>2, <3>1 DEF Malformed, Line
  <2> QED BY <2>1, <2>2
<1>5. /\ Base(fs, Top) = Top.level + Depth(fs, Top.path)[Top.pos] /\ Top.level \in Nat
      /\ Depth(fs, Top.path)[Len(fs[Top.path].lines) + 1] = 0
  BY <1>2, TopDepth
<1>6. level = Base(fs, Top)
  BY DEF IInv, Nested, Fits, WholeFiles
<1> QED BY <1>4, <1>5, <1>6

(* The including file goes on where its group was.                         *)
LEMMA LeftNested ==
  ASSUME FilesNest, IInv, stack # <<>>, NEW result, Leave(result), UNCHANGED condVars, fs' = fs,
         WholeFiles => level = Top.level
  PROVE  Nested'
<1>1. /\ stack \in Seq(FrameType) /\ Len(stack) \in Nat \ {0}
      /\ Top = stack[Len(stack)] /\ Top \in FrameType /\ fs \in FileSystems
  BY TopFacts DEF IInv, SharedInv
<1>2. level' = level /\ skip' = skip /\ seen' = seen
  BY DEF condVars
<1>3. CASE Len(stack) = 1
  <2>1. stack' = <<>> /\ Len(stack') = 0
    BY <1>3 DEF Leave
  <2> QED BY <2>1 DEF Nested
<1>4. CASE Len(stack) # 1
  <2>1. PICK s : s = Front(stack)
    OBVIOUS
  <2>2. stack' = Advanced(s)
    BY <1>4, <2>1 DEF Leave
  <2>3. /\ s \in Seq(FrameType) /\ Len(s) = Len(stack) - 1
        /\ \A n \in 1 .. Len(stack) - 1 : s[n] = stack[n]
    BY <1>1, <2>1, LastRemoved DEF Front
  <2>4. PICK k \in 1 .. Len(stack) - 1 : k = Len(s) /\ k + 1 = Len(stack)
    BY <1>1, <1>4, <2>3
  <2>5. PICK t \in FrameType : t = stack[k]
    BY <1>1, <2>4
  <2>6. s # <<>> /\ s[Len(s)] = t /\ Includes(fs, t)
    BY <2>3, <2>4, <2>5 DEF IInv, SharedInv
  <2>7. \A n \in 1 .. Len(s) : s[n].pos <= Len(fs[s[n].path].lines) + 1
    <3>1. \A n \in 1 .. Len(s) : n \in 1 .. Len(stack) - 1 /\ n \in 1 .. Len(stack)
      BY <1>1, <2>3, <2>4
    <3> QED BY <2>3, <3>1 DEF IInv, SharedInv, TypeOK
  <2>8. PICK g : g = [t EXCEPT !.pos = @ + 1]
    OBVIOUS
  <2>9. PICK u : u = stack'
    OBVIOUS
  <2>10. u \in Seq(FrameType) /\ Len(u) = k /\ u[k] = g /\ \A n \in 1 .. k - 1 : u[n] = s[n]
    BY <1>1, <2>2, <2>3, <2>4, <2>6, <2>7, <2>8, <2>9, AdvancedStack DEF Includes
  <2>11. g.level = t.level /\ g.path = t.path /\ g.skip = t.skip /\ g.seen = t.seen
    BY <2>8 DEF FrameType
  <2>12. \A n \in 1 .. k :
           u[n].level = stack[n].level /\ u[n].path = stack[n].path
           /\ u[n].skip = stack[n].skip /\ u[n].seen = stack[n].seen
    <3> SUFFICES ASSUME NEW n \in 1 .. k
                 PROVE  u[n].level = stack[n].level /\ u[n].path = stack[n].path
                        /\ u[n].skip = stack[n].skip /\ u[n].seen = stack[n].seen
      OBVIOUS
    <3>1. CASE n = k
      BY <2>5, <2>10, <2>11, <3>1
    <3>2. CASE n # k
      <4>1. n \in 1 .. k - 1 /\ n \in 1 .. Len(stack) - 1
        BY <2>4, <3>2
      <4> QED BY <2>3, <2>10, <4>1
    <3> QED BY <3>1, <3>2
  <2>13. \A i \in 1 .. Len(u), j \in 1 .. Len(u) : i <= j => u[i].level <= u[j].level
    BY <2>4, <2>10, <2>12 DEF IInv, Nested
  <2>14. \A i \in 1 .. Len(u) : Keeps(u[i], skip', seen')
    <3> SUFFICES ASSUME NEW i \in 1 .. k
                 PROVE  Keeps(u[i], skip, seen)
      BY <1>2, <2>10
    <3>1. Keeps(stack[i], skip, seen)
      BY <2>4 DEF IInv, Nested
    <3> QED BY <2>12, <3>1 DEF Keeps
  <2>15. \A i \in 1 .. Len(u) - 1 : Fits(fs, u[i], u[i + 1].level) /\ u[i + 1].path \in Includable(fs)
    <3> SUFFICES ASSUME NEW i \in 1 .. k - 1
                 PROVE  Fits(fs, u[i], u[i + 1].level) /\ u[i + 1].path \in Includable(fs)
      BY <2>10
    <3>1. u[i] = stack[i] /\ i + 1 \in 1 .. k /\ i \in 1 .. Len(stack) - 1
      BY <2>3, <2>4, <2>10, SMTT(60)
    <3>2. u[i + 1].level = stack[i + 1].level /\ u[i + 1].path = stack[i + 1].path
      BY <2>12, <3>1
    <3> QED BY <3>1, <3>2 DEF IInv, Nested
  <2>16. Fits(fs, t, Top.level)
    BY <1>1, <2>4, <2>5 DEF IInv, Nested
  <2>17. Base(fs, g) = Base(fs, t) /\ Base(fs, t) \in Nat
    <3>1. Base(fs, g) = Base(fs, t)
      BY <1>1, <2>6, <2>8, InclusionDepth
    <3>2. t.path \in DOMAIN fs /\ t.level \in Nat /\ t.pos \in 1 .. Len(fs[t.path].lines) + 1
      <4>1. t.path \in DOMAIN fs /\ t.pos \in Nat \ {0} /\ t.level \in Nat
        BY MaskAssumption DEF FrameType
      <4>2. Len(fs[t.path].lines) \in Nat /\ t.pos <= Len(fs[t.path].lines)
        BY <1>1, <2>6, <4>1, FileFacts DEF Includes
      <4> QED BY <4>1, <4>2
    <3>3. Depth(fs, t.path) \in [1 .. Len(fs[t.path].lines) + 1 -> Nat]
      BY <1>1, <3>2, DepthFacts
    <3>4. Depth(fs, t.path)[t.pos] \in Nat
      BY <3>2, <3>3
    <3> QED BY <3>1, <3>2, <3>4 DEF Base
  <2>18. Fits(fs, g, level)
    <3>1. level >= Top.level /\ level \in Nat /\ Top.level \in Nat
      BY TopDepth
    <3>2. level >= Base(fs, g)
      BY <2>16, <2>17, <3>1 DEF Fits
    <3>3. WholeFiles => level = Base(fs, g)
      BY <2>16, <2>17 DEF Fits, WholeFiles
    <3> QED BY <3>2, <3>3 DEF Fits, WholeFiles
  <2>19. u[1].level = 0
    <3>1. 1 \in 1 .. k
      BY <2>4
    <3> QED BY <2>12, <3>1 DEF IInv, Nested
  <2>20. Top' = g
    BY <2>9, <2>10 DEF Top
  <2> QED BY <1>2, <2>9, <2>10, <2>13, <2>14, <2>15, <2>18, <2>19, <2>20 DEF Nested
<1> QED BY <1>3, <1>4

-----------------------------------------------------------------------------

LEMMA InitIInv == ASSUME FilesNest PROVE Init => IInv
<1> SUFFICES ASSUME Init PROVE IInv
  OBVIOUS
<1>1. SharedInv
  BY InitShared
<1>2. level = 0 /\ skip = 0 /\ seen = {} /\ fs \in FileSystems /\ Main \in DOMAIN fs
  BY FilesAssumption DEF Init, Cond!Init
<1>3. PICK f : f = Frame(Main, "main")
  OBVIOUS
<1>4. f.level = 0 /\ f.skip = 0 /\ f.seen = {} /\ f.path = Main /\ f.pos = 1
  BY <1>2, <1>3 DEF Frame
<1>5. stack = <<f>> /\ Len(stack) = 1 /\ stack[1] = f /\ Top = f
  BY <1>3 DEF Init, Top
<1>6. Keeps(f, skip, seen)
  BY <1>2, <1>4 DEF Keeps
<1>7. Fits(fs, f, level)
  <2>1. Nests(fs[Main], Depth(fs, Main), Main \notin Includable(fs))
    BY <1>2, DepthFacts
  <2>2. Depth(fs, Main)[1] = 0
    BY <2>1 DEF Nests, IsDepth
  <2> QED BY <1>2, <1>4, <2>2 DEF Base, Fits
<1> QED BY <1>1, <1>4, <1>5, <1>6, <1>7 DEF IInv, Nested

LEMMA StepIInv ==
  ASSUME MaxLevel <= Width, FilesNest, IInv, [Next]_vars
  PROVE  IInv'
<1>1. SharedInv'
  BY StepShared DEF IInv
<1>2. CASE Next
  <2>1. outcome = "running" /\ stack # <<>> /\ TypeOK /\ SharedInv
    BY <1>2 DEF Next, IInv, SharedInv
  <2>2. CASE Return \/ (Top.pos <= RunsLines(fs[Top.path]) /\ Malformed)
    <3>1. WholeFiles => level = Top.level
      BY <2>1, <2>2, LeftLevel
    <3>2. /\ Leave("parsed") \/ Leave("failed")
          /\ UNCHANGED condVars /\ fs' = fs
      BY <2>2 DEF Return, Malformed
    <3>3. Nested'
      BY <2>1, <3>1, <3>2, LeftNested
    <3> QED BY <1>1, <3>3 DEF IInv
  <2>3. CASE Top.pos <= RunsLines(fs[Top.path]) /\ (Execute \/ PragmaOnce \/ Include)
    <3>1. Top.pos \in 1 .. Len(fs[Top.path].lines)
      BY <2>1, <2>3, LineFacts
    <3>2. CASE Execute
      <4>1. CondStep(Line) /\ stack' = Advanced(stack) /\ fs' = fs
        BY <3>2 DEF Execute
      <4>2. Nested'
        BY <2>1, <2>3, <3>1, <4>1, LineNested, AdvanceNested
      <4> QED BY <1>1, <4>2 DEF IInv
    <3>3. CASE PragmaOnce
      <4>1. Line.op \in Inclusions \union {"pragma_once"} /\ Cond!Effect(Line.op)
            /\ stack' = Advanced(stack) /\ fs' = fs
        BY <3>3 DEF PragmaOnce
      <4>2. Nested'
        BY <2>1, <3>1, <4>1, QuietNested
      <4> QED BY <1>1, <4>2 DEF IInv
    <3>4. CASE Include
      <4>1. /\ Line.op \in Inclusions /\ Cond!Effect(Line.op) /\ fs' = fs
            /\ \/ stack' = Advanced(stack) /\ outcome' = outcome
               \/ skip = 0 /\ \E path \in DOMAIN fs :
                                path[2] = Line.arg.name /\ Enter(path, Line.op)
        BY <2>1, <3>4, IncludeCases
      <4>2. CASE stack' = Advanced(stack)
        <5>1. Nested'
          BY <2>1, <3>1, <4>1, <4>2, QuietNested
        <5> QED BY <1>1, <5>1 DEF IInv
      <4>3. ASSUME skip = 0, NEW path \in DOMAIN fs, path[2] = Line.arg.name, Enter(path, Line.op)
            PROVE  IInv'
        <5>1. CASE stack' = Append(stack, Frame(path, Line.op))
          <6>1. Nested'
            BY <2>1, <3>1, <4>1, <4>3, <5>1, EnteredNested
          <6> QED BY <1>1, <6>1 DEF IInv
        <5>2. CASE stack' = stack
          <6>1. level' = level /\ skip' = skip /\ seen' = seen
            BY <4>1 DEF Cond!Effect
          <6>2. Nested'
            BY <4>1, <5>2, <6>1 DEF IInv, Nested, Top
          <6> QED BY <1>1, <6>2 DEF IInv
        <5> QED BY <4>3, <5>1, <5>2 DEF Enter
      <4> QED BY <4>1, <4>2, <4>3
    <3> QED BY <2>3, <3>2, <3>3, <3>4
  <2> QED BY <1>2, <2>2, <2>3 DEF Next
<1>3. CASE UNCHANGED vars
  <2>1. Nested'
    BY <1>3 DEF vars, IInv, Nested, Top
  <2> QED BY <1>1, <2>1 DEF IInv
<1> QED BY <1>2, <1>3

LEMMA Invariance ==
  ASSUME MaxLevel <= Width, FilesNest
  PROVE  Spec => []IInv
BY InitIInv, StepIInv, PTL DEF Spec

(* The groups of the files under way stay as they are.                     *)
LEMMA IInvGroups == ASSUME FilesNest PROVE IInv => OwnGroupsOnly
<1> SUFFICES ASSUME IInv, stack # <<>>
             PROVE  level >= Top.level /\ (skip = 0 \/ skip > Top.level)
  BY DEF OwnGroupsOnly
<1>1. Len(stack) \in 1 .. Len(stack) /\ Top = stack[Len(stack)]
  BY TopFacts DEF IInv, SharedInv
<1>2. Keeps(Top, skip, seen)
  BY <1>1 DEF IInv, Nested
<1>3. Top.level <= level /\ Top.level \in Nat /\ level \in Nat
  BY TopDepth
<1> QED BY <1>2, <1>3 DEF Keeps

LEMMA AdvancedLength ==
  ASSUME TypeOK, stack # <<>>
  PROVE  Len(Advanced(stack)) = Len(stack)
<1>1. stack \in Seq(FrameType) /\ Len(stack) \in DOMAIN stack
  BY TopFacts
<1> QED BY <1>1 DEF Advanced

(* Only the end of a file takes a call off the stack.                      *)
LEMMA StepLeaves ==
  ASSUME IInv, [Next]_vars, Len(stack') < Len(stack)
  PROVE  /\ stack # <<>> /\ TypeOK /\ SharedInv
         /\ Return \/ (Top.pos <= RunsLines(fs[Top.path]) /\ Malformed)
         /\ level' = level /\ skip' = skip /\ seen' = seen
<1>1. Next /\ stack # <<>> /\ TypeOK /\ SharedInv /\ Len(stack) \in Nat
  <2>1. Len(stack) \in Nat
    BY DEF IInv, SharedInv, TypeOK
  <2>2. Next
    BY <2>1 DEF vars
  <2> QED BY <2>1, <2>2 DEF Next, IInv, SharedInv
<1>2. ~(Execute \/ PragmaOnce \/ Include)
  <2>1. CASE Execute \/ PragmaOnce
    <3>1. Len(stack') = Len(stack)
      BY <1>1, <2>1, AdvancedLength DEF Execute, PragmaOnce
    <3> QED BY <1>1, <3>1
  <2>2. CASE Include
    <3>1. \/ stack' = Advanced(stack)
          \/ \E path \in DOMAIN fs : Enter(path, Line.op)
      BY <1>1, <2>2, IncludeCases
    <3>2. CASE stack' = Advanced(stack)
      <4>1. Len(stack') = Len(stack)
        BY <1>1, <3>2, AdvancedLength
      <4> QED BY <1>1, <4>1
    <3>3. ASSUME NEW path \in DOMAIN fs, Enter(path, Line.op)
          PROVE  FALSE
      <4>1. CASE stack' = stack
        BY <1>1, <4>1
      <4>2. CASE stack' = Append(stack, Frame(path, Line.op))
        <5>1. Len(stack') = Len(stack) + 1
          BY <1>1, <4>2 DEF TypeOK
        <5> QED BY <1>1, <5>1
      <4> QED BY <3>3, <4>1, <4>2 DEF Enter
    <3> QED BY <3>1, <3>2, <3>3
  <2> QED BY <2>1, <2>2
<1>3. Return \/ (Top.pos <= RunsLines(fs[Top.path]) /\ Malformed)
  BY <1>1, <1>2 DEF Next
<1>4. level' = level /\ skip' = skip /\ seen' = seen
  BY <1>3 DEF Return, Malformed, condVars
<1> QED BY <1>1, <1>3, <1>4

(* What the file leaves behind, it has put above the groups around it.     *)
LEMMA StepAround ==
  ASSUME FilesNest, IInv, [Next]_vars, Len(stack') < Len(stack)
  PROVE  /\ level' >= Top.level
         /\ skip' = 0 \/ skip' > Top.level
         /\ \A l \in 1 .. Top.level : Cond!Masked(l, seen') <=> Cond!Masked(l, Top.seen)
<1>1. stack # <<>> /\ TypeOK /\ level' = level /\ skip' = skip /\ seen' = seen
  BY StepLeaves
<1>2. Len(stack) \in 1 .. Len(stack) /\ Top = stack[Len(stack)]
  BY <1>1, TopFacts
<1>3. Keeps(Top, skip, seen)
  BY <1>2 DEF IInv, Nested
<1>4. Top.level <= level /\ Top.level \in Nat /\ level \in Nat
  BY <1>1, TopDepth
<1>5. \A l \in 1 .. Top.level : Cond!Masked(l, seen) <=> Cond!Masked(l, Top.seen)
  BY <1>3 DEF Keeps, Cond!Masked, Cond!Bit, Conditionals!Bit
<1> QED BY <1>1, <1>3, <1>4, <1>5 DEF Keeps

LEMMA StepKeeps ==
  ASSUME FilesNest, IInv, [Next]_vars, WholeFiles, Len(stack') < Len(stack)
  PROVE  level' = Top.level /\ skip' = Top.skip /\ seen' = Top.seen
<1>1. stack # <<>> /\ TypeOK /\ SharedInv /\ level' = level /\ skip' = skip /\ seen' = seen
  BY StepLeaves
<1>2. Return \/ (Top.pos <= RunsLines(fs[Top.path]) /\ Malformed)
  BY StepLeaves
<1>3. level = Top.level
  BY <1>1, <1>2, LeftLevel
<1>4. Keeps(Top, skip, seen) /\ level \in Nat /\ skip \in Nat
  <2>1. Len(stack) \in 1 .. Len(stack) /\ Top = stack[Len(stack)]
    BY <1>1, TopFacts
  <2>2. level \in Nat /\ skip \in Nat
    BY <1>1, MaskAssumption DEF TypeOK, Cond!TypeOK
  <2> QED BY <2>1, <2>2 DEF IInv, Nested
<1>5. skip <= level /\ \A b \in seen : \E l \in 1 .. level : b = Conditionals!Bit(l)
  BY DEF IInv, SharedInv, Conditionals!IInv, Conditionals!LevelsConsistent
<1>6. skip = Top.skip
  BY <1>3, <1>4, <1>5 DEF Keeps
<1>7. \A b : b \in seen <=> b \in Top.seen
  <2>1. ASSUME NEW b \in seen
        PROVE  b \in Top.seen
    <3>1. PICK l \in 1 .. Top.level : b = Conditionals!Bit(l)
      BY <1>3, <1>5
    <3> QED BY <1>4, <3>1 DEF Keeps
  <2>2. ASSUME NEW b \in Top.seen
        PROVE  b \in seen
    <3>1. PICK l \in 1 .. Top.level : b = Conditionals!Bit(l)
      BY <1>4 DEF Keeps
    <3> QED BY <1>4, <3>1 DEF Keeps
  <2> QED BY <2>1, <2>2
<1>8. seen = Top.seen
  <2>1. PICK a : a = seen
    OBVIOUS
  <2>2. PICK b : b = Top.seen
    OBVIOUS
  <2>3. a \subseteq 0 .. Width - 1 /\ b \subseteq 0 .. Width - 1
    BY <1>1, <2>1, <2>2, TopFacts DEF TypeOK, Cond!TypeOK
  <2>4. a = b
    BY <1>7, <2>1, <2>2, <2>3
  <2> QED BY <2>1, <2>2, <2>4
<1> QED BY <1>1, <1>3, <1>6, <1>8

LEMMA StepFails ==
  ASSUME IInv, Next, outcome' = "failed"
  PROVE  Len(stack) = 1 /\ Line.op = "malformed"
<1>1. outcome = "running" /\ stack # <<>> /\ SharedInv
  BY DEF Next, IInv, SharedInv
<1>2. CASE Return
  BY <1>1, <1>2 DEF Return, Leave
<1>3. CASE Malformed
  BY <1>1, <1>3 DEF Malformed, Leave
<1>4. CASE Execute \/ PragmaOnce
  BY <1>1, <1>4 DEF Execute, PragmaOnce
<1>5. CASE Include
  <2>1. outcome' = outcome \/ \E path \in DOMAIN fs : Enter(path, Line.op)
    BY <1>1, <1>5, IncludeCases
  <2>2. outcome' = outcome \/ outcome' = "exhausted"
    BY <2>1 DEF Enter
  <2> QED BY <1>1, <2>2
<1> QED BY <1>2, <1>3, <1>4, <1>5 DEF Next

(* Files that close the groups they open, and no others, are apart in      *)
(* their groups: an included file does not touch the groups it stands in   *)
(* (cpp.c:341, cpp.c:407), neither while it is read nor where it ends,     *)
(* although it may fail there; it leaves level, skip and seen as they were *)
(* where it was included if all files are read to their ends; and its      *)
(* failure is not that of the main file.                                   *)
THEOREM FilesStayApart ==
  ASSUME MaxLevel <= Width, FilesNest
  PROVE  Spec => FilesApart
<1>1. IInv => OwnGroupsOnly
  BY IInvGroups
<1>2. IInv /\ [Next]_vars
        => [WholeFiles /\ Len(stack') < Len(stack)
              => <<level', skip', seen'>> = <<Top.level, Top.skip, Top.seen>>]_vars
  BY StepKeeps
<1>3. IInv /\ [Next]_vars
        => [outcome' = "failed" => Len(stack) = 1 /\ Line.op = "malformed"]_vars
  BY StepFails
<1>4. IInv /\ [Next]_vars
        => [Len(stack') < Len(stack) =>
              /\ level' >= Top.level
              /\ skip' = 0 \/ skip' > Top.level
              /\ \A l \in 1 .. Top.level :
                   Cond!Masked(l, seen') <=> Cond!Masked(l, Top.seen)]_vars
  BY StepAround
<1> QED BY <1>1, <1>2, <1>3, <1>4, Invariance, PTL
     DEF Spec, FilesApart, GroupsAroundStay, IncludeKeepsConditionals, FailureStaysInside

(* So what is said of the groups of one file (CppCond_proofs) holds of all *)
(* files together: level, skip and seen are one stack of groups, whatever  *)
(* is included where (cpp.c:341, types/cpp_exp.c:221).                     *)
THEOREM OneStackOfGroups ==
  ASSUME MaxLevel <= Width
  PROVE  Spec => Conditionals!ImplementsGroups
<1>1. Init => Conditionals!Init
  BY SameOperators DEF Init
<1>2. SharedInv /\ [Next]_vars => [Conditionals!Next]_(Conditionals!vars)
  <2> SUFFICES ASSUME SharedInv, [Next]_vars
               PROVE  Conditionals!Next \/ UNCHANGED condVars
    BY DEF condVars, Conditionals!vars
  <2> QED BY CondNext DEF vars, condVars
<1>3. Spec => Conditionals!Spec
  BY <1>1, <1>2, SharedInvariance, PTL DEF Spec, Conditionals!Spec
<1>4. Width \in Nat \ {0} /\ MaxLevel \in Nat
  BY MaskAssumption
<1>5. Conditionals!Spec => Conditionals!ImplementsGroups
  BY <1>4, Conditionals!Refinement
<1> QED BY <1>3, <1>5, PTL

=============================================================================

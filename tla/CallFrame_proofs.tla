-------------------------- MODULE CallFrame_proofs --------------------------
(***************************************************************************)
(* For every set of implementations and every bound: the frames of calls   *)
(* nest, the one pointer of an implementation finds the frame it means,    *)
(* and a call does what CallProtocol promises.                             *)
(*                                                                         *)
(* And for implementations without default strings: a block of memory has  *)
(* as many references as there are holders that will give one back         *)
(* (MemoryInvariance, AlwaysBalanced), so that nothing is used after it    *)
(* was freed (NothingEverDangles).                                         *)
(***************************************************************************)
EXTENDS CallFrame, SequenceLemmas, FiniteSetTheorems, WellFoundedInduction,
  TLAPS

-----------------------------------------------------------------------------

(* Memory: what is made of it stays as long as it was, or gets longer.     *)

LEMMA NewMemory ==
  ASSUME NEW m \in Seq(MemBlock), NEW kinds \in Seq(Kinds)
  PROVE  /\ New(m, kinds) \in Seq(MemBlock)
         /\ Len(New(m, kinds)) = Len(m) + Len(kinds)
         /\ NewBlocks(m, kinds) \in Seq(0 .. Len(m) + Len(kinds))
<1> DEFINE t == [k \in DOMAIN kinds |-> [kind |-> kinds[k], refs |-> 1]]
<1>1. t \in [1 .. Len(kinds) -> MemBlock]
  BY DEF MemBlock
<1>2. t \in Seq(MemBlock) /\ Len(t) = Len(kinds)
  BY <1>1
<1>3. NewBlocks(m, kinds) \in [1 .. Len(kinds) -> 0 .. Len(m) + Len(kinds)]
  BY DEF NewBlocks
<1>4. New(m, kinds) = m \o t
  BY DEF New
<1> HIDE DEF t
<1>5. m \o t \in Seq(MemBlock) /\ Len(m \o t) = Len(m) + Len(t)
  BY <1>2, ConcatProperties
<1>6. NewBlocks(m, kinds) \in Seq(0 .. Len(m) + Len(kinds))
  BY <1>3
<1> QED BY <1>2, <1>4, <1>5, <1>6

LEMMA HeldMemory ==
  ASSUME NEW m \in Seq(MemBlock), NEW b \in 0 .. Len(m)
  PROVE  Hold(m, b) \in Seq(MemBlock) /\ Len(Hold(m, b)) = Len(m)
<1>1. CASE b = 0
  BY <1>1 DEF Hold
<1>2. CASE b # 0
  <2>1. b \in 1 .. Len(m) /\ m[b] \in MemBlock
    BY <1>2
  <2>2. [m[b] EXCEPT !.refs = @ + 1] \in MemBlock
    BY <2>1 DEF MemBlock
  <2> QED BY <1>2, <2>1, <2>2, ExceptSeq DEF Hold
<1> QED BY <1>1, <1>2

LEMMA MarkedMemory ==
  ASSUME NEW m \in Seq(MemBlock), NEW b \in 1 .. Len(m), NEW k \in Kinds
  PROVE  /\ [m EXCEPT ![b].kind = k] \in Seq(MemBlock)
         /\ Len([m EXCEPT ![b].kind = k]) = Len(m)
<1>1. m[b] \in MemBlock
  OBVIOUS
<1>2. [m[b] EXCEPT !.kind = k] \in MemBlock
  BY <1>1 DEF MemBlock
<1> QED BY <1>2, ExceptSeq

LEMMA ReleasedMemory ==
  ASSUME NEW m \in Seq(MemBlock), NEW bs, IsFiniteSet(DOMAIN bs)
  PROVE  Release(m, bs) \in Seq(MemBlock) /\ Len(Release(m, bs)) = Len(m)
<1> DEFINE count(b) == Cardinality({k \in DOMAIN bs : bs[k] = b})
           block(b) == [m[b] EXCEPT !.refs = @ - count(b)]
<1>1. \A b \in 1 .. Len(m) : block(b) \in MemBlock
  <2> SUFFICES ASSUME NEW b \in 1 .. Len(m)
               PROVE  block(b) \in MemBlock
    OBVIOUS
  <2>1. count(b) \in Nat
    BY FS_Subset, FS_CardinalityType
  <2>2. m[b] \in MemBlock
    OBVIOUS
  <2> HIDE DEF count
  <2> QED BY <2>1, <2>2, SMTT(60) DEF MemBlock
<1>2. DOMAIN m = 1 .. Len(m)
  BY LenProperties
<1>3. Release(m, bs) = [b \in 1 .. Len(m) |-> block(b)]
  BY <1>2 DEF Release
<1> HIDE DEF block
<1>4. Release(m, bs) \in [1 .. Len(m) -> MemBlock]
  BY <1>1, <1>3
<1> QED BY <1>4

LEMMA FiniteDomain ==
  ASSUME NEW S, NEW s \in Seq(S)
  PROVE  IsFiniteSet(DOMAIN s)
BY LenProperties, FS_Interval

LEMMA FiniteUnion ==
  ASSUME NEW S, IsFiniteSet(S), NEW f, \A x \in S : IsFiniteSet(f[x])
  PROVE  IsFiniteSet(UNION {f[x] : x \in S})
<1> DEFINE T == {f[x] : x \in S}
           g == [x \in S |-> f[x]]
<1>1. g \in Surjection(S, T)
  BY DEF Surjection
<1>2. IsFiniteSet(T)
  BY <1>1, FS_Surjection
<1> QED BY <1>2, FS_UNION

(* The values that static implementations keep are finitely many.          *)
LEMMA FiniteKept ==
  ASSUME NEW scope, \A i \in Impls : IsFiniteSet(DOMAIN kept[scope][i])
  PROVE  IsFiniteSet(DOMAIN KeptIn(scope))
<1> DEFINE f == [i \in Impls |-> {i} \X DOMAIN kept[scope][i]]
<1>1. \A i \in Impls : IsFiniteSet(f[i])
  BY FS_Singleton, FS_Product
<1>2. IsFiniteSet(UNION {f[i] : i \in Impls})
  <2> HIDE DEF f
  <2> QED BY <1>1, FiniteUnion, ImplAssumption
<1>3. {f[i] : i \in Impls} = {{i} \X DOMAIN kept[scope][i] : i \in Impls}
  OBVIOUS
<1>4. DOMAIN KeptIn(scope) = UNION {f[i] : i \in Impls}
  BY <1>3, Zenon DEF KeptIn
<1> QED BY <1>2, <1>4

(* Each default string has a block of its own.                             *)
LEMMA DefaultsNumbered ==
  /\ DefaultStrings \in Seq(Impls \X ArgIndexes)
  /\ \A i \in Impls : \A a \in DOMAIN Impl[i].args :
       Impl[i].args[a].def = "string" => DefaultBlock(i, a) \in 1 .. Len(DefaultStrings)
<1> DEFINE D == {d \in Impls \X ArgIndexes :
                   d[2] \in DOMAIN Impl[d[1]].args /\ Impl[d[1]].args[d[2]].def = "string"}
           args == [i \in Impls |-> DOMAIN Impl[i].args]
<1>1. IsFiniteSet(D)
  <2>1. \A i \in Impls : IsFiniteSet(args[i])
    <3> SUFFICES ASSUME NEW i \in Impls
                 PROVE  IsFiniteSet(DOMAIN Impl[i].args)
      OBVIOUS
    <3>1. PICK S : Impl[i].args \in Seq(S)
      BY ImplAssumption DEF IsImpl
    <3> QED BY <3>1, FiniteDomain
  <2>2. IsFiniteSet(UNION {args[i] : i \in Impls})
    <3> HIDE DEF args
    <3> QED BY <2>1, FiniteUnion, ImplAssumption
  <2>3. ArgIndexes = UNION {args[i] : i \in Impls}
    BY DEF ArgIndexes
  <2>4. IsFiniteSet(Impls \X ArgIndexes)
    BY <2>2, <2>3, FS_Product, ImplAssumption
  <2> QED BY <2>4, FS_Subset
<1>2. Cardinality(D) \in Nat /\ ExistsBijection(1 .. Cardinality(D), D)
  BY <1>1, FS_CardinalityType
<1>3. DefaultStrings \in [1 .. Cardinality(D) -> D] /\ IsInjective(DefaultStrings)
  <2>1. \E f \in [1 .. Cardinality(D) -> D] : IsInjective(f)
    BY <1>2 DEF ExistsBijection, Bijection, Injection
  <2>2. DefaultStrings = CHOOSE f \in [1 .. Cardinality(D) -> D] : IsInjective(f)
    BY DEF DefaultStrings, SetToSeq
  <2> QED BY <2>1, <2>2
<1>4. DefaultStrings \in Surjection(1 .. Cardinality(D), D)
  <2>1. DefaultStrings \in Injection(1 .. Cardinality(D), D)
    BY <1>3 DEF Injection
  <2>2. Cardinality(1 .. Cardinality(D)) = Cardinality(D)
    <3> HIDE DEF D
    <3> QED BY <1>2, FS_Interval
  <2> HIDE DEF D
  <2> QED BY <1>1, <2>1, <2>2, FS_Injection
<1>5. DefaultStrings \in Seq(Impls \X ArgIndexes) /\ Len(DefaultStrings) = Cardinality(D)
  <2>1. DefaultStrings \in Seq(D) /\ Len(DefaultStrings) = Cardinality(D)
    <3> HIDE DEF D
    <3> QED BY <1>2, <1>3
  <2>2. D \subseteq Impls \X ArgIndexes
    OBVIOUS
  <2> QED BY <2>1, <2>2, SeqMonotonic
<1>6. ASSUME NEW i \in Impls, NEW a \in DOMAIN Impl[i].args, Impl[i].args[a].def = "string"
      PROVE  DefaultBlock(i, a) \in 1 .. Len(DefaultStrings)
  <2>1. a \in ArgIndexes
    BY DEF ArgIndexes
  <2>2. <<i, a>> \in D
    BY <1>6, <2>1
  <2>3. \E d \in DOMAIN DefaultStrings : DefaultStrings[d] = <<i, a>>
    <3> HIDE DEF D
    <3> QED BY <1>3, <1>4, <2>2 DEF Surjection
  <2>4. DefaultBlock(i, a) \in DOMAIN DefaultStrings
    BY <2>3 DEF DefaultBlock
  <2> QED BY <1>3, <1>5, <2>4
<1> QED BY <1>5, <1>6

-----------------------------------------------------------------------------

(* The inductive invariant.  impl_info->frame is right after a call of an  *)
(* implementation because the call kept, in prev, what was right before it *)
(* (Linked); and the frame that a callback is run on is the one on top     *)
(* because every frame below it is in a callback (BelowCallsBack).         *)

(* What a frame holds fits its implementation and how far the call is.     *)
WellFormed(f) ==
  /\ Len(f.slots) = Len(f.given)
  /\ \A a \in 1 .. Len(f.args) : f.args[a].zv <= Len(f.slots)
  /\ f.phase = "args" => Len(f.args) = f.n /\ Len(f.syms) = 0
  /\ f.phase \notin {"args", "over"} => Len(f.args) >= Len(Impl[f.impl].args)
  /\ f.phase = "let" => f.n = Len(f.syms) /\ f.n <= Len(Impl[f.impl].lets)
  /\ f.phase \notin {"args", "let", "over"} => Len(f.syms) = Len(Impl[f.impl].lets)
  /\ f.phase = "userland" => f.via \in 1 .. Len(f.syms)
  /\ f.phase \notin {"return", "over"} => f.ok

FramesWellFormed == \A n \in 1 .. Len(stack) : WellFormed(stack[n])

BelowCallsBack == \A n \in 1 .. Len(stack) - 1 : stack[n].phase = "userland"

FailuresThrow == \A n \in 1 .. Len(stack) : stack[n].ok \/ exception

(* p is the innermost of the first m frames of s that runs i, or 0.        *)
Runs(frame, i) == frame.impl = i /\ frame.phase \in {"native", "userland"}
Innermost(s, p, i, m) ==
  /\ p = 0 \/ (p \in 1 .. m /\ Runs(s[p], i))
  /\ \A k \in 1 .. m : Runs(s[k], i) => k <= p

Linked ==
  /\ \A i \in Impls : Innermost(stack, current[i], i, Len(stack))
  /\ \A n \in 1 .. Len(stack) :
       Runs(stack[n], stack[n].impl) => Innermost(stack, stack[n].prev, stack[n].impl, n - 1)

(* Only the scopes under way, that of the script and those of the          *)
(* callbacks, keep what static implementations left.                       *)
ScopesForget ==
  \A s \in 0 .. MaxDepth :
    s > Len(stack) \/ (0 < s /\ s = Len(stack) /\ stack[s].phase # "userland")
      => \A i \in Impls : kept[s][i] = <<>>

IInv ==
  /\ TypeOK /\ Len(DefaultStrings) <= Len(mem)
  /\ FramesWellFormed /\ BelowCallsBack /\ FailuresThrow
  /\ Linked /\ CallbacksComeHome /\ ScopesForget

LEMMA InitIInv == Init => IInv
<1> SUFFICES ASSUME Init PROVE IInv
  OBVIOUS
<1> USE DEF Init
<1>1. mem \in Seq(MemBlock) /\ Len(mem) = Len(DefaultStrings)
  <2>1. Len(DefaultStrings) \in Nat /\ DOMAIN DefaultStrings = 1 .. Len(DefaultStrings)
    BY DefaultsNumbered, LenProperties
  <2>2. [kind |-> "default", refs |-> 1] \in MemBlock
    BY DEF MemBlock, Kinds
  <2>3. mem \in [1 .. Len(DefaultStrings) -> MemBlock]
    BY <2>1, <2>2 DEF Memory0
  <2> QED BY <2>1, <2>3
<1>2. Len(stack) = 0 /\ stack \in Seq(Frame(Block))
  OBVIOUS
<1>3. kept \in [0 .. MaxDepth -> [Impls -> Seq(Block)]]
  OBVIOUS
<1>4. current \in [Impls -> 0 .. MaxDepth] /\ calls \in 0 .. MaxCalls /\ 0 <= MaxDepth
  BY BoundsAssumption
<1>5. TypeOK
  BY <1>1, <1>2, <1>3, <1>4 DEF TypeOK, Deaths
<1>6. FramesWellFormed /\ BelowCallsBack /\ FailuresThrow /\ Linked /\ CallbacksComeHome
  BY <1>2 DEF FramesWellFormed, BelowCallsBack, FailuresThrow, Linked, CallbacksComeHome, Innermost
<1>7. ScopesForget
  BY DEF ScopesForget
<1> QED BY <1>1, <1>6, <1>7, <1>5 DEF IInv

LEMMA BoundsNat == MaxCalls \in Nat /\ MaxDepth \in Nat /\ MaxCallbacks \in Nat
BY BoundsAssumption

LEMMA FrameGrows ==
  ASSUME NEW B, NEW C, B \subseteq C
  PROVE  Frame(B) \subseteq Frame(C)
<1>1. Seq(B) \subseteq Seq(C)
  BY SeqMonotonic
<1>2. Arguments(B) \subseteq Arguments(C)
  BY DEF Arguments
<1>3. Seq(Arguments(B)) \subseteq Seq(Arguments(C))
  BY <1>2, SeqMonotonic
<1> QED BY <1>1, <1>3 DEF Frame

(* A step that replaces the innermost frame keeps the invariant, if what   *)
(* it does to the rest does.                                               *)
LEMMA TurnIInv ==
  ASSUME IInv, stack # <<>>,
         mem' \in Seq(MemBlock), Len(mem) <= Len(mem'),
         NEW f \in Frame(Block'), stack' = [stack EXCEPT ![Len(stack)] = f],
         WellFormed(f), f.phase = "userland" => f.home = Len(stack),
         f.ok \/ exception',
         current' \in [Impls -> 0 .. MaxDepth], Linked',
         kept' \in [0 .. MaxDepth -> [Impls -> Seq(Block')]], ScopesForget',
         exception' \in BOOLEAN, exception => exception',
         calls' = calls, fault' \in Deaths
  PROVE  IInv'
<1> USE DEF IInv
<1>1. Block \subseteq Block'
  BY DEF TypeOK, Block
<1>2. stack \in Seq(Frame(Block'))
  <2>1. Frame(Block) \subseteq Frame(Block')
    BY <1>1, FrameGrows
  <2> QED BY <2>1, SeqMonotonic DEF TypeOK
<1>3. /\ stack' \in Seq(Frame(Block')) /\ Len(stack') = Len(stack) /\ stack'[Len(stack)] = f
      /\ \A n \in 1 .. Len(stack) - 1 : stack'[n] = stack[n]
  BY <1>2, LastReplaced
<1>4. Len(stack) \in Nat \ {0}
  BY <1>2
<1>5. TypeOK'
  BY <1>3 DEF TypeOK
<1>6. FramesWellFormed' /\ BelowCallsBack'
  <2>1. \A n \in 1 .. Len(stack) : n = Len(stack) \/ n \in 1 .. Len(stack) - 1
    BY <1>4
  <2>2. \A n \in 1 .. Len(stack') : WellFormed(stack'[n])
    BY <1>3, <2>1 DEF FramesWellFormed
  <2>3. BelowCallsBack'
    BY <1>3, <1>4 DEF BelowCallsBack
  <2> QED BY <2>2, <2>3 DEF FramesWellFormed
<1>7. FailuresThrow'
  <2>1. \A n \in 1 .. Len(stack) : n = Len(stack) \/ n \in 1 .. Len(stack) - 1
    BY <1>4
  <2>2. \A n \in 1 .. Len(stack') : stack'[n].ok \/ exception'
    BY <1>3, <2>1 DEF FailuresThrow
  <2> QED BY <2>2 DEF FailuresThrow
<1>8. CallbacksComeHome'
  BY <1>2, <1>3, <1>4 DEF CallbacksComeHome
<1>9. Len(DefaultStrings) <= Len(mem)'
  BY DefaultsNumbered DEF TypeOK
<1> QED BY <1>5, <1>6, <1>7, <1>8, <1>9

(* Most steps leave what runs, and the pointers to it, as they are.        *)
LEMMA QuietLinked ==
  ASSUME IInv, current' = current, Len(stack') = Len(stack),
         \A n \in 1 .. Len(stack) :
           /\ stack'[n].impl = stack[n].impl /\ stack'[n].prev = stack[n].prev
           /\ \A i : Runs(stack'[n], i) <=> Runs(stack[n], i)
  PROVE  Linked'
<1>1. Len(stack) \in Nat
  BY DEF IInv, TypeOK
<1>2. \A i \in Impls : Innermost(stack', current[i], i, Len(stack))
  BY DEF IInv, Linked, Innermost
<1>3. ASSUME NEW n \in 1 .. Len(stack), Runs(stack'[n], stack'[n].impl)
      PROVE  Innermost(stack', stack'[n].prev, stack'[n].impl, n - 1)
  <2>1. Innermost(stack, stack[n].prev, stack[n].impl, n - 1)
    BY <1>3 DEF IInv, Linked
  <2>2. 1 .. n - 1 \subseteq 1 .. Len(stack)
    BY <1>1
  <2> QED BY <2>1, <2>2 DEF Innermost
<1> QED BY <1>2, <1>3 DEF Linked

LEMMA QuietTurnIInv ==
  ASSUME IInv, stack # <<>>,
         mem' \in Seq(MemBlock), Len(mem) <= Len(mem'),
         NEW f \in Frame(Block'), stack' = [stack EXCEPT ![Len(stack)] = f],
         f.impl = Top.impl, f.prev = Top.prev,
         f.phase \in {"native", "userland"} <=> Top.phase \in {"native", "userland"},
         WellFormed(f),
         f.phase = "userland" => f.home = Len(stack), Top.phase = "userland" => f.phase = "userland",
         f.ok \/ exception',
         current' = current, kept' = kept, calls' = calls,
         exception' \in BOOLEAN, exception => exception', fault' \in Deaths
  PROVE  IInv'
<1>1. /\ stack \in Seq(Frame(Block)) /\ Len(stack) \in Nat \ {0}
      /\ current \in [Impls -> 0 .. MaxDepth]
      /\ Len(mem) \in Nat /\ Len(mem') \in Nat
  BY DEF IInv, TypeOK
<1>2. Block \subseteq Block'
  BY <1>1 DEF Block
<1>3. /\ Len(stack') = Len(stack) /\ stack'[Len(stack)] = f
      /\ \A n \in 1 .. Len(stack) - 1 : stack'[n] = stack[n]
  BY <1>1, <1>2, FrameGrows, SeqMonotonic, LastReplaced
<1>4. ASSUME NEW n \in 1 .. Len(stack)
      PROVE  /\ stack'[n].impl = stack[n].impl /\ stack'[n].prev = stack[n].prev
             /\ stack[n].impl \in Impls
             /\ \A i : Runs(stack'[n], i) <=> Runs(stack[n], i)
  <2>1. stack[n] \in Frame(Block)
    BY <1>1
  <2>2. stack[n].impl \in Impls
    BY <2>1 DEF Frame
  <2>3. CASE n = Len(stack)
    BY <1>3, <2>2, <2>3 DEF Runs, Top
  <2>4. CASE n \in 1 .. Len(stack) - 1
    BY <1>3, <2>2, <2>4 DEF Runs
  <2> QED BY <1>1, <2>3, <2>4
<1>5. Linked'
  BY <1>3, <1>4, QuietLinked
<1>6. kept' \in [0 .. MaxDepth -> [Impls -> Seq(Block')]]
  BY <1>2, SeqMonotonic DEF IInv, TypeOK
<1>7. ScopesForget'
  BY <1>1, <1>3 DEF IInv, ScopesForget, Top
<1> QED BY <1>1, <1>5, <1>6, <1>7, TurnIInv

-----------------------------------------------------------------------------

(* What the invariant says of the innermost frame.                         *)
LEMMA TopFacts ==
  ASSUME IInv, stack # <<>>
  PROVE  /\ Top \in Frame(Block) /\ WellFormed(Top) /\ (Top.ok \/ exception)
         /\ Top.impl \in Impls /\ IsImpl(Im)
         /\ Len(stack) \in 1 .. MaxDepth
         /\ Top.phase = "userland" => Top.home = Len(stack)
         /\ mem \in Seq(MemBlock) /\ Len(mem) \in Nat
         /\ exception \in BOOLEAN /\ fault \in Deaths
<1>1. stack \in Seq(Frame(Block)) /\ Len(stack) \in 1 .. MaxDepth
  BY BoundsAssumption DEF IInv, TypeOK
<1>2. Top \in Frame(Block) /\ Top.impl \in Impls
  <2>1. Top \in Frame(Block)
    BY <1>1 DEF Top
  <2> QED BY <2>1 DEF Frame
<1>3. IsImpl(Im)
  BY <1>2, ImplAssumption DEF Im
<1>4. Top.phase = "userland" => Top.home = Len(stack)
  BY <1>1 DEF IInv, CallbacksComeHome, Top
<1>5. mem \in Seq(MemBlock) /\ Len(mem) \in Nat /\ exception \in BOOLEAN /\ fault \in Deaths
  BY DEF IInv, TypeOK
<1>6. WellFormed(Top) /\ (Top.ok \/ exception)
  BY <1>1 DEF IInv, FramesWellFormed, FailuresThrow, Top
<1> QED BY <1>1, <1>2, <1>3, <1>4, <1>5, <1>6

(* What an implementation consists of.                                     *)
LEMMA ImplFacts ==
  ASSUME NEW im, IsImpl(im)
  PROVE  /\ DOMAIN im.args = 1 .. Len(im.args) /\ Len(im.args) \in Nat
         /\ \A a \in 1 .. Len(im.args) : im.args[a].type \in Types
         /\ im.vararg # "none" => im.vararg \in Types
         /\ DOMAIN im.lets = 1 .. Len(im.lets) /\ Len(im.lets) \in Nat
         /\ \A l \in 1 .. Len(im.lets) :
              /\ im.lets[l].arg \in 0 .. Len(im.args)
              /\ im.lets[l].kind \in {"strval", "pathval", "arrval", "callback"}
                   => im.lets[l].arg \in 1 .. Len(im.args)
         /\ DOMAIN im.sets = 1 .. Len(im.sets) /\ Len(im.sets) \in Nat
         /\ \A s \in 1 .. Len(im.sets) :
              im.sets[s][1] \in 1 .. Len(im.args) /\ im.sets[s][2] \in 1 .. Len(im.lets)
<1>1. /\ im.args \in Seq([type : Types, def : {"none", "null", "string"}, ref : BOOLEAN])
      /\ im.lets \in Seq([kind : LetKinds, arg : 0 .. Len(im.args)])
      /\ im.sets \in Seq((1 .. Len(im.args)) \X (1 .. Len(im.lets)))
  BY DEF IsImpl
<1>2. ASSUME NEW a \in 1 .. Len(im.args)
      PROVE  im.args[a].type \in Types
  <2>1. im.args[a] \in [type : Types, def : {"none", "null", "string"}, ref : BOOLEAN]
    BY <1>1, ElementOfSeq
  <2> QED BY <2>1
<1>3. ASSUME NEW l \in 1 .. Len(im.lets)
      PROVE  im.lets[l].arg \in 0 .. Len(im.args)
  <2>1. im.lets[l] \in [kind : LetKinds, arg : 0 .. Len(im.args)]
    BY <1>1, ElementOfSeq
  <2> QED BY <2>1
<1>4. \A l \in 1 .. Len(im.lets) :
        im.lets[l].kind \in {"strval", "pathval", "arrval", "callback"} => im.lets[l].arg > 0
  BY <1>1 DEF IsImpl
<1>5. Len(im.args) \in Nat /\ Len(im.lets) \in Nat /\ Len(im.sets) \in Nat
  BY <1>1
<1>6. \A l \in 1 .. Len(im.lets) :
        im.lets[l].kind \in {"strval", "pathval", "arrval", "callback"}
          => im.lets[l].arg \in 1 .. Len(im.args)
  BY <1>3, <1>4, <1>5
<1>7. /\ DOMAIN im.args = 1 .. Len(im.args) /\ DOMAIN im.lets = 1 .. Len(im.lets)
      /\ DOMAIN im.sets = 1 .. Len(im.sets)
  BY <1>1, LenProperties
<1>8. \A s \in 1 .. Len(im.sets) :
        im.sets[s][1] \in 1 .. Len(im.args) /\ im.sets[s][2] \in 1 .. Len(im.lets)
  BY <1>1, SMTT(60)
<1>9. im.vararg # "none" => im.vararg \in Types
  BY DEF IsImpl, Types
<1> QED BY <1>2, <1>3, <1>8, <1>9, <1>5, <1>6, <1>7

(* Blocks stay what they are when memory grows, and so do frames.          *)
LEMMA BlockGrows ==
  ASSUME IInv, mem' \in Seq(MemBlock), Len(mem) <= Len(mem')
  PROVE  Block \subseteq Block' /\ Frame(Block) \subseteq Frame(Block')
<1>1. Block \subseteq Block'
  BY DEF IInv, TypeOK, Block
<1> QED BY <1>1, FrameGrows

(* The steps of a call that only work on its own frame and on memory.      *)
LEMMA PlainTurnIInv ==
  ASSUME IInv, stack # <<>>,
         mem' \in Seq(MemBlock), Len(mem) <= Len(mem'),
         NEW f \in Frame(Block'), Continue(f), WellFormed(f),
         f.impl = Top.impl, f.prev = Top.prev, f.ok = Top.ok,
         f.phase \notin {"native", "userland"}, Top.phase \notin {"native", "userland"},
         UNCHANGED <<current, kept, exception, calls>>, fault' \in Deaths
  PROVE  IInv'
<1>1. stack' = [stack EXCEPT ![Len(stack)] = f]
  BY DEF Continue
<1>2. (f.ok \/ exception') /\ exception' \in BOOLEAN /\ (exception => exception')
  BY TopFacts
<1> QED BY <1>1, <1>2, QuietTurnIInv

(* psi_call_frame_parse_args: the number and the types of the arguments.   *)

LEMMA RejectedFrame ==
  ASSUME NEW B, NEW g \in Frame(B), WellFormed(g)
  PROVE  LET f == [g EXCEPT !.phase = "over", !.ok = FALSE] IN
         /\ f \in Frame(B) /\ WellFormed(f)
         /\ f.impl = g.impl /\ f.prev = g.prev /\ f.phase = "over"
BY DEF Frame, Phases, WellFormed

LEMMA RejectsIInv ==
  ASSUME IInv, Running("args"), Rejects, UNCHANGED <<current, kept, calls, fault>>
  PROVE  IInv'
<1> DEFINE f == [Top EXCEPT !.phase = "over", !.ok = FALSE]
<1>1. stack # <<>> /\ Top.phase = "args"
  BY DEF Running
<1>2. mem' = mem /\ exception' = TRUE /\ stack' = [stack EXCEPT ![Len(stack)] = f]
  BY DEF Rejects, Continue
<1>3. Top \in Frame(Block') /\ WellFormed(Top)
  BY <1>1, <1>2, TopFacts, BlockGrows
<1>4. /\ f \in Frame(Block') /\ WellFormed(f)
      /\ f.impl = Top.impl /\ f.prev = Top.prev /\ f.phase = "over"
  BY <1>3, RejectedFrame
<1>5. /\ current' = current /\ kept' = kept /\ calls' = calls /\ fault' = fault
      /\ mem \in Seq(MemBlock) /\ Len(mem) <= Len(mem) /\ fault \in Deaths
  BY <1>1, TopFacts
<1>6. exception' \in BOOLEAN /\ (exception => exception') /\ (f.ok \/ exception')
  BY <1>2
<1>7. f.phase \in {"native", "userland"} <=> Top.phase \in {"native", "userland"}
  BY <1>1, <1>4
<1> HIDE DEF f
<1> QED BY <1>1, <1>2, <1>4, <1>5, <1>6, <1>7, QuietTurnIInv

LEMMA AddedArgument ==
  ASSUME NEW B, NEW g \in Frame(B), WellFormed(g), g.phase = "args",
         NEW ar \in Arguments(B), ar.zv <= Len(g.slots)
  PROVE  LET f == [g EXCEPT !.n = g.n + 1, !.args = Append(@, ar)] IN
         /\ f \in Frame(B) /\ WellFormed(f)
         /\ f.impl = g.impl /\ f.prev = g.prev /\ f.phase = "args" /\ f.ok = g.ok
<1> DEFINE args == Append(g.args, ar)
           f == [g EXCEPT !.n = g.n + 1, !.args = args]
<1>1. g.args \in Seq(Arguments(B))
  BY DEF Frame
<1>2. /\ args \in Seq(Arguments(B)) /\ Len(args) = Len(g.args) + 1
      /\ \A a \in 1 .. Len(g.args) : args[a] = g.args[a]
      /\ args[Len(g.args) + 1] = ar
  BY <1>1, AppendProperties
<1>3. \A a \in 1 .. Len(args) : args[a].zv <= Len(g.slots)
  BY <1>1, <1>2 DEF WellFormed
<1> HIDE DEF args
<1>4. f \in Frame(B)
  <2>1. g.n + 1 \in Nat
    BY DEF Frame
  <2>2. args \in Seq(Arguments(B))
    BY <1>2
  <2> QED BY <2>1, <2>2 DEF Frame
<1>5. f.impl = g.impl /\ f.prev = g.prev /\ f.phase = "args" /\ f.ok = g.ok
  BY DEF Frame
<1>6. WellFormed(f)
  BY <1>1, <1>2, <1>3 DEF WellFormed, Frame
<1> QED BY <1>4, <1>6, <1>5 DEF args

LEMMA AddArgument ==
  ASSUME IInv, Running("args"),
         mem' \in Seq(MemBlock), Len(mem) <= Len(mem'),
         NEW ar \in Arguments(Block'), ar.zv <= Len(Top.slots),
         Continue([Top EXCEPT !.n = Top.n + 1, !.args = Append(@, ar)]),
         UNCHANGED <<current, kept, exception, calls, fault>>
  PROVE  IInv'
<1> DEFINE f == [Top EXCEPT !.n = Top.n + 1, !.args = Append(Top.args, ar)]
<1>1. stack # <<>> /\ Top.phase = "args"
  BY DEF Running
<1>2. Top \in Frame(Block') /\ WellFormed(Top)
  BY <1>1, TopFacts, BlockGrows
<1>3. /\ f \in Frame(Block') /\ WellFormed(f)
      /\ f.impl = Top.impl /\ f.prev = Top.prev /\ f.phase = "args" /\ f.ok = Top.ok
  BY <1>1, <1>2, AddedArgument, ZenonT(60)
<1>4. Continue(f) /\ fault' \in Deaths
  BY <1>1, TopFacts
<1> HIDE DEF f
<1> QED BY <1>1, <1>3, <1>4, PlainTurnIInv

LEMMA CountArgsIInv ==
  ASSUME IInv, CountArgs
  PROVE  IInv'
BY RejectsIInv DEF CountArgs

(* An argument that was given.                                             *)
LEMMA ParseArgIInv ==
  ASSUME IInv, ParseArg
  PROVE  IInv'
<1> DEFINE a == Top.n + 1
           type == TypeOf(Top.impl, a)
           va == a > Len(Im.args)
           block == Top.slots[a]
           argument(ival) == Argument(type, va, ival, a)
<1>1. /\ Running("args") /\ stack # <<>> /\ Top.phase = "args"
      /\ ~WrongCount /\ Top.n < Len(Top.given)
      /\ UNCHANGED <<current, kept, calls, fault>>
  BY DEF ParseArg, Running
<1>2. /\ Top \in Frame(Block) /\ WellFormed(Top) /\ IsImpl(Im)
      /\ mem \in Seq(MemBlock) /\ Len(mem) \in Nat
  BY <1>1, TopFacts
<1>3. a \in 1 .. Len(Top.slots) /\ va \in BOOLEAN /\ a \in Nat /\ block \in Block
  <2>1. Top.slots \in Seq(Block) /\ Top.given \in Seq(Givens) /\ Top.n \in Nat
    BY <1>2 DEF Frame
  <2> QED BY <1>1, <1>2, <2>1 DEF WellFormed
<1>4. type \in Types
  <2>1. CASE a <= Len(Im.args)
    <3>1. Im.args[a].type \in Types
      BY <1>2, <1>3, <2>1, ImplFacts
    <3> QED BY <2>1, <3>1 DEF TypeOf, Im
  <2>2. CASE ~(a <= Len(Im.args))
    <3>1. Len(Top.given) > Len(Im.args)
      BY <1>1, <1>2, <2>2, ImplFacts, SMTT(60) DEF Frame
    <3>2. Im.vararg # "none"
      BY <1>1, <3>1 DEF WrongCount
    <3>3. Im.vararg \in Types
      BY <1>2, <3>2, ImplFacts
    <3> QED BY <2>2, <3>3 DEF TypeOf, Im
  <2> QED BY <2>1, <2>2
<1>5. ASSUME NEW ival \in Block', mem' \in Seq(MemBlock), Len(mem) <= Len(mem'),
             Continue([Top EXCEPT !.n = a, !.args = Append(@, argument(ival))]),
             UNCHANGED exception
      PROVE  IInv'
  <2>1. argument(ival) \in Arguments(Block') /\ argument(ival).zv = a
    BY <1>3, <1>4 DEF Argument, Arguments
  <2>2. a <= Len(Top.slots)
    BY <1>2, <1>3 DEF Frame
  <2> HIDE DEF argument
  <2> QED BY <1>1, <1>5, <2>1, <2>2, AddArgument
<1>6. CASE Rejects
  BY <1>1, <1>6, RejectsIInv
<1>7. CASE /\ UNCHANGED exception
           /\ mem' = Hold(mem, block) /\ Continue([Top EXCEPT !.n = a, !.args = Append(@, argument(block))])
  <2>1. mem' \in Seq(MemBlock) /\ Len(mem') = Len(mem)
    BY <1>2, <1>3, <1>7, HeldMemory DEF Block
  <2>2. block \in Block' /\ Len(mem) <= Len(mem')
    BY <1>2, <1>3, <2>1 DEF Block
  <2> QED BY <1>5, <1>7, <2>1, <2>2
<1>8. CASE /\ UNCHANGED exception /\ block # 0
           /\ mem' = [Hold(mem, block) EXCEPT ![block].kind = "variadic"]
           /\ Continue([Top EXCEPT !.n = a, !.args = Append(@, argument(block))])
  <2>1. Hold(mem, block) \in Seq(MemBlock) /\ Len(Hold(mem, block)) = Len(mem)
    BY <1>2, <1>3, HeldMemory DEF Block
  <2>2. block \in 1 .. Len(Hold(mem, block)) /\ "variadic" \in Kinds
    BY <1>2, <1>3, <1>8, <2>1 DEF Block, Kinds
  <2>3. mem' \in Seq(MemBlock) /\ Len(mem') = Len(mem)
    BY <1>8, <2>1, <2>2, MarkedMemory, SMTT(60)
  <2>4. block \in Block' /\ Len(mem) <= Len(mem')
    BY <1>2, <1>3, <2>3 DEF Block
  <2> QED BY <1>5, <1>8, <2>3, <2>4
<1>9. CASE /\ UNCHANGED exception
           /\ mem' = New(mem, <<"callable">>)
           /\ Continue([Top EXCEPT !.n = a, !.args = Append(@, argument(Len(mem) + 1))])
  <2>1. <<"callable">> \in Seq(Kinds) /\ Len(<<"callable">>) = 1
    BY DEF Kinds
  <2>2. mem' \in Seq(MemBlock) /\ Len(mem') = Len(mem) + 1
    BY <1>2, <1>9, <2>1, NewMemory
  <2>3. Len(mem) + 1 \in Block' /\ Len(mem) <= Len(mem')
    BY <1>2, <2>2 DEF Block
  <2> QED BY <1>5, <1>9, <2>2, <2>3
<1>10. CASE /\ UNCHANGED exception /\ mem' = mem
            /\ Continue([Top EXCEPT !.n = a, !.args = Append(@, argument(0))])
  <2>1. mem' \in Seq(MemBlock) /\ Len(mem) <= Len(mem') /\ 0 \in Block'
    BY <1>2, <1>10 DEF Block
  <2> QED BY <1>5, <1>10, <2>1
<1> QED BY <1>6, <1>7, <1>8, <1>9, <1>10 DEF ParseArg

(* An argument that was left out.                                          *)
LEMMA DefaultArgIInv ==
  ASSUME IInv, DefaultArg
  PROVE  IInv'
<1> DEFINE a == Top.n + 1
           ival == IF Im.args[a].def = "string" THEN DefaultBlock(Top.impl, a) ELSE 0
           ar == Argument(Im.args[a].type, FALSE, ival, 0)
<1>1. /\ Running("args") /\ stack # <<>> /\ Top.phase = "args" /\ Top.n < Len(Im.args)
      /\ UNCHANGED <<mem, current, kept, exception, calls, fault>>
      /\ Continue([Top EXCEPT !.n = a, !.args = Append(@, ar)])
  BY DEF DefaultArg, Running
<1>2. /\ Top \in Frame(Block) /\ WellFormed(Top) /\ IsImpl(Im) /\ Top.impl \in Impls
      /\ mem \in Seq(MemBlock) /\ Len(mem) \in Nat
  BY <1>1, TopFacts
<1>3. a \in 1 .. Len(Im.args) /\ DOMAIN Im.args = 1 .. Len(Im.args) /\ Im.args[a].type \in Types
  <2>1. Top.n \in Nat
    BY <1>2 DEF Frame
  <2> QED BY <1>1, <1>2, <2>1, ImplFacts
<1>4. ival \in Block'
  <2>1. Im.args[a].def = "string" => DefaultBlock(Top.impl, a) \in 1 .. Len(DefaultStrings)
    BY <1>2, <1>3, DefaultsNumbered DEF Im
  <2>2. Len(DefaultStrings) <= Len(mem) /\ Len(DefaultStrings) \in Nat
    BY DefaultsNumbered DEF IInv
  <2> QED BY <1>1, <1>2, <2>1, <2>2 DEF Block
<1>5. ar \in Arguments(Block') /\ ar.zv <= Len(Top.slots)
  <2>1. Len(Top.slots) \in Nat
    BY <1>2 DEF Frame
  <2> HIDE DEF ival
  <2> QED BY <1>3, <1>4, <2>1 DEF Argument, Arguments
<1>6. mem' \in Seq(MemBlock) /\ Len(mem) <= Len(mem')
  BY <1>1, <1>2
<1> HIDE DEF ar
<1> QED BY <1>1, <1>5, <1>6, AddArgument

Entered(g, b) == [g EXCEPT !.phase = "let", !.n = 0, !.ret = b]

LEMMA EnteredFrame ==
  ASSUME NEW B, NEW g \in Frame(B), WellFormed(g), g.phase = "args", NEW b \in B,
         Len(Impl[g.impl].args) <= Len(g.args), IsImpl(Impl[g.impl])
  PROVE  /\ Entered(g, b) \in Frame(B) /\ WellFormed(Entered(g, b))
         /\ Entered(g, b).impl = g.impl /\ Entered(g, b).prev = g.prev
         /\ Entered(g, b).phase = "let" /\ Entered(g, b).ok = g.ok
<1>1. PICK f : f = Entered(g, b)
  OBVIOUS
<1>2. f \in Frame(B)
  BY <1>1 DEF Frame, Phases, Entered
<1>3. /\ f.impl = g.impl /\ f.prev = g.prev /\ f.phase = "let" /\ f.ok = g.ok /\ f.n = 0
      /\ f.args = g.args /\ f.slots = g.slots /\ f.given = g.given /\ f.syms = g.syms
  BY <1>1 DEF Frame, Entered
<1>4. 0 <= Len(Impl[g.impl].lets)
  BY ImplFacts
<1>5. WellFormed(f)
  BY <1>3, <1>4 DEF WellFormed
<1> QED BY <1>1, <1>2, <1>3, <1>5

LEMMA EnterIInv ==
  ASSUME IInv, Enter
  PROVE  IInv'
<1>1. /\ stack # <<>> /\ Top.phase = "args" /\ Top.n >= Len(Im.args)
      /\ UNCHANGED <<current, kept, exception, calls, fault>>
  BY DEF Enter, Running
<1>2. /\ Top \in Frame(Block) /\ WellFormed(Top) /\ IsImpl(Im)
      /\ mem \in Seq(MemBlock) /\ Len(mem) \in Nat /\ fault \in Deaths
  BY <1>1, TopFacts
<1>3. mem' \in Seq(MemBlock) /\ Len(mem') = IF Im.large THEN Len(mem) + 1 ELSE Len(mem)
  <2>1. <<"return value">> \in Seq(Kinds) /\ Len(<<"return value">>) = 1
    BY DEF Kinds
  <2>2. mem' = IF Im.large THEN New(mem, <<"return value">>) ELSE mem
    BY DEF Enter
  <2> QED BY <1>2, <2>1, <2>2, NewMemory
<1>4. PICK b \in Block' : b = IF Im.large THEN Len(mem) + 1 ELSE 0
  BY <1>2, <1>3 DEF Block
<1>5. Top \in Frame(Block') /\ Len(mem) <= Len(mem')
  BY <1>2, <1>3, BlockGrows
<1>6. /\ Len(Impl[Top.impl].args) <= Len(Top.args) /\ IsImpl(Impl[Top.impl])
      /\ Top.phase = "args" /\ WellFormed(Top)
  BY <1>1, <1>2 DEF WellFormed, Im
<1>7. /\ Entered(Top, b) \in Frame(Block') /\ WellFormed(Entered(Top, b))
      /\ Entered(Top, b).impl = Top.impl /\ Entered(Top, b).prev = Top.prev
      /\ Entered(Top, b).phase = "let" /\ Entered(Top, b).ok = Top.ok
  BY <1>5, <1>6, EnteredFrame
<1>8. Continue(Entered(Top, b))
  BY <1>4 DEF Enter, Entered
<1> QED BY <1>1, <1>2, <1>3, <1>5, <1>7, <1>8, PlainTurnIInv

-----------------------------------------------------------------------------

(* psi_call_frame_do_let: the symbol of each let statement.                *)

Bound(g, temps, subs, sym) ==
  [g EXCEPT !.n = @ + 1, !.temps = temps, !.subs = subs, !.syms = Append(@, sym)]

LEMMA BoundFrame ==
  ASSUME NEW B, NEW g \in Frame(B), WellFormed(g), g.phase = "let",
         g.n < Len(Impl[g.impl].lets), IsImpl(Impl[g.impl]),
         NEW temps \in Seq(B), NEW subs \in Seq(B), NEW sym \in B
  PROVE  LET f == Bound(g, temps, subs, sym) IN
         /\ f \in Frame(B) /\ WellFormed(f)
         /\ f.impl = g.impl /\ f.prev = g.prev /\ f.phase = "let" /\ f.ok = g.ok
<1>1. g.n \in Nat /\ g.syms \in Seq(B) /\ g.n + 1 \in Nat
  BY SMTT(60) DEF Frame
<1>2. Append(g.syms, sym) \in Seq(B) /\ Len(Append(g.syms, sym)) = Len(g.syms) + 1
  BY <1>1, AppendProperties
<1>3. PICK syms \in Seq(B) : syms = Append(g.syms, sym) /\ Len(syms) = Len(g.syms) + 1
  BY <1>2, Zenon
<1>4. PICK f : f = [g EXCEPT !.n = g.n + 1, !.temps = temps, !.subs = subs, !.syms = syms]
  OBVIOUS
<1>5. f \in Frame(B)
  BY <1>1, <1>3, <1>4 DEF Frame
<1>6. /\ f.impl = g.impl /\ f.prev = g.prev /\ f.phase = "let" /\ f.ok = g.ok /\ f.n = g.n + 1
      /\ f.args = g.args /\ f.slots = g.slots /\ f.given = g.given /\ f.syms = syms
  BY <1>4 DEF Frame
<1>7. g.n + 1 <= Len(Impl[g.impl].lets) /\ g.n = Len(g.syms)
  BY <1>1, ImplFacts DEF WellFormed
<1>8. WellFormed(f)
  BY <1>1, <1>3, <1>6, <1>7 DEF WellFormed
<1>9. f = Bound(g, temps, subs, sym)
  BY <1>3, <1>4 DEF Bound
<1> QED BY <1>5, <1>6, <1>8, <1>9

(* A let statement takes blocks, some of them for the frame to free.       *)
LEMMA LetIInv ==
  ASSUME IInv, NEW kinds \in Seq(Kinds), mem' = New(mem, kinds),
         NEW temps \in Seq(Block'), NEW subs \in Seq(Block'),
         NEW sym \in 0 .. Len(mem) + Len(kinds),
         Running("let"), Top.n < Len(Im.lets), Continue(Bound(Top, temps, subs, sym)),
         UNCHANGED <<current, kept, exception, calls>>, fault' \in Deaths
  PROVE  IInv'
<1>1. stack # <<>> /\ Top.phase = "let"
  BY DEF Running
<1>2. /\ Top \in Frame(Block) /\ WellFormed(Top) /\ IsImpl(Im)
      /\ mem \in Seq(MemBlock) /\ Len(mem) \in Nat /\ Len(kinds) \in Nat
  BY <1>1, TopFacts
<1>3. mem' \in Seq(MemBlock) /\ Len(mem') = Len(mem) + Len(kinds)
  BY <1>2, NewMemory
<1>4. Top \in Frame(Block') /\ sym \in Block' /\ Len(mem) <= Len(mem')
  BY <1>2, <1>3, BlockGrows DEF Block
<1>5. /\ Top.n < Len(Impl[Top.impl].lets) /\ IsImpl(Impl[Top.impl])
      /\ Top.phase = "let" /\ WellFormed(Top)
  BY <1>1, <1>2 DEF Im
<1>6. PICK f \in Frame(Block') :
             /\ Continue(f) /\ WellFormed(f)
             /\ f.impl = Top.impl /\ f.prev = Top.prev /\ f.phase = "let" /\ f.ok = Top.ok
  BY <1>4, <1>5, BoundFrame
<1> QED BY <1>1, <1>3, <1>4, <1>6, PlainTurnIInv

LEMMA BindsIInv ==
  ASSUME IInv, NEW kinds \in Seq(Kinds), NEW auto \in BOOLEAN,
         NEW sym \in 0 .. Len(mem) + Len(kinds),
         Running("let"), Top.n < Len(Im.lets), Binds(kinds, auto, sym),
         UNCHANGED <<current, kept, exception, calls>>, fault' \in Deaths
  PROVE  IInv'
<1>1. stack # <<>> /\ mem' = New(mem, kinds)
  BY DEF Running, Binds
<1>2. Top \in Frame(Block) /\ mem \in Seq(MemBlock) /\ Len(mem) \in Nat /\ Len(kinds) \in Nat
  BY <1>1, TopFacts
<1>3. /\ mem' \in Seq(MemBlock) /\ Len(mem') = Len(mem) + Len(kinds)
      /\ NewBlocks(mem, kinds) \in Seq(Block')
  BY <1>1, <1>2, NewMemory DEF Block
<1>4. Top \in Frame(Block')
  BY <1>2, <1>3, BlockGrows
<1>5. Top.temps \in Seq(Block') /\ Top.subs \in Seq(Block')
  BY <1>4 DEF Frame
<1>6. PICK temps \in Seq(Block') :
             temps = IF auto THEN Top.temps \o NewBlocks(mem, kinds) ELSE Top.temps
  BY <1>3, <1>5, ConcatProperties
<1>7. Continue(Bound(Top, temps, Top.subs, sym))
  <2>1. Bound(Top, temps, Top.subs, sym)
          = [Top EXCEPT !.n = Top.n + 1, !.temps = temps, !.syms = Append(Top.syms, sym)]
    BY <1>2 DEF Frame, Bound
  <2>2. Continue([Top EXCEPT !.n = Top.n + 1, !.temps = temps, !.syms = Append(Top.syms, sym)])
    BY <1>6 DEF Binds
  <2> QED BY <2>1, <2>2, Zenon
<1> QED BY <1>1, <1>5, <1>7, LetIInv

(* The argument that a let statement converts.                             *)
LEMMA LetArgFacts ==
  ASSUME IInv, Running("let"), Top.n < Len(Im.lets),
         Let.kind \in {"strval", "pathval", "arrval", "callback"}
  PROVE  LetArg.ival \in 0 .. Len(mem)
<1>1. Top \in Frame(Block) /\ WellFormed(Top) /\ IsImpl(Im) /\ Top.phase = "let"
  BY TopFacts DEF Running
<1>2. Top.n + 1 \in 1 .. Len(Im.lets)
  BY <1>1, ImplFacts, SMTT(60) DEF Frame
<1>3. Let.arg \in 1 .. Len(Im.args)
  BY <1>1, <1>2, ImplFacts DEF Let
<1>4. Top.args \in Seq(Arguments(Block)) /\ Let.arg \in 1 .. Len(Top.args)
  BY <1>1, <1>3, ImplFacts, SMTT(60) DEF WellFormed, Frame, Im
<1>5. LetArg \in Arguments(Block)
  BY <1>4, ElementOfSeq DEF LetArg
<1> QED BY <1>5 DEF Arguments, Block

LEMMA FaultsIn ==
  ASSUME IInv, NEW bad, NEW how \in Deaths, Faults(bad, how)
  PROVE  fault' \in Deaths
BY DEF IInv, TypeOK, Faults

LEMMA NullArrayKind == <<"null array">> \in Seq(Kinds) /\ Len(<<"null array">>) = 1
BY DEF Kinds

LEMMA KindsOf ==
  /\ <<>> \in Seq(Kinds) /\ Len(<<>>) = 0
  /\ \A k \in {"temp", "persistent", "callable", "string", "foreign", "answer"} :
       <<k>> \in Seq(Kinds) /\ Len(<<k>>) = 1
  /\ \A adds \in BOOLEAN :
       /\ ArrvalBlocks(adds) \in Seq(Kinds)
       /\ Len(ArrvalBlocks(adds)) = IF adds THEN 3 ELSE 2
<1>1. ASSUME NEW k \in {"temp", "persistent", "callable", "string", "foreign", "answer"}
      PROVE  k \in Kinds
  BY DEF Kinds
<1>2. {"spec", "temp"} \subseteq Kinds
  BY DEF Kinds
<1>3. \A k \in {"temp", "persistent", "callable", "string", "foreign", "answer"} :
        <<k>> \in Seq(Kinds) /\ Len(<<k>>) = 1
  BY <1>1
<1>4. \A adds \in BOOLEAN :
        /\ ArrvalBlocks(adds) \in Seq(Kinds)
        /\ Len(ArrvalBlocks(adds)) = IF adds THEN 3 ELSE 2
  BY <1>2 DEF ArrvalBlocks
<1> QED BY <1>3, <1>4

(* Statements that take a block, or none.                                  *)
LEMMA LetsIInv ==
  ASSUME IInv, LetNone \/ LetNullArray \/ LetCalloc \/ LetCallback
  PROVE  IInv'
<1>1. mem \in Seq(MemBlock) /\ Len(mem) \in Nat /\ fault \in Deaths
  BY DEF IInv, TypeOK
<1>2. /\ 0 \in 0 .. Len(mem) + 0 /\ Len(mem) + 1 \in 0 .. Len(mem) + 1
      /\ TRUE \in BOOLEAN /\ FALSE \in BOOLEAN
  BY <1>1
<1>3. CASE LetNone
  BY <1>1, <1>2, <1>3, KindsOf, BindsIInv DEF LetNone, LetRuns
<1>4. CASE LetNullArray
  BY <1>1, <1>2, <1>4, NullArrayKind, BindsIInv DEF LetNullArray, LetRuns
<1>5. CASE LetCalloc
  BY <1>1, <1>2, <1>5, KindsOf, BindsIInv DEF LetCalloc, LetRuns
<1>6. CASE LetCallback
  BY <1>1, <1>2, <1>6, KindsOf, BindsIInv DEF LetCallback, LetRuns
<1> QED BY <1>3, <1>4, <1>5, <1>6

LEMMA StrvalIInv ==
  ASSUME IInv, Running("let"), Top.n < Len(Im.lets), Let.kind \in {"strval", "pathval"}, Strval,
         UNCHANGED <<current, kept, exception, calls>>
  PROVE  IInv'
<1>1. mem \in Seq(MemBlock) /\ Len(mem) \in Nat /\ LetArg.ival \in 0 .. Len(mem) + 0
  BY LetArgFacts DEF IInv, TypeOK
<1>2. "use after free" \in Deaths /\ "null pointer" \in Deaths
  BY DEF Deaths
<1>3. CASE Binds(<<>>, FALSE, LetArg.ival) /\ Faults(~Live(mem, LetArg.ival), "use after free")
  <2>1. fault' \in Deaths
    BY <1>2, <1>3, FaultsIn, Zenon
  <2> QED BY <1>1, <1>3, <2>1, KindsOf, BindsIInv
<1>4. CASE Binds(<<"temp">>, TRUE, Len(mem) + 1) /\ Faults(LetArg.zv = 0, "null pointer")
  <2>1. fault' \in Deaths
    BY <1>2, <1>4, FaultsIn, Zenon
  <2>2. Len(mem) + 1 \in 0 .. Len(mem) + 1
    BY <1>1
  <2> QED BY <1>4, <2>1, <2>2, KindsOf, BindsIInv
<1> QED BY <1>3, <1>4 DEF Strval

LEMMA StringsIInv ==
  ASSUME IInv, LetStrval \/ LetPathval
  PROVE  IInv'
<1>1. CASE LetStrval
  BY <1>1, StrvalIInv DEF LetStrval, LetRuns
<1>2. CASE LetPathval
  <2>1. CASE Strval
    BY <1>2, <2>1, StrvalIInv DEF LetPathval, LetRuns
  <2>2. CASE Binds(<<>>, FALSE, 0) /\ Faults(LetArg.type = "string", "bad free")
    <3>1. fault' \in Deaths
      <4>1. "bad free" \in Deaths
        BY DEF Deaths
      <4> QED BY <2>2, <4>1, FaultsIn, Zenon
    <3>2. mem \in Seq(MemBlock) /\ Len(mem) \in Nat
      BY DEF IInv, TypeOK
    <3>3. 0 \in 0 .. Len(mem) + 0
      BY <3>2
    <3>4. Running("let") /\ Top.n < Len(Im.lets) /\ UNCHANGED <<current, kept, exception, calls>>
      BY <1>2 DEF LetPathval, LetRuns
    <3> QED BY <2>2, <3>1, <3>3, <3>4, KindsOf, BindsIInv
  <2> QED BY <1>2, <2>1, <2>2 DEF LetPathval
<1> QED BY <1>1, <1>2

(* The argument made of a member comes with its spec, and both are the     *)
(* frame's.                                                                *)
LEMMA ArrvalIInv ==
  ASSUME IInv, LetArrval
  PROVE  IInv'
<1>1. /\ Running("let") /\ stack # <<>> /\ Top.n < Len(Im.lets)
      /\ UNCHANGED <<current, kept, exception, calls, fault>>
  BY DEF LetArrval, LetRuns, Running
<1>2. /\ Top \in Frame(Block) /\ mem \in Seq(MemBlock) /\ Len(mem) \in Nat /\ fault \in Deaths
  BY <1>1, TopFacts
<1>3. CASE Binds(<<"temp">>, TRUE, Len(mem) + 1)
  <2>1. Len(mem) + 1 \in 0 .. Len(mem) + 1
    BY <1>2
  <2> QED BY <1>1, <1>2, <1>3, <2>1, KindsOf, BindsIInv
<1>4. CASE /\ mem' = New(mem, ArrvalBlocks(TRUE))
           /\ Continue([Top EXCEPT !.n = @ + 1,
                          !.temps = @ \o NewBlocks(mem, ArrvalBlocks(TRUE)),
                          !.subs = Append(@, Len(mem) + 1),
                          !.syms = Append(@, Len(mem) + 3)])
  <2>1. PICK kinds \in Seq(Kinds) : kinds = ArrvalBlocks(TRUE) /\ Len(kinds) = 3
    BY KindsOf
  <2>2. /\ mem' \in Seq(MemBlock) /\ Len(mem') = Len(mem) + 3
        /\ NewBlocks(mem, kinds) \in Seq(Block')
    BY <1>2, <1>4, <2>1, NewMemory DEF Block
  <2>3. Top \in Frame(Block') /\ Len(mem) + 1 \in Block' /\ Len(mem) + 3 \in 0 .. Len(mem) + 3
    BY <1>2, <2>2, BlockGrows DEF Block
  <2>4. Top.temps \in Seq(Block') /\ Top.subs \in Seq(Block')
    BY <2>3 DEF Frame
  <2>5. PICK temps \in Seq(Block') : temps = Top.temps \o NewBlocks(mem, kinds)
    BY <2>2, <2>4, ConcatProperties
  <2>6. Append(Top.subs, Len(mem) + 1) \in Seq(Block')
    BY <2>3, <2>4, AppendProperties
  <2>7. PICK subs \in Seq(Block') : subs = Append(Top.subs, Len(mem) + 1)
    BY <2>6, Zenon
  <2>8. Continue(Bound(Top, temps, subs, Len(mem) + 3))
    BY <1>4, <2>1, <2>5, <2>7 DEF Bound
  <2> QED BY <1>1, <1>2, <1>4, <2>1, <2>3, <2>8, LetIInv
<1> QED BY <1>3, <1>4 DEF LetArrval

-----------------------------------------------------------------------------

(* From one phase to the next, and the assertions in between.              *)

Advanced(g, phase) == [g EXCEPT !.phase = phase, !.n = 0]
Failed(g) == [g EXCEPT !.phase = "return", !.ok = FALSE]

LEMMA AdvancedFrame ==
  ASSUME NEW B, NEW g \in Frame(B), WellFormed(g), g.phase \in {"let", "pre", "post", "return"},
         Len(g.syms) = Len(Impl[g.impl].lets),
         NEW phase \in {"pre", "call", "return", "set", "over"}, g.ok \/ phase \in {"return", "over"}
  PROVE  LET f == Advanced(g, phase) IN
         /\ f \in Frame(B) /\ WellFormed(f)
         /\ f.impl = g.impl /\ f.prev = g.prev /\ f.phase = phase /\ f.ok = g.ok
<1>1. PICK f : f = Advanced(g, phase)
  OBVIOUS
<1>2. f \in Frame(B)
  BY <1>1 DEF Frame, Phases, Advanced
<1>3. /\ f.impl = g.impl /\ f.prev = g.prev /\ f.phase = phase /\ f.ok = g.ok
      /\ f.args = g.args /\ f.slots = g.slots /\ f.given = g.given /\ f.syms = g.syms
  BY <1>1 DEF Frame, Advanced
<1>4. WellFormed(f)
  BY <1>3 DEF WellFormed
<1> QED BY <1>1, <1>2, <1>3, <1>4

LEMMA FailedFrame ==
  ASSUME NEW B, NEW g \in Frame(B), WellFormed(g), g.phase \in {"pre", "post"}
  PROVE  LET f == Failed(g) IN
         /\ f \in Frame(B) /\ WellFormed(f)
         /\ f.impl = g.impl /\ f.prev = g.prev /\ f.phase = "return"
<1>1. PICK f : f = Failed(g)
  OBVIOUS
<1>2. f \in Frame(B)
  BY <1>1 DEF Frame, Phases, Failed
<1>3. /\ f.impl = g.impl /\ f.prev = g.prev /\ f.phase = "return"
      /\ f.args = g.args /\ f.slots = g.slots /\ f.given = g.given /\ f.syms = g.syms
  BY <1>1 DEF Frame, Failed
<1>4. WellFormed(f)
  BY <1>3 DEF WellFormed
<1> QED BY <1>1, <1>2, <1>3, <1>4

LEMMA EntersIInv ==
  ASSUME IInv, stack # <<>>, Top.phase \in {"let", "pre", "post", "return"},
         Len(Top.syms) = Len(Im.lets),
         NEW phase \in {"pre", "call", "return", "set", "over"},
         Top.ok \/ phase \in {"return", "over"}, Enters(phase),
         mem' \in Seq(MemBlock), Len(mem') = Len(mem),
         UNCHANGED <<current, kept, exception, calls>>, fault' \in Deaths
  PROVE  IInv'
<1>1. Top \in Frame(Block) /\ WellFormed(Top) /\ Len(mem) \in Nat
  BY TopFacts
<1>2. Top \in Frame(Block') /\ Len(mem) <= Len(mem')
  BY <1>1, BlockGrows
<1>3. Len(Top.syms) = Len(Impl[Top.impl].lets)
  BY DEF Im
<1>4. /\ Advanced(Top, phase) \in Frame(Block') /\ WellFormed(Advanced(Top, phase))
      /\ Advanced(Top, phase).impl = Top.impl /\ Advanced(Top, phase).prev = Top.prev
      /\ Advanced(Top, phase).phase = phase /\ Advanced(Top, phase).ok = Top.ok
  BY <1>1, <1>2, <1>3, AdvancedFrame
<1>5. Continue(Advanced(Top, phase))
  BY DEF Enters, Advanced
<1> QED BY <1>2, <1>4, <1>5, PlainTurnIInv

LEMMA AssertFailsIInv ==
  ASSUME IInv, stack # <<>>, Top.phase \in {"pre", "post"}, NEW kind, AssertFails(kind),
         UNCHANGED <<mem, current, kept, calls, fault>>
  PROVE  IInv'
<1>1. /\ Top \in Frame(Block) /\ WellFormed(Top)
      /\ mem \in Seq(MemBlock) /\ Len(mem) \in Nat /\ fault \in Deaths
  BY TopFacts
<1>2. Top \in Frame(Block') /\ Len(mem) <= Len(mem)
  BY <1>1 DEF Block
<1>3. PICK f : f = Failed(Top)
  OBVIOUS
<1>4. /\ f \in Frame(Block') /\ WellFormed(f)
      /\ f.impl = Top.impl /\ f.prev = Top.prev /\ f.phase = "return"
  BY <1>1, <1>2, <1>3, FailedFrame
<1>5. stack' = [stack EXCEPT ![Len(stack)] = f] /\ exception' = TRUE
  BY <1>3 DEF AssertFails, Continue, Failed
<1>6. f.ok \/ exception'
  BY <1>5
<1> QED BY <1>1, <1>2, <1>4, <1>5, <1>6, QuietTurnIInv

LEMMA PhasesIInv ==
  ASSUME IInv, Prepare \/ PreAssert \/ PostAssert \/ Return
  PROVE  IInv'
<1>1. /\ stack # <<>> /\ Top.phase \in {"let", "pre", "post", "return"}
  BY DEF Prepare, PreAssert, PostAssert, Return, Running
<1>2. /\ WellFormed(Top) /\ IsImpl(Im) /\ Top \in Frame(Block)
      /\ mem \in Seq(MemBlock) /\ fault \in Deaths
  BY <1>1, TopFacts
<1>3. CASE Prepare
  <2>1. Len(Top.syms) = Len(Im.lets) /\ Top.ok
    BY <1>2, <1>3 DEF Prepare, Running, WellFormed
  <2>2. "use after free" \in Deaths
    BY DEF Deaths
  <2>3. fault' \in Deaths
    BY <1>3, <2>2, FaultsIn, Zenon DEF Prepare
  <2> QED BY <1>1, <1>2, <1>3, <2>1, <2>3, EntersIInv DEF Prepare
<1>4. CASE PreAssert
  <2>1. Top.phase = "pre" /\ UNCHANGED <<mem, current, kept, calls, fault>>
    BY <1>4 DEF PreAssert, Running
  <2>2. Len(Top.syms) = Len(Im.lets) /\ Top.ok
    BY <1>2, <2>1 DEF WellFormed, Im
  <2>3. CASE Enters("call") /\ UNCHANGED exception
    BY <1>1, <1>2, <2>1, <2>2, <2>3, EntersIInv
  <2> QED BY <1>1, <1>4, <2>1, <2>3, AssertFailsIInv DEF PreAssert
<1>5. CASE PostAssert
  <2>1. Top.phase = "post" /\ UNCHANGED <<mem, current, kept, calls, fault>>
    BY <1>5 DEF PostAssert, Running
  <2>2. Len(Top.syms) = Len(Im.lets)
    BY <1>2, <2>1 DEF WellFormed, Im
  <2>3. CASE Enters("return") /\ UNCHANGED exception
    BY <1>1, <1>2, <2>1, <2>2, <2>3, EntersIInv
  <2> QED BY <1>1, <1>5, <2>1, <2>3, AssertFailsIInv DEF PostAssert
<1>6. CASE Return
  <2>1. Top.phase = "return" /\ UNCHANGED <<current, kept, exception, calls, fault>>
    BY <1>6 DEF Return, Running
  <2>2. Len(Top.syms) = Len(Im.lets)
    BY <1>2, <2>1 DEF WellFormed, Im
  <2>3. mem' \in Seq(MemBlock) /\ Len(mem') = Len(mem)
    <3>1. Top.out = 0 \/ Top.out \in 1 .. Len(mem)
      BY <1>2, SMTT(60) DEF Frame, Block
    <3>2. "lost" \in Kinds
      BY DEF Kinds
    <3> QED BY <1>2, <1>6, <3>1, <3>2, MarkedMemory DEF Return
  <2>4. CASE Top.ok /\ Enters("set")
    BY <1>1, <1>2, <2>1, <2>2, <2>3, <2>4, EntersIInv
  <2>5. CASE Enters("over")
    BY <1>1, <1>2, <2>1, <2>2, <2>3, <2>5, EntersIInv
  <2> QED BY <1>6, <2>4, <2>5 DEF Return
<1> QED BY <1>3, <1>4, <1>5, <1>6

-----------------------------------------------------------------------------

(* psi_ffi_call_ex: the foreign function is called and returns, which      *)
(* takes impl_info->frame and gives it back.                               *)

Called(g, prev) == [g EXCEPT !.phase = "native", !.prev = prev]
Ended(g, out) == [g EXCEPT !.phase = "post", !.out = out]

LEMMA CalledFrame ==
  ASSUME NEW B, NEW g \in Frame(B), WellFormed(g), g.phase = "call", NEW prev \in 0 .. MaxDepth
  PROVE  LET f == Called(g, prev) IN
         /\ f \in Frame(B) /\ WellFormed(f)
         /\ f.impl = g.impl /\ f.prev = prev /\ f.phase = "native" /\ f.ok = g.ok
<1>1. PICK f : f = Called(g, prev)
  OBVIOUS
<1>2. f \in Frame(B)
  BY <1>1 DEF Frame, Phases, Called
<1>3. /\ f.impl = g.impl /\ f.prev = prev /\ f.phase = "native" /\ f.ok = g.ok
      /\ f.args = g.args /\ f.slots = g.slots /\ f.given = g.given /\ f.syms = g.syms
  BY <1>1 DEF Frame, Called
<1>4. WellFormed(f)
  BY <1>3 DEF WellFormed
<1> QED BY <1>1, <1>2, <1>3, <1>4

LEMMA EndedFrame ==
  ASSUME NEW B, NEW g \in Frame(B), WellFormed(g), g.phase = "native", NEW out \in B
  PROVE  LET f == Ended(g, out) IN
         /\ f \in Frame(B) /\ WellFormed(f)
         /\ f.impl = g.impl /\ f.prev = g.prev /\ f.phase = "post" /\ f.ok = g.ok
<1>1. PICK f : f = Ended(g, out)
  OBVIOUS
<1>2. f \in Frame(B)
  BY <1>1 DEF Frame, Phases, Ended
<1>3. /\ f.impl = g.impl /\ f.prev = g.prev /\ f.phase = "post" /\ f.ok = g.ok
      /\ f.args = g.args /\ f.slots = g.slots /\ f.given = g.given /\ f.syms = g.syms
  BY <1>1 DEF Frame, Ended
<1>4. WellFormed(f)
  BY <1>3 DEF WellFormed
<1> QED BY <1>1, <1>2, <1>3, <1>4

(* The frame on top changes, and with it whether it runs.                  *)
LEMMA TopChanged ==
  ASSUME IInv, stack # <<>>, NEW f, stack' = [stack EXCEPT ![Len(stack)] = f],
         Top.phase # "userland", kept' = kept
  PROVE  /\ Len(stack') = Len(stack) /\ stack'[Len(stack)] = f
         /\ \A n \in 1 .. Len(stack) - 1 : stack'[n] = stack[n]
         /\ \A n \in 1 .. Len(stack) : n = Len(stack) \/ n \in 1 .. Len(stack) - 1
         /\ ScopesForget'
<1>1. stack \in Seq(Frame(Block)) /\ Len(stack) \in Nat \ {0}
  BY DEF IInv, TypeOK
<1>2. /\ Len(stack') = Len(stack) /\ stack'[Len(stack)] = f
      /\ \A n \in 1 .. Len(stack) - 1 : stack'[n] = stack[n]
      /\ \A n \in 1 .. Len(stack) : n = Len(stack) \/ n \in 1 .. Len(stack) - 1
  BY <1>1
<1>3. ScopesForget'
  BY <1>1, <1>2 DEF IInv, ScopesForget, Top
<1> QED BY <1>2, <1>3

LEMMA CallIInv ==
  ASSUME IInv, Call
  PROVE  IInv'
<1>1. /\ stack # <<>> /\ Top.phase = "call"
      /\ current' = [current EXCEPT ![Top.impl] = Len(stack)]
      /\ Continue(Called(Top, current[Top.impl]))
      /\ UNCHANGED <<mem, kept, exception, calls, fault>>
  BY DEF Call, Running, Called
<1>2. /\ Top \in Frame(Block) /\ WellFormed(Top) /\ Top.impl \in Impls /\ (Top.ok \/ exception)
      /\ Len(stack) \in 1 .. MaxDepth
      /\ mem \in Seq(MemBlock) /\ Len(mem) \in Nat /\ exception \in BOOLEAN /\ fault \in Deaths
  BY <1>1, TopFacts
<1>3. /\ current \in [Impls -> 0 .. MaxDepth]
      /\ kept \in [0 .. MaxDepth -> [Impls -> Seq(Block)]]
      /\ stack \in Seq(Frame(Block))
  BY DEF IInv, TypeOK
<1>4. Top \in Frame(Block') /\ Block' = Block /\ current[Top.impl] \in 0 .. MaxDepth
  BY <1>1, <1>2, <1>3 DEF Block
<1>5. PICK f : f = Called(Top, current[Top.impl])
  OBVIOUS
<1>6. /\ f \in Frame(Block') /\ WellFormed(f)
      /\ f.impl = Top.impl /\ f.prev = current[Top.impl] /\ f.phase = "native" /\ f.ok = Top.ok
  BY <1>1, <1>2, <1>4, <1>5, CalledFrame
<1>7. stack' = [stack EXCEPT ![Len(stack)] = f]
  BY <1>1, <1>5 DEF Continue
<1>8. /\ Len(stack') = Len(stack) /\ stack'[Len(stack)] = f
      /\ \A n \in 1 .. Len(stack) - 1 : stack'[n] = stack[n]
      /\ \A n \in 1 .. Len(stack) : n = Len(stack) \/ n \in 1 .. Len(stack) - 1
      /\ ScopesForget'
  BY <1>1, <1>7, TopChanged
<1>9. ASSUME NEW i \in Impls
      PROVE  Innermost(stack', current[i], i, Len(stack) - 1)
  <2>1. Innermost(stack, current[i], i, Len(stack))
    BY DEF IInv, Linked
  <2>2. ~Runs(stack[Len(stack)], i)
    BY <1>1 DEF Runs, Top
  <2>3. current[i] = 0 \/ current[i] \in 1 .. Len(stack) - 1
    BY <1>2, <2>1, <2>2 DEF Innermost
  <2> QED BY <1>2, <1>8, <2>1, <2>3 DEF Innermost
<1>10. Linked'
  <2>1. ASSUME NEW i \in Impls
        PROVE  Innermost(stack', current'[i], i, Len(stack))
    <3>1. CASE i = Top.impl
      <4>1. current'[i] = Len(stack) /\ Runs(stack'[Len(stack)], i)
        BY <1>1, <1>3, <1>6, <1>8, <3>1 DEF Runs
      <4> QED BY <1>2, <4>1 DEF Innermost
    <3>2. CASE i # Top.impl
      <4>1. current'[i] = current[i] /\ ~Runs(stack'[Len(stack)], i)
        BY <1>1, <1>3, <1>6, <1>8, <3>2 DEF Runs
      <4> QED BY <1>2, <1>8, <1>9, <4>1 DEF Innermost
    <3> QED BY <3>1, <3>2
  <2>2. ASSUME NEW n \in 1 .. Len(stack), Runs(stack'[n], stack'[n].impl)
        PROVE  Innermost(stack', stack'[n].prev, stack'[n].impl, n - 1)
    <3>1. CASE n = Len(stack)
      BY <1>2, <1>6, <1>8, <1>9, <3>1
    <3>2. CASE n \in 1 .. Len(stack) - 1
      <4>1. Innermost(stack, stack[n].prev, stack[n].impl, n - 1)
        BY <1>8, <2>2, <3>2 DEF IInv, Linked
      <4>2. 1 .. n - 1 \subseteq 1 .. Len(stack) - 1
        BY <1>2
      <4> QED BY <1>8, <3>2, <4>1, <4>2 DEF Innermost
    <3> QED BY <1>8, <3>1, <3>2
  <2> QED BY <1>8, <2>1, <2>2 DEF Linked
<1>11. current' \in [Impls -> 0 .. MaxDepth]
  BY <1>1, <1>2, <1>3
<1>12. kept' \in [0 .. MaxDepth -> [Impls -> Seq(Block')]]
  BY <1>1, <1>3, <1>4
<1>13. mem' \in Seq(MemBlock) /\ Len(mem) <= Len(mem')
  BY <1>1, <1>2
<1> QED BY <1>1, <1>2, <1>6, <1>7, <1>8, <1>10, <1>11, <1>12, <1>13, TurnIInv

(* The pointer goes back to what the frame saved.                          *)
LEMMA NativeReturnsIInv ==
  ASSUME IInv, NEW allocates \in BOOLEAN, NativeReturns(allocates)
  PROVE  IInv'
<1> DEFINE out == IF allocates THEN Len(mem) + 1 ELSE 0
<1>1. /\ stack # <<>> /\ Top.phase = "native"
      /\ current' = [current EXCEPT ![Top.impl] = Top.prev]
      /\ Continue(Ended(Top, out))
      /\ mem' = IF allocates THEN New(mem, <<"foreign">>) ELSE mem
      /\ UNCHANGED <<kept, exception, calls, fault>>
  BY DEF NativeReturns, Running, Ended
<1>2. /\ Top \in Frame(Block) /\ WellFormed(Top) /\ Top.impl \in Impls /\ (Top.ok \/ exception)
      /\ Len(stack) \in 1 .. MaxDepth
      /\ mem \in Seq(MemBlock) /\ Len(mem) \in Nat /\ exception \in BOOLEAN /\ fault \in Deaths
  BY <1>1, TopFacts
<1>3. /\ current \in [Impls -> 0 .. MaxDepth]
      /\ kept \in [0 .. MaxDepth -> [Impls -> Seq(Block)]]
      /\ stack \in Seq(Frame(Block))
  BY DEF IInv, TypeOK
<1>4. mem' \in Seq(MemBlock) /\ Len(mem') = IF allocates THEN Len(mem) + 1 ELSE Len(mem)
  <2>1. <<"foreign">> \in Seq(Kinds) /\ Len(<<"foreign">>) = 1
    BY KindsOf
  <2> QED BY <1>1, <1>2, <2>1, NewMemory
<1>5. /\ Len(mem) <= Len(mem') /\ out \in Block' /\ Block \subseteq Block'
      /\ Top \in Frame(Block') /\ Top.prev \in 0 .. MaxDepth
  <2>1. Len(mem) <= Len(mem') /\ out \in Block'
    BY <1>2, <1>4 DEF Block
  <2>2. Block \subseteq Block' /\ Top \in Frame(Block')
    BY <1>2, <1>4, <2>1, BlockGrows
  <2>3. Top.prev \in 0 .. MaxDepth
    BY <1>2 DEF Frame
  <2> QED BY <2>1, <2>2, <2>3
<1> HIDE DEF out
<1>6. PICK f : f = Ended(Top, out)
  OBVIOUS
<1>7. /\ f \in Frame(Block') /\ WellFormed(f)
      /\ f.impl = Top.impl /\ f.prev = Top.prev /\ f.phase = "post" /\ f.ok = Top.ok
  BY <1>1, <1>2, <1>5, <1>6, EndedFrame
<1>8. stack' = [stack EXCEPT ![Len(stack)] = f]
  BY <1>1, <1>6 DEF Continue
<1>9. /\ Len(stack') = Len(stack) /\ stack'[Len(stack)] = f
      /\ \A n \in 1 .. Len(stack) - 1 : stack'[n] = stack[n]
      /\ \A n \in 1 .. Len(stack) : n = Len(stack) \/ n \in 1 .. Len(stack) - 1
      /\ ScopesForget'
  BY <1>1, <1>8, TopChanged
<1>10. ASSUME NEW i \in Impls
       PROVE  Innermost(stack', current'[i], i, Len(stack))
  <2>1. ~Runs(stack'[Len(stack)], i)
    BY <1>7, <1>9 DEF Runs
  <2>2. Innermost(stack, current'[i], i, Len(stack) - 1)
    <3>1. CASE i = Top.impl
      <4>1. Runs(stack[Len(stack)], i) /\ stack[Len(stack)].impl = i
        BY <1>1, <3>1 DEF Runs, Top
      <4>2. Innermost(stack, Top.prev, i, Len(stack) - 1)
        BY <1>2, <4>1 DEF IInv, Linked, Top
      <4> QED BY <1>1, <1>3, <3>1, <4>2
    <3>2. CASE i # Top.impl
      <4>1. Innermost(stack, current[i], i, Len(stack)) /\ ~Runs(stack[Len(stack)], i)
        BY <3>2 DEF IInv, Linked, Runs, Top
      <4>2. current'[i] = current[i]
        BY <1>1, <1>3, <3>2
      <4>3. current[i] = 0 \/ current[i] \in 1 .. Len(stack) - 1
        BY <1>2, <4>1 DEF Innermost
      <4> QED BY <1>2, <4>1, <4>2, <4>3 DEF Innermost
    <3> QED BY <3>1, <3>2
  <2> QED BY <1>2, <1>9, <2>1, <2>2 DEF Innermost
<1>11. ASSUME NEW n \in 1 .. Len(stack), Runs(stack'[n], stack'[n].impl)
       PROVE  Innermost(stack', stack'[n].prev, stack'[n].impl, n - 1)
  <2>1. n \in 1 .. Len(stack) - 1
    BY <1>7, <1>9, <1>11 DEF Runs
  <2>2. Innermost(stack, stack[n].prev, stack[n].impl, n - 1)
    BY <1>9, <1>11, <2>1 DEF IInv, Linked
  <2>3. 1 .. n - 1 \subseteq 1 .. Len(stack) - 1
    BY <1>2, <2>1
  <2> QED BY <1>9, <2>1, <2>2, <2>3 DEF Innermost
<1>12. Linked'
  BY <1>9, <1>10, <1>11 DEF Linked
<1>13. current' \in [Impls -> 0 .. MaxDepth]
  BY <1>1, <1>2, <1>3, <1>5
<1>14. kept' \in [0 .. MaxDepth -> [Impls -> Seq(Block')]]
  BY <1>1, <1>3, <1>5, SeqMonotonic
<1> QED BY <1>1, <1>2, <1>4, <1>5, <1>7, <1>8, <1>9, <1>12, <1>13, <1>14, TurnIInv

-----------------------------------------------------------------------------

(* psi_call_frame_do_callback: the callback and its answer, on the frame   *)
(* of the call on top.                                                     *)

LEMMA HomeIsTop ==
  ASSUME IInv, stack # <<>>, Top.phase = "native"
  PROVE  current[Top.impl] = Len(stack)
<1>1. Top.impl \in Impls /\ Len(stack) \in 1 .. MaxDepth
  BY TopFacts
<1>2. Runs(stack[Len(stack)], Top.impl)
  BY DEF Runs, Top
<1>3. Innermost(stack, current[Top.impl], Top.impl, Len(stack))
  BY <1>1 DEF IInv, Linked
<1> QED BY <1>1, <1>2, <1>3 DEF Innermost

CalledBack(g, home, l, params) ==
  [g EXCEPT !.phase = "userland", !.backs = @ + 1, !.home = home, !.via = l, !.params = params]

LEMMA CalledBackFrame ==
  ASSUME NEW B, NEW g \in Frame(B), WellFormed(g), g.phase = "native", g.backs < MaxCallbacks,
         NEW home \in 0 .. MaxDepth, NEW l \in 1 .. Len(g.syms), NEW params \in B
  PROVE  LET f == CalledBack(g, home, l, params) IN
         /\ f \in Frame(B) /\ WellFormed(f)
         /\ f.impl = g.impl /\ f.prev = g.prev /\ f.phase = "userland" /\ f.ok = g.ok
         /\ f.home = home
<1>1. PICK f : f = CalledBack(g, home, l, params)
  OBVIOUS
<1>2. g.backs + 1 \in 0 .. MaxCallbacks /\ l \in Nat
  <2>1. g.syms \in Seq(B) /\ g.backs \in 0 .. MaxCallbacks /\ MaxCallbacks \in Nat
    BY BoundsAssumption DEF Frame
  <2> QED BY <2>1
<1>3. f \in Frame(B)
  BY <1>1, <1>2 DEF Frame, Phases, CalledBack
<1>4. /\ f.impl = g.impl /\ f.prev = g.prev /\ f.phase = "userland" /\ f.ok = g.ok
      /\ f.args = g.args /\ f.slots = g.slots /\ f.given = g.given /\ f.syms = g.syms
      /\ f.via = l /\ f.home = home
  BY <1>1 DEF Frame, CalledBack
<1>5. WellFormed(f)
  BY <1>4 DEF WellFormed
<1> QED BY <1>1, <1>3, <1>4, <1>5

LEMMA CallBackIInv ==
  ASSUME IInv, NEW l, CallBack(l)
  PROVE  IInv'
<1>1. /\ stack # <<>> /\ Top.phase = "native" /\ Top.backs < MaxCallbacks /\ l \in CallbackLets
      /\ Continue(CalledBack(Top, current[Top.impl], l, Len(mem) + 1))
      /\ mem' = Append(mem, [kind |-> "parameter", refs |-> 2])
      /\ UNCHANGED <<current, kept, exception, calls>>
  BY DEF CallBack, Running, CalledBack
<1>2. /\ Top \in Frame(Block) /\ WellFormed(Top) /\ IsImpl(Im) /\ (Top.ok \/ exception)
      /\ Len(stack) \in 1 .. MaxDepth
      /\ mem \in Seq(MemBlock) /\ Len(mem) \in Nat /\ exception \in BOOLEAN /\ fault \in Deaths
  BY <1>1, TopFacts
<1>3. mem' \in Seq(MemBlock) /\ Len(mem') = Len(mem) + 1
  <2>1. [kind |-> "parameter", refs |-> 2] \in MemBlock
    BY DEF MemBlock, Kinds
  <2> QED BY <1>1, <1>2, <2>1, AppendProperties
<1>4. Top \in Frame(Block') /\ Len(mem) + 1 \in Block' /\ Len(mem) <= Len(mem')
  BY <1>2, <1>3, BlockGrows DEF Block
<1>5. l \in 1 .. Len(Top.syms)
  <2>1. l \in 1 .. Len(Im.lets)
    BY <1>1, <1>2, ImplFacts DEF CallbackLets
  <2> QED BY <1>1, <1>2, <2>1 DEF WellFormed, Im
<1>6. current[Top.impl] = Len(stack) /\ Len(stack) \in 0 .. MaxDepth
  BY <1>1, <1>2, HomeIsTop
<1>7. PICK f : f = CalledBack(Top, Len(stack), l, Len(mem) + 1)
  OBVIOUS
<1>8. /\ f \in Frame(Block') /\ WellFormed(f)
      /\ f.impl = Top.impl /\ f.prev = Top.prev /\ f.phase = "userland" /\ f.ok = Top.ok
      /\ f.home = Len(stack)
  BY <1>1, <1>2, <1>4, <1>5, <1>6, <1>7, CalledBackFrame
<1>9. stack' = [stack EXCEPT ![Len(stack)] = f]
  BY <1>1, <1>6, <1>7 DEF Continue
<1>10. fault' \in Deaths
  <2>1. fault' \in {"assertion", "null pointer", fault}
    BY DEF CallBack
  <2> QED BY <1>2, <2>1 DEF Deaths
<1> QED BY <1>1, <1>2, <1>3, <1>4, <1>8, <1>9, <1>10, QuietTurnIInv

Returned(g, temps, subs, inner, syms) ==
  [g EXCEPT !.phase = "native", !.temps = temps, !.subs = subs, !.inner = inner, !.syms = syms,
            !.params = 0, !.home = 0, !.via = 0]

LEMMA ReturnedFrame ==
  ASSUME NEW B, 0 \in B, NEW g \in Frame(B), WellFormed(g), g.phase = "userland",
         NEW temps \in Seq(B), NEW subs \in Seq(B), NEW inner \in 0 .. MaxCallbacks,
         NEW syms \in Seq(B), Len(syms) = Len(g.syms)
  PROVE  LET f == Returned(g, temps, subs, inner, syms) IN
         /\ f \in Frame(B) /\ WellFormed(f)
         /\ f.impl = g.impl /\ f.prev = g.prev /\ f.phase = "native" /\ f.ok = g.ok
<1>1. PICK f : f = Returned(g, temps, subs, inner, syms)
  OBVIOUS
<1>2. 0 \in 0 .. MaxDepth /\ 0 \in Nat
  BY BoundsAssumption
<1>3. f \in Frame(B)
  BY <1>1, <1>2 DEF Frame, Phases, Returned
<1>4. /\ f.impl = g.impl /\ f.prev = g.prev /\ f.phase = "native" /\ f.ok = g.ok
      /\ f.args = g.args /\ f.slots = g.slots /\ f.given = g.given /\ f.syms = syms
  BY <1>1 DEF Frame, Returned
<1>5. WellFormed(f)
  BY <1>4 DEF WellFormed
<1> QED BY <1>1, <1>3, <1>4, <1>5

(* What the answer's conversion takes, and what it leaves in the frame.    *)
Converted(g, temps, subs, inner, syms) ==
  [g EXCEPT !.temps = temps, !.subs = subs, !.inner = inner, !.syms = syms]

LEMMA AnsweredFacts ==
  ASSUME IInv, stack # <<>>, Top.phase = "userland", NEW m \in Seq(MemBlock), Len(m) >= Len(mem)
  PROVE  LET a == Answered(Len(stack), Top.via, m) IN
         /\ a.m \in Seq(MemBlock) /\ Len(a.m) >= Len(m)
         /\ \E temps, subs, syms \in Seq(0 .. Len(a.m)), inner \in 0 .. MaxCallbacks :
              /\ Len(syms) = Len(Top.syms)
              /\ a.f = Converted(Top, temps, subs, inner, syms)
<1>1. /\ Top \in Frame(Block) /\ WellFormed(Top) /\ mem \in Seq(MemBlock) /\ Len(mem) \in Nat
  BY TopFacts
<1>2. /\ Top.temps \in Seq(Block) /\ Top.subs \in Seq(Block) /\ Top.syms \in Seq(Block)
      /\ Top.inner \in 0 .. MaxCallbacks /\ Top.backs \in 0 .. MaxCallbacks
      /\ Top.via \in 1 .. Len(Top.syms)
  BY <1>1 DEF Frame, WellFormed
<1> DEFINE adds == Im.convert = "arrval" /\ Top.inner = 0
<1>3. PICK kinds \in Seq(Kinds) :
        /\ kinds = CASE Im.convert = "strval" -> <<"temp">>
                     [] Im.convert = "arrval" -> ArrvalBlocks(Top.inner = 0)
                     [] OTHER -> <<>>
        /\ Im.convert \in {"strval", "arrval"} => Len(kinds) >= 1
  <2> DEFINE blocks == CASE Im.convert = "strval" -> <<"temp">>
                         [] Im.convert = "arrval" -> ArrvalBlocks(Top.inner = 0)
                         [] OTHER -> <<>>
  <2>1. CASE Im.convert = "strval"
    <3>1. blocks = <<"temp">>
      BY <2>1
    <3>2. <<"temp">> \in Seq(Kinds) /\ Len(<<"temp">>) >= 1
      BY KindsOf
    <3> QED BY <3>1, <3>2, Zenon
  <2>2. CASE Im.convert = "arrval"
    <3>1. blocks = ArrvalBlocks(Top.inner = 0)
      BY <2>2
    <3>2. \A adding \in BOOLEAN : ArrvalBlocks(adding) \in Seq(Kinds) /\ Len(ArrvalBlocks(adding)) >= 1
      <4>1. "temp" \in Kinds /\ "spec" \in Kinds
        BY DEF Kinds
      <4> QED BY <4>1 DEF ArrvalBlocks
    <3>3. (Top.inner = 0) \in BOOLEAN
      OBVIOUS
    <3> QED BY <3>1, <3>2, <3>3, Zenon
  <2>3. CASE Im.convert \notin {"strval", "arrval"}
    <3>1. blocks = <<>>
      BY <2>3
    <3> QED BY <2>3, <3>1, KindsOf, Zenon
  <2> QED BY <2>1, <2>2, <2>3, Zenon
<1>4. (Im.convert = "strval" => Len(kinds) >= 1) /\ (adds => Len(kinds) >= 1)
  BY <1>3, Zenon
<1> DEFINE M == New(m, kinds)
<1>5. /\ Len(m) \in Nat /\ Len(kinds) \in Nat
      /\ M \in Seq(MemBlock) /\ Len(M) = Len(m) + Len(kinds)
      /\ NewBlocks(m, kinds) \in Seq(0 .. Len(M))
  BY NewMemory, SMTT(60)
<1> HIDE DEF M
<1>6. /\ Im.convert = "strval" => Len(m) + 1 \in 0 .. Len(M)
      /\ adds => Len(m) + 1 \in 0 .. Len(M)
  <2>1. \A p \in Nat : \A q \in Nat : p + 1 <= q => p + 1 \in 0 .. q
    OBVIOUS
  <2>2. Len(M) \in Nat /\ Len(m) \in Nat
    BY <1>5
  <2>3. Len(kinds) >= 1 => Len(m) + 1 <= Len(M)
    BY <1>5
  <2>4. /\ Im.convert = "strval" => Len(m) + 1 <= Len(M)
        /\ adds => Len(m) + 1 <= Len(M)
    BY <1>4, <2>3, Zenon
  <2> QED BY <2>1, <2>2, <2>4, Zenon
<1>7. Block \subseteq 0 .. Len(M)
  BY <1>1, <1>5 DEF Block
<1>8. Top.temps \in Seq(0 .. Len(M)) /\ Top.subs \in Seq(0 .. Len(M)) /\ Top.syms \in Seq(0 .. Len(M))
  BY <1>2, <1>7, SeqMonotonic
<1>9. PICK temps \in Seq(0 .. Len(M)) : temps = Top.temps \o NewBlocks(m, kinds)
  BY <1>5, <1>8, ConcatProperties
<1>10. PICK subs \in Seq(0 .. Len(M)) : subs = IF adds THEN Append(Top.subs, Len(m) + 1) ELSE Top.subs
  <2>1. CASE adds
    <3>1. Len(m) + 1 \in 0 .. Len(M)
      BY <1>6, <2>1
    <3>2. Append(Top.subs, Len(m) + 1) \in Seq(0 .. Len(M))
      BY <1>8, <3>1, AppendProperties
    <3> QED BY <2>1, <3>2, Zenon
  <2>2. CASE ~adds
    BY <1>8, <2>2, Zenon
  <2> QED BY <2>1, <2>2
<1>11. PICK inner \in 0 .. MaxCallbacks : inner = IF adds THEN Top.backs ELSE Top.inner
  BY <1>2
<1>12. PICK syms \in Seq(0 .. Len(M)) :
         /\ Len(syms) = Len(Top.syms)
         /\ syms = [Top.syms EXCEPT ![Top.via] =
                      IF Im.convert = "strval" THEN Len(m) + 1 ELSE Top.syms[Top.via]]
  <2>1. (IF Im.convert = "strval" THEN Len(m) + 1 ELSE Top.syms[Top.via]) \in 0 .. Len(M)
    <3>1. Top.syms[Top.via] \in 0 .. Len(M)
      BY <1>2, <1>8, ElementOfSeq
    <3> QED BY <1>6, <3>1, Zenon
  <2>2. PICK b \in 0 .. Len(M) : b = IF Im.convert = "strval" THEN Len(m) + 1 ELSE Top.syms[Top.via]
    BY <2>1
  <2>3. [Top.syms EXCEPT ![Top.via] = b] \in Seq(0 .. Len(M))
        /\ Len([Top.syms EXCEPT ![Top.via] = b]) = Len(Top.syms)
    BY <1>2, <1>8, <2>2, ExceptSeq
  <2> QED BY <2>2, <2>3, Zenon
<1>13. Answered(Len(stack), Top.via, m).m = M
  BY <1>3 DEF Answered, Top, M
<1>14. Answered(Len(stack), Top.via, m).f = Converted(Top, temps, subs, inner, syms)
  BY <1>3, <1>9, <1>10, <1>11, <1>12 DEF Answered, Top, Converted
<1>15. Len(M) >= Len(m)
  BY <1>5
<1> QED BY <1>5, <1>9, <1>10, <1>11, <1>12, <1>13, <1>14, <1>15, Zenon

LEMMA UserlandReturnsIInv ==
  ASSUME IInv, NEW throws \in BOOLEAN, UserlandReturns(throws)
  PROVE  IInv'
<1> DEFINE left == Release(mem, KeptIn(Len(stack)))
           got == IF exception \/ throws \/ Im.convert = "intval" THEN left
                  ELSE New(left, <<"answer">>)
<1>1. /\ stack # <<>> /\ Top.phase = "userland" /\ Forgets(Len(stack))
      /\ exception' = (exception \/ throws)
      /\ UNCHANGED <<current, calls, fault>>
      /\ mem' = Release(Answered(Top.home, Top.via, got).m, <<Top.params, Top.params>>)
      /\ stack' = [[stack EXCEPT ![Top.home] = Answered(Top.home, Top.via, got).f] EXCEPT
                     ![Len(stack)].phase = "native", ![Len(stack)].params = 0,
                     ![Len(stack)].home = 0, ![Len(stack)].via = 0]
  BY DEF UserlandReturns, Running
<1>2. /\ Top \in Frame(Block) /\ WellFormed(Top) /\ (Top.ok \/ exception)
      /\ Len(stack) \in 1 .. MaxDepth /\ Top.home = Len(stack)
      /\ mem \in Seq(MemBlock) /\ Len(mem) \in Nat /\ exception \in BOOLEAN /\ fault \in Deaths
  BY <1>1, TopFacts
<1>3. /\ current \in [Impls -> 0 .. MaxDepth]
      /\ kept \in [0 .. MaxDepth -> [Impls -> Seq(Block)]]
      /\ stack \in Seq(Frame(Block))
  BY DEF IInv, TypeOK
<1>4. left \in Seq(MemBlock) /\ Len(left) = Len(mem)
  <2>1. ASSUME NEW i \in Impls
        PROVE  IsFiniteSet(DOMAIN kept[Len(stack)][i])
    <3>1. kept[Len(stack)][i] \in Seq(Block)
      BY <1>2, <1>3
    <3> QED BY <3>1, FiniteDomain
  <2>2. IsFiniteSet(DOMAIN KeptIn(Len(stack)))
    BY <2>1, FiniteKept
  <2> QED BY <1>2, <2>2, ReleasedMemory
<1>5. got \in Seq(MemBlock) /\ Len(got) >= Len(mem)
  <2> HIDE DEF left
  <2>1. <<"answer">> \in Seq(Kinds) /\ Len(<<"answer">>) = 1
    BY KindsOf
  <2>2. New(left, <<"answer">>) \in Seq(MemBlock) /\ Len(New(left, <<"answer">>)) = Len(left) + 1
    BY <1>4, <2>1, NewMemory
  <2>3. CASE got = left
    BY <1>2, <1>4, <2>3
  <2>4. CASE got = New(left, <<"answer">>)
    BY <1>2, <1>4, <2>2, <2>4
  <2> QED BY <2>3, <2>4, Zenon
<1> HIDE DEF got, left
<1> DEFINE a == Answered(Len(stack), Top.via, got)
<1>6. /\ a.m \in Seq(MemBlock) /\ Len(a.m) >= Len(got)
      /\ \E temps, subs, syms \in Seq(0 .. Len(a.m)), inner \in 0 .. MaxCallbacks :
           /\ Len(syms) = Len(Top.syms)
           /\ a.f = Converted(Top, temps, subs, inner, syms)
  BY <1>1, <1>5, AnsweredFacts
<1>7. PICK temps \in Seq(0 .. Len(a.m)), subs \in Seq(0 .. Len(a.m)), syms \in Seq(0 .. Len(a.m)),
           inner \in 0 .. MaxCallbacks :
        /\ Len(syms) = Len(Top.syms)
        /\ a.f = Converted(Top, temps, subs, inner, syms)
  BY <1>6, Zenon
<1>8. mem' = Release(a.m, <<Top.params, Top.params>>)
  BY <1>1, <1>2, Zenon
<1>9. /\ mem' \in Seq(MemBlock) /\ Len(mem') = Len(a.m) /\ Len(mem) <= Len(mem')
      /\ Block' = 0 .. Len(a.m) /\ 0 \in Block'
  <2> HIDE DEF a
  <2>1. <<Top.params, Top.params>> \in Seq({Top.params})
    OBVIOUS
  <2>2. IsFiniteSet(DOMAIN <<Top.params, Top.params>>)
    BY <2>1, FiniteDomain
  <2>3. mem' \in Seq(MemBlock) /\ Len(mem') = Len(a.m)
    BY <1>6, <1>8, <2>2, ReleasedMemory
  <2>4. Len(mem) <= Len(mem')
    BY <1>2, <1>5, <1>6, <2>3
  <2> QED BY <2>3, <2>4 DEF Block
<1>10. PICK f : f = Returned(Top, temps, subs, inner, syms)
  OBVIOUS
<1>11. stack' = [stack EXCEPT ![Len(stack)] = f]
  <2>1. stack' = [[stack EXCEPT ![Len(stack)] = a.f] EXCEPT
                    ![Len(stack)].phase = "native", ![Len(stack)].params = 0,
                    ![Len(stack)].home = 0, ![Len(stack)].via = 0]
    BY <1>1, <1>2, Zenon
  <2> HIDE DEF a
  <2>2. PICK g : g = a.f
    OBVIOUS
  <2>3. stack' = [stack EXCEPT ![Len(stack)] =
                    [g EXCEPT !.phase = "native", !.params = 0, !.home = 0, !.via = 0]]
    BY <1>2, <1>3, <2>1, <2>2
  <2>4. [g EXCEPT !.phase = "native", !.params = 0, !.home = 0, !.via = 0] = f
    BY <1>2, <1>7, <1>10, <2>2 DEF Converted, Returned, Frame
  <2> QED BY <2>3, <2>4
<1> HIDE DEF a
<1>12. Top \in Frame(Block') /\ Block \subseteq Block'
  BY <1>2, <1>9, BlockGrows
<1>13. /\ f \in Frame(Block') /\ WellFormed(f)
       /\ f.impl = Top.impl /\ f.prev = Top.prev /\ f.phase = "native" /\ f.ok = Top.ok
  <2>1. temps \in Seq(Block') /\ subs \in Seq(Block') /\ syms \in Seq(Block')
    BY <1>9
  <2>2. Len(syms) = Len(Top.syms) /\ 0 \in Block' /\ Top.phase = "userland" /\ WellFormed(Top)
    BY <1>1, <1>2, <1>7, <1>9, Zenon
  <2>3. Top \in Frame(Block')
    BY <1>12
  <2> QED BY <1>10, <2>1, <2>2, <2>3, ReturnedFrame
<1>14. /\ Len(stack') = Len(stack) /\ stack'[Len(stack)] = f
       /\ \A n \in 1 .. Len(stack) - 1 : stack'[n] = stack[n]
       /\ \A n \in 1 .. Len(stack) : n = Len(stack) \/ n \in 1 .. Len(stack) - 1
  BY <1>2, <1>3, <1>11
<1>15. Linked'
  <2>1. ASSUME NEW n \in 1 .. Len(stack)
        PROVE  /\ stack'[n].impl = stack[n].impl /\ stack'[n].prev = stack[n].prev
               /\ \A i : Runs(stack'[n], i) <=> Runs(stack[n], i)
    <3>1. CASE n = Len(stack)
      BY <1>1, <1>13, <1>14, <3>1 DEF Runs, Top
    <3>2. CASE n \in 1 .. Len(stack) - 1
      BY <1>14, <3>2
    <3> QED BY <1>14, <3>1, <3>2
  <2> QED BY <1>1, <1>14, <2>1, QuietLinked
<1>16. kept' \in [0 .. MaxDepth -> [Impls -> Seq(Block')]]
  <2>1. kept \in [0 .. MaxDepth -> [Impls -> Seq(Block')]]
    BY <1>3, <1>12, SeqMonotonic
  <2>2. [i \in Impls |-> <<>>] \in [Impls -> Seq(Block')]
    OBVIOUS
  <2> QED BY <1>1, <2>1, <2>2 DEF Forgets
<1>17. ScopesForget'
  <2>1. \A s \in 0 .. MaxDepth : s # Len(stack) => kept'[s] = kept[s]
    BY <1>1, <1>3 DEF Forgets
  <2>2. \A i \in Impls : kept'[Len(stack)][i] = <<>>
    BY <1>1, <1>2, <1>3 DEF Forgets
  <2> QED BY <1>2, <1>14, <2>1, <2>2 DEF IInv, ScopesForget
<1>18. /\ exception' \in BOOLEAN /\ (exception => exception') /\ (f.ok \/ exception')
       /\ current' \in [Impls -> 0 .. MaxDepth] /\ fault' \in Deaths /\ calls' = calls
       /\ f.phase = "userland" => f.home = Len(stack)
  BY <1>1, <1>2, <1>3, <1>13
<1> QED BY <1>1, <1>9, <1>11, <1>13, <1>15, <1>16, <1>17, <1>18, TurnIInv

-----------------------------------------------------------------------------

(* What PHP's variables hold: PHP assigns them, set statements write them. *)

Written(g, n, assigned, slots) == [g EXCEPT !.n = n, !.assigned = assigned, !.slots = slots]

LEMMA WrittenFrame ==
  ASSUME NEW B, NEW g \in Frame(B), WellFormed(g), NEW n \in Nat,
         g.phase \in {"args", "let"} => n = g.n,
         NEW assigned \in BOOLEAN, NEW slots \in Seq(B), Len(slots) = Len(g.slots)
  PROVE  LET f == Written(g, n, assigned, slots) IN
         /\ f \in Frame(B) /\ WellFormed(f)
         /\ f.impl = g.impl /\ f.prev = g.prev /\ f.phase = g.phase /\ f.ok = g.ok
         /\ f.home = g.home
<1>1. PICK f : f = Written(g, n, assigned, slots)
  OBVIOUS
<1>2. f \in Frame(B)
  BY <1>1 DEF Frame, Written
<1>3. /\ f.impl = g.impl /\ f.prev = g.prev /\ f.phase = g.phase /\ f.ok = g.ok
      /\ f.args = g.args /\ f.slots = slots /\ f.given = g.given /\ f.syms = g.syms
      /\ f.home = g.home /\ f.via = g.via /\ f.n = n
  BY <1>1 DEF Frame, Written
<1>4. WellFormed(f)
  BY <1>3 DEF WellFormed
<1> QED BY <1>1, <1>2, <1>3, <1>4

(* A variable's string makes room for a new one.                           *)
LEMMA SlotWritten ==
  ASSUME NEW m \in Seq(MemBlock), NEW slots \in Seq(0 .. Len(m)), NEW a \in 1 .. Len(slots), NEW b
  PROVE  LET n == New(Release(m, <<b>>), <<"string">>)
             t == [slots EXCEPT ![a] = Len(m) + 1] IN
         /\ n \in Seq(MemBlock) /\ Len(n) = Len(m) + 1
         /\ t \in Seq(0 .. Len(n)) /\ Len(t) = Len(slots)
<1>1. <<b>> \in Seq({b})
  OBVIOUS
<1>2. IsFiniteSet(DOMAIN <<b>>)
  BY <1>1, FiniteDomain
<1>3. PICK r : r = Release(m, <<b>>)
  OBVIOUS
<1>4. r \in Seq(MemBlock) /\ Len(r) = Len(m)
  BY <1>2, <1>3, ReleasedMemory
<1>5. <<"string">> \in Seq(Kinds) /\ Len(<<"string">>) = 1
  BY KindsOf
<1>6. New(r, <<"string">>) \in Seq(MemBlock) /\ Len(New(r, <<"string">>)) = Len(m) + 1
  BY <1>4, <1>5, NewMemory
<1>7. PICK k \in Nat : k = Len(m)
  OBVIOUS
<1>8. slots \in Seq(0 .. k + 1)
  <2>1. 0 .. k \subseteq 0 .. k + 1
    OBVIOUS
  <2> QED BY <1>7, <2>1, SeqMonotonic
<1>9. [slots EXCEPT ![a] = k + 1] \in Seq(0 .. k + 1) /\ Len([slots EXCEPT ![a] = k + 1]) = Len(slots)
  BY <1>8, ExceptSeq
<1> QED BY <1>3, <1>6, <1>7, <1>9, Zenon

(* Any frame may change, as long as nothing the pointers depend on does.   *)
LEMMA AssignIInv ==
  ASSUME IInv, NEW n, NEW a, Assign(n, a)
  PROVE  IInv'
<1>1. /\ n \in DOMAIN stack /\ a \in DOMAIN stack[n].slots
      /\ mem' = New(Release(mem, <<stack[n].slots[a]>>), <<"string">>)
      /\ stack' = [stack EXCEPT ![n].assigned = TRUE, ![n].slots[a] = Len(mem) + 1]
      /\ UNCHANGED <<current, kept, exception, calls, fault>>
  BY DEF Assign
<1>2. /\ stack \in Seq(Frame(Block)) /\ Len(stack) \in Nat /\ Len(stack) <= MaxDepth
      /\ mem \in Seq(MemBlock) /\ Len(mem) \in Nat
      /\ kept \in [0 .. MaxDepth -> [Impls -> Seq(Block)]]
  BY DEF IInv, TypeOK
<1>3. n \in 1 .. Len(stack) /\ stack[n] \in Frame(Block) /\ WellFormed(stack[n])
  BY <1>1, <1>2 DEF IInv, FramesWellFormed
<1>4. PICK g \in Frame(Block) : g = stack[n]
  BY <1>3
<1>5. g.slots \in Seq(Block) /\ a \in 1 .. Len(g.slots) /\ g.n \in Nat
  <2>1. g.slots \in Seq(Block) /\ g.n \in Nat
    BY DEF Frame
  <2> QED BY <1>1, <1>4, <2>1
<1>6. PICK slots \in Seq(Block') :
        slots = [g.slots EXCEPT ![a] = Len(mem) + 1] /\ Len(slots) = Len(g.slots)
  <2>1. g.slots \in Seq(0 .. Len(mem))
    BY <1>5 DEF Block
  <2>2. [g.slots EXCEPT ![a] = Len(mem) + 1] \in Seq(0 .. Len(mem'))
        /\ Len([g.slots EXCEPT ![a] = Len(mem) + 1]) = Len(g.slots)
    BY <1>1, <1>2, <1>5, <2>1, SlotWritten, Zenon
  <2> QED BY <2>2, Zenon DEF Block
<1>7. mem' \in Seq(MemBlock) /\ Len(mem') = Len(mem) + 1
  <2>1. g.slots \in Seq(0 .. Len(mem))
    BY <1>5 DEF Block
  <2> QED BY <1>1, <1>2, <1>5, <2>1, SlotWritten, Zenon
<1>8. Block \subseteq Block' /\ g \in Frame(Block') /\ Len(DefaultStrings) <= Len(mem')
  <2>1. Len(mem) <= Len(mem')
    BY <1>2, <1>7
  <2>2. Len(DefaultStrings) <= Len(mem')
    BY <1>2, <2>1, DefaultsNumbered DEF IInv
  <2> QED BY <1>7, <2>1, <2>2, BlockGrows
<1>9. PICK assigned \in BOOLEAN : assigned = TRUE
  OBVIOUS
<1>10. PICK f : f = Written(g, g.n, assigned, slots)
  OBVIOUS
<1>11. /\ f \in Frame(Block') /\ WellFormed(f)
       /\ f.impl = g.impl /\ f.prev = g.prev /\ f.phase = g.phase /\ f.ok = g.ok
       /\ f.home = g.home
  <2>1. WellFormed(g) /\ Len(slots) = Len(g.slots)
    BY <1>3, <1>4, <1>6, Zenon
  <2>2. g \in Frame(Block') /\ g.n \in Nat /\ TRUE \in BOOLEAN
    BY <1>5, <1>8
  <2> QED BY <1>10, <2>1, <2>2, WrittenFrame
<1>12. stack' = [stack EXCEPT ![n] = f]
  <2>1. stack' = [stack EXCEPT ![n] = [g EXCEPT !.assigned = TRUE, !.slots = slots]]
    BY <1>1, <1>2, <1>3, <1>4, <1>6
  <2>2. [g EXCEPT !.assigned = TRUE, !.slots = slots] = f
    BY <1>10, <1>9 DEF Frame, Written
  <2> QED BY <2>1, <2>2
<1>13. /\ stack' \in Seq(Frame(Block')) /\ Len(stack') = Len(stack)
       /\ \A k \in 1 .. Len(stack) : stack'[k] = IF k = n THEN f ELSE stack[k]
  <2>1. stack \in Seq(Frame(Block'))
    BY <1>2, <1>8, FrameGrows, SeqMonotonic
  <2> QED BY <1>3, <1>11, <1>12, <2>1, ExceptSeq
<1>14. ASSUME NEW k \in 1 .. Len(stack)
       PROVE  /\ stack'[k].impl = stack[k].impl /\ stack'[k].prev = stack[k].prev
              /\ stack'[k].phase = stack[k].phase /\ stack'[k].ok = stack[k].ok
              /\ stack'[k].home = stack[k].home /\ WellFormed(stack'[k])
              /\ \A i : Runs(stack'[k], i) <=> Runs(stack[k], i)
  <2>1. CASE k = n
    BY <1>4, <1>11, <1>13, <2>1 DEF Runs
  <2>2. CASE k # n
    BY <1>13, <2>2 DEF IInv, FramesWellFormed
  <2> QED BY <2>1, <2>2
<1>15. kept' \in [0 .. MaxDepth -> [Impls -> Seq(Block')]]
  BY <1>1, <1>2, <1>8, SeqMonotonic
<1>16. TypeOK'
  BY <1>1, <1>2, <1>7, <1>13, <1>15 DEF IInv, TypeOK
<1>17. Linked'
  BY <1>1, <1>13, <1>14, QuietLinked
<1>18. FramesWellFormed' /\ BelowCallsBack' /\ FailuresThrow'
  <2>1. FramesWellFormed'
    BY <1>13, <1>14 DEF FramesWellFormed
  <2>2. BelowCallsBack'
    BY <1>2, <1>13, <1>14 DEF IInv, BelowCallsBack
  <2>3. FailuresThrow'
    BY <1>1, <1>13, <1>14 DEF IInv, FailuresThrow
  <2> QED BY <2>1, <2>2, <2>3
<1>19. CallbacksComeHome'
  <2>1. DOMAIN stack' = 1 .. Len(stack) /\ DOMAIN stack = 1 .. Len(stack)
    BY <1>2, <1>13, LenProperties
  <2> QED BY <1>14, <2>1 DEF IInv, CallbacksComeHome
<1>20. ScopesForget'
  BY <1>1, <1>2, <1>13, <1>14 DEF IInv, ScopesForget
<1> QED BY <1>8, <1>16, <1>17, <1>18, <1>19, <1>20 DEF IInv

(* A set statement writes the variable that an argument came in.           *)
LEMMA SetIInv ==
  ASSUME IInv, Set
  PROVE  IInv'
<1> DEFINE arg == Top.args[Im.sets[Top.n + 1][1]]
<1>1. /\ stack # <<>> /\ Top.phase = "set" /\ Top.n < Len(Im.sets)
      /\ UNCHANGED <<current, kept, exception, calls>>
  BY DEF Set, Running
<1>2. /\ Top \in Frame(Block) /\ WellFormed(Top) /\ IsImpl(Im)
      /\ mem \in Seq(MemBlock) /\ Len(mem) \in Nat /\ fault \in Deaths
  BY <1>1, TopFacts
<1>3. Top.slots \in Seq(0 .. Len(mem)) /\ Top.n \in Nat /\ Top.n + 1 \in Nat /\ Top.assigned \in BOOLEAN
  BY <1>2, SMTT(60) DEF Frame, Block
<1>4. arg \in Arguments(Block) /\ arg.zv <= Len(Top.slots)
  <2>1. Len(Im.sets) \in Nat /\ Len(Im.args) \in Nat
    BY <1>2, ImplFacts, Zenon
  <2>2. Top.n + 1 \in 1 .. Len(Im.sets)
    BY <1>1, <1>3, <2>1
  <2>3. Im.sets[Top.n + 1][1] \in 1 .. Len(Im.args)
    BY <1>2, <2>2, ImplFacts, Zenon
  <2>4. Top.args \in Seq(Arguments(Block)) /\ Len(Top.args) \in Nat
    BY <1>2 DEF Frame
  <2>5. Len(Top.args) >= Len(Im.args)
    BY <1>1, <1>2 DEF WellFormed, Im
  <2>6. Im.sets[Top.n + 1][1] \in 1 .. Len(Top.args) /\ Top.args \in Seq(Arguments(Block))
    BY <2>3, <2>1, <2>4, <2>5
  <2> QED BY <1>2, <2>6, ElementOfSeq DEF WellFormed
<1> HIDE DEF arg
<1>5. CASE /\ arg.zv # 0
           /\ mem' = New(Release(mem, <<Top.slots[arg.zv]>>), <<"string">>)
           /\ Continue([Top EXCEPT !.n = @ + 1, !.slots[arg.zv] = Len(mem) + 1])
           /\ fault' \in Deaths
  <2>1. arg.zv \in 1 .. Len(Top.slots)
    BY <1>3, <1>4, <1>5 DEF Arguments
  <2>2. /\ mem' \in Seq(MemBlock) /\ Len(mem') = Len(mem) + 1
        /\ [Top.slots EXCEPT ![arg.zv] = Len(mem) + 1] \in Seq(0 .. Len(mem'))
        /\ Len([Top.slots EXCEPT ![arg.zv] = Len(mem) + 1]) = Len(Top.slots)
    BY <1>2, <1>3, <1>5, <2>1, SlotWritten, Zenon
  <2>3. PICK slots \in Seq(Block') :
          slots = [Top.slots EXCEPT ![arg.zv] = Len(mem) + 1] /\ Len(slots) = Len(Top.slots)
    BY <2>2, Zenon DEF Block
  <2>4. Len(mem) <= Len(mem')
    BY <1>2, <2>2
  <2>5. Top \in Frame(Block')
    BY <1>2, <2>2, <2>4, BlockGrows
  <2>6. PICK f : f = Written(Top, Top.n + 1, Top.assigned, slots)
    OBVIOUS
  <2>7. /\ f \in Frame(Block') /\ WellFormed(f)
        /\ f.impl = Top.impl /\ f.prev = Top.prev /\ f.phase = Top.phase /\ f.ok = Top.ok
    <3>1. WellFormed(Top) /\ Len(slots) = Len(Top.slots)
      BY <1>2, <2>3, Zenon
    <3>2. Top.phase \notin {"args", "let"}
      BY <1>1
    <3> QED BY <1>3, <2>5, <2>6, <3>1, <3>2, WrittenFrame
  <2>8. Continue(f)
    <3>1. Continue([Top EXCEPT !.n = Top.n + 1, !.slots = slots])
      BY <1>5, <2>3
    <3>2. [Top EXCEPT !.n = Top.n + 1, !.slots = slots] = f
      BY <1>2, <2>6 DEF Frame, Written
    <3> QED BY <3>1, <3>2
  <2> QED BY <1>1, <1>5, <2>2, <2>4, <2>7, <2>8, PlainTurnIInv
<1>6. CASE Continue([Top EXCEPT !.n = @ + 1]) /\ UNCHANGED <<mem, fault>>
  <2>1. Top \in Frame(Block') /\ Top.slots \in Seq(Block') /\ Len(Top.slots) = Len(Top.slots)
    <3>1. Top \in Frame(Block')
      BY <1>2, <1>6 DEF Block
    <3> QED BY <3>1 DEF Frame
  <2>2. PICK f : f = Written(Top, Top.n + 1, Top.assigned, Top.slots)
    OBVIOUS
  <2>3. /\ f \in Frame(Block') /\ WellFormed(f)
        /\ f.impl = Top.impl /\ f.prev = Top.prev /\ f.phase = Top.phase /\ f.ok = Top.ok
    BY <1>1, <1>2, <1>3, <2>1, <2>2, WrittenFrame, SMTT(60)
  <2>4. Continue(f)
    <3>1. [Top EXCEPT !.n = Top.n + 1] = f
      BY <1>2, <2>2 DEF Frame, Written
    <3> QED BY <1>6, <3>1
  <2>5. mem' \in Seq(MemBlock) /\ Len(mem) <= Len(mem') /\ fault' \in Deaths
    BY <1>2, <1>6
  <2> QED BY <1>1, <2>3, <2>4, <2>5, PlainTurnIInv
<1>7. fault' \in Deaths \/ fault' = fault
  <2>1. "use after free" \in Deaths
    BY DEF Deaths
  <2>2. CASE Faults(~Live(Release(mem, <<Top.slots[arg.zv]>>), Top.syms[Im.sets[Top.n + 1][2]]),
                    "use after free")
    BY <2>1, <2>2, FaultsIn, Zenon
  <2>3. CASE UNCHANGED fault
    BY <2>3
  <2> QED BY <2>2, <2>3, Zenon DEF Set, arg
<1> QED BY <1>2, <1>5, <1>6, <1>7 DEF Set, arg

LEMMA FreedFrame ==
  ASSUME NEW B, 0 \in B, NEW g \in Frame(B), WellFormed(g)
  PROVE  LET f == [g EXCEPT !.phase = "over", !.out = 0] IN
         /\ f \in Frame(B) /\ WellFormed(f)
         /\ f.impl = g.impl /\ f.prev = g.prev /\ f.phase = "over" /\ f.ok = g.ok
<1>1. PICK f : f = [g EXCEPT !.phase = "over", !.out = 0]
  OBVIOUS
<1>2. f \in Frame(B)
  BY <1>1 DEF Frame, Phases
<1>3. /\ f.impl = g.impl /\ f.prev = g.prev /\ f.phase = "over" /\ f.ok = g.ok
      /\ f.args = g.args /\ f.slots = g.slots /\ f.given = g.given /\ f.syms = g.syms
  BY <1>1 DEF Frame
<1>4. WellFormed(f)
  BY <1>3 DEF WellFormed
<1> QED BY <1>1, <1>2, <1>3, <1>4

LEMMA FreeIInv ==
  ASSUME IInv, Free
  PROVE  IInv'
<1>1. /\ stack # <<>> /\ Top.phase = "set" /\ mem' = Release(mem, <<Top.out>>)
      /\ Continue([Top EXCEPT !.phase = "over", !.out = 0])
      /\ UNCHANGED <<current, kept, exception, calls, fault>>
  BY DEF Free, Running
<1>2. /\ Top \in Frame(Block) /\ WellFormed(Top)
      /\ mem \in Seq(MemBlock) /\ Len(mem) \in Nat /\ fault \in Deaths
  BY <1>1, TopFacts
<1>3. mem' \in Seq(MemBlock) /\ Len(mem') = Len(mem)
  <2>1. <<Top.out>> \in Seq({Top.out})
    OBVIOUS
  <2>2. IsFiniteSet(DOMAIN <<Top.out>>)
    BY <2>1, FiniteDomain
  <2> QED BY <1>1, <1>2, <2>2, ReleasedMemory
<1>4. Top \in Frame(Block') /\ 0 \in Block' /\ Len(mem) <= Len(mem')
  BY <1>2, <1>3, BlockGrows DEF Block
<1>5. PICK f : f = [Top EXCEPT !.phase = "over", !.out = 0]
  OBVIOUS
<1>6. /\ f \in Frame(Block') /\ WellFormed(f)
      /\ f.impl = Top.impl /\ f.prev = Top.prev /\ f.phase = "over" /\ f.ok = Top.ok
  BY <1>2, <1>4, <1>5, FreedFrame
<1>7. Continue(f)
  BY <1>1, <1>5
<1> QED BY <1>1, <1>2, <1>3, <1>4, <1>6, <1>7, PlainTurnIInv

-----------------------------------------------------------------------------

(* psi_call_frame_free: the frame goes, and what it leaves is its caller's.*)
LEMMA FrameFreeIInv ==
  ASSUME IInv, FrameFree
  PROVE  IInv'
<1> DEFINE scope == Len(stack) - 1
           temps == IF Im.static THEN kept[scope][Top.impl] ELSE Top.temps
<1>1. /\ stack # <<>> /\ Top.phase = "over"
      /\ mem' = Release(Release(mem, ArgBlocks(Top)), temps \o Top.slots)
      /\ kept' = IF Im.static THEN [kept EXCEPT ![scope][Top.impl] = Top.temps] ELSE kept
      /\ stack' = SubSeq(stack, 1, scope)
      /\ UNCHANGED <<current, exception, calls>>
  BY DEF FrameFree, Running
<1>2. /\ Top \in Frame(Block) /\ Top.impl \in Impls /\ Len(stack) \in 1 .. MaxDepth
      /\ mem \in Seq(MemBlock) /\ Len(mem) \in Nat /\ fault \in Deaths
  BY <1>1, TopFacts
<1>3. /\ kept \in [0 .. MaxDepth -> [Impls -> Seq(Block)]]
      /\ current \in [Impls -> 0 .. MaxDepth] /\ exception \in BOOLEAN /\ calls \in 0 .. MaxCalls
      /\ stack \in Seq(Frame(Block)) /\ Len(stack) <= MaxDepth /\ Len(DefaultStrings) <= Len(mem)
  BY DEF IInv, TypeOK
<1>4. scope \in 0 .. MaxDepth /\ scope \in Nat /\ scope + 1 = Len(stack)
  BY <1>2, BoundsAssumption
<1>5. Top.temps \in Seq(Block) /\ Top.slots \in Seq(Block) /\ Top.args \in Seq(Arguments(Block))
  BY <1>2 DEF Frame
<1>6. mem' \in Seq(MemBlock) /\ Len(mem') = Len(mem)
  <2>1. temps \in Seq(Block)
    BY <1>2, <1>3, <1>4, <1>5
  <2> HIDE DEF temps
  <2>2. temps \o Top.slots \in Seq(Block)
    BY <1>5, <2>1, ConcatProperties
  <2>3. IsFiniteSet(DOMAIN (temps \o Top.slots))
    BY <2>2, FiniteDomain
  <2>4. IsFiniteSet(DOMAIN ArgBlocks(Top))
    BY <1>5, FiniteDomain DEF ArgBlocks
  <2>5. PICK m : m = Release(mem, ArgBlocks(Top))
    OBVIOUS
  <2>6. m \in Seq(MemBlock) /\ Len(m) = Len(mem)
    BY <1>2, <2>4, <2>5, ReleasedMemory
  <2> QED BY <1>1, <2>3, <2>5, <2>6, ReleasedMemory
<1>7. Block' = Block
  BY <1>6 DEF Block
<1>8. /\ stack' \in Seq(Frame(Block)) /\ Len(stack') = scope
      /\ \A n \in 1 .. scope : stack'[n] = stack[n]
  BY <1>1, <1>3, LastRemoved
<1>9. kept' \in [0 .. MaxDepth -> [Impls -> Seq(Block)]]
  BY <1>1, <1>2, <1>3, <1>4, <1>5
<1>10. fault' \in Deaths
  <2>1. "use after free" \in Deaths
    BY DEF Deaths
  <2> QED BY <2>1, FaultsIn, Zenon DEF FrameFree
<1>11. TypeOK'
  <2>1. Len(stack') <= MaxDepth
    BY <1>3, <1>4, <1>8, BoundsNat
  <2> QED BY <1>1, <1>3, <1>6, <1>7, <1>8, <1>9, <1>10, <2>1 DEF TypeOK
<1>12. /\ \A n \in 1 .. scope : n \in 1 .. Len(stack)
       /\ \A n \in 1 .. scope : stack[n].phase = "userland" /\ WellFormed(stack[n])
                                /\ (stack[n].ok \/ exception)
  <2>1. \A n \in 1 .. scope : n \in 1 .. Len(stack)
    BY <1>4
  <2> QED BY <2>1 DEF IInv, BelowCallsBack, FramesWellFormed, FailuresThrow
<1> HIDE DEF temps
<1>13. FramesWellFormed' /\ FailuresThrow' /\ BelowCallsBack'
  <2>1. FramesWellFormed' /\ FailuresThrow'
    BY <1>1, <1>8, <1>12 DEF FramesWellFormed, FailuresThrow
  <2>2. BelowCallsBack'
    BY <1>4, <1>8, <1>12 DEF BelowCallsBack
  <2> QED BY <2>1, <2>2
<1>14. Linked'
  <2>1. ASSUME NEW i \in Impls
        PROVE  Innermost(stack', current'[i], i, scope)
    <3>1. Innermost(stack, current[i], i, Len(stack))
      BY DEF IInv, Linked
    <3>2. ~Runs(stack[Len(stack)], i)
      BY <1>1 DEF Runs, Top
    <3>3. current[i] = 0 \/ current[i] \in 1 .. scope
      BY <1>2, <3>1, <3>2 DEF Innermost
    <3> QED BY <1>1, <1>8, <1>12, <3>1, <3>3 DEF Innermost
  <2>2. ASSUME NEW n \in 1 .. scope, Runs(stack'[n], stack'[n].impl)
        PROVE  Innermost(stack', stack'[n].prev, stack'[n].impl, n - 1)
    <3>1. Innermost(stack, stack[n].prev, stack[n].impl, n - 1)
      BY <1>8, <1>12, <2>2 DEF IInv, Linked
    <3>2. 1 .. n - 1 \subseteq 1 .. scope
      BY <1>4
    <3> QED BY <1>8, <3>1, <3>2 DEF Innermost
  <2> QED BY <1>8, <2>1, <2>2 DEF Linked
<1>15. CallbacksComeHome'
  <2>1. DOMAIN stack' = 1 .. scope /\ DOMAIN stack = 1 .. Len(stack)
    BY <1>3, <1>8, LenProperties
  <2> QED BY <1>8, <1>12, <2>1 DEF IInv, CallbacksComeHome
<1>16. ScopesForget'
  <2> SUFFICES ASSUME NEW s \in 0 .. MaxDepth,
                      s > Len(stack') \/ (0 < s /\ s = Len(stack') /\ stack'[s].phase # "userland")
               PROVE  \A i \in Impls : kept'[s][i] = <<>>
    BY DEF ScopesForget
  <2>1. s > scope
    <3> HIDE DEF scope
    <3>1. s \in Nat
      BY BoundsNat
    <3>2. 0 < s /\ s = scope => s \in 1 .. scope
      BY <1>4, <3>1
    <3> QED BY <1>8, <1>12, <3>2
  <2>2. kept'[s] = kept[s]
    <3> HIDE DEF scope
    <3>1. s # scope
      BY <1>4, <2>1, BoundsNat
    <3> QED BY <1>1, <1>3, <1>4, <3>1
  <2>3. s > Len(stack) \/ (0 < s /\ s = Len(stack) /\ stack[s].phase # "userland")
    BY <1>1, <1>2, <2>1 DEF Top
  <2> QED BY <2>2, <2>3 DEF IInv, ScopesForget
<1> QED BY <1>3, <1>6, <1>11, <1>13, <1>14, <1>15, <1>16 DEF IInv

(* PHP gets on: it catches, ends a script, and makes the next call.        *)

LEMMA CatchIInv ==
  ASSUME IInv, Catch
  PROVE  IInv'
<1>1. InPHP /\ exception' = FALSE /\ UNCHANGED <<mem, stack, current, kept, calls, fault>>
  BY DEF Catch
<1>2. ASSUME NEW n \in 1 .. Len(stack)
      PROVE  stack[n].ok
  <2>1. stack \in Seq(Frame(Block)) /\ Len(stack) \in Nat
    BY DEF IInv, TypeOK
  <2>2. stack[n].phase = "userland"
    <3>1. CASE n = Len(stack)
      BY <1>1, <2>1, <3>1 DEF InPHP, Top
    <3>2. CASE n \in 1 .. Len(stack) - 1
      BY <3>2 DEF IInv, BelowCallsBack
    <3> QED BY <2>1, <3>1, <3>2
  <2> QED BY <2>2 DEF IInv, FramesWellFormed, WellFormed
<1>3. TypeOK'
  BY <1>1 DEF IInv, TypeOK, Block
<1>4. FailuresThrow'
  BY <1>1, <1>2 DEF FailuresThrow
<1>5. FramesWellFormed' /\ BelowCallsBack' /\ Linked' /\ CallbacksComeHome' /\ ScopesForget'
  BY <1>1 DEF IInv, FramesWellFormed, BelowCallsBack, Linked, CallbacksComeHome, ScopesForget
<1> QED BY <1>1, <1>3, <1>4, <1>5 DEF IInv

LEMMA NextScriptIInv ==
  ASSUME IInv, NextScript
  PROVE  IInv'
<1>1. /\ stack = <<>> /\ stack' = <<>> /\ mem' = SubSeq(mem, 1, Len(Memory0)) /\ Forgets(0)
      /\ exception' = FALSE /\ calls' = 0 /\ current' = current /\ fault' = fault
  BY DEF NextScript
<1>2. /\ mem \in Seq(MemBlock) /\ current \in [Impls -> 0 .. MaxDepth] /\ fault \in Deaths
      /\ kept \in [0 .. MaxDepth -> [Impls -> Seq(Block)]]
      /\ Len(DefaultStrings) <= Len(mem) /\ Len(DefaultStrings) \in Nat /\ Len(mem) \in Nat
  BY DefaultsNumbered DEF IInv, TypeOK
<1>3. Len(Memory0) = Len(DefaultStrings)
  <2>1. DOMAIN DefaultStrings = 1 .. Len(DefaultStrings)
    BY DefaultsNumbered, LenProperties
  <2> QED BY <1>2, <2>1 DEF Memory0
<1>4. mem' \in Seq(MemBlock) /\ Len(mem') = Len(DefaultStrings)
  <2>1. PICK k \in Nat : k = Len(DefaultStrings)
    BY <1>2
  <2>2. \A n \in 1 .. k : mem[n] \in MemBlock
    BY <1>2, <2>1
  <2>3. /\ SubSeq(mem, 1, k) \in Seq(MemBlock)
        /\ Len(SubSeq(mem, 1, k)) = IF 1 <= k THEN k - 1 + 1 ELSE 0
    BY <1>2, <2>2, SubSeqProperties
  <2>4. (IF 1 <= k THEN k - 1 + 1 ELSE 0) = k
    BY <2>1
  <2> QED BY <1>1, <1>3, <2>1, <2>3, <2>4
<1>5. Len(stack) = 0 /\ Len(stack') = 0 /\ DOMAIN stack' = {} /\ stack' \in Seq(Frame(Block'))
  BY <1>1
<1>6. \A s \in 0 .. MaxDepth : \A i \in Impls : kept'[s][i] = <<>>
  BY <1>1, <1>2, <1>5 DEF IInv, ScopesForget, Forgets
<1>7. kept' \in [0 .. MaxDepth -> [Impls -> Seq(Block')]]
  <2>1. kept' = [kept EXCEPT ![0] = [i \in Impls |-> <<>>]]
    BY <1>1 DEF Forgets
  <2>2. \A s \in 0 .. MaxDepth : kept'[s] = [i \in Impls |-> kept'[s][i]]
    <3>1. 0 \in 0 .. MaxDepth
      BY BoundsNat
    <3>2. ASSUME NEW s \in 0 .. MaxDepth
          PROVE  kept'[s] = [i \in Impls |-> kept'[s][i]]
      <4>1. kept[s] \in [Impls -> Seq(Block)]
        BY <1>2
      <4>2. kept'[s] = IF s = 0 THEN [i \in Impls |-> <<>>] ELSE kept[s]
        BY <1>2, <2>1
      <4> QED BY <4>1, <4>2
    <3> QED BY <3>2
  <2>3. \A s \in 0 .. MaxDepth : kept'[s] \in [Impls -> Seq(Block')]
    <3>1. ASSUME NEW s \in 0 .. MaxDepth
          PROVE  kept'[s] \in [Impls -> Seq(Block')]
      <4>1. kept'[s] = [i \in Impls |-> <<>>]
        BY <1>6, <2>2
      <4>2. <<>> \in Seq(Block')
        OBVIOUS
      <4> QED BY <4>1, <4>2
    <3> QED BY <3>1
  <2>4. kept' = [s \in 0 .. MaxDepth |-> kept'[s]]
    BY <1>2, <2>1
  <2> QED BY <2>3, <2>4
<1>8. TypeOK'
  <2>1. calls' \in 0 .. MaxCalls /\ exception' \in BOOLEAN /\ Len(stack') <= MaxDepth
    <3>1. \A m \in Nat : 0 \in 0 .. m /\ 0 <= m
      OBVIOUS
    <3>2. calls' = 0 /\ Len(stack') = 0 /\ exception' \in BOOLEAN
      BY <1>1, <1>5, Zenon
    <3> QED BY <3>1, <3>2, BoundsNat, Zenon
  <2> QED BY <1>1, <1>2, <1>4, <1>5, <1>7, <2>1 DEF TypeOK
<1>9. FramesWellFormed' /\ BelowCallsBack' /\ FailuresThrow' /\ CallbacksComeHome' /\ ScopesForget'
  BY <1>5, <1>6 DEF FramesWellFormed, BelowCallsBack, FailuresThrow, CallbacksComeHome, ScopesForget
<1>10. Linked'
  BY <1>1, <1>5 DEF IInv, Linked, Innermost
<1>11. (Len(DefaultStrings) <= Len(mem))'
  BY <1>2, <1>4
<1> QED BY <1>8, <1>9, <1>10, <1>11 DEF IInv

LEMMA GivenSequence ==
  ASSUME NEW i \in Impls, NEW given \in ArgumentLists(i)
  PROVE  given \in Seq(Givens)
<1>1. PICK count \in 0 .. MaxArgs(i) + 1 : given \in [1 .. count -> {"string", "null", "callable", "other"}]
  BY DEF ArgumentLists
<1>2. {"string", "null", "callable", "other"} = Givens
  BY DEF Givens
<1>3. count \in Nat
  OBVIOUS
<1> QED BY <1>1, <1>2, <1>3

LEMMA BeginCallIInv ==
  ASSUME IInv, NEW i \in Impls, NEW given \in ArgumentLists(i), BeginCall(i, given)
  PROVE  IInv'
<1> DEFINE strings(a) == {b \in 1 .. a : given[b] = "string"}
           count == Cardinality(strings(Len(given)))
           slots == [a \in DOMAIN given |->
                       IF given[a] = "string" THEN Len(mem) + Cardinality(strings(a)) ELSE 0]
           kinds == [s \in 1 .. count |-> "string"]
           size == Len(stack)
<1>1. /\ InPHP /\ size < MaxDepth /\ calls < MaxCalls
      /\ mem' = New(mem, kinds) /\ stack' = Append(stack, NewFrame(i, given, slots))
      /\ calls' = calls + 1 /\ UNCHANGED <<current, kept, exception, fault>>
  BY DEF BeginCall
<1>2. /\ mem \in Seq(MemBlock) /\ Len(mem) \in Nat /\ stack \in Seq(Frame(Block)) /\ size \in Nat
      /\ current \in [Impls -> 0 .. MaxDepth] /\ kept \in [0 .. MaxDepth -> [Impls -> Seq(Block)]]
      /\ exception \in BOOLEAN /\ calls \in 0 .. MaxCalls /\ fault \in Deaths
      /\ Len(DefaultStrings) <= Len(mem) /\ Len(DefaultStrings) \in Nat
  BY DefaultsNumbered DEF IInv, TypeOK
<1>3. given \in Seq(Givens) /\ Len(given) \in Nat /\ DOMAIN given = 1 .. Len(given)
  BY GivenSequence, LenProperties
<1>4. count \in Nat /\ \A a \in 1 .. Len(given) : Cardinality(strings(a)) \in 0 .. count
  <2>1. ASSUME NEW a \in Nat
        PROVE  IsFiniteSet(strings(a))
    <3>1. IsFiniteSet(1 .. a) /\ strings(a) \subseteq 1 .. a
      BY FS_Interval
    <3> QED BY <3>1, FS_Subset
  <2>2. \A a \in Nat : Cardinality(strings(a)) \in Nat
    BY <2>1, FS_CardinalityType
  <2>3. ASSUME NEW a \in 1 .. Len(given)
        PROVE  Cardinality(strings(a)) <= count
    <3>1. strings(a) \subseteq strings(Len(given))
      BY <1>3
    <3> HIDE DEF strings
    <3> QED BY <1>3, <2>1, <3>1, FS_Subset
  <2> HIDE DEF strings
  <2> QED BY <1>3, <2>2, <2>3
<1> HIDE DEF count
<1>5. mem' \in Seq(MemBlock) /\ Len(mem') = Len(mem) + count
  <2>1. "string" \in Kinds
    BY DEF Kinds
  <2>2. kinds \in Seq(Kinds) /\ Len(kinds) = count
    BY <1>4, <2>1
  <2> QED BY <1>1, <1>2, <2>2, NewMemory
<1>6. Block \subseteq Block' /\ Len(mem) <= Len(mem')
  <2>1. Len(mem) <= Len(mem')
    BY <1>2, <1>4, <1>5
  <2> QED BY <1>5, <2>1, BlockGrows
<1>7. slots \in Seq(Block') /\ Len(slots) = Len(given)
  <2> HIDE DEF strings
  <2>1. slots \in [1 .. Len(given) -> Block']
    BY <1>2, <1>3, <1>4, <1>5 DEF Block
  <2> QED BY <1>3, <2>1
<1> HIDE DEF slots, kinds
<1>8. PICK f : f = NewFrame(i, given, slots)
  OBVIOUS
<1>9. f \in Frame(Block')
  <2>1. 0 \in 0 .. MaxDepth /\ 0 \in 0 .. MaxCallbacks /\ 0 \in Block'
    BY <1>2, <1>4, <1>5, BoundsNat DEF Block
  <2> QED BY <1>3, <1>7, <1>8, <2>1 DEF Frame, NewFrame, Phases
<1>10. /\ f.impl = i /\ f.phase = "args" /\ f.ok /\ f.n = 0 /\ f.given = given /\ f.slots = slots
       /\ f.args = <<>> /\ f.syms = <<>>
  BY <1>8 DEF NewFrame
<1>11. WellFormed(f)
  <2>1. Len(f.args) = 0 /\ Len(f.syms) = 0 /\ Len(f.slots) = Len(f.given)
    BY <1>7, <1>10
  <2> QED BY <1>10, <2>1 DEF WellFormed
<1>12. /\ stack' \in Seq(Frame(Block')) /\ Len(stack') = size + 1 /\ stack'[size + 1] = f
       /\ \A n \in 1 .. size : stack'[n] = stack[n]
  <2>1. stack \in Seq(Frame(Block'))
    BY <1>2, <1>6, FrameGrows, SeqMonotonic, SMTT(60)
  <2> QED BY <1>1, <1>8, <1>9, <2>1, AppendProperties
<1> HIDE DEF size
<1>13. \A n \in 1 .. size + 1 : n = size + 1 \/ n \in 1 .. size
  BY <1>2
<1>14. \A n \in 1 .. size : stack[n].phase = "userland"
  <2>1. ASSUME NEW n \in 1 .. size
        PROVE  stack[n].phase = "userland"
    <3>1. CASE n = size
      BY <1>1, <1>2, <2>1, <3>1 DEF InPHP, Top, size
    <3>2. CASE n \in 1 .. size - 1
      BY <3>2 DEF IInv, BelowCallsBack, size
    <3> QED BY <1>2, <3>1, <3>2
  <2> QED BY <2>1
<1>15. TypeOK'
  <2>1. size + 1 <= MaxDepth /\ calls + 1 \in 0 .. MaxCalls
    BY <1>1, <1>2, BoundsNat
  <2>2. kept \in [0 .. MaxDepth -> [Impls -> Seq(Block')]]
    BY <1>2, <1>6, SeqMonotonic
  <2> QED BY <1>1, <1>2, <1>5, <1>12, <2>1, <2>2 DEF TypeOK
<1>16. FramesWellFormed'
  BY <1>11, <1>12, <1>13 DEF IInv, FramesWellFormed, size
<1>17. FailuresThrow'
  BY <1>1, <1>10, <1>12, <1>13 DEF IInv, FailuresThrow, size
<1>18. BelowCallsBack'
  BY <1>2, <1>12, <1>14 DEF BelowCallsBack
<1>19. Linked'
  <2>1. ASSUME NEW j \in Impls
        PROVE  Innermost(stack', current'[j], j, size + 1)
    <3>1. Innermost(stack, current[j], j, size)
      BY DEF IInv, Linked, size
    <3>2. ~Runs(stack'[size + 1], j)
      BY <1>10, <1>12 DEF Runs
    <3>3. PICK p : p = current[j]
      OBVIOUS
    <3>4. p = 0 \/ (p \in 1 .. size + 1 /\ Runs(stack'[p], j))
      BY <1>2, <1>12, <3>1, <3>3 DEF Innermost
    <3>5. \A k \in 1 .. size + 1 : Runs(stack'[k], j) => k <= p
      <4> SUFFICES ASSUME NEW k \in 1 .. size + 1, Runs(stack'[k], j)
                   PROVE  k <= p
        OBVIOUS
      <4>1. k \in 1 .. size
        BY <1>13, <3>2
      <4>2. Runs(stack[k], j)
        BY <1>12, <4>1
      <4> QED BY <3>1, <3>3, <4>1, <4>2 DEF Innermost
    <3>6. current'[j] = p
      BY <1>1, <3>3
    <3> QED BY <3>4, <3>5, <3>6 DEF Innermost
  <2>2. ASSUME NEW n \in 1 .. size + 1, Runs(stack'[n], stack'[n].impl)
        PROVE  Innermost(stack', stack'[n].prev, stack'[n].impl, n - 1)
    <3>1. n \in 1 .. size
      BY <1>10, <1>12, <1>13, <2>2 DEF Runs
    <3>2. Innermost(stack, stack[n].prev, stack[n].impl, n - 1)
      BY <1>12, <2>2, <3>1 DEF IInv, Linked, size
    <3>3. 1 .. n - 1 \subseteq 1 .. size
      BY <1>2
    <3> QED BY <1>12, <3>1, <3>2, <3>3 DEF Innermost
  <2> QED BY <1>12, <2>1, <2>2 DEF Linked
<1>20. CallbacksComeHome'
  <2>1. DOMAIN stack' = 1 .. size + 1 /\ DOMAIN stack = 1 .. size
    BY <1>2, <1>12, LenProperties DEF size
  <2> QED BY <1>10, <1>12, <1>13, <2>1 DEF IInv, CallbacksComeHome
<1>21. ScopesForget'
  <2>1. \A s \in 0 .. MaxDepth : s > size + 1 \/ s = size + 1 => s > size
    BY <1>2, BoundsNat
  <2> QED BY <1>1, <1>12, <2>1 DEF IInv, ScopesForget, size
<1>22. (Len(DefaultStrings) <= Len(mem))'
  BY <1>2, <1>5, <1>6
<1> QED BY <1>15, <1>16, <1>17, <1>18, <1>19, <1>20, <1>21, <1>22 DEF IInv

-----------------------------------------------------------------------------

LEMMA StepIInv == IInv /\ [Next]_vars => IInv'
<1> SUFFICES ASSUME IInv, [Next]_vars
             PROVE  IInv'
  OBVIOUS
<1>1. CASE \E call \in MayCall : BeginCall(call[1], call[2])
  <2>1. PICK call \in MayCall : BeginCall(call[1], call[2])
    BY <1>1
  <2>2. PICK i \in Impls : call \in {i} \X ArgumentLists(i)
    BY DEF MayCall
  <2>3. call[1] = i /\ call[2] \in ArgumentLists(i)
    BY <2>2
  <2> QED BY <2>1, <2>3, BeginCallIInv
<1>2. CASE Progress
  <2>1. CASE CountArgs \/ ParseArg \/ DefaultArg \/ Enter
    BY <2>1, CountArgsIInv, ParseArgIInv, DefaultArgIInv, EnterIInv
  <2>2. CASE LetNone \/ LetNullArray \/ LetCalloc \/ LetCallback
    BY <2>2, LetsIInv
  <2>3. CASE LetStrval \/ LetPathval
    BY <2>3, StringsIInv
  <2>4. CASE LetArrval
    BY <2>4, ArrvalIInv
  <2>5. CASE Prepare \/ PreAssert \/ PostAssert \/ Return
    BY <2>5, PhasesIInv
  <2>6. CASE Call
    BY <2>6, CallIInv
  <2>7. CASE \E throws \in BOOLEAN : UserlandReturns(throws)
    BY <2>7, UserlandReturnsIInv
  <2>8. CASE \E allocates \in BOOLEAN : NativeReturns(allocates)
    BY <2>8, NativeReturnsIInv
  <2>9. CASE Set \/ Free \/ FrameFree
    BY <2>9, SetIInv, FreeIInv, FrameFreeIInv
  <2> QED BY <1>2, <2>1, <2>2, <2>3, <2>4, <2>5, <2>6, <2>7, <2>8, <2>9 DEF Progress
<1>3. CASE \E l \in LetIndexes : CallBack(l)
  BY <1>3, CallBackIInv
<1>4. CASE \E f \in DOMAIN stack, a \in ArgIndexes : Assign(f, a)
  BY <1>4, AssignIInv
<1>5. CASE Catch \/ NextScript
  BY <1>5, CatchIInv, NextScriptIInv
<1>6. CASE UNCHANGED vars
  <2>1. TypeOK'
    BY <1>6 DEF IInv, TypeOK, Block, vars
  <2>2. FramesWellFormed' /\ BelowCallsBack' /\ FailuresThrow' /\ Linked' /\ CallbacksComeHome'
    BY <1>6 DEF IInv, FramesWellFormed, BelowCallsBack, FailuresThrow, Linked, CallbacksComeHome, vars
  <2>3. ScopesForget' /\ (Len(DefaultStrings) <= Len(mem))'
    BY <1>6 DEF IInv, ScopesForget, vars
  <2> QED BY <2>1, <2>2, <2>3 DEF IInv
<1> QED BY <1>1, <1>2, <1>3, <1>4, <1>5, <1>6 DEF Next

(* The invariant holds of every run of every set of implementations.       *)
THEOREM Invariance == Spec => []IInv
BY InitIInv, StepIInv, PTL DEF Spec

(* Every variable has its type, however many calls, callbacks and scripts  *)
(* there are: every block that a frame refers to was allocated, every      *)
(* frame that a pointer refers to is on the stack or was (call.h).         *)
THEOREM TypeCorrect == Spec => []TypeOK
<1>1. IInv => TypeOK
  BY DEF IInv
<1> QED BY <1>1, Invariance, PTL

(* impl_info->frame is the innermost call of the implementation that is    *)
(* running, and a callback is run on the frame of the call that passed it, *)
(* however deep calls of however many implementations are nested           *)
(* (libffi.c:394, libffi.c:635).                                           *)
THEOREM FramesAlwaysBelong == Spec => []FramesBelong
<1>1. IInv => FramesBelong
  <2> SUFFICES ASSUME IInv
               PROVE  FramesNest
    BY DEF IInv, FramesBelong
  <2>1. DOMAIN stack = 1 .. Len(stack)
    BY LenProperties DEF IInv, TypeOK
  <2>2. ASSUME NEW i \in Impls
        PROVE  Innermost(stack, current[i], i, Len(stack))
    BY DEF IInv, Linked
  <2> QED BY <2>1, <2>2 DEF FramesNest, IsRunning, Innermost, Runs
<1> QED BY <1>1, Invariance, PTL

-----------------------------------------------------------------------------

(* A call does what CallProtocol promises, if foreign functions return to  *)
(* PHP after a callback threw: the code asserts it (call.c:475).           *)

ReturnsAfterThrow == "goes on" \notin Habits

LEMMA StageOf ==
  ASSUME NEW f
  PROVE  /\ f.phase \in {"args", "let", "pre", "call"} => Stage(f) = "asked"
         /\ f.phase = "native" => Stage(f) = "running"
         /\ f.phase = "userland" => Stage(f) = "callback"
         /\ f.phase = "post" => Stage(f) = "judged"
         /\ f.phase = "return" /\ f.ok => Stage(f) = "good"
         /\ f.phase = "return" /\ ~f.ok => Stage(f) = "bad"
         /\ f.phase = "set" => Stage(f) = "good"
         /\ f.phase = "over" /\ f.ok => Stage(f) = "done"
         /\ f.phase = "over" /\ ~f.ok => Stage(f) = "bad"
BY DEF Stage

LEMMA StagesFacts ==
  ASSUME IInv, stack # <<>>
  PROVE  /\ Len(Stages) = Len(stack) /\ Stages # <<>> /\ Stages[Len(Stages)] = Stage(Top)
         /\ Stages = [n \in 1 .. Len(stack) |-> Stage(stack[n])]
<1>1. stack \in Seq(Frame(Block)) /\ Len(stack) \in Nat \ {0} /\ DOMAIN stack = 1 .. Len(stack)
  BY LenProperties DEF IInv, TypeOK
<1>2. Stages = [n \in 1 .. Len(stack) |-> Stage(stack[n])]
  BY <1>1 DEF Stages
<1>3. Len(Stages) = Len(stack) /\ Stages # <<>>
  BY <1>1, <1>2
<1>4. Stages[Len(Stages)] = Stage(Top)
  BY <1>1, <1>2, <1>3 DEF Top
<1> QED BY <1>2, <1>3, <1>4

(* A step that replaces the innermost frame changes the innermost stage.   *)
LEMMA StagesTurn ==
  ASSUME IInv, stack # <<>>, NEW f, Continue(f)
  PROVE  /\ Stages' = [Stages EXCEPT ![Len(Stages)] = Stage(f)]
         /\ Stage(f) = Stage(Top) => Stages' = Stages
<1>1. stack \in Seq(Frame(Block)) /\ Len(stack) \in Nat \ {0} /\ DOMAIN stack = 1 .. Len(stack)
  BY LenProperties DEF IInv, TypeOK
<1>2. /\ Stages = [n \in 1 .. Len(stack) |-> Stage(stack[n])] /\ Len(Stages) = Len(stack)
      /\ Stages[Len(stack)] = Stage(Top)
  BY StagesFacts
<1>3. /\ DOMAIN stack' = 1 .. Len(stack) /\ stack'[Len(stack)] = f
      /\ \A n \in 1 .. Len(stack) : n # Len(stack) => stack'[n] = stack[n]
  <2>1. stack' = [stack EXCEPT ![Len(stack)] = f]
    BY DEF Continue
  <2>2. Len(stack) \in DOMAIN stack
    BY <1>1
  <2>3. DOMAIN stack' = DOMAIN stack
    BY <2>1
  <2> QED BY <1>1, <2>1, <2>2, <2>3, Zenon
<1>4. Stages' = [n \in 1 .. Len(stack) |-> Stage(stack'[n])]
  BY <1>3 DEF Stages
<1>5. Stages' = [Stages EXCEPT ![Len(Stages)] = Stage(f)]
  BY <1>1, <1>2, <1>3, <1>4
<1>6. ASSUME Stage(f) = Stage(Top)
      PROVE  Stages' = Stages
  BY <1>1, <1>2, <1>5, <1>6
<1> QED BY <1>5, <1>6

ProtocolStep == [Protocol!Next]_(Protocol!vars)

(* Up to the foreign function, a call only goes on or is refused.          *)
LEMMA AskedOn ==
  ASSUME IInv, stack # <<>>, Top.phase \in {"args", "let", "pre"},
         NEW f, Continue(f), f.phase \in {"args", "let", "pre", "call"}, exception' = exception
  PROVE  ProtocolStep
<1>1. Stage(f) = "asked" /\ Stage(Top) = "asked"
  BY StageOf
<1>2. Stages' = Stages
  BY <1>1, StagesTurn
<1> QED BY <1>2 DEF ProtocolStep, Protocol!vars

LEMMA AskedRefused ==
  ASSUME IInv, stack # <<>>, Top.phase \in {"args", "let", "pre"},
         NEW f, Continue(f), f.phase \in {"over", "return"}, ~f.ok, exception' = TRUE
  PROVE  ProtocolStep
<1>1. Stage(f) = "bad" /\ Stage(Top) = "asked"
  BY StageOf
<1>2. /\ Stages' = [Stages EXCEPT ![Len(Stages)] = "bad"]
      /\ Stages # <<>> /\ Stages[Len(Stages)] = "asked"
  BY <1>1, StagesTurn, StagesFacts
<1>3. Protocol!Refuse
  BY <1>2, Zenon DEF Protocol!Refuse, Protocol!Turn, Protocol!Innermost
<1> QED BY <1>3 DEF ProtocolStep, Protocol!Next

LEMMA CountArgsStep ==
  ASSUME IInv, Running("args"), Rejects
  PROVE  ProtocolStep
<1>1. stack # <<>> /\ Top.phase = "args" /\ Top \in Frame(Block)
  BY TopFacts DEF Running
<1>2. PICK f : f = [Top EXCEPT !.phase = "over", !.ok = FALSE]
  OBVIOUS
<1>3. f.phase = "over" /\ ~f.ok
  BY <1>1, <1>2 DEF Frame
<1>4. Continue(f) /\ exception' = TRUE
  BY <1>2 DEF Rejects
<1> QED BY <1>1, <1>3, <1>4, AskedRefused

LEMMA ArgumentStep ==
  ASSUME IInv, Running("args"), NEW args, Continue([Top EXCEPT !.n = Top.n + 1, !.args = args]),
         exception' = exception
  PROVE  ProtocolStep
<1>1. stack # <<>> /\ Top.phase = "args" /\ Top \in Frame(Block)
  BY TopFacts DEF Running
<1>2. PICK f : f = [Top EXCEPT !.n = Top.n + 1, !.args = args]
  OBVIOUS
<1>3. f.phase = "args"
  BY <1>1, <1>2 DEF Frame
<1>4. Continue(f)
  BY <1>2
<1> QED BY <1>1, <1>3, <1>4, AskedOn

LEMMA ArgumentsStep ==
  ASSUME IInv, CountArgs \/ ParseArg \/ DefaultArg \/ Enter
  PROVE  ProtocolStep
<1>1. CASE CountArgs
  BY <1>1, CountArgsStep DEF CountArgs
<1>2. CASE ParseArg
  <2>1. Running("args")
    BY <1>2 DEF ParseArg
  <2>2. \/ Rejects
        \/ /\ exception' = exception
           /\ \E ar : Continue([Top EXCEPT !.n = Top.n + 1, !.args = Append(@, ar)])
    BY <1>2, Zenon DEF ParseArg
  <2>3. CASE Rejects
    BY <2>1, <2>3, CountArgsStep
  <2>4. CASE exception' = exception /\ \E ar : Continue([Top EXCEPT !.n = Top.n + 1, !.args = Append(@, ar)])
    <3>1. PICK ar : Continue([Top EXCEPT !.n = Top.n + 1, !.args = Append(@, ar)])
      BY <2>4
    <3>2. PICK args : args = Append(Top.args, ar)
      OBVIOUS
    <3>3. Continue([Top EXCEPT !.n = Top.n + 1, !.args = args])
      BY <3>1, <3>2
    <3> QED BY <2>1, <2>4, <3>3, ArgumentStep
  <2> QED BY <2>2, <2>3, <2>4
<1>3. CASE DefaultArg
  <2>1. Running("args") /\ exception' = exception
    BY <1>3 DEF DefaultArg
  <2>2. PICK ar : Continue([Top EXCEPT !.n = Top.n + 1, !.args = Append(@, ar)])
    BY <1>3, Zenon DEF DefaultArg
  <2>3. PICK args : args = Append(Top.args, ar)
    OBVIOUS
  <2>4. Continue([Top EXCEPT !.n = Top.n + 1, !.args = args])
    BY <2>2, <2>3
  <2> QED BY <2>1, <2>4, ArgumentStep
<1>4. CASE Enter
  <2>1. stack # <<>> /\ Top.phase = "args" /\ Top \in Frame(Block) /\ exception' = exception
    BY <1>4, TopFacts DEF Enter, Running
  <2>2. PICK b : Continue(Entered(Top, b))
    BY <1>4, Zenon DEF Enter, Entered
  <2>3. PICK f : f = Entered(Top, b)
    OBVIOUS
  <2>4. f.phase = "let"
    BY <2>1, <2>3 DEF Frame, Entered
  <2> QED BY <2>1, <2>2, <2>3, <2>4, AskedOn
<1> QED BY <1>1, <1>2, <1>3, <1>4

LEMMA BindsStep ==
  ASSUME IInv, Running("let"), NEW kinds, NEW auto \in BOOLEAN, NEW sym, Binds(kinds, auto, sym),
         exception' = exception
  PROVE  ProtocolStep
<1>1. stack # <<>> /\ Top.phase = "let" /\ Top \in Frame(Block)
  BY TopFacts DEF Running
<1>2. PICK temps : temps = IF auto THEN Top.temps \o NewBlocks(mem, kinds) ELSE Top.temps
  OBVIOUS
<1>3. PICK f : f = [Top EXCEPT !.n = Top.n + 1, !.temps = temps, !.syms = Append(Top.syms, sym)]
  OBVIOUS
<1>4. f.phase = "let"
  BY <1>1, <1>3 DEF Frame
<1>5. Continue(f)
  BY <1>2, <1>3 DEF Binds
<1> QED BY <1>1, <1>4, <1>5, AskedOn

LEMMA LetsStep ==
  ASSUME IInv,
         LetNone \/ LetNullArray \/ LetCalloc \/ LetStrval \/ LetPathval \/ LetArrval \/ LetCallback
  PROVE  ProtocolStep
<1>1. CASE LetNone
  BY <1>1, BindsStep DEF LetNone, LetRuns
<1>2. CASE LetNullArray
  BY <1>2, BindsStep, Zenon DEF LetNullArray, LetRuns
<1>3. CASE LetCalloc
  BY <1>3, BindsStep DEF LetCalloc, LetRuns
<1>4. CASE LetStrval
  BY <1>4, BindsStep DEF LetStrval, Strval, LetRuns
<1>5. CASE LetPathval
  <2>1. Running("let") /\ exception' = exception
    BY <1>5 DEF LetPathval, LetRuns
  <2>2. CASE Strval
    BY <2>1, <2>2, BindsStep DEF Strval
  <2>3. CASE Binds(<<>>, FALSE, 0)
    BY <2>1, <2>3, BindsStep
  <2> QED BY <1>5, <2>2, <2>3 DEF LetPathval
<1>6. CASE LetCallback
  BY <1>6, BindsStep DEF LetCallback, LetRuns
<1>7. CASE LetArrval
  <2>1. Running("let") /\ stack # <<>> /\ Top.phase = "let" /\ exception' = exception
    BY <1>7 DEF LetArrval, LetRuns, Running
  <2>2. Top \in Frame(Block)
    BY <2>1, TopFacts
  <2>3. CASE Binds(<<"temp">>, TRUE, Len(mem) + 1)
    BY <2>1, <2>3, BindsStep
  <2>4. CASE Continue([Top EXCEPT !.n = @ + 1,
                         !.temps = @ \o NewBlocks(mem, ArrvalBlocks(TRUE)),
                         !.subs = Append(@, Len(mem) + 1),
                         !.syms = Append(@, Len(mem) + 3)])
    <3>1. PICK f : f = Bound(Top, Top.temps \o NewBlocks(mem, ArrvalBlocks(TRUE)),
                             Append(Top.subs, Len(mem) + 1), Len(mem) + 3)
      OBVIOUS
    <3>2. f.phase = "let"
      BY <2>1, <2>2, <3>1 DEF Frame, Bound
    <3>3. Continue(f)
      BY <2>4, <3>1 DEF Bound
    <3> QED BY <2>1, <3>2, <3>3, AskedOn
  <2> QED BY <1>7, <2>3, <2>4 DEF LetArrval
<1> QED BY <1>1, <1>2, <1>3, <1>4, <1>5, <1>6, <1>7

LEMMA EntersPhase ==
  ASSUME IInv, stack # <<>>, NEW phase, Enters(phase)
  PROVE  \E f : Continue(f) /\ f.phase = phase /\ (f.ok <=> Top.ok)
<1>1. Top \in Frame(Block)
  BY TopFacts
<1>2. PICK f : f = Advanced(Top, phase)
  OBVIOUS
<1>3. f.phase = phase /\ (f.ok <=> Top.ok)
  BY <1>1, <1>2 DEF Frame, Advanced
<1>4. Continue(f)
  BY <1>2 DEF Enters, Advanced
<1> QED BY <1>3, <1>4

LEMMA AssertFailsPhase ==
  ASSUME IInv, stack # <<>>, NEW kind, AssertFails(kind)
  PROVE  exception' = TRUE /\ \E f : Continue(f) /\ f.phase = "return" /\ ~f.ok
<1>1. Top \in Frame(Block)
  BY TopFacts
<1>2. PICK f : f = Failed(Top)
  OBVIOUS
<1>3. f.phase = "return" /\ ~f.ok
  BY <1>1, <1>2 DEF Frame, Failed
<1>4. Continue(f) /\ exception' = TRUE
  BY <1>2 DEF AssertFails, Failed
<1> QED BY <1>3, <1>4

LEMMA BeforeStep ==
  ASSUME IInv, Prepare \/ PreAssert
  PROVE  ProtocolStep
<1>1. stack # <<>> /\ Top.phase \in {"let", "pre"}
  BY DEF Prepare, PreAssert, Running
<1>2. CASE Enters("pre") /\ exception' = exception
  <2>1. PICK f : Continue(f) /\ f.phase = "pre"
    BY <1>1, <1>2, EntersPhase
  <2> QED BY <1>1, <1>2, <2>1, AskedOn
<1>3. CASE Enters("call") /\ exception' = exception
  <2>1. PICK f : Continue(f) /\ f.phase = "call"
    BY <1>1, <1>3, EntersPhase
  <2> QED BY <1>1, <1>3, <2>1, AskedOn
<1>4. CASE AssertFails("pre")
  <2>1. PICK f : exception' = TRUE /\ Continue(f) /\ f.phase = "return" /\ ~f.ok
    BY <1>1, <1>4, AssertFailsPhase
  <2> QED BY <1>1, <2>1, AskedRefused
<1> QED BY <1>2, <1>3, <1>4 DEF Prepare, PreAssert

LEMMA Turned ==
  ASSUME IInv, stack # <<>>, NEW f, Continue(f)
  PROVE  Protocol!Turn(Stage(Top), Stage(f))
<1>1. /\ Stages' = [Stages EXCEPT ![Len(Stages)] = Stage(f)]
      /\ Stages # <<>> /\ Stages[Len(Stages)] = Stage(Top)
  BY StagesTurn, StagesFacts
<1> QED BY <1>1, Zenon DEF Protocol!Turn, Protocol!Innermost

(* The foreign function runs, calls back, and returns.                     *)
LEMMA RunStep ==
  ASSUME IInv, Call
  PROVE  ProtocolStep
<1>1. stack # <<>> /\ Top.phase = "call" /\ Top \in Frame(Block) /\ exception' = exception
  BY TopFacts DEF Call, Running
<1>2. PICK f : f = Called(Top, current[Top.impl])
  OBVIOUS
<1>3. f.phase = "native"
  BY <1>1, <1>2 DEF Frame, Called
<1>4. Continue(f)
  BY <1>2 DEF Call, Called
<1>5. Stage(Top) = "asked" /\ Stage(f) = "running"
  BY <1>1, <1>3, StageOf
<1>6. Protocol!Run
  BY <1>1, <1>4, <1>5, Turned DEF Protocol!Run
<1> QED BY <1>6 DEF ProtocolStep, Protocol!Next

LEMMA CallBackStep ==
  ASSUME IInv, ReturnsAfterThrow, NEW l, CallBack(l)
  PROVE  ProtocolStep
<1>1. stack # <<>> /\ Top.phase = "native" /\ Top \in Frame(Block) /\ exception' = exception
  BY TopFacts DEF CallBack, Running
<1>2. ~exception
  BY Zenon DEF CallBack, ReturnsAfterThrow
<1>3. PICK f : f = CalledBack(Top, current[Top.impl], l, Len(mem) + 1)
  OBVIOUS
<1>4. f.phase = "userland"
  BY <1>1, <1>3 DEF Frame, CalledBack
<1>5. Continue(f)
  BY <1>3, Zenon DEF CallBack, CalledBack
<1>6. Stage(Top) = "running" /\ Stage(f) = "callback"
  BY <1>1, <1>4, StageOf
<1>7. Protocol!CallBack
  BY <1>1, <1>2, <1>5, <1>6, Turned DEF Protocol!CallBack
<1> QED BY <1>7 DEF ProtocolStep, Protocol!Next

LEMMA AnswerStep ==
  ASSUME IInv, NEW throws \in BOOLEAN, UserlandReturns(throws)
  PROVE  ProtocolStep
<1>1. /\ stack # <<>> /\ Top.phase = "userland" /\ exception' = (exception \/ throws)
      /\ Top.home = Len(stack) /\ stack \in Seq(Frame(Block)) /\ Len(stack) \in Nat \ {0}
  <2>1. stack # <<>> /\ Top.phase = "userland" /\ exception' = (exception \/ throws)
    BY ZenonT(60) DEF UserlandReturns, Running
  <2>2. Top.home = Len(stack) /\ Len(stack) \in 1 .. MaxDepth
    BY <2>1, TopFacts
  <2>3. stack \in Seq(Frame(Block))
    BY DEF IInv, TypeOK
  <2>4. Len(stack) \in Nat \ {0}
    BY <2>2, BoundsAssumption
  <2> QED BY <2>1, <2>2, <2>3, <2>4
<1>2. PICK m : stack' = [[stack EXCEPT ![Top.home] = Answered(Top.home, Top.via, m).f] EXCEPT
                           ![Len(stack)].phase = "native", ![Len(stack)].params = 0,
                           ![Len(stack)].home = 0, ![Len(stack)].via = 0]
  BY Zenon DEF UserlandReturns
<1>3. PICK g : g = Answered(Top.home, Top.via, m).f
  OBVIOUS
<1>4. PICK temps, subs, inner, syms : g = Converted(Top, temps, subs, inner, syms)
  BY <1>1, <1>3, ZenonT(60) DEF Answered, Converted, Top
<1>5. PICK f : f = Returned(Top, temps, subs, inner, syms)
  OBVIOUS
<1>6. Continue(f)
  <2>1. stack' = [stack EXCEPT ![Len(stack)] =
                    [g EXCEPT !.phase = "native", !.params = 0, !.home = 0, !.via = 0]]
    BY <1>1, <1>2, <1>3
  <2>2. [g EXCEPT !.phase = "native", !.params = 0, !.home = 0, !.via = 0] = f
    <3>1. Top \in Frame(Block)
      BY <1>1, TopFacts
    <3> QED BY <1>4, <1>5, <3>1 DEF Converted, Returned, Frame
  <2> QED BY <2>1, <2>2 DEF Continue
<1>7. f.phase = "native"
  <2>1. Top \in Frame(Block)
    BY <1>1, TopFacts
  <2> QED BY <1>5, <2>1 DEF Frame, Returned
<1>8. Stage(Top) = "callback" /\ Stage(f) = "running"
  BY <1>1, <1>7, StageOf
<1>9. exception' \in {exception, TRUE}
  BY <1>1, TopFacts, Zenon
<1>10. Protocol!Answer
  BY <1>1, <1>6, <1>8, <1>9, Turned, Zenon DEF Protocol!Answer
<1> QED BY <1>10 DEF ProtocolStep, Protocol!Next

LEMMA FinishStep ==
  ASSUME IInv, NEW allocates \in BOOLEAN, NativeReturns(allocates)
  PROVE  ProtocolStep
<1>1. stack # <<>> /\ Top.phase = "native" /\ Top \in Frame(Block) /\ exception' = exception
  BY TopFacts DEF NativeReturns, Running
<1>2. PICK out : out = IF allocates THEN Len(mem) + 1 ELSE 0
  OBVIOUS
<1>3. PICK f : f = Ended(Top, out)
  OBVIOUS
<1>4. f.phase = "post"
  BY <1>1, <1>3 DEF Frame, Ended
<1>5. Continue(f)
  BY <1>2, <1>3, Zenon DEF NativeReturns, Ended
<1>6. Stage(Top) = "running" /\ Stage(f) = "judged"
  BY <1>1, <1>4, StageOf
<1>7. Protocol!Finish
  BY <1>1, <1>5, <1>6, Turned DEF Protocol!Finish
<1> QED BY <1>7 DEF ProtocolStep, Protocol!Next

(* What comes of the call: only a good one writes.                         *)
LEMMA JudgeStep ==
  ASSUME IInv, PostAssert
  PROVE  ProtocolStep
<1>1. stack # <<>> /\ Top.phase = "post" /\ WellFormed(Top)
  BY TopFacts DEF PostAssert, Running
<1>2. Stage(Top) = "judged" /\ Top.ok
  BY <1>1, StageOf DEF WellFormed
<1>3. CASE AssertFails("post")
  <2>1. PICK f : exception' = TRUE /\ Continue(f) /\ f.phase = "return" /\ ~f.ok
    BY <1>1, <1>3, AssertFailsPhase
  <2>2. Stage(f) = "bad"
    BY <2>1, StageOf
  <2>3. Protocol!Condemn
    BY <1>1, <1>2, <2>1, <2>2, Turned DEF Protocol!Condemn
  <2> QED BY <2>3 DEF ProtocolStep, Protocol!Next
<1>4. CASE Enters("return") /\ exception' = exception
  <2>1. PICK f : Continue(f) /\ f.phase = "return" /\ (f.ok <=> Top.ok)
    BY <1>1, <1>4, EntersPhase
  <2>2. Stage(f) = "good"
    BY <1>2, <2>1, StageOf
  <2>3. Protocol!Approve
    BY <1>1, <1>2, <1>4, <2>1, <2>2, Turned DEF Protocol!Approve
  <2> QED BY <2>3 DEF ProtocolStep, Protocol!Next
<1> QED BY <1>3, <1>4 DEF PostAssert

LEMMA SameStage ==
  ASSUME IInv, stack # <<>>, NEW f, Continue(f), Stage(f) = Stage(Top), exception' = exception
  PROVE  ProtocolStep
<1>1. Stages' = Stages
  BY StagesTurn
<1> QED BY <1>1 DEF ProtocolStep, Protocol!vars

LEMMA ReturnStep ==
  ASSUME IInv, Return
  PROVE  ProtocolStep
<1>1. stack # <<>> /\ Top.phase = "return" /\ exception' = exception
  BY DEF Return, Running
<1>2. CASE Top.ok
  <2>1. Enters("set")
    BY <1>2 DEF Return
  <2>2. PICK f : Continue(f) /\ f.phase = "set" /\ (f.ok <=> Top.ok)
    BY <1>1, <2>1, EntersPhase
  <2>3. Stage(f) = "good" /\ Stage(Top) = "good"
    BY <1>1, <1>2, <2>2, StageOf
  <2> QED BY <1>1, <2>2, <2>3, SameStage
<1>3. CASE ~Top.ok
  <2>1. Enters("over")
    BY <1>3 DEF Return
  <2>2. PICK f : Continue(f) /\ f.phase = "over" /\ (f.ok <=> Top.ok)
    BY <1>1, <2>1, EntersPhase
  <2>3. Stage(f) = "bad" /\ Stage(Top) = "bad"
    BY <1>1, <1>3, <2>2, StageOf
  <2> QED BY <1>1, <2>2, <2>3, SameStage
<1> QED BY <1>2, <1>3

LEMMA SetStep ==
  ASSUME IInv, Set
  PROVE  ProtocolStep
<1>1. stack # <<>> /\ Top.phase = "set" /\ exception' = exception /\ Top \in Frame(Block)
  BY TopFacts DEF Set, Running
<1>2. PICK slots : Continue([Top EXCEPT !.n = @ + 1, !.slots = slots])
  <2>1. \/ \E a : Continue([Top EXCEPT !.n = @ + 1, !.slots[a] = Len(mem) + 1])
        \/ Continue([Top EXCEPT !.n = @ + 1])
    BY Zenon DEF Set
  <2>2. CASE \E a : Continue([Top EXCEPT !.n = @ + 1, !.slots[a] = Len(mem) + 1])
    <3>1. PICK a : Continue([Top EXCEPT !.n = @ + 1, !.slots[a] = Len(mem) + 1])
      BY <2>2
    <3>2. PICK t : t = [Top.slots EXCEPT ![a] = Len(mem) + 1]
      OBVIOUS
    <3>3. Continue([Top EXCEPT !.n = @ + 1, !.slots = t])
      BY <3>1, <3>2
    <3> QED BY <3>3
  <2>3. CASE Continue([Top EXCEPT !.n = @ + 1])
    <3>1. PICK f : f = [Top EXCEPT !.n = @ + 1] /\ f = [Top EXCEPT !.n = @ + 1, !.slots = Top.slots]
      BY <1>1 DEF Frame
    <3>2. Continue([Top EXCEPT !.n = @ + 1, !.slots = Top.slots])
      BY <2>3, <3>1, Zenon
    <3> QED BY <3>2
  <2> QED BY <2>1, <2>2, <2>3
<1>3. PICK f : f = [Top EXCEPT !.n = @ + 1, !.slots = slots]
  OBVIOUS
<1>4. f.phase = "set"
  BY <1>1, <1>3 DEF Frame
<1>5. Continue(f)
  BY <1>2, <1>3
<1>6. Stage(f) = Stage(Top)
  BY <1>1, <1>4, StageOf
<1> QED BY <1>1, <1>5, <1>6, SameStage

LEMMA WriteStep ==
  ASSUME IInv, Free
  PROVE  ProtocolStep
<1>1. /\ stack # <<>> /\ Top.phase = "set" /\ exception' = exception
      /\ Top \in Frame(Block) /\ WellFormed(Top)
  BY TopFacts DEF Free, Running
<1>2. PICK f : f = [Top EXCEPT !.phase = "over", !.out = 0]
  OBVIOUS
<1>3. f.phase = "over" /\ f.ok
  BY <1>1, <1>2 DEF Frame, WellFormed
<1>4. Continue(f)
  BY <1>2 DEF Free
<1>5. Stage(Top) = "good" /\ Stage(f) = "done"
  BY <1>1, <1>3, StageOf
<1>6. Protocol!Write
  BY <1>1, <1>4, <1>5, Turned DEF Protocol!Write
<1> QED BY <1>6 DEF ProtocolStep, Protocol!Next

LEMMA StagesSequence ==
  ASSUME IInv
  PROVE  \E S : Stages \in Seq(S)
<1>1. PICK k \in Nat : k = Len(stack) /\ DOMAIN stack = 1 .. k
  BY LenProperties DEF IInv, TypeOK
<1>2. Stages = [n \in 1 .. k |-> Stage(stack[n])]
  BY <1>1 DEF Stages
<1>3. PICK S : S = {Stage(stack[n]) : n \in 1 .. k}
  OBVIOUS
<1>4. Stages \in [1 .. k -> S]
  BY <1>2, <1>3
<1> QED BY <1>1, <1>4, SeqDef

LEMMA LeaveStep ==
  ASSUME IInv, FrameFree
  PROVE  ProtocolStep
<1>1. /\ stack # <<>> /\ Top.phase = "over" /\ exception' = exception /\ (Top.ok \/ exception)
      /\ stack' = SubSeq(stack, 1, Len(stack) - 1)
  BY TopFacts DEF FrameFree, Running
<1>2. stack \in Seq(Frame(Block)) /\ Len(stack) \in Nat \ {0}
  BY <1>1 DEF IInv, TypeOK
<1>3. /\ Stages = [n \in 1 .. Len(stack) |-> Stage(stack[n])] /\ Len(Stages) = Len(stack)
      /\ Stages # <<>> /\ Stages[Len(Stages)] = Stage(Top)
  BY <1>1, StagesFacts
<1>4. PICK k \in Nat : k = Len(stack) - 1
  BY <1>2
<1>5. /\ stack' \in Seq(Frame(Block)) /\ Len(stack') = k /\ DOMAIN stack' = 1 .. k
      /\ \A n \in 1 .. k : stack'[n] = stack[n]
  BY <1>1, <1>2, <1>4, LastRemoved, LenProperties
<1>6. Stages' = [n \in 1 .. k |-> Stage(stack[n])]
  BY <1>5 DEF Stages
<1>7. SubSeq(Stages, 1, k) = [n \in 1 .. k |-> Stage(stack[n])]
  <2>1. \A n \in 1 .. k : n \in 1 .. Len(stack)
    BY <1>2, <1>4
  <2>2. PICK S : Stages \in Seq(S)
    BY StagesSequence
  <2>3. /\ SubSeq(Stages, 1, k) \in Seq(S) /\ Len(SubSeq(Stages, 1, k)) = k
        /\ \A n \in 1 .. k : SubSeq(Stages, 1, k)[n] = Stages[n]
    BY <1>3, <1>4, <2>2, LastRemoved
  <2>4. /\ SubSeq(Stages, 1, k) = [n \in 1 .. k |-> SubSeq(Stages, 1, k)[n]]
    BY <2>3, SequenceIsFunction
  <2>5. \A n \in 1 .. k : SubSeq(Stages, 1, k)[n] = Stage(stack[n])
    BY <1>3, <2>1, <2>3
  <2> QED BY <2>4, <2>5
<1>8. Stages' = SubSeq(Stages, 1, Len(Stages) - 1)
  BY <1>3, <1>4, <1>6, <1>7
<1>9. Stage(Top) = "done" \/ (Stage(Top) = "bad" /\ exception)
  BY <1>1, StageOf
<1>10. Protocol!Leave
  BY <1>1, <1>3, <1>8, <1>9 DEF Protocol!Leave, Protocol!Innermost
<1> QED BY <1>10 DEF ProtocolStep, Protocol!Next

(* PHP calls, catches and assigns.                                         *)
LEMMA PHPEntered ==
  ASSUME IInv, InPHP
  PROVE  Protocol!InPHP /\ (stack = <<>> => Stages = <<>>)
<1>1. CASE stack = <<>>
  BY <1>1 DEF Stages, Protocol!InPHP
<1>2. CASE stack # <<>>
  <2>1. Stage(Top) = "callback"
    BY <1>2, StageOf DEF InPHP
  <2>2. Stages # <<>> /\ Stages[Len(Stages)] = "callback"
    BY <1>2, <2>1, StagesFacts
  <2> QED BY <1>2, <2>2 DEF Protocol!InPHP, Protocol!Innermost
<1> QED BY <1>1, <1>2

LEMMA AskStep ==
  ASSUME IInv, NEW i, NEW given, BeginCall(i, given)
  PROVE  ProtocolStep
<1>1. /\ InPHP /\ ~exception /\ Len(stack) < MaxDepth /\ exception' = exception
      /\ \E slots : stack' = Append(stack, NewFrame(i, given, slots))
  BY DEF BeginCall
<1>2. PICK slots : stack' = Append(stack, NewFrame(i, given, slots))
  BY <1>1
<1>3. PICK f : f = NewFrame(i, given, slots)
  OBVIOUS
<1>4. Stage(f) = "asked"
  <2>1. f.phase = "args"
    BY <1>3 DEF NewFrame
  <2> QED BY <2>1, StageOf
<1>5. PICK S : stack \in Seq(S) /\ f \in S
  <2>1. stack \in Seq(Frame(Block) \union {f})
    BY SeqMonotonic DEF IInv, TypeOK
  <2> QED BY <2>1
<1>6. /\ Len(stack) \in Nat /\ DOMAIN stack = 1 .. Len(stack)
      /\ DOMAIN stack' = 1 .. Len(stack) + 1 /\ stack'[Len(stack) + 1] = f
      /\ \A n \in 1 .. Len(stack) : stack'[n] = stack[n]
  BY <1>2, <1>3, <1>5, AppendProperties, LenProperties
<1>7. PICK k \in Nat : k = Len(stack)
  BY <1>6
<1>8. Stages = [n \in 1 .. k |-> Stage(stack[n])] /\ Len(Stages) = k
  BY <1>6, <1>7 DEF Stages
<1>9. Stages' = [n \in 1 .. k + 1 |-> Stage(stack'[n])]
  BY <1>6, <1>7 DEF Stages
<1>10. Append(Stages, "asked") = [n \in 1 .. k + 1 |-> IF n = k + 1 THEN "asked" ELSE Stages[n]]
  <2>1. PICK Q : Stages \in Seq(Q) /\ "asked" \in Q
    <3>1. PICK R : Stages \in Seq(R)
      BY StagesSequence
    <3>2. Stages \in Seq(R \union {"asked"})
      BY <3>1, SeqMonotonic
    <3> QED BY <3>2
  <2>2. PICK s : s = Append(Stages, "asked")
    OBVIOUS
  <2>3. /\ s \in Seq(Q) /\ Len(s) = k + 1 /\ s[k + 1] = "asked"
        /\ \A n \in 1 .. k : s[n] = Stages[n]
    BY <1>8, <2>1, <2>2, AppendProperties
  <2>4. s = [n \in 1 .. k + 1 |-> s[n]]
    BY <2>3, SequenceIsFunction
  <2>5. \A n \in 1 .. k + 1 : s[n] = IF n = k + 1 THEN "asked" ELSE Stages[n]
    BY <2>3
  <2> QED BY <2>2, <2>4, <2>5
<1>11. Stages' = Append(Stages, "asked")
  <2>1. ASSUME NEW n \in 1 .. k + 1
        PROVE  Stage(stack'[n]) = IF n = k + 1 THEN "asked" ELSE Stages[n]
    <3>1. CASE n = k + 1
      BY <1>4, <1>6, <1>7, <3>1
    <3>2. CASE n # k + 1
      <4>1. n \in 1 .. k
        BY <3>2
      <4> QED BY <1>6, <1>7, <1>8, <3>2, <4>1
    <3> QED BY <3>1, <3>2
  <2> QED BY <1>9, <1>10, <2>1
<1>12. Len(Stages) < MaxDepth
  BY <1>1, <1>7, <1>8
<1>13. Protocol!Ask
  BY <1>1, <1>11, <1>12, PHPEntered DEF Protocol!Ask
<1> QED BY <1>13 DEF ProtocolStep, Protocol!Next

LEMMA AssignStep ==
  ASSUME IInv, NEW n, NEW a, Assign(n, a)
  PROVE  ProtocolStep
<1>1. /\ n \in DOMAIN stack /\ exception' = exception
      /\ stack' = [stack EXCEPT ![n].assigned = TRUE, ![n].slots[a] = Len(mem) + 1]
  BY DEF Assign
<1>2. /\ stack \in Seq(Frame(Block)) /\ Len(stack) \in Nat /\ DOMAIN stack = 1 .. Len(stack)
  BY LenProperties DEF IInv, TypeOK
<1>3. PICK g \in Frame(Block) : g = stack[n]
  BY <1>1, <1>2
<1>4. PICK t : t = [g.slots EXCEPT ![a] = Len(mem) + 1]
  OBVIOUS
<1>5. PICK f : f = [g EXCEPT !.assigned = TRUE, !.slots = t]
  OBVIOUS
<1>6. stack' = [stack EXCEPT ![n] = f]
  BY <1>1, <1>2, <1>3, <1>4, <1>5
<1>7. f.phase = g.phase /\ (f.ok <=> g.ok)
  BY <1>5 DEF Frame
<1>8. Stage(f) = Stage(g)
  BY <1>7, Zenon DEF Stage
<1>9. DOMAIN stack' = DOMAIN stack /\ \A k \in DOMAIN stack : Stage(stack'[k]) = Stage(stack[k])
  BY <1>1, <1>3, <1>6, <1>8
<1>10. Stages' = Stages
  BY <1>9 DEF Stages
<1> QED BY <1>1, <1>10 DEF ProtocolStep, Protocol!vars

LEMMA CatchStep ==
  ASSUME IInv, Catch \/ NextScript
  PROVE  ProtocolStep
<1>1. InPHP /\ stack' = stack /\ exception' = FALSE
  BY DEF Catch, NextScript, InPHP
<1>2. Protocol!InPHP /\ Stages' = Stages
  BY <1>1, PHPEntered DEF Stages
<1>3. CASE exception
  <2>1. Protocol!Catch
    BY <1>1, <1>2, <1>3, Zenon DEF Protocol!Catch
  <2> QED BY <2>1 DEF ProtocolStep, Protocol!Next
<1>4. CASE ~exception
  <2>1. exception' = exception
    BY <1>1, <1>4 DEF IInv, TypeOK
  <2> QED BY <1>2, <2>1 DEF ProtocolStep, Protocol!vars
<1> QED BY <1>3, <1>4

LEMMA ImplementsStep == IInv /\ ReturnsAfterThrow /\ [Next]_vars => [Protocol!Next]_(Protocol!vars)
<1> SUFFICES ASSUME IInv, ReturnsAfterThrow, [Next]_vars
             PROVE  ProtocolStep
  BY DEF ProtocolStep
<1>1. CASE \E call \in MayCall : BeginCall(call[1], call[2])
  BY <1>1, AskStep
<1>2. CASE Progress
  <2>1. CASE CountArgs \/ ParseArg \/ DefaultArg \/ Enter
    BY <2>1, ArgumentsStep
  <2>2. CASE LetNone \/ LetNullArray \/ LetCalloc \/ LetStrval \/ LetPathval \/ LetArrval \/ LetCallback
    BY <2>2, LetsStep
  <2>3. CASE Prepare \/ PreAssert
    BY <2>3, BeforeStep
  <2>4. CASE Call
    BY <2>4, RunStep
  <2>5. CASE \E throws \in BOOLEAN : UserlandReturns(throws)
    BY <2>5, AnswerStep
  <2>6. CASE \E allocates \in BOOLEAN : NativeReturns(allocates)
    BY <2>6, FinishStep
  <2>7. CASE PostAssert \/ Return \/ Set \/ Free \/ FrameFree
    BY <2>7, JudgeStep, ReturnStep, SetStep, WriteStep, LeaveStep
  <2> QED BY <1>2, <2>1, <2>2, <2>3, <2>4, <2>5, <2>6, <2>7 DEF Progress
<1>3. CASE \E l \in LetIndexes : CallBack(l)
  BY <1>3, CallBackStep
<1>4. CASE \E f \in DOMAIN stack, a \in ArgIndexes : Assign(f, a)
  BY <1>4, AssignStep
<1>5. CASE Catch \/ NextScript
  BY <1>5, CatchStep
<1>6. CASE UNCHANGED vars
  BY <1>6 DEF ProtocolStep, Protocol!vars, vars, Stages
<1> QED BY <1>1, <1>2, <1>3, <1>4, <1>5, <1>6 DEF Next

(* A call runs its foreign function once and only after its pre-conditions *)
(* held, writes to PHP's variables only after its post-conditions held,    *)
(* and throws otherwise, whatever calls it is nested in and whatever they  *)
(* do to memory (context.c:360).                                           *)
THEOREM ProtocolImplemented ==
  ASSUME ReturnsAfterThrow
  PROVE  Spec => ImplementsProtocol
<1>1. Init => Protocol!Init
  BY DEF Init, Protocol!Init, Stages
<1>2. IInv /\ [Next]_vars => [Protocol!Next]_(Protocol!vars)
  BY ImplementsStep
<1> QED BY <1>1, <1>2, Invariance, PTL DEF Spec, ImplementsProtocol, Protocol!Spec

-----------------------------------------------------------------------------

(* Who holds a block, frame for frame.                                     *)

LEMMA WeightHolding ==
  ASSUME NEW what, NEW bs, IsFiniteSet(DOMAIN bs)
  PROVE  /\ IsFiniteSet(Holding(what, bs))
         /\ \A b : Weight(Holding(what, bs), b) = Count(bs, b)
<1> DEFINE f == [k \in DOMAIN bs |-> <<bs[k], <<what, k>> >>]
<1>1. IsFiniteSet(Holding(what, bs))
  <2>1. f \in Surjection(DOMAIN bs, Holding(what, bs))
    BY DEF Surjection, Holding
  <2> QED BY <2>1, FS_Surjection
<1>2. ASSUME NEW b
      PROVE  Weight(Holding(what, bs), b) = Count(bs, b)
  <2> DEFINE g == [k \in Occurs(bs, b) |-> <<b, <<what, k>> >>]
  <2>1. g \in [Occurs(bs, b) -> Of(Holding(what, bs), b)]
    BY DEF Occurs, Of, Holding
  <2>2. \A j \in Occurs(bs, b) : \A k \in Occurs(bs, b) : g[j] = g[k] => j = k
    OBVIOUS
  <2>3. \A h \in Of(Holding(what, bs), b) : \E k \in Occurs(bs, b) : g[k] = h
    BY DEF Occurs, Of, Holding
  <2>4. g \in Bijection(Occurs(bs, b), Of(Holding(what, bs), b))
    <3> HIDE DEF g
    <3> QED BY <2>1, <2>2, <2>3 DEF Bijection, Injection, Surjection, IsInjective
  <2>5. IsFiniteSet(Occurs(bs, b))
    BY CountNat
  <2> QED BY <2>4, <2>5, FS_Bijection DEF ExistsBijection, Weight, Count
<1> QED BY <1>1, <1>2

FrameHolders(n, f) ==
  Holding(<<n, "slot">>, f.slots) \union Holding(<<n, "argument">>, ArgBlocks(f))
    \union Holding(<<n, "temp">>, f.temps)
    \union Holding(<<n, "call">>, <<f.out, f.params, f.params>>)

FrameCount(f, b) ==
  Count(f.slots, b) + Count(ArgBlocks(f), b) + Count(f.temps, b)
    + One(f.out, b) + 2 * One(f.params, b)

Tables(f) ==
  /\ IsFiniteSet(DOMAIN f.slots) /\ IsFiniteSet(DOMAIN f.args) /\ IsFiniteSet(DOMAIN f.temps)

LEMMA CountCall ==
  ASSUME NEW x, NEW y, NEW b
  PROVE  Count(<<x, y, y>>, b) = One(x, b) + 2 * One(y, b)
<1> DEFINE t == <<x, y, y>>
<1>1. DOMAIN t = {1, 2, 3} /\ t[1] = x /\ t[2] = y /\ t[3] = y
  OBVIOUS
<1> HIDE DEF t
<1> DEFINE u == [k \in {1, 2} |-> t[k]]
           v == [k \in {1} |-> t[k]]
           w == [k \in {} |-> t[k]]
<1>2. IsFiniteSet({}) /\ IsFiniteSet({1}) /\ IsFiniteSet({1, 2})
  <2>1. IsFiniteSet({}) /\ IsFiniteSet({1})
    BY FS_EmptySet, FS_Singleton
  <2>2. {1, 2} = {1} \cup {2}
    OBVIOUS
  <2> QED BY <2>1, <2>2, FS_AddElement
<1>3. Count(w, b) = 0
  BY <1>2, CountNat
<1>4. Count(v, b) = Count(w, b) + One(v[1], b)
  BY <1>2, CountExtend
<1>5. Count(u, b) = Count(v, b) + One(u[2], b)
  BY <1>2, CountExtend
<1>6. Count(t, b) = Count(u, b) + One(t[3], b)
  BY <1>1, <1>2, CountExtend
<1>7. v[1] = x /\ u[2] = y
  BY <1>1
<1>8. One(x, b) \in Nat /\ One(y, b) \in Nat
  BY DEF One
<1> HIDE DEF u, v, w
<1>9. Count(t, b) = One(x, b) + 2 * One(y, b)
  BY <1>1, <1>3, <1>4, <1>5, <1>6, <1>7, <1>8
<1> QED BY <1>9 DEF t

LEMMA Places ==
  ASSUME NEW what, NEW bs, NEW h \in Holding(what, bs)
  PROVE  h[2][1] = what
BY DEF Holding

LEMMA Apart ==
  ASSUME NEW what, NEW bs, NEW other, NEW cs, what # other
  PROVE  Holding(what, bs) \cap Holding(other, cs) = {}
BY Places

LEMMA FrameWeight ==
  ASSUME NEW n, NEW f, Tables(f)
  PROVE  /\ IsFiniteSet(FrameHolders(n, f))
         /\ \A b : Weight(FrameHolders(n, f), b) = FrameCount(f, b)
         /\ \A h \in FrameHolders(n, f) : h[2][1][1] = n /\ h[2][1][2] # "kept"
<1> DEFINE call == <<f.out, f.params, f.params>>
           A == Holding(<<n, "slot">>, f.slots)
           B == Holding(<<n, "argument">>, ArgBlocks(f))
           C == Holding(<<n, "temp">>, f.temps)
           D == Holding(<<n, "call">>, call)
<1>1. /\ IsFiniteSet(DOMAIN f.slots) /\ IsFiniteSet(DOMAIN ArgBlocks(f))
      /\ IsFiniteSet(DOMAIN f.temps) /\ IsFiniteSet(DOMAIN call)
  <2>1. DOMAIN ArgBlocks(f) = DOMAIN f.args
    BY DEF ArgBlocks
  <2>0. \A i \in Int : IsFiniteSet(1 .. i)
    BY FS_Interval
  <2>2. PICK j \in Int : j = 3
    OBVIOUS
  <2>3. DOMAIN call = 1 .. j
    BY <2>2
  <2>4. IsFiniteSet(1 .. j)
    BY <2>0, <2>2, Zenon
  <2> HIDE DEF call
  <2> QED BY <2>1, <2>3, <2>4 DEF Tables
<1>2. /\ IsFiniteSet(A) /\ IsFiniteSet(B) /\ IsFiniteSet(C) /\ IsFiniteSet(D)
      /\ \A b : Weight(A, b) = Count(f.slots, b)
      /\ \A b : Weight(B, b) = Count(ArgBlocks(f), b)
      /\ \A b : Weight(C, b) = Count(f.temps, b)
      /\ \A b : Weight(D, b) = Count(call, b)
  <2> HIDE DEF call
  <2> QED BY <1>1, WeightHolding
<1>3. /\ A \cap B = {} /\ A \cap C = {} /\ B \cap C = {}
      /\ A \cap D = {} /\ B \cap D = {} /\ C \cap D = {}
  <2>1. /\ <<n, "slot">> # <<n, "argument">> /\ <<n, "slot">> # <<n, "temp">>
        /\ <<n, "argument">> # <<n, "temp">> /\ <<n, "slot">> # <<n, "call">>
        /\ <<n, "argument">> # <<n, "call">> /\ <<n, "temp">> # <<n, "call">>
    OBVIOUS
  <2> QED BY <2>1, Apart
<1>4. \A b : Count(call, b) = One(f.out, b) + 2 * One(f.params, b)
  BY CountCall
<1>5. \A h \in A \cup B \cup C \cup D : h[2][1][1] = n /\ h[2][1][2] # "kept"
  <2> SUFFICES ASSUME NEW h \in A \cup B \cup C \cup D
               PROVE  h[2][1][1] = n /\ h[2][1][2] # "kept"
    OBVIOUS
  <2>1. h[2][1] \in {<<n, "slot">>, <<n, "argument">>, <<n, "temp">>, <<n, "call">>}
    BY Places
  <2> QED BY <2>1
<1> HIDE DEF A, B, C, D, call
<1>6. FrameHolders(n, f) = ((A \cup B) \cup C) \cup D
  BY DEF FrameHolders, A, B, C, D, call
<1> DEFINE X == A \cup B
           Y == X \cup C
<1>7. IsFiniteSet(X) /\ \A b : Weight(X, b) = Weight(A, b) + Weight(B, b)
  BY <1>2, <1>3, WeightUnion
<1>8. IsFiniteSet(Y) /\ \A b : Weight(Y, b) = Weight(X, b) + Weight(C, b)
  <2>1. X \cap C = {}
    BY <1>3
  <2> HIDE DEF X
  <2> QED BY <1>2, <1>7, <2>1, WeightUnion, SMTT(60)
<1>9. IsFiniteSet(Y \cup D) /\ \A b : Weight(Y \cup D, b) = Weight(Y, b) + Weight(D, b)
  <2>1. Y \cap D = {}
    BY <1>3
  <2> HIDE DEF Y
  <2> QED BY <1>2, <1>8, <2>1, WeightUnion, SMTT(40)
<1> HIDE DEF X, Y
<1>10. FrameHolders(n, f) = Y \cup D
  BY <1>6 DEF X, Y
<1>11. \A b : Weight(FrameHolders(n, f), b) = FrameCount(f, b)
  <2> TAKE b
  <2>1. /\ Count(f.slots, b) \in Nat /\ Count(ArgBlocks(f), b) \in Nat
        /\ Count(f.temps, b) \in Nat
    BY <1>1, CountNat
  <2>2. One(f.out, b) \in Nat /\ One(f.params, b) \in Nat
    BY DEF One
  <2>3. Weight(Y \cup D, b) = Count(f.slots, b) + Count(ArgBlocks(f), b)
          + Count(f.temps, b) + (One(f.out, b) + 2 * One(f.params, b))
    BY <1>2, <1>4, <1>7, <1>8, <1>9
  <2> QED BY <1>10, <2>1, <2>2, <2>3 DEF FrameCount
<1> QED BY <1>5, <1>6, <1>9, <1>10, <1>11

(* What all frames of s and all scopes of k hold.                          *)

KeptTable(k, scope) ==
  [p \in UNION {{i} \X DOMAIN k[scope][i] : i \in Impls} |-> k[scope][p[1]][p[2]]]
FramesOf(s, S) == UNION {FrameHolders(j, s[j]) : j \in S}
Others(s, n) == FramesOf(s, DOMAIN s \ {n})
FramesHold(s) == FramesOf(s, DOMAIN s)
KeptHolders(k, scope) == Holding(<<scope, "kept">>, KeptTable(k, scope))
KeptOf(k, S) == UNION {KeptHolders(k, j) : j \in S}
KeptOthers(k, scope) == KeptOf(k, DOMAIN k \ {scope})
KeptHold(k) == KeptOf(k, DOMAIN k)
Held(s, k, b) == Weight(FramesHold(s) \cup KeptHold(k), b)

FiniteFrames(s) == IsFiniteSet(DOMAIN s) /\ \A n \in DOMAIN s : Tables(s[n])
FiniteScopes(k) == IsFiniteSet(DOMAIN k) /\ \A j \in DOMAIN k : IsFiniteSet(DOMAIN KeptTable(k, j))

LEMMA FramesAreFinite ==
  ASSUME NEW s, FiniteFrames(s), NEW S, S \subseteq DOMAIN s
  PROVE  /\ IsFiniteSet(FramesOf(s, S))
         /\ \A h \in FramesOf(s, S) : h[2][1][1] \in S /\ h[2][1][2] # "kept"
<1> DEFINE f == [j \in S |-> FrameHolders(j, s[j])]
<1>1. \A j \in S : Tables(s[j])
  BY DEF FiniteFrames
<1>2. IsFiniteSet(S)
  BY FS_Subset DEF FiniteFrames
<1>3. \A j \in S : IsFiniteSet(f[j])
  BY <1>1, FrameWeight
<1>4. IsFiniteSet(UNION {f[j] : j \in S})
  <2> HIDE DEF f
  <2> QED BY <1>2, <1>3, FiniteUnion
<1>5. {f[j] : j \in S} = {FrameHolders(j, s[j]) : j \in S}
  OBVIOUS
<1>6. ASSUME NEW j \in S, NEW h \in FrameHolders(j, s[j])
      PROVE  h[2][1][1] = j /\ h[2][1][2] # "kept"
  <2>1. PICK g : g = s[j] /\ Tables(g)
    BY <1>1
  <2>2. h \in FrameHolders(j, g)
    BY <2>1
  <2> QED BY <2>1, <2>2, FrameWeight
<1>7. IsFiniteSet(FramesOf(s, S))
  BY <1>4, <1>5 DEF FramesOf
<1>8. ASSUME NEW h \in FramesOf(s, S)
      PROVE  h[2][1][1] \in S /\ h[2][1][2] # "kept"
  <2>1. PICK j \in S : h \in FrameHolders(j, s[j])
    BY <1>8 DEF FramesOf
  <2> QED BY <1>6, <2>1
<1> QED BY <1>7, <1>8

LEMMA KeptAreFinite ==
  ASSUME NEW k, FiniteScopes(k), NEW S, S \subseteq DOMAIN k
  PROVE  /\ IsFiniteSet(KeptOf(k, S))
         /\ \A h \in KeptOf(k, S) : h[2][1][1] \in S /\ h[2][1][2] = "kept"
<1> DEFINE f == [j \in S |-> KeptHolders(k, j)]
<1>2. IsFiniteSet(S)
  BY FS_Subset DEF FiniteScopes
<1>3. \A j \in S : IsFiniteSet(f[j])
  BY WeightHolding DEF FiniteScopes, KeptHolders
<1>4. IsFiniteSet(UNION {f[j] : j \in S})
  <2> HIDE DEF f
  <2> QED BY <1>2, <1>3, FiniteUnion
<1>5. {f[j] : j \in S} = {KeptHolders(k, j) : j \in S}
  OBVIOUS
<1>6. \A j \in S : \A h \in KeptHolders(k, j) : h[2][1][1] = j /\ h[2][1][2] = "kept"
  <2> SUFFICES ASSUME NEW j \in S, NEW h \in KeptHolders(k, j)
               PROVE  h[2][1][1] = j /\ h[2][1][2] = "kept"
    OBVIOUS
  <2>1. h[2][1] = <<j, "kept">>
    BY Places DEF KeptHolders
  <2> QED BY <2>1
<1>7. IsFiniteSet(KeptOf(k, S))
  BY <1>4, <1>5 DEF KeptOf
<1>8. ASSUME NEW h \in KeptOf(k, S)
      PROVE  h[2][1][1] \in S /\ h[2][1][2] = "kept"
  <2>1. PICK j \in S : h \in KeptHolders(k, j)
    BY <1>8 DEF KeptOf
  <2> QED BY <1>6, <2>1
<1> QED BY <1>7, <1>8

(* Frames and scopes hold for themselves.                                  *)
LEMMA HeldSum ==
  ASSUME NEW s, FiniteFrames(s), NEW k, FiniteScopes(k), NEW b
  PROVE  /\ Held(s, k, b) = Weight(FramesHold(s), b) + Weight(KeptHold(k), b)
         /\ Weight(FramesHold(s), b) \in Nat /\ Weight(KeptHold(k), b) \in Nat
         /\ Held(s, k, b) \in Nat
<1>1. IsFiniteSet(FramesHold(s)) /\ \A h \in FramesHold(s) : h[2][1][2] # "kept"
  <2>1. PICK S : S = DOMAIN s
    OBVIOUS
  <2> QED BY <2>1, FramesAreFinite DEF FramesHold
<1>2. IsFiniteSet(KeptHold(k)) /\ \A h \in KeptHold(k) : h[2][1][2] = "kept"
  <2>1. PICK S : S = DOMAIN k
    OBVIOUS
  <2> QED BY <2>1, KeptAreFinite DEF KeptHold
<1>3. FramesHold(s) \cap KeptHold(k) = {}
  BY <1>1, <1>2
<1>4. Held(s, k, b) = Weight(FramesHold(s), b) + Weight(KeptHold(k), b)
  <2>1. PICK H, G : /\ H = FramesHold(s) /\ G = KeptHold(k)
                    /\ IsFiniteSet(H) /\ IsFiniteSet(G) /\ H \cap G = {}
    BY <1>1, <1>2, <1>3
  <2>2. Weight(H \cup G, b) = Weight(H, b) + Weight(G, b)
    BY ONLY <2>1, WeightUnion
  <2> QED BY <2>1, <2>2 DEF Held
<1>5. Weight(FramesHold(s), b) \in Nat /\ Weight(KeptHold(k), b) \in Nat
  BY <1>1, <1>2, WeightNat
<1> QED BY <1>4, <1>5

LEMMA FrameSplit ==
  ASSUME NEW s, FiniteFrames(s), NEW n \in DOMAIN s, NEW b
  PROVE  /\ Weight(FramesHold(s), b) = Weight(Others(s, n), b) + FrameCount(s[n], b)
         /\ Weight(Others(s, n), b) \in Nat /\ FrameCount(s[n], b) \in Nat
<1>1. IsFiniteSet(Others(s, n)) /\ \A h \in Others(s, n) : h[2][1][1] # n
  <2>1. PICK S : S = DOMAIN s \ {n}
    OBVIOUS
  <2> QED BY <2>1, FramesAreFinite DEF Others
<1>2. /\ IsFiniteSet(FrameHolders(n, s[n])) /\ \A h \in FrameHolders(n, s[n]) : h[2][1][1] = n
      /\ Weight(FrameHolders(n, s[n]), b) = FrameCount(s[n], b)
  BY FrameWeight DEF FiniteFrames
<1>3. Others(s, n) \cap FrameHolders(n, s[n]) = {}
  BY <1>1, <1>2
<1>4. FramesHold(s) = Others(s, n) \cup FrameHolders(n, s[n])
  BY DEF FramesHold, Others, FramesOf
<1>5. Weight(FramesHold(s), b) = Weight(Others(s, n), b) + FrameCount(s[n], b)
  <2>1. PICK H, G : /\ H = Others(s, n) /\ G = FrameHolders(n, s[n])
                    /\ IsFiniteSet(H) /\ IsFiniteSet(G) /\ H \cap G = {}
    BY <1>1, <1>2, <1>3
  <2>2. Weight(H \cup G, b) = Weight(H, b) + Weight(G, b)
    BY ONLY <2>1, WeightUnion
  <2> QED BY <1>2, <1>4, <2>1, <2>2
<1>6. Weight(Others(s, n), b) \in Nat /\ FrameCount(s[n], b) \in Nat
  BY <1>1, <1>2, WeightNat
<1> QED BY <1>5, <1>6

LEMMA KeptSplit ==
  ASSUME NEW k, FiniteScopes(k), NEW j \in DOMAIN k, NEW b
  PROVE  /\ Weight(KeptHold(k), b) = Weight(KeptOthers(k, j), b) + Count(KeptTable(k, j), b)
         /\ Weight(KeptOthers(k, j), b) \in Nat /\ Count(KeptTable(k, j), b) \in Nat
<1>1. IsFiniteSet(KeptOthers(k, j)) /\ \A h \in KeptOthers(k, j) : h[2][1][1] # j
  <2>1. PICK S : S = DOMAIN k \ {j}
    OBVIOUS
  <2> QED BY <2>1, KeptAreFinite DEF KeptOthers
<1>2. /\ IsFiniteSet(KeptHolders(k, j)) /\ \A h \in KeptHolders(k, j) : h[2][1][1] = j
      /\ Weight(KeptHolders(k, j), b) = Count(KeptTable(k, j), b)
  <2>1. IsFiniteSet(DOMAIN KeptTable(k, j))
    BY DEF FiniteScopes
  <2>2. \A h \in KeptHolders(k, j) : h[2][1] = <<j, "kept">>
    BY Places DEF KeptHolders
  <2> QED BY <2>1, <2>2, WeightHolding DEF KeptHolders
<1>3. KeptOthers(k, j) \cap KeptHolders(k, j) = {}
  BY <1>1, <1>2
<1>4. KeptHold(k) = KeptOthers(k, j) \cup KeptHolders(k, j)
  BY DEF KeptHold, KeptOthers, KeptOf
<1>5. Weight(KeptHold(k), b) = Weight(KeptOthers(k, j), b) + Count(KeptTable(k, j), b)
  <2>1. PICK H, G : /\ H = KeptOthers(k, j) /\ G = KeptHolders(k, j)
                    /\ IsFiniteSet(H) /\ IsFiniteSet(G) /\ H \cap G = {}
    BY <1>1, <1>2, <1>3
  <2>2. Weight(H \cup G, b) = Weight(H, b) + Weight(G, b)
    BY ONLY <2>1, WeightUnion
  <2> QED BY <1>2, <1>4, <2>1, <2>2
<1>6. Weight(KeptOthers(k, j), b) \in Nat /\ Count(KeptTable(k, j), b) \in Nat
  BY <1>1, <1>2, WeightNat
<1> QED BY <1>5, <1>6

LEMMA HeldTurn ==
  ASSUME NEW s, FiniteFrames(s), NEW t, FiniteFrames(t), NEW k, FiniteScopes(k),
         NEW n \in DOMAIN s, DOMAIN t = DOMAIN s, \A j \in DOMAIN s \ {n} : t[j] = s[j], NEW b
  PROVE  /\ Held(t, k, b) = Held(s, k, b) - FrameCount(s[n], b) + FrameCount(t[n], b)
         /\ FrameCount(s[n], b) \in Nat /\ FrameCount(t[n], b) \in Nat
         /\ FrameCount(s[n], b) <= Held(s, k, b)
<1>1. Others(t, n) = Others(s, n)
  BY DEF Others, FramesOf
<1>2. /\ Weight(FramesHold(s), b) = Weight(Others(s, n), b) + FrameCount(s[n], b)
      /\ Weight(Others(s, n), b) \in Nat /\ FrameCount(s[n], b) \in Nat
  BY FrameSplit
<1>3. /\ Weight(FramesHold(t), b) = Weight(Others(t, n), b) + FrameCount(t[n], b)
      /\ FrameCount(t[n], b) \in Nat
  BY FrameSplit
<1>4. /\ Held(s, k, b) = Weight(FramesHold(s), b) + Weight(KeptHold(k), b)
      /\ Held(t, k, b) = Weight(FramesHold(t), b) + Weight(KeptHold(k), b)
      /\ Weight(KeptHold(k), b) \in Nat
  BY HeldSum
<1> QED BY <1>1, <1>2, <1>3, <1>4

LEMMA HeldPush ==
  ASSUME NEW s, FiniteFrames(s), NEW t, FiniteFrames(t), NEW k, FiniteScopes(k),
         NEW n, n \notin DOMAIN s, DOMAIN t = DOMAIN s \cup {n},
         \A j \in DOMAIN s : t[j] = s[j], NEW b
  PROVE  Held(t, k, b) = Held(s, k, b) + FrameCount(t[n], b) /\ FrameCount(t[n], b) \in Nat
<1>1. Others(t, n) = FramesHold(s)
  <2>1. DOMAIN t \ {n} = DOMAIN s
    OBVIOUS
  <2>2. {FrameHolders(j, t[j]) : j \in DOMAIN s} = {FrameHolders(j, s[j]) : j \in DOMAIN s}
    OBVIOUS
  <2> QED BY <2>1, <2>2 DEF Others, FramesHold, FramesOf
<1>2. /\ Weight(FramesHold(t), b) = Weight(Others(t, n), b) + FrameCount(t[n], b)
      /\ FrameCount(t[n], b) \in Nat
  BY FrameSplit
<1>3. /\ Held(s, k, b) = Weight(FramesHold(s), b) + Weight(KeptHold(k), b)
      /\ Held(t, k, b) = Weight(FramesHold(t), b) + Weight(KeptHold(k), b)
      /\ Weight(KeptHold(k), b) \in Nat /\ Weight(FramesHold(s), b) \in Nat
  BY HeldSum
<1> QED BY <1>1, <1>2, <1>3

LEMMA HeldKept ==
  ASSUME NEW s, FiniteFrames(s), NEW k, FiniteScopes(k), NEW l, FiniteScopes(l),
         NEW j \in DOMAIN k, DOMAIN l = DOMAIN k, \A i \in DOMAIN k \ {j} : l[i] = k[i], NEW b
  PROVE  /\ Held(s, l, b) = Held(s, k, b) - Count(KeptTable(k, j), b) + Count(KeptTable(l, j), b)
         /\ Count(KeptTable(k, j), b) \in Nat /\ Count(KeptTable(l, j), b) \in Nat
         /\ Count(KeptTable(k, j), b) <= Held(s, k, b)
<1>1. KeptOthers(l, j) = KeptOthers(k, j)
  <2>1. \A i \in DOMAIN k \ {j} : KeptHolders(l, i) = KeptHolders(k, i)
    BY DEF KeptHolders, KeptTable
  <2> QED BY <2>1 DEF KeptOthers, KeptOf
<1>2. /\ Weight(KeptHold(k), b) = Weight(KeptOthers(k, j), b) + Count(KeptTable(k, j), b)
      /\ Weight(KeptOthers(k, j), b) \in Nat /\ Count(KeptTable(k, j), b) \in Nat
  BY KeptSplit
<1>3. /\ Weight(KeptHold(l), b) = Weight(KeptOthers(l, j), b) + Count(KeptTable(l, j), b)
      /\ Count(KeptTable(l, j), b) \in Nat
  BY KeptSplit
<1>4. /\ Held(s, k, b) = Weight(FramesHold(s), b) + Weight(KeptHold(k), b)
      /\ Held(s, l, b) = Weight(FramesHold(s), b) + Weight(KeptHold(l), b)
      /\ Weight(FramesHold(s), b) \in Nat
  BY HeldSum
<1> QED BY <1>1, <1>2, <1>3, <1>4

-----------------------------------------------------------------------------

(* What steps do to the references of a block.                             *)

Leaked == NeverFreed \ {"lost"}

\* The references of b fit that it is held h times.
Booked(m, b, h) ==
  IF b \in 1 .. Len(m)
  THEN /\ m[b].refs >= h
       /\ m[b].kind \notin NeverFreed => m[b].refs = h
       /\ m[b].kind \in Leaked => m[b].refs > h
  ELSE h = 0

LEMMA NewAt ==
  ASSUME NEW m \in Seq(MemBlock), NEW kinds \in Seq(Kinds)
  PROVE  /\ \A b \in 1 .. Len(m) : New(m, kinds)[b] = m[b]
         /\ \A i \in 1 .. Len(kinds) : New(m, kinds)[Len(m) + i] = [kind |-> kinds[i], refs |-> 1]
<1> DEFINE t == [k \in DOMAIN kinds |-> [kind |-> kinds[k], refs |-> 1]]
<1>1. t \in [1 .. Len(kinds) -> MemBlock]
  BY DEF MemBlock
<1>2. t \in Seq(MemBlock) /\ Len(t) = Len(kinds)
  BY <1>1
<1>3. \A i \in 1 .. Len(kinds) : t[i] = [kind |-> kinds[i], refs |-> 1]
  OBVIOUS
<1>4. New(m, kinds) = m \o t
  BY DEF New
<1> HIDE DEF t
<1>5. \A b \in 1 .. Len(m) : (m \o t)[b] = m[b]
  BY <1>2, ConcatProperties
<1>6. ASSUME NEW i \in 1 .. Len(kinds)
      PROVE  (m \o t)[Len(m) + i] = t[i]
  BY <1>2
<1> QED BY <1>3, <1>4, <1>5, <1>6

LEMMA ReleaseAt ==
  ASSUME NEW m \in Seq(MemBlock), NEW bs, IsFiniteSet(DOMAIN bs), NEW b \in 1 .. Len(m)
  PROVE  /\ Release(m, bs)[b].kind = m[b].kind
         /\ Release(m, bs)[b].refs = m[b].refs - Count(bs, b)
<1>1. b \in DOMAIN m
  BY LenProperties
<1>2. Release(m, bs)[b] = [m[b] EXCEPT !.refs = @ - Count(bs, b)]
  BY <1>1 DEF Release, Count, Occurs
<1>3. m[b] \in MemBlock
  OBVIOUS
<1> QED BY <1>2, <1>3 DEF MemBlock

LEMMA HoldAt ==
  ASSUME NEW m \in Seq(MemBlock), NEW c \in 0 .. Len(m), NEW b \in 1 .. Len(m)
  PROVE  /\ Hold(m, c)[b].kind = m[b].kind
         /\ Hold(m, c)[b].refs = m[b].refs + One(c, b)
<1>1. m[b] \in MemBlock
  OBVIOUS
<1>2. CASE c = 0 \/ c # b
  BY <1>1, <1>2 DEF Hold, One, MemBlock
<1>3. CASE c # 0 /\ c = b
  <2>1. Hold(m, c)[b] = [m[b] EXCEPT !.refs = @ + 1]
    BY <1>3 DEF Hold
  <2> QED BY <1>1, <1>3, <2>1 DEF One, MemBlock
<1> QED BY <1>2, <1>3

\* A block that is new and that somebody holds.
Fresh(m, kinds, b) ==
  IF b \in Len(m) + 1 .. Len(m) + Len(kinds) /\ kinds[b - Len(m)] \notin NeverFreed THEN 1 ELSE 0

LEMMA BookedNew ==
  ASSUME NEW m \in Seq(MemBlock), NEW kinds \in Seq(Kinds),
         NEW b \in Nat \ {0}, NEW h \in Nat, Booked(m, b, h)
  PROVE  Booked(New(m, kinds), b, h + Fresh(m, kinds, b))
<1>1. PICK g : g = New(m, kinds)
  OBVIOUS
<1>2. /\ Len(g) = Len(m) + Len(kinds) /\ Len(m) \in Nat /\ Len(kinds) \in Nat
      /\ \A c \in 1 .. Len(m) : g[c] = m[c]
      /\ \A i \in 1 .. Len(kinds) : g[Len(m) + i] = [kind |-> kinds[i], refs |-> 1]
  <2>1. Len(g) = Len(m) + Len(kinds)
    BY <1>1, NewMemory
  <2>2. Len(m) \in Nat /\ Len(kinds) \in Nat
    OBVIOUS
  <2> QED BY <1>1, <2>1, <2>2, NewAt
<1>3. CASE b \in 1 .. Len(m)
  <2>1. Fresh(m, kinds, b) = 0 /\ b \in 1 .. Len(g) /\ g[b] = m[b]
    BY <1>2, <1>3 DEF Fresh
  <2> QED BY <1>1, <1>3, <2>1 DEF Booked
<1>4. CASE b \in Len(m) + 1 .. Len(g)
  <2>1. PICK i \in 1 .. Len(kinds) : b = Len(m) + i
    <3>1. b - Len(m) \in 1 .. Len(kinds) /\ b = Len(m) + (b - Len(m))
      BY <1>2, <1>4
    <3> QED BY <3>1
  <2>2. g[b].kind = kinds[i] /\ g[b].refs = 1
    <3>1. g[Len(m) + i] = [kind |-> kinds[i], refs |-> 1]
      BY <1>2
    <3> HIDE <1>2
    <3> QED BY <2>1, <3>1
  <2>4. h = 0 /\ b \in 1 .. Len(g)
    BY <1>2, <1>4 DEF Booked
  <2>3. Fresh(m, kinds, b) = IF kinds[i] \notin NeverFreed THEN 1 ELSE 0
    <3>1. b - Len(m) = i /\ b \in Len(m) + 1 .. Len(m) + Len(kinds)
      BY <1>2, <1>4, <2>1
    <3> QED BY <3>1 DEF Fresh
  <2>5. kinds[i] \in Leaked => kinds[i] \in NeverFreed
    BY DEF Leaked
  <2> QED BY <1>1, <2>2, <2>3, <2>4, <2>5 DEF Booked
<1>5. CASE b \notin 1 .. Len(g)
  BY <1>1, <1>2, <1>5 DEF Booked, Fresh
<1> QED BY <1>2, <1>3, <1>4, <1>5

LEMMA BookedHold ==
  ASSUME NEW m \in Seq(MemBlock), NEW c \in 0 .. Len(m),
         NEW b \in Nat \ {0}, NEW h \in Nat, Booked(m, b, h)
  PROVE  Booked(Hold(m, c), b, h + One(c, b))
<1>1. CASE b \in 1 .. Len(m)
  <2>1. m[b] \in MemBlock /\ One(c, b) \in Nat
    BY <1>1 DEF One
  <2>2. PICK g : g = Hold(m, c) /\ Len(g) = Len(m)
    BY HeldMemory
  <2>3. g[b].kind = m[b].kind /\ g[b].refs = m[b].refs + One(c, b) /\ m[b].refs \in Int
    BY <1>1, <2>1, <2>2, HoldAt DEF MemBlock
  <2>4. Booked(g, b, h + One(c, b))
    BY <1>1, <2>1, <2>2, <2>3 DEF Booked
  <2> QED BY <2>2, <2>4
<1>2. CASE b \notin 1 .. Len(m)
  BY <1>2, HeldMemory DEF Booked, One
<1> QED BY <1>1, <1>2

LEMMA BookedRelease ==
  ASSUME NEW m \in Seq(MemBlock), NEW bs, IsFiniteSet(DOMAIN bs),
         NEW b \in Nat \ {0}, NEW h \in Nat, Booked(m, b, h), Count(bs, b) <= h
  PROVE  Booked(Release(m, bs), b, h - Count(bs, b))
<1>0. Count(bs, b) \in Nat
  BY CountNat
<1>1. CASE b \in 1 .. Len(m)
  <2>1. m[b] \in MemBlock
    BY <1>1
  <2>2. PICK g : g = Release(m, bs) /\ Len(g) = Len(m)
    BY ReleasedMemory
  <2>3. g[b].kind = m[b].kind /\ g[b].refs = m[b].refs - Count(bs, b) /\ m[b].refs \in Int
    BY <1>1, <2>1, <2>2, ReleaseAt DEF MemBlock
  <2>4. Booked(g, b, h - Count(bs, b))
    BY <1>0, <1>1, <2>2, <2>3 DEF Booked
  <2> QED BY <2>2, <2>4
<1>2. CASE b \notin 1 .. Len(m)
  BY <1>0, <1>2, ReleasedMemory DEF Booked
<1> QED BY <1>1, <1>2

\* What nobody will give back is lost.
LEMMA BookedLeak ==
  ASSUME NEW m \in Seq(MemBlock), NEW c \in 1 .. Len(m),
         NEW b \in Nat \ {0}, NEW h \in Nat, Booked(m, b, h)
  PROVE  Booked([Hold(m, c) EXCEPT ![c].kind = "variadic"], b, h)
<1>1. PICK g \in Seq(MemBlock) : g = Hold(m, c) /\ Len(g) = Len(m)
  BY HeldMemory
<1>2. Len([g EXCEPT ![c].kind = "variadic"]) = Len(m)
  <2>1. "variadic" \in Kinds
    BY DEF Kinds
  <2> QED BY <1>1, <2>1, MarkedMemory
<1>3. CASE b = c
  <2>1. g[b].refs = m[b].refs + 1 /\ m[b] \in MemBlock /\ g[b] \in MemBlock
    BY <1>1, <1>3, HoldAt DEF One
  <2>2. [g EXCEPT ![c].kind = "variadic"][b] = [g[b] EXCEPT !.kind = "variadic"]
    BY <1>1, <1>3
  <2>3. m[b].refs >= h
    BY <1>3 DEF Booked
  <2>4. m[b].refs \in Int /\ m[b].refs + 1 > h /\ m[b].refs + 1 >= h
    BY <2>1, <2>3, SMTT(40) DEF MemBlock
  <2>5. /\ [g[b] EXCEPT !.kind = "variadic"].refs = m[b].refs + 1
        /\ [g[b] EXCEPT !.kind = "variadic"].kind = "variadic"
    BY <2>1 DEF MemBlock
  <2> QED BY <1>1, <1>2, <1>3, <2>2, <2>4, <2>5 DEF Booked, NeverFreed
<1>4. CASE b # c /\ b \in 1 .. Len(m)
  <2>1. [g EXCEPT ![c].kind = "variadic"][b] = g[b]
    BY <1>1, <1>4
  <2>2. g[b].refs = m[b].refs + 0 /\ g[b].kind = m[b].kind /\ m[b] \in MemBlock
    BY <1>1, <1>4, HoldAt DEF One
  <2> QED BY <1>1, <1>2, <1>4, <2>1, <2>2 DEF Booked, MemBlock
<1>5. CASE b \notin 1 .. Len(m)
  BY <1>1, <1>2, <1>5 DEF Booked
<1> QED BY <1>3, <1>4, <1>5

LEMMA BookedLost ==
  ASSUME NEW m \in Seq(MemBlock), NEW c \in 1 .. Len(m), m[c].kind = "foreign",
         NEW b \in Nat \ {0}, NEW h \in Nat, Booked(m, b, h)
  PROVE  Booked([m EXCEPT ![c].kind = "lost"], b, h)
<1>1. Len([m EXCEPT ![c].kind = "lost"]) = Len(m)
  <2>1. "lost" \in Kinds
    BY DEF Kinds
  <2> QED BY <2>1, MarkedMemory
<1>2. CASE b = c
  <2>1. m[b] \in MemBlock
    BY <1>2
  <2>2. [m EXCEPT ![c].kind = "lost"][b] = [m[b] EXCEPT !.kind = "lost"]
    BY <1>2
  <2>3. /\ [m[b] EXCEPT !.kind = "lost"].refs = m[b].refs
        /\ [m[b] EXCEPT !.kind = "lost"].kind = "lost"
    BY <2>1 DEF MemBlock
  <2> QED BY <1>1, <1>2, <2>2, <2>3 DEF Booked, NeverFreed, Leaked
<1>3. CASE b # c
  BY <1>1, <1>3 DEF Booked
<1> QED BY <1>2, <1>3

(* From memory m with the frame f to memory l with the frame g: if the     *)
(* references of all blocks fitted, they still do.                         *)
Books(m, f, l, g) ==
  \A b \in Nat \ {0}, h \in Nat :
    FrameCount(f, b) <= h /\ Booked(m, b, h) =>
      Booked(l, b, h - FrameCount(f, b) + FrameCount(g, b))

LEMMA FrameCountNat ==
  ASSUME NEW f, Tables(f), NEW b
  PROVE  FrameCount(f, b) \in Nat
<1>1. DOMAIN ArgBlocks(f) = DOMAIN f.args
  BY DEF ArgBlocks
<1>2. /\ Count(f.slots, b) \in Nat /\ Count(ArgBlocks(f), b) \in Nat /\ Count(f.temps, b) \in Nat
  BY <1>1, CountNat DEF Tables
<1>3. One(f.out, b) \in Nat /\ One(f.params, b) \in Nat
  BY DEF One
<1> QED BY <1>2, <1>3 DEF FrameCount

LEMMA BooksThen ==
  ASSUME NEW m, NEW f, NEW l, NEW g, NEW n, NEW e, Tables(f), Tables(g), Tables(e),
         Books(m, f, l, g), Books(l, g, n, e)
  PROVE  Books(m, f, n, e)
<1> SUFFICES ASSUME NEW b \in Nat \ {0}, NEW h \in Nat, FrameCount(f, b) <= h, Booked(m, b, h)
             PROVE  Booked(n, b, h - FrameCount(f, b) + FrameCount(e, b))
  BY DEF Books
<1>1. FrameCount(f, b) \in Nat /\ FrameCount(g, b) \in Nat /\ FrameCount(e, b) \in Nat
  BY FrameCountNat
<1>2. PICK i \in Nat : i = h - FrameCount(f, b) + FrameCount(g, b)
  BY <1>1
<1>3. Booked(l, b, i) /\ FrameCount(g, b) <= i
  BY <1>1, <1>2 DEF Books
<1>4. Booked(n, b, i - FrameCount(g, b) + FrameCount(e, b))
  BY <1>2, <1>3 DEF Books
<1>5. i - FrameCount(g, b) + FrameCount(e, b) = h - FrameCount(f, b) + FrameCount(e, b)
  BY <1>1, <1>2
<1> QED BY <1>4, <1>5

LEMMA BooksKeep ==
  ASSUME NEW m, NEW f, NEW g, Tables(f), \A b \in Nat \ {0} : FrameCount(g, b) = FrameCount(f, b)
  PROVE  Books(m, f, m, g)
<1> SUFFICES ASSUME NEW b \in Nat \ {0}, NEW h \in Nat, Booked(m, b, h)
             PROVE  Booked(m, b, h - FrameCount(f, b) + FrameCount(g, b))
  BY DEF Books
<1>1. FrameCount(f, b) \in Nat /\ FrameCount(g, b) = FrameCount(f, b)
  BY FrameCountNat
<1>2. h - FrameCount(f, b) + FrameCount(g, b) = h
  BY <1>1
<1> QED BY <1>2

LEMMA BooksNew ==
  ASSUME NEW m \in Seq(MemBlock), NEW kinds \in Seq(Kinds), NEW f, NEW g, Tables(f),
         \A b \in Nat \ {0} : FrameCount(g, b) = FrameCount(f, b) + Fresh(m, kinds, b)
  PROVE  Books(m, f, New(m, kinds), g)
<1> SUFFICES ASSUME NEW b \in Nat \ {0}, NEW h \in Nat, Booked(m, b, h)
             PROVE  Booked(New(m, kinds), b, h - FrameCount(f, b) + FrameCount(g, b))
  BY DEF Books
<1>1. FrameCount(f, b) \in Nat /\ FrameCount(g, b) = FrameCount(f, b) + Fresh(m, kinds, b)
  BY FrameCountNat
<1>2. Fresh(m, kinds, b) \in Nat
  BY DEF Fresh
<1>3. h - FrameCount(f, b) + FrameCount(g, b) = h + Fresh(m, kinds, b)
  BY <1>1, <1>2
<1> QED BY <1>3, BookedNew

LEMMA BooksHold ==
  ASSUME NEW m \in Seq(MemBlock), NEW c \in 0 .. Len(m), NEW f, NEW g, Tables(f),
         \A b \in Nat \ {0} : FrameCount(g, b) = FrameCount(f, b) + One(c, b)
  PROVE  Books(m, f, Hold(m, c), g)
<1> SUFFICES ASSUME NEW b \in Nat \ {0}, NEW h \in Nat, Booked(m, b, h)
             PROVE  Booked(Hold(m, c), b, h - FrameCount(f, b) + FrameCount(g, b))
  BY DEF Books
<1>1. FrameCount(f, b) \in Nat /\ FrameCount(g, b) = FrameCount(f, b) + One(c, b)
  BY FrameCountNat
<1>2. One(c, b) \in Nat
  BY DEF One
<1>3. h - FrameCount(f, b) + FrameCount(g, b) = h + One(c, b)
  BY <1>1, <1>2
<1> QED BY <1>3, BookedHold

LEMMA BooksRelease ==
  ASSUME NEW m \in Seq(MemBlock), NEW bs, IsFiniteSet(DOMAIN bs), NEW f, NEW g,
         Tables(f), Tables(g),
         \A b \in Nat \ {0} : FrameCount(f, b) = FrameCount(g, b) + Count(bs, b)
  PROVE  Books(m, f, Release(m, bs), g)
<1> SUFFICES ASSUME NEW b \in Nat \ {0}, NEW h \in Nat, Booked(m, b, h), FrameCount(f, b) <= h
             PROVE  Booked(Release(m, bs), b, h - FrameCount(f, b) + FrameCount(g, b))
  BY DEF Books
<1>1. FrameCount(g, b) \in Nat /\ FrameCount(f, b) = FrameCount(g, b) + Count(bs, b)
  BY FrameCountNat
<1>2. Count(bs, b) \in Nat
  BY CountNat
<1>3. h - FrameCount(f, b) + FrameCount(g, b) = h - Count(bs, b) /\ Count(bs, b) <= h
  BY <1>1, <1>2
<1> QED BY <1>3, BookedRelease

LEMMA BooksMarked ==
  ASSUME NEW m \in Seq(MemBlock), NEW c \in 1 .. Len(m), NEW f, NEW g, Tables(f),
         \A b \in Nat \ {0} : FrameCount(g, b) = FrameCount(f, b)
  PROVE  /\ Books(m, f, [Hold(m, c) EXCEPT ![c].kind = "variadic"], g)
         /\ m[c].kind = "foreign" => Books(m, f, [m EXCEPT ![c].kind = "lost"], g)
<1>1. ASSUME NEW b \in Nat \ {0}, NEW h \in Nat
      PROVE  h - FrameCount(f, b) + FrameCount(g, b) = h
  <2>1. FrameCount(f, b) \in Nat /\ FrameCount(g, b) = FrameCount(f, b)
    BY FrameCountNat
  <2> QED BY <2>1
<1>2. ASSUME NEW b \in Nat \ {0}, NEW h \in Nat, Booked(m, b, h)
      PROVE  /\ Booked([Hold(m, c) EXCEPT ![c].kind = "variadic"], b, h)
             /\ m[c].kind = "foreign" => Booked([m EXCEPT ![c].kind = "lost"], b, h)
  BY <1>2, BookedLeak, BookedLost
<1> QED BY <1>1, <1>2 DEF Books

-----------------------------------------------------------------------------

(* What a frame points to is there as long as the frame is: strings that   *)
(* PHP passed, arguments that it holds, what its temporaries are, or what  *)
(* is never freed.                                                         *)
Backed(m, f, b) ==
  \/ b = 0
  \/ \E a \in DOMAIN f.args : ArgBlocks(f)[a] = b
  \/ \E t \in DOMAIN f.temps : f.temps[t] = b
  \/ m[b].kind \in {"null array", "persistent"}

OwnsOut(m, f) ==
  f.out # 0 => \/ f.phase \in {"post", "return", "set"} /\ m[f.out].kind = "foreign"
               \/ f.phase = "over" /\ m[f.out].kind = "lost"

Owned(m, f) ==
  /\ \A a \in DOMAIN f.slots : f.slots[a] # 0 => m[f.slots[a]].kind \in {"string", "variadic"}
  /\ f.params # 0 => f.phase = "userland"
  /\ OwnsOut(m, f)
  /\ \A i \in DOMAIN f.subs : \E t \in DOMAIN f.temps : f.temps[t] = f.subs[i]
  /\ \A a \in DOMAIN f.args : f.args[a].va =>
       f.args[a].ival = 0 \/ f.args[a].type = "string" \/ m[f.args[a].ival].kind = "variadic"
  /\ \A i \in DOMAIN f.syms : Backed(m, f, f.syms[i])
  /\ f.ret # 0 => m[f.ret].kind = "return value"

Counted(m, s, k) == \A b \in Nat \ {0} : Booked(m, b, Held(s, k, b))

MemOK(m, s, k) == Counted(m, s, k) /\ \A n \in DOMAIN s : Owned(m, s[n])

(* Blocks stay what they are, but a string may get lost in a variadic      *)
(* argument.                                                               *)
Evolves(m, l) ==
  /\ Len(m) <= Len(l)
  /\ \A b \in 1 .. Len(m) :
       l[b].kind = m[b].kind \/ (m[b].kind = "string" /\ l[b].kind = "variadic")

LEMMA EvolvesThen ==
  ASSUME NEW m \in Seq(MemBlock), NEW l \in Seq(MemBlock), NEW n \in Seq(MemBlock),
         Evolves(m, l), Evolves(l, n)
  PROVE  Evolves(m, n)
<1>1. Len(m) \in Nat /\ Len(l) \in Nat /\ Len(n) \in Nat /\ Len(m) <= Len(l) /\ Len(l) <= Len(n)
  BY DEF Evolves
<1>2. 1 .. Len(m) \subseteq 1 .. Len(l)
  BY <1>1
<1> QED BY <1>1, <1>2 DEF Evolves

LEMMA FieldsOf ==
  ASSUME NEW B, NEW f \in Frame(B)
  PROVE  /\ f.slots \in Seq(B) /\ f.temps \in Seq(B) /\ f.subs \in Seq(B) /\ f.syms \in Seq(B)
         /\ f.args \in Seq(Arguments(B)) /\ f.out \in B /\ f.params \in B /\ f.ret \in B
         /\ \A a \in DOMAIN f.slots : f.slots[a] \in B
         /\ \A a \in DOMAIN f.syms : f.syms[a] \in B
         /\ \A a \in DOMAIN f.temps : f.temps[a] \in B
         /\ \A a \in DOMAIN f.args : f.args[a].ival \in B
<1>1. /\ f.slots \in Seq(B) /\ f.temps \in Seq(B) /\ f.subs \in Seq(B) /\ f.syms \in Seq(B)
      /\ f.args \in Seq(Arguments(B)) /\ f.out \in B /\ f.params \in B /\ f.ret \in B
  BY DEF Frame
<1>2. \A a \in DOMAIN f.args : f.args[a] \in Arguments(B)
  BY <1>1
<1>3. \A a \in DOMAIN f.args : f.args[a].ival \in B
  BY <1>2 DEF Arguments
<1>4. \A a \in DOMAIN f.slots : f.slots[a] \in B
  BY <1>1
<1>5. \A a \in DOMAIN f.syms : f.syms[a] \in B
  BY <1>1
<1>6. \A a \in DOMAIN f.temps : f.temps[a] \in B
  BY <1>1
<1> QED BY <1>1, <1>3, <1>4, <1>5, <1>6

LEMMA FrameTables ==
  ASSUME NEW B, NEW f \in Frame(B)
  PROVE  Tables(f)
BY FieldsOf, FiniteDomain DEF Tables

LEMMA OwnedEvolves ==
  ASSUME NEW m \in Seq(MemBlock), NEW l \in Seq(MemBlock), Evolves(m, l),
         NEW f \in Frame(0 .. Len(m)), Owned(m, f)
  PROVE  Owned(l, f)
<1>0. Len(m) \in Nat /\ \A b \in 0 .. Len(m) : b = 0 \/ b \in 1 .. Len(m)
  OBVIOUS
<1>1. \A a \in DOMAIN f.slots : f.slots[a] # 0 => l[f.slots[a]].kind \in {"string", "variadic"}
  BY <1>0, FieldsOf DEF Evolves, Owned
<1>2. OwnsOut(l, f)
  BY <1>0, FieldsOf DEF Evolves, Owned, OwnsOut
<1>3. \A a \in DOMAIN f.args : f.args[a].va =>
        f.args[a].ival = 0 \/ f.args[a].type = "string" \/ l[f.args[a].ival].kind = "variadic"
  <2> SUFFICES ASSUME NEW a \in DOMAIN f.args, f.args[a].va
               PROVE  \/ f.args[a].ival = 0 \/ f.args[a].type = "string"
                      \/ l[f.args[a].ival].kind = "variadic"
    OBVIOUS
  <2>1. PICK b : b = f.args[a].ival /\ b \in 0 .. Len(m)
    BY FieldsOf
  <2>2. b = 0 \/ f.args[a].type = "string" \/ m[b].kind = "variadic"
    BY <2>1 DEF Owned
  <2>3. b # 0 => l[b].kind = m[b].kind \/ (m[b].kind = "string" /\ l[b].kind = "variadic")
    BY <1>0, <2>1 DEF Evolves
  <2> QED BY <2>1, <2>2, <2>3
<1>4. \A i \in DOMAIN f.syms : Backed(l, f, f.syms[i])
  <2> SUFFICES ASSUME NEW i \in DOMAIN f.syms PROVE Backed(l, f, f.syms[i])
    OBVIOUS
  <2>1. PICK b : b = f.syms[i] /\ Backed(m, f, b) /\ b \in 0 .. Len(m)
    BY FieldsOf DEF Owned
  <2>2. Backed(l, f, b)
    BY <1>0, <2>1 DEF Backed, Evolves
  <2> QED BY <2>1, <2>2
<1>5. f.ret # 0 => l[f.ret].kind = "return value"
  BY <1>0, FieldsOf DEF Evolves, Owned
<1> QED BY <1>1, <1>2, <1>3, <1>4, <1>5 DEF Owned

LEMMA MemTurn ==
  ASSUME NEW m, NEW l, NEW s, FiniteFrames(s), NEW t, FiniteFrames(t), NEW k, FiniteScopes(k),
         NEW n \in DOMAIN s, DOMAIN t = DOMAIN s, \A j \in DOMAIN s \ {n} : t[j] = s[j],
         MemOK(m, s, k), Books(m, s[n], l, t[n]),
         \A j \in DOMAIN s \ {n} : Owned(l, s[j]), Owned(l, t[n])
  PROVE  MemOK(l, t, k)
<1>1. ASSUME NEW b \in Nat \ {0}
      PROVE  Booked(l, b, Held(t, k, b))
  <2>1. /\ Held(t, k, b) = Held(s, k, b) - FrameCount(s[n], b) + FrameCount(t[n], b)
        /\ FrameCount(s[n], b) <= Held(s, k, b) /\ Held(s, k, b) \in Nat
    BY HeldTurn, HeldSum
  <2>2. Booked(m, b, Held(s, k, b))
    BY DEF MemOK, Counted
  <2> QED BY <2>1, <2>2 DEF Books
<1>2. \A j \in DOMAIN t : Owned(l, t[j])
  OBVIOUS
<1> QED BY <1>1, <1>2 DEF MemOK, Counted

LEMMA TypedTables ==
  ASSUME NEW B, NEW s \in Seq(Frame(B)), NEW k \in [0 .. MaxDepth -> [Impls -> Seq(B)]]
  PROVE  /\ FiniteFrames(s) /\ FiniteScopes(k) /\ DOMAIN s = 1 .. Len(s) /\ Len(s) \in Nat
         /\ \A n \in DOMAIN s : s[n] \in Frame(B)
<1>1. DOMAIN s = 1 .. Len(s) /\ Len(s) \in Nat /\ \A n \in DOMAIN s : s[n] \in Frame(B)
  BY LenProperties
<1>2. FiniteFrames(s)
  BY <1>1, FrameTables, FiniteDomain DEF FiniteFrames
<1>3. ASSUME NEW scope \in 0 .. MaxDepth
      PROVE  IsFiniteSet(DOMAIN KeptTable(k, scope))
  <2> DEFINE f == [i \in Impls |-> {i} \X DOMAIN k[scope][i]]
  <2>1. \A i \in Impls : IsFiniteSet(DOMAIN k[scope][i])
    <3> SUFFICES ASSUME NEW i \in Impls PROVE IsFiniteSet(DOMAIN k[scope][i])
      OBVIOUS
    <3>1. k[scope][i] \in Seq(B)
      OBVIOUS
    <3> QED BY <3>1, FiniteDomain
  <2>2. \A i \in Impls : IsFiniteSet(f[i])
    BY <2>1, FS_Singleton, FS_Product
  <2>3. IsFiniteSet(UNION {f[i] : i \in Impls})
    <3> HIDE DEF f
    <3>1. IsFiniteSet(Impls)
      BY ImplAssumption
    <3> QED BY ONLY <2>2, <3>1, FiniteUnion
  <2>4. {f[i] : i \in Impls} = {{i} \X DOMAIN k[scope][i] : i \in Impls}
    OBVIOUS
  <2>5. DOMAIN KeptTable(k, scope) = UNION {f[i] : i \in Impls}
    BY <2>4, Zenon DEF KeptTable
  <2> QED BY <2>3, <2>5
<1>4. IsFiniteSet(DOMAIN k)
  <2>1. \A i \in Int : IsFiniteSet(0 .. i)
    BY FS_Interval
  <2>2. DOMAIN k = 0 .. MaxDepth
    OBVIOUS
  <2> QED BY <2>1, <2>2, BoundsNat
<1> QED BY <1>1, <1>2, <1>3, <1>4 DEF FiniteScopes

MemoryOK == MemOK(mem, stack, kept)

(* A step that replaces the frame n.                                       *)
LEMMA FrameTurn ==
  ASSUME IInv, IInv', MemoryOK, NEW n \in DOMAIN stack, NEW f,
         stack' = [stack EXCEPT ![n] = f], kept' = kept,
         Books(mem, stack[n], mem', f), Owned(mem', f),
         \A j \in DOMAIN stack \ {n} : Owned(mem', stack[j])
  PROVE  MemoryOK'
<1>1. PICK m, l, s, t, k : m = mem /\ l = mem' /\ s = stack /\ t = stack' /\ k = kept
  OBVIOUS
<1>2. FiniteFrames(s) /\ FiniteScopes(k)
  <2>1. s \in Seq(Frame(Block)) /\ k \in [0 .. MaxDepth -> [Impls -> Seq(Block)]]
    BY <1>1 DEF IInv, TypeOK
  <2>2. PICK B : B = Block
    OBVIOUS
  <2> QED BY <2>1, <2>2, TypedTables
<1>3. FiniteFrames(t)
  <2>1. t \in Seq(Frame(Block')) /\ kept' \in [0 .. MaxDepth -> [Impls -> Seq(Block')]]
    BY <1>1 DEF IInv, TypeOK
  <2>2. PICK B, l1 : B = Block' /\ l1 = kept'
    OBVIOUS
  <2> QED BY <2>1, <2>2, TypedTables
<1>4. /\ DOMAIN t = DOMAIN s /\ t[n] = f /\ \A j \in DOMAIN s \ {n} : t[j] = s[j]
  BY <1>1
<1>5. MemOK(m, s, k) /\ Books(m, s[n], l, t[n]) /\ Owned(l, t[n])
  BY <1>1, <1>4 DEF MemoryOK
<1>6. \A j \in DOMAIN s \ {n} : Owned(l, s[j])
  BY <1>1
<1>7. n \in DOMAIN s
  BY <1>1
<1>8. MemOK(l, t, k)
  BY ONLY <1>2, <1>3, <1>4, <1>5, <1>6, <1>7, MemTurn
<1> QED BY <1>1, <1>8 DEF MemoryOK

LEMMA TopTurn ==
  ASSUME IInv, IInv', MemoryOK, stack # <<>>, NEW f, Continue(f), kept' = kept,
         Books(mem, Top, mem', f), Owned(mem', f), Evolves(mem, mem')
  PROVE  MemoryOK'
<1>1. /\ stack \in Seq(Frame(0 .. Len(mem))) /\ mem \in Seq(MemBlock) /\ mem' \in Seq(MemBlock)
      /\ Len(stack) \in DOMAIN stack
  BY DEF IInv, TypeOK, Block
<1>2. ASSUME NEW j \in DOMAIN stack
      PROVE  Owned(mem', stack[j])
  <2>1. PICK m, l, g : m = mem /\ l = mem' /\ g = stack[j]
    OBVIOUS
  <2>2. m \in Seq(MemBlock) /\ l \in Seq(MemBlock) /\ Evolves(m, l) /\ g \in Frame(0 .. Len(m))
    BY <1>1, <2>1
  <2>3. Owned(m, g)
    BY <2>1 DEF MemoryOK, MemOK
  <2>4. Owned(l, g)
    BY <2>2, <2>3, OwnedEvolves
  <2> QED BY <2>1, <2>4
<1>3. stack' = [stack EXCEPT ![Len(stack)] = f] /\ Top = stack[Len(stack)]
  BY DEF Continue, Top
<1> QED BY <1>1, <1>2, <1>3, FrameTurn

-----------------------------------------------------------------------------

(* Steps that change neither memory nor what the frame holds.              *)

Alike(f, g) ==
  /\ g.slots = f.slots /\ g.args = f.args /\ g.temps = f.temps /\ g.subs = f.subs
  /\ g.syms = f.syms /\ g.out = f.out /\ g.params = f.params /\ g.ret = f.ret

LEMMA AlikeOwned ==
  ASSUME NEW m, NEW f, NEW g, Alike(f, g), Owned(m, f), f.phase # "userland", OwnsOut(m, g)
  PROVE  Owned(m, g)
<1>1. ArgBlocks(g) = ArgBlocks(f)
  BY DEF Alike, ArgBlocks
<1>2. \A b : Backed(m, f, b) => Backed(m, g, b)
  BY <1>1 DEF Alike, Backed
<1>3. /\ g.slots = f.slots /\ g.args = f.args /\ g.temps = f.temps /\ g.subs = f.subs
      /\ g.syms = f.syms /\ g.ret = f.ret /\ g.params = 0
  BY DEF Alike, Owned
<1>4. \A i \in DOMAIN g.syms : Backed(m, g, g.syms[i])
  BY <1>2, <1>3 DEF Owned
<1>5. \A a \in DOMAIN g.args : g.args[a].va =>
        g.args[a].ival = 0 \/ g.args[a].type = "string" \/ m[g.args[a].ival].kind = "variadic"
  <2>1. PICK args : args = f.args /\ args = g.args
    BY <1>3
  <2>2. \A a \in DOMAIN args : args[a].va =>
          args[a].ival = 0 \/ args[a].type = "string" \/ m[args[a].ival].kind = "variadic"
    BY <2>1 DEF Owned
  <2> QED BY <2>1, <2>2
<1>6. \A a \in DOMAIN g.slots : g.slots[a] # 0 => m[g.slots[a]].kind \in {"string", "variadic"}
  BY <1>3 DEF Owned
<1>7. \A i \in DOMAIN g.subs : \E t \in DOMAIN g.temps : g.temps[t] = g.subs[i]
  BY <1>3 DEF Owned
<1>8. g.ret # 0 => m[g.ret].kind = "return value"
  BY <1>3 DEF Owned
<1> QED BY <1>3, <1>4, <1>5, <1>6, <1>7, <1>8 DEF Owned

LEMMA AlikeCount ==
  ASSUME NEW f, NEW g, Alike(f, g), NEW b
  PROVE  FrameCount(g, b) = FrameCount(f, b)
<1>1. ArgBlocks(g) = ArgBlocks(f)
  BY DEF Alike, ArgBlocks
<1> QED BY <1>1 DEF Alike, FrameCount

LEMMA TopOwned ==
  ASSUME IInv, MemoryOK, stack # <<>>
  PROVE  /\ Owned(mem, Top) /\ Tables(Top) /\ Top \in Frame(0 .. Len(mem))
         /\ mem \in Seq(MemBlock) /\ Len(mem) \in Nat
<1>1. Len(stack) \in DOMAIN stack /\ Top = stack[Len(stack)]
  BY DEF IInv, TypeOK, Top
<1>2. Owned(mem, Top)
  BY <1>1 DEF MemoryOK, MemOK
<1>3. Top \in Frame(0 .. Len(mem)) /\ mem \in Seq(MemBlock) /\ Len(mem) \in Nat
  BY TopFacts DEF Block
<1>4. Tables(Top)
  <2>1. PICK f, B : f = Top /\ B = 0 .. Len(mem)
    OBVIOUS
  <2>2. Tables(f)
    BY <1>3, <2>1, FrameTables
  <2> QED BY <2>1, <2>2
<1> QED BY <1>2, <1>3, <1>4

LEMMA EvolvesSame ==
  ASSUME NEW m
  PROVE  Len(m) \in Nat => Evolves(m, m)
BY DEF Evolves

LEMMA AlikeTurn ==
  ASSUME IInv, IInv', MemoryOK, stack # <<>>, NEW f, Continue(f), Alike(Top, f),
         UNCHANGED <<mem, kept>>, Top.phase # "userland", OwnsOut(mem, f)
  PROVE  MemoryOK'
<1>1. PICK m, g : m = mem /\ g = Top
  OBVIOUS
<1>2. Owned(m, g) /\ Tables(g) /\ Len(m) \in Nat
  BY <1>1, TopOwned
<1>3. Alike(g, f) /\ g.phase # "userland" /\ OwnsOut(m, f)
  BY <1>1
<1>4. Owned(m, f)
  BY <1>2, <1>3, AlikeOwned
<1>5. Books(m, g, m, f)
  <2>1. \A b \in Nat \ {0} : FrameCount(f, b) = FrameCount(g, b)
    BY <1>3, AlikeCount
  <2> QED BY <1>2, <2>1, BooksKeep
<1>6. Evolves(m, m)
  BY <1>2, EvolvesSame
<1> QED BY <1>1, <1>4, <1>5, <1>6, TopTurn

(* Before the foreign function has returned there is nothing of it.        *)
LEMMA NoOut ==
  ASSUME NEW m, NEW f, Owned(m, f), f.phase \in {"args", "let", "pre", "call", "native", "userland"}
  PROVE  f.out = 0
BY DEF Owned, OwnsOut

LEMMA CountArgsMem ==
  ASSUME IInv, IInv', MemoryOK, Rejects, Running("args"), kept' = kept
  PROVE  MemoryOK'
<1>1. stack # <<>> /\ Top.phase = "args" /\ UNCHANGED <<mem, kept>>
  BY DEF Rejects, Running
<1>2. PICK f : f = [Top EXCEPT !.phase = "over", !.ok = FALSE]
  OBVIOUS
<1>3. Continue(f)
  BY <1>2 DEF Rejects
<1>4. Alike(Top, f)
  BY <1>1, <1>2, TopOwned DEF Alike, Frame
<1>5. Top.out = 0
  BY <1>1, TopOwned, NoOut
<1>6. OwnsOut(mem, f)
  BY <1>4, <1>5 DEF OwnsOut, Alike
<1> QED BY <1>1, <1>3, <1>4, <1>6, AlikeTurn

Goes(phase) ==
  Enters(phase) \/ (phase = "return" /\ (AssertFails("pre") \/ AssertFails("post")))

LEMMA EntersMem ==
  ASSUME IInv, IInv', MemoryOK, stack # <<>>, NEW phase,
         Goes(phase), mem' = mem, kept' = kept,
         \/ Top.phase \in {"let", "pre"}
         \/ Top.phase \in {"post", "return"} /\ phase \in {"return", "set"}
  PROVE  MemoryOK'
<1>1. PICK f : Continue(f) /\ Alike(Top, f) /\ f.phase = phase
  <2>1. CASE Enters(phase)
    <3>1. PICK f : f = [Top EXCEPT !.phase = phase, !.n = 0]
      OBVIOUS
    <3>2. Alike(Top, f) /\ f.phase = phase
      BY <3>1, TopOwned DEF Alike, Frame
    <3> QED BY <2>1, <3>1, <3>2 DEF Enters
  <2>2. CASE (AssertFails("pre") \/ AssertFails("post")) /\ phase = "return"
    <3>1. PICK f : f = [Top EXCEPT !.phase = "return", !.ok = FALSE]
      OBVIOUS
    <3>2. Alike(Top, f) /\ f.phase = phase
      BY <2>2, <3>1, TopOwned DEF Alike, Frame
    <3> QED BY <2>2, <3>1, <3>2 DEF AssertFails
  <2> QED BY <2>1, <2>2 DEF Goes
<1>2. Owned(mem, Top)
  BY TopOwned
<1>3. OwnsOut(mem, f)
  <2>1. CASE Top.phase \in {"let", "pre"}
    BY <1>1, <1>2, <2>1 DEF Owned, OwnsOut, Alike
  <2>2. CASE Top.phase \in {"post", "return"} /\ phase \in {"return", "set"}
    BY <1>1, <1>2, <2>2 DEF Owned, OwnsOut, Alike
  <2> QED BY <2>1, <2>2
<1>4. Top.phase # "userland"
  OBVIOUS
<1> QED BY <1>1, <1>3, <1>4, AlikeTurn

LEMMA PhasesMem ==
  ASSUME IInv, IInv', MemoryOK, Prepare \/ PreAssert \/ PostAssert \/ (Return /\ Top.ok)
  PROVE  MemoryOK'
<1>1. ASSUME NEW phase, stack # <<>>, Goes(phase), mem' = mem, kept' = kept,
             \/ Top.phase \in {"let", "pre"}
             \/ Top.phase \in {"post", "return"} /\ phase \in {"return", "set"}
      PROVE  MemoryOK'
  BY <1>1, EntersMem
<1>2. CASE Prepare
  <2>1. stack # <<>> /\ Goes("pre") /\ mem' = mem /\ kept' = kept /\ Top.phase = "let"
    BY <1>2 DEF Prepare, Running, Goes
  <2> QED BY <1>1, <2>1
<1>3. CASE PreAssert
  <2>1. /\ stack # <<>> /\ mem' = mem /\ kept' = kept /\ Top.phase = "pre"
        /\ Goes("return") \/ Goes("call")
    BY <1>3 DEF PreAssert, Running, Goes
  <2> QED BY <1>1, <2>1
<1>4. CASE PostAssert
  <2>1. /\ stack # <<>> /\ mem' = mem /\ kept' = kept /\ Top.phase = "post" /\ Goes("return")
    BY <1>4 DEF PostAssert, Running, Goes
  <2> QED BY <1>1, <2>1
<1>5. CASE Return /\ Top.ok
  <2>1. /\ stack # <<>> /\ mem' = mem /\ kept' = kept /\ Top.phase = "return" /\ Goes("set")
    BY <1>5 DEF Return, Running, Goes
  <2> QED BY <1>1, <2>1
<1> QED BY <1>2, <1>3, <1>4, <1>5

LEMMA CallMem ==
  ASSUME IInv, IInv', MemoryOK, Call
  PROVE  MemoryOK'
<1>1. stack # <<>> /\ Top.phase = "call" /\ UNCHANGED <<mem, kept>>
  BY DEF Call, Running
<1>2. PICK f : f = [Top EXCEPT !.phase = "native", !.prev = current[Top.impl]]
  OBVIOUS
<1>3. Continue(f)
  BY <1>2 DEF Call
<1>4. Alike(Top, f)
  BY <1>1, <1>2, TopOwned DEF Alike, Frame
<1>5. Top.out = 0
  BY <1>1, TopOwned, NoOut
<1>6. OwnsOut(mem, f)
  BY <1>4, <1>5 DEF OwnsOut, Alike
<1> QED BY <1>1, <1>3, <1>4, <1>6, AlikeTurn

-----------------------------------------------------------------------------

(* psi_call_frame_parse_args: an argument may hold a block.                *)

Owed(ar) == IF Releases(ar) THEN ar.ival ELSE 0

LEMMA ArgCount ==
  ASSUME NEW B, NEW f \in Frame(B), NEW g, NEW ar \in Arguments(B), NEW b,
         g.args = Append(f.args, ar), g.slots = f.slots, g.temps = f.temps,
         g.out = f.out, g.params = f.params
  PROVE  FrameCount(g, b) = FrameCount(f, b) + One(Owed(ar), b)
<1>1. /\ f.args \in Seq(Arguments(B)) /\ Len(f.args) \in Nat /\ DOMAIN f.args = 1 .. Len(f.args)
  BY FieldsOf, LenProperties
<1>2. PICK n \in Nat : n = Len(f.args)
  BY <1>1
<1>3. /\ DOMAIN g.args = 1 .. n + 1 /\ g.args[n + 1] = ar /\ \A a \in 1 .. n : g.args[a] = f.args[a]
  BY <1>1, <1>2, AppendProperties, LenProperties
<1>4. PICK u, v : u = ArgBlocks(f) /\ v = ArgBlocks(g)
  OBVIOUS
<1>5. /\ DOMAIN u = 1 .. n /\ DOMAIN v = DOMAIN u \cup {n + 1} /\ n + 1 \notin DOMAIN u
      /\ \A a \in DOMAIN u : v[a] = u[a]
  BY <1>1, <1>2, <1>3, <1>4 DEF ArgBlocks
<1>6. v[n + 1] = Owed(ar)
  BY <1>3, <1>4 DEF ArgBlocks, Owed
<1>7. IsFiniteSet(DOMAIN u)
  BY <1>1, <1>2, <1>5, FiniteDomain
<1>8. Count(v, b) = Count(u, b) + One(Owed(ar), b)
  BY ONLY <1>5, <1>6, <1>7, CountExtend
<1>9. /\ Count(u, b) \in Nat /\ Count(f.slots, b) \in Nat /\ Count(f.temps, b) \in Nat
      /\ One(f.out, b) \in Nat /\ One(f.params, b) \in Nat /\ One(Owed(ar), b) \in Nat
  BY <1>7, FrameTables, CountNat DEF Tables, One
<1> QED BY <1>4, <1>8, <1>9 DEF FrameCount

(* A step of memory after which one more reference to x is owed.           *)
BooksOne(m, l, x) ==
  \A b \in Nat \ {0}, h \in Nat : Booked(m, b, h) => Booked(l, b, h + One(x, b))

LEMMA OneSame ==
  ASSUME NEW m
  PROVE  BooksOne(m, m, 0)
<1>1. \A b \in Nat \ {0}, h \in Nat : h + One(0, b) = h
  BY DEF One
<1> QED BY <1>1 DEF BooksOne

LEMMA OneHeld ==
  ASSUME NEW m \in Seq(MemBlock), NEW c \in 0 .. Len(m)
  PROVE  BooksOne(m, Hold(m, c), c)
BY BookedHold DEF BooksOne

LEMMA OneLeaked ==
  ASSUME NEW m \in Seq(MemBlock), NEW c \in 1 .. Len(m)
  PROVE  BooksOne(m, [Hold(m, c) EXCEPT ![c].kind = "variadic"], 0)
<1>1. \A b \in Nat \ {0}, h \in Nat : h + One(0, b) = h
  BY DEF One
<1> QED BY <1>1, BookedLeak DEF BooksOne

LEMMA OneNew ==
  ASSUME NEW m \in Seq(MemBlock), NEW kind \in Kinds
  PROVE  /\ BooksOne(m, New(m, <<kind>>), IF kind \in NeverFreed THEN 0 ELSE Len(m) + 1)
         /\ New(m, <<kind>>) \in Seq(MemBlock) /\ Len(New(m, <<kind>>)) = Len(m) + 1
         /\ New(m, <<kind>>)[Len(m) + 1].kind = kind
         /\ Evolves(m, New(m, <<kind>>))
<1>1. PICK kinds \in Seq(Kinds) : kinds = <<kind>> /\ Len(kinds) = 1 /\ kinds[1] = kind
  <2>1. <<kind>> \in Seq(Kinds) /\ Len(<<kind>>) = 1 /\ <<kind>>[1] = kind
    OBVIOUS
  <2> QED BY <2>1, Zenon
<1>2. ASSUME NEW b \in Nat \ {0}
      PROVE  Fresh(m, kinds, b) = One(IF kind \in NeverFreed THEN 0 ELSE Len(m) + 1, b)
  <2>1. b \in Len(m) + 1 .. Len(m) + 1 <=> b = Len(m) + 1
    OBVIOUS
  <2>2. b = Len(m) + 1 => b - Len(m) = 1
    OBVIOUS
  <2> QED BY <1>1, <2>1, <2>2 DEF Fresh, One
<1>3. BooksOne(m, New(m, kinds), IF kind \in NeverFreed THEN 0 ELSE Len(m) + 1)
  BY <1>2, BookedNew DEF BooksOne
<1>4. PICK l \in Seq(MemBlock) : l = New(m, kinds) /\ Len(l) = Len(m) + 1
  BY <1>1, NewMemory
<1>5. \A b \in 1 .. Len(m) : l[b] = m[b]
  BY <1>4, NewAt
<1>6. l[Len(m) + 1] = [kind |-> kinds[1], refs |-> 1]
  <2>1. \A i \in 1 .. Len(kinds) : l[Len(m) + i] = [kind |-> kinds[i], refs |-> 1]
    BY <1>4, NewAt
  <2>2. 1 \in 1 .. Len(kinds)
    BY <1>1
  <2> QED BY <2>1, <2>2
<1>7. Evolves(m, l)
  BY <1>4, <1>5 DEF Evolves
<1>8. l[Len(m) + 1].kind = kind
  BY <1>1, <1>6
<1> QED BY <1>1, <1>3, <1>4, <1>7, <1>8

LEMMA BooksBy ==
  ASSUME NEW m, NEW l, NEW x, BooksOne(m, l, x), NEW f, NEW g, Tables(f),
         \A b \in Nat \ {0} : FrameCount(g, b) = FrameCount(f, b) + One(x, b)
  PROVE  Books(m, f, l, g)
<1> SUFFICES ASSUME NEW b \in Nat \ {0}, NEW h \in Nat, Booked(m, b, h)
             PROVE  Booked(l, b, h - FrameCount(f, b) + FrameCount(g, b))
  BY DEF Books
<1>1. FrameCount(f, b) \in Nat /\ FrameCount(g, b) = FrameCount(f, b) + One(x, b)
  BY FrameCountNat
<1>2. One(x, b) \in Nat
  BY DEF One
<1>3. h - FrameCount(f, b) + FrameCount(g, b) = h + One(x, b)
  BY <1>1, <1>2
<1> QED BY <1>3 DEF BooksOne

ArgBacked(m, ar) ==
  ar.va => ar.ival = 0 \/ ar.type = "string" \/ m[ar.ival].kind = "variadic"

LEMMA ArgOwned ==
  ASSUME NEW m, NEW B, NEW f \in Frame(B), NEW g, NEW ar, Owned(m, f), f.phase = "args",
         DOMAIN f.syms = {}, ArgBacked(m, ar),
         g.args = Append(f.args, ar), g.slots = f.slots, g.temps = f.temps, g.subs = f.subs,
         g.syms = f.syms, g.out = f.out, g.params = f.params, g.ret = f.ret
  PROVE  Owned(m, g)
<1>1. g.out = 0 /\ g.params = 0
  BY NoOut DEF Owned
<1>2. PICK n \in Nat : n = Len(f.args) /\ DOMAIN f.args = 1 .. n
  BY FieldsOf, LenProperties
<1>3. /\ DOMAIN g.args = 1 .. n + 1 /\ g.args[n + 1] = ar /\ \A a \in 1 .. n : g.args[a] = f.args[a]
  <2>1. f.args \in Seq(Arguments(B) \cup {ar})
    BY FieldsOf, SeqMonotonic
  <2> QED BY <1>2, <2>1, AppendProperties, LenProperties
<1>4. \A a \in DOMAIN f.args : ArgBacked(m, f.args[a])
  BY DEF Owned, ArgBacked
<1>5. \A a \in DOMAIN g.args : ArgBacked(m, g.args[a])
  <2> SUFFICES ASSUME NEW a \in 1 .. n + 1 PROVE ArgBacked(m, g.args[a])
    BY <1>3
  <2>1. CASE a = n + 1
    BY <1>3, <2>1
  <2>2. CASE a \in 1 .. n
    BY <1>2, <1>3, <1>4, <2>2
  <2>3. a = n + 1 \/ a \in 1 .. n
    OBVIOUS
  <2> QED BY <2>1, <2>2, <2>3, Zenon
<1>6. \A a \in DOMAIN g.slots : g.slots[a] # 0 => m[g.slots[a]].kind \in {"string", "variadic"}
  BY DEF Owned
<1>7. \A i \in DOMAIN g.subs : \E t \in DOMAIN g.temps : g.temps[t] = g.subs[i]
  BY ZenonT(60) DEF Owned
<1>8. g.ret # 0 => m[g.ret].kind = "return value"
  BY DEF Owned
<1>9. \A a \in DOMAIN g.args : g.args[a].va =>
        g.args[a].ival = 0 \/ g.args[a].type = "string" \/ m[g.args[a].ival].kind = "variadic"
  BY <1>5 DEF ArgBacked
<1> QED BY <1>1, <1>6, <1>7, <1>8, <1>9 DEF Owned, OwnsOut

LEMMA ArgMem ==
  ASSUME IInv, IInv', MemoryOK, Running("args"), kept' = kept,
         NEW ar \in Arguments(Block'), Continue([Top EXCEPT !.n = Top.n + 1, !.args = Append(@, ar)]),
         Evolves(mem, mem'), ArgBacked(mem', ar), BooksOne(mem, mem', Owed(ar))
  PROVE  MemoryOK'
<1>1. stack # <<>> /\ Top.phase = "args" /\ Len(Top.syms) = 0
  BY TopFacts DEF Running, WellFormed
<1>2. PICK m, l, f, B : m = mem /\ l = mem' /\ f = Top /\ B = Block'
  OBVIOUS
<1>3. PICK g : g = [f EXCEPT !.n = f.n + 1, !.args = Append(f.args, ar)]
  OBVIOUS
<1>4. Continue(g)
  BY <1>2, <1>3
<1>5. /\ m \in Seq(MemBlock) /\ l \in Seq(MemBlock) /\ Evolves(m, l)
      /\ f \in Frame(0 .. Len(m)) /\ f \in Frame(B) /\ Owned(m, f) /\ Tables(f)
  <2>1. mem' \in Seq(MemBlock) /\ Len(mem) <= Len(mem')
    BY DEF IInv, TypeOK, Evolves
  <2>2. Top \in Frame(Block')
    BY <1>1, <2>1, TopFacts, BlockGrows
  <2> QED BY <1>1, <1>2, <2>1, <2>2, TopOwned
<1>6. Owned(l, f)
  BY <1>5, OwnedEvolves
<1>7. /\ g.args = Append(f.args, ar) /\ g.slots = f.slots /\ g.temps = f.temps
      /\ g.subs = f.subs /\ g.syms = f.syms /\ g.out = f.out /\ g.params = f.params
      /\ g.ret = f.ret
  BY <1>3, <1>5 DEF Frame
<1>8. DOMAIN f.syms = {}
  <2>1. f.syms \in Seq(B) /\ Len(f.syms) = 0
    BY <1>1, <1>2, <1>5, FieldsOf
  <2> QED BY <2>1
<1>9. ArgBacked(l, ar) /\ BooksOne(m, l, Owed(ar)) /\ f.phase = "args" /\ ar \in Arguments(B)
  BY <1>1, <1>2
<1>10. Owned(l, g)
  BY ONLY <1>5, <1>6, <1>7, <1>8, <1>9, ArgOwned
<1>11. ASSUME NEW b \in Nat \ {0}
       PROVE  FrameCount(g, b) = FrameCount(f, b) + One(Owed(ar), b)
  <2>1. f \in Frame(B) /\ ar \in Arguments(B)
    BY <1>5, <1>9
  <2>2. /\ g.args = Append(f.args, ar) /\ g.slots = f.slots /\ g.temps = f.temps
        /\ g.out = f.out /\ g.params = f.params
    BY <1>7
  <2> HIDE <1>3
  <2> QED BY ONLY <2>1, <2>2, ArgCount
<1>12. Books(m, f, l, g)
  BY ONLY <1>5, <1>9, <1>11, BooksBy
<1>13. kept' = kept /\ Books(mem, Top, mem', g) /\ Owned(mem', g) /\ Evolves(mem, mem')
  BY <1>2, <1>5, <1>10, <1>12
<1> QED BY <1>1, <1>4, <1>13, TopTurn

LEMMA ParseArgMem ==
  ASSUME IInv, IInv', MemoryOK, ParseArg
  PROVE  MemoryOK'
<1> DEFINE a == Top.n + 1
           type == TypeOf(Top.impl, a)
           va == a > Len(Im.args)
           block == Top.slots[a]
           argument(ival) == Argument(type, va, ival, a)
<1>1. /\ Running("args") /\ stack # <<>> /\ Top.phase = "args"
      /\ ~WrongCount /\ Top.n < Len(Top.given) /\ kept' = kept
  BY DEF ParseArg, Running
<1>2. /\ Top \in Frame(Block) /\ WellFormed(Top) /\ IsImpl(Im)
      /\ mem \in Seq(MemBlock) /\ Len(mem) \in Nat /\ Owned(mem, Top)
      /\ mem' \in Seq(MemBlock)
  BY <1>1, TopFacts, TopOwned DEF IInv, TypeOK
<1>3. /\ a \in 1 .. Len(Top.slots) /\ va \in BOOLEAN /\ a \in Nat
      /\ block \in 0 .. Len(mem) /\ a \in DOMAIN Top.slots
  <2>1. Top.slots \in Seq(Block) /\ Top.given \in Seq(Givens) /\ Top.n \in Nat
    BY <1>2 DEF Frame
  <2> QED BY <1>1, <1>2, <2>1, SMTT(40) DEF WellFormed, Block
<1>4. va => type \in {"int", "string", "mixed"}
  <2>1. va => Len(Top.given) > Len(Im.args)
    BY <1>1, <1>2, ImplFacts, SMTT(40) DEF Frame
  <2>2. va => Im.vararg # "none"
    BY <1>1, <2>1 DEF WrongCount
  <2>3. va => ~(a <= Len(Im.args))
    BY <1>2, <1>3, ImplFacts
  <2> QED BY <1>2, <2>2, <2>3 DEF TypeOf, Im, IsImpl
<1>5. type \in Types
  <2>1. CASE ~va
    <3>1. Im.args[a].type \in Types
      BY <1>2, <1>3, <2>1, ImplFacts
    <3>2. a <= Len(Im.args)
      BY <1>2, <1>3, <2>1, ImplFacts
    <3> QED BY <3>1, <3>2 DEF TypeOf, Im
  <2> QED BY <1>4, <2>1 DEF Types
<1>6. ASSUME NEW ival \in Block',
             Continue([Top EXCEPT !.n = a, !.args = Append(@, argument(ival))]),
             Evolves(mem, mem'), ArgBacked(mem', argument(ival)),
             BooksOne(mem, mem', Owed(argument(ival)))
      PROVE  MemoryOK'
  <2>1. argument(ival) \in Arguments(Block')
    BY <1>3, <1>5 DEF Argument, Arguments
  <2> HIDE DEF argument
  <2> QED BY <1>1, <1>6, <2>1, ArgMem
<1>7. ASSUME NEW ival
      PROVE  /\ Owed(argument(ival)) = IF type \in {"string", "callable"} THEN ival ELSE 0
             /\ ArgBacked(mem', argument(ival)) <=>
                  (va => ival = 0 \/ type = "string" \/ mem'[ival].kind = "variadic")
  BY DEF Owed, ArgBacked, Argument, Releases
<1> HIDE DEF argument, type, va, block
<1>8. CASE Rejects
  BY <1>1, <1>8, CountArgsMem
<1>9. CASE /\ type = "string" /\ mem' = Hold(mem, block)
           /\ Continue([Top EXCEPT !.n = a, !.args = Append(@, argument(block))])
  <2>1. Evolves(mem, mem')
    BY <1>2, <1>3, <1>9, HoldAt, HeldMemory DEF Evolves
  <2>2. block \in Block'
    BY <1>2, <1>3, <2>1 DEF Evolves, Block
  <2>3. BooksOne(mem, mem', block)
    BY <1>2, <1>3, <1>9, OneHeld
  <2>4. Owed(argument(block)) = block /\ ArgBacked(mem', argument(block))
    BY <1>7, <1>9
  <2> QED BY <1>6, <1>9, <2>1, <2>2, <2>3, <2>4
<1>10. CASE /\ type = "mixed" /\ block # 0
            /\ mem' = [Hold(mem, block) EXCEPT ![block].kind = "variadic"]
            /\ Continue([Top EXCEPT !.n = a, !.args = Append(@, argument(block))])
  <2>1. mem[block].kind \in {"string", "variadic"} /\ block \in 1 .. Len(mem)
    <3>1. \A i \in DOMAIN Top.slots :
            Top.slots[i] # 0 => mem[Top.slots[i]].kind \in {"string", "variadic"}
      BY <1>2 DEF Owned
    <3>2. PICK i \in DOMAIN Top.slots : block = Top.slots[i]
      BY <1>3 DEF block
    <3> QED BY <1>3, <1>10, <3>1, <3>2
  <2>2. PICK g \in Seq(MemBlock) : g = Hold(mem, block) /\ Len(g) = Len(mem)
    BY <1>2, <1>3, HeldMemory
  <2>3. /\ mem' = [g EXCEPT ![block].kind = "variadic"] /\ Len(mem') = Len(mem)
        /\ \A b \in 1 .. Len(mem) : b # block => mem'[b] = g[b]
    BY <1>10, <2>1, <2>2
  <2>4. mem'[block].kind = "variadic"
    <3>1. g[block] \in MemBlock /\ mem'[block] = [g[block] EXCEPT !.kind = "variadic"]
      BY <1>10, <2>1, <2>2
    <3> QED BY <3>1 DEF MemBlock
  <2>5. Evolves(mem, mem')
    <3>1. \A b \in 1 .. Len(mem) : g[b].kind = mem[b].kind
      BY <1>2, <1>3, <2>2, HoldAt
    <3> QED BY <1>2, <2>1, <2>3, <2>4, <3>1 DEF Evolves
  <2>6. BooksOne(mem, mem', 0)
    BY <1>2, <1>10, <2>1, OneLeaked
  <2>7. block \in Block'
    BY <1>3, <2>3 DEF Block
  <2>8. type \notin {"string", "callable"}
    BY <1>10
  <2> QED BY <1>6, <1>7, <1>10, <2>4, <2>5, <2>6, <2>7, <2>8
<1>11. CASE /\ type = "callable" /\ mem' = New(mem, <<"callable">>)
            /\ Continue([Top EXCEPT !.n = a, !.args = Append(@, argument(Len(mem) + 1))])
  <2>1. "callable" \in Kinds /\ "callable" \notin NeverFreed
    BY DEF Kinds, NeverFreed
  <2>2. /\ BooksOne(mem, mem', Len(mem) + 1) /\ Len(mem') = Len(mem) + 1 /\ Evolves(mem, mem')
    BY <1>2, <1>11, <2>1, OneNew
  <2>3. Len(mem) + 1 \in Block'
    BY <1>2, <2>2 DEF Block
  <2>4. ~va
    BY <1>4, <1>11
  <2> QED BY <1>6, <1>7, <1>11, <2>2, <2>3, <2>4
<1>12. CASE /\ mem' = mem
            /\ Continue([Top EXCEPT !.n = a, !.args = Append(@, argument(0))])
  <2>1. Evolves(mem, mem') /\ BooksOne(mem, mem', 0)
    BY <1>2, <1>12, EvolvesSame, OneSame
  <2>2. 0 \in Block'
    BY <1>2, <1>12 DEF Block
  <2>3. Owed(argument(0)) = 0 /\ ArgBacked(mem', argument(0))
    BY <1>7
  <2> QED BY <1>6, <1>12, <2>1, <2>2, <2>3
<1>13. \/ Rejects
       \/ /\ type = "string" /\ mem' = Hold(mem, block)
          /\ Continue([Top EXCEPT !.n = a, !.args = Append(@, argument(block))])
       \/ /\ type = "mixed" /\ block # 0
          /\ mem' = [Hold(mem, block) EXCEPT ![block].kind = "variadic"]
          /\ Continue([Top EXCEPT !.n = a, !.args = Append(@, argument(block))])
       \/ /\ type = "callable" /\ mem' = New(mem, <<"callable">>)
          /\ Continue([Top EXCEPT !.n = a, !.args = Append(@, argument(Len(mem) + 1))])
       \/ /\ mem' = mem
          /\ Continue([Top EXCEPT !.n = a, !.args = Append(@, argument(0))])
  BY DEF ParseArg, type, va, block, argument
<1> QED BY <1>8, <1>9, <1>10, <1>11, <1>12, <1>13

(* There is no implementation with an argument that defaults to a string.  *)
NoDefaultStrings ==
  \A i \in Impls : \A a \in DOMAIN Impl[i].args : Impl[i].args[a].def # "string"

LEMMA DefaultArgMem ==
  ASSUME NoDefaultStrings, IInv, IInv', MemoryOK, DefaultArg
  PROVE  MemoryOK'
<1>1. PICK a, ar : a = Top.n + 1 /\ ar = Argument(Im.args[a].type, FALSE, 0, 0)
  OBVIOUS
<1>2. /\ Running("args") /\ stack # <<>> /\ Top.phase = "args" /\ Top.n < Len(Im.args)
      /\ mem' = mem /\ kept' = kept
  BY DEF DefaultArg, Running
<1>3. /\ Top \in Frame(Block) /\ IsImpl(Im) /\ Top.impl \in Impls
      /\ mem \in Seq(MemBlock) /\ Len(mem) \in Nat
  BY <1>2, TopFacts
<1>4. a \in 1 .. Len(Im.args) /\ DOMAIN Im.args = 1 .. Len(Im.args) /\ Im.args[a].type \in Types
  <2>1. Top.n \in Nat
    BY <1>3 DEF Frame
  <2> QED BY <1>1, <1>2, <1>3, <2>1, ImplFacts
<1>5. Im.args[a].def # "string"
  BY <1>3, <1>4 DEF NoDefaultStrings, Im
<1>6. Continue([Top EXCEPT !.n = Top.n + 1, !.args = Append(@, ar)])
  BY <1>1, <1>5 DEF DefaultArg
<1>7. ar \in Arguments(Block') /\ Owed(ar) = 0 /\ ArgBacked(mem', ar)
  <2>1. 0 \in Block'
    BY <1>2, <1>3 DEF Block
  <2> QED BY <1>1, <1>4, <2>1 DEF Argument, Arguments, Owed, Releases, ArgBacked
<1>8. Evolves(mem, mem') /\ BooksOne(mem, mem', Owed(ar))
  BY <1>2, <1>3, <1>7, EvolvesSame, OneSame
<1> QED BY <1>2, <1>6, <1>7, <1>8, ArgMem

(* A frame with a block for its return value.                              *)
RetBacked(m, b) == b # 0 => m[b].kind = "return value"

LEMMA RetOwned ==
  ASSUME NEW m, NEW f, Owned(m, f), NEW g, NEW b,
         g.ret = b, RetBacked(m, b),
         f.phase = "args", f.out = g.out, f.params = g.params,
         g.slots = f.slots, g.args = f.args, g.temps = f.temps, g.subs = f.subs, g.syms = f.syms
  PROVE  Owned(m, g) /\ \A c : FrameCount(g, c) = FrameCount(f, c)
<1>1. g.out = 0 /\ g.params = 0
  BY NoOut, ZenonT(60) DEF Owned
<1>2. ArgBlocks(g) = ArgBlocks(f)
  BY DEF ArgBlocks
<1>3. \A c : FrameCount(g, c) = FrameCount(f, c)
  BY <1>2 DEF FrameCount
<1>4. \A c : Backed(m, f, c) => Backed(m, g, c)
  BY <1>2 DEF Backed
<1>5. \A i \in DOMAIN g.syms : Backed(m, g, g.syms[i])
  BY <1>4 DEF Owned
<1>6. \A a \in DOMAIN g.args : ArgBacked(m, g.args[a])
  <2>1. \A a \in DOMAIN f.args : ArgBacked(m, f.args[a])
    BY DEF Owned, ArgBacked
  <2> QED BY <2>1
<1>7. \A a \in DOMAIN g.slots : g.slots[a] # 0 => m[g.slots[a]].kind \in {"string", "variadic"}
  BY DEF Owned
<1>8. \A i \in DOMAIN g.subs : \E t \in DOMAIN g.temps : g.temps[t] = g.subs[i]
  BY ZenonT(40) DEF Owned
<1> QED BY <1>1, <1>3, <1>5, <1>6, <1>7, <1>8 DEF Owned, OwnsOut, ArgBacked, RetBacked

LEMMA EnterMem ==
  ASSUME IInv, IInv', MemoryOK, Enter
  PROVE  MemoryOK'
<1>1. /\ stack # <<>> /\ Top.phase = "args" /\ kept' = kept
  BY DEF Enter, Running
<1>2. PICK m, l, f : m = mem /\ l = mem' /\ f = Top
  OBVIOUS
<1>3. /\ m \in Seq(MemBlock) /\ l \in Seq(MemBlock) /\ Len(m) \in Nat
      /\ f \in Frame(0 .. Len(m)) /\ Owned(m, f) /\ Tables(f) /\ f.phase = "args"
  BY <1>1, <1>2, TopOwned DEF IInv, TypeOK
<1>4. PICK b : b = IF Im.large THEN Len(m) + 1 ELSE 0
  OBVIOUS
<1>5. PICK g : g = [f EXCEPT !.phase = "let", !.n = 0, !.ret = b]
  OBVIOUS
<1>6. Continue(g)
  BY <1>2, <1>4, <1>5 DEF Enter
<1>7. Evolves(m, l) /\ BooksOne(m, l, 0) /\ RetBacked(l, b)
  <2>1. CASE Im.large
    <3>1. PICK kind : kind = "return value" /\ kind \in Kinds /\ kind \in NeverFreed
      BY DEF Kinds, NeverFreed
    <3>2. l = New(m, <<kind>>) /\ b = Len(m) + 1
      BY <1>2, <1>4, <2>1, <3>1 DEF Enter
    <3>3. Evolves(m, l) /\ BooksOne(m, l, 0) /\ l[b].kind = kind
      BY <1>3, <3>1, <3>2, OneNew
    <3> QED BY <3>1, <3>3 DEF RetBacked
  <2>2. CASE ~Im.large
    <3>1. l = m /\ b = 0
      BY <1>2, <1>4, <2>2 DEF Enter
    <3>2. RetBacked(l, b)
      BY <3>1 DEF RetBacked
    <3> QED BY <1>3, <3>1, <3>2, EvolvesSame, OneSame
  <2> QED BY <2>1, <2>2
<1>8. Owned(l, f)
  BY <1>3, <1>7, OwnedEvolves
<1>9. /\ g.ret = b /\ f.out = g.out /\ f.params = g.params /\ g.slots = f.slots
      /\ g.args = f.args /\ g.temps = f.temps /\ g.subs = f.subs /\ g.syms = f.syms
  BY <1>3, <1>5 DEF Frame
<1>10. Owned(l, g) /\ \A c : FrameCount(g, c) = FrameCount(f, c)
  <2>1. f.phase = "args" /\ RetBacked(l, b)
    BY <1>3, <1>7
  <2> HIDE <1>5
  <2> QED BY ONLY <1>8, <1>9, <2>1, RetOwned
<1>11. Books(m, f, l, g)
  <2>1. \A c \in Nat \ {0} : FrameCount(g, c) = FrameCount(f, c) + One(0, c)
    <3> TAKE c \in Nat \ {0}
    <3>1. FrameCount(f, c) \in Nat /\ One(0, c) = 0
      BY <1>3, FrameCountNat DEF One
    <3> QED BY <1>10, <3>1
  <2> QED BY <1>3, <1>7, <2>1, BooksBy
<1> QED BY <1>1, <1>2, <1>6, <1>7, <1>10, <1>11, TopTurn

-----------------------------------------------------------------------------

(* psi_call_frame_do_let: what is allocated is for the frame to free, or   *)
(* never freed.                                                            *)

\* The frame gives all of them back.
AllReturned(kinds) == \A i \in 1 .. Len(kinds) : kinds[i] \notin NeverFreed

\* The temporaries go on behind those that there are.
LEMMA TempsGrow ==
  ASSUME NEW m \in Seq(MemBlock), NEW kinds \in Seq(Kinds), NEW S, NEW s \in Seq(S),
         AllReturned(kinds), NEW t, t = s \o NewBlocks(m, kinds)
  PROVE  /\ \A b \in Nat \ {0} : Count(t, b) = Count(s, b) + Fresh(m, kinds, b)
         /\ Numbered(t, s, Len(kinds), Len(m))
<1>1. PICK u : u = NewBlocks(m, kinds)
  OBVIOUS
<1>2. Len(m) \in Nat /\ Len(kinds) \in Nat /\ Len(s) \in Nat
  OBVIOUS
<1>3. u \in [1 .. Len(kinds) -> Nat] /\ \A i \in 1 .. Len(kinds) : u[i] = Len(m) + i
  BY <1>1, <1>2 DEF NewBlocks
<1>4. u \in Seq(Nat) /\ Len(u) = Len(kinds)
  <2>1. PICK n \in Nat : n = Len(kinds)
    BY <1>2
  <2>2. u \in [1 .. n -> Nat]
    BY <1>3, <2>1
  <2>3. u \in Seq(Nat)
    BY <2>2
  <2>4. Len(u) = n
    BY <2>2, <2>3
  <2> QED BY <2>1, <2>3, <2>4
<1>5. s \in Seq(S \cup Nat) /\ u \in Seq(S \cup Nat)
  BY <1>4, SeqMonotonic
<1>6. t \in Seq(S \cup Nat) /\ Len(t) = Len(s) + Len(u) /\ \A i \in 1 .. Len(s) : t[i] = s[i]
  BY <1>1, <1>5, ConcatProperties
<1>7. ASSUME NEW i \in 1 .. Len(u)
      PROVE  t[Len(s) + i] = u[i]
  BY <1>1, <1>5
<1>8. DOMAIN t = 1 .. Len(s) + Len(kinds)
  BY <1>4, <1>6, LenProperties
<1>9. \A i \in 1 .. Len(kinds) : t[Len(s) + i] = Len(m) + i
  BY <1>3, <1>4, <1>7
<1>10. ASSUME NEW b \in Nat \ {0}
       PROVE  Count(t, b) = Count(s, b) + Fresh(m, kinds, b)
  <2>1. PICK n \in Nat, k \in Int : n = Len(kinds) /\ k = Len(m)
    BY <1>2
  <2>2. Count(t, b) = Count(s, b) + (IF b \in k + 1 .. k + n THEN 1 ELSE 0)
    <3>1. /\ DOMAIN t = 1 .. Len(s) + n /\ \A i \in 1 .. Len(s) : t[i] = s[i]
          /\ \A i \in 1 .. n : t[Len(s) + i] = k + i
      BY <1>6, <1>8, <1>9, <2>1
    <3>2. Numbered(t, s, n, k)
      BY <3>1 DEF Numbered
    <3>3. \A c : Count(t, c) = Count(s, c) + (IF c \in k + 1 .. k + n THEN 1 ELSE 0)
      BY <3>2, CountNumbered
    <3> QED BY <3>3
  <2>3. b \in k + 1 .. k + n => kinds[b - k] \notin NeverFreed
    <3>1. b \in k + 1 .. k + n => b - k \in 1 .. Len(kinds)
      BY <2>1
    <3> QED BY <3>1 DEF AllReturned
  <2>4. Fresh(m, kinds, b) = IF b \in k + 1 .. k + n THEN 1 ELSE 0
    BY <2>1, <2>3 DEF Fresh
  <2> QED BY <2>2, <2>4
<1> QED BY <1>6, <1>8, <1>9, <1>10 DEF Numbered

LEMMA GrownOwned ==
  ASSUME NEW m, NEW f, Owned(m, f), NEW g,
         g.slots = f.slots, g.args = f.args, g.out = f.out, g.params = f.params, g.ret = f.ret,
         g.phase = f.phase,
         \A i \in DOMAIN g.subs : \E t \in DOMAIN g.temps : g.temps[t] = g.subs[i],
         \A i \in DOMAIN g.syms : Backed(m, g, g.syms[i])
  PROVE  Owned(m, g)
<1>1. \A a \in DOMAIN g.args : ArgBacked(m, g.args[a])
  <2>1. \A a \in DOMAIN f.args : ArgBacked(m, f.args[a])
    BY DEF Owned, ArgBacked
  <2> QED BY <2>1
<1>2. OwnsOut(m, g) /\ (g.params # 0 => g.phase = "userland")
  BY DEF Owned, OwnsOut
<1>3. \A a \in DOMAIN g.slots : g.slots[a] # 0 => m[g.slots[a]].kind \in {"string", "variadic"}
  BY DEF Owned
<1>4. g.ret # 0 => m[g.ret].kind = "return value"
  BY DEF Owned
<1> QED BY <1>1, <1>2, <1>3, <1>4 DEF Owned, ArgBacked

LEMMA BackedGrows ==
  ASSUME NEW m, NEW f, NEW g, g.args = f.args, NEW b, Backed(m, f, b),
         \A t \in DOMAIN f.temps : \E u \in DOMAIN g.temps : g.temps[u] = f.temps[t]
  PROVE  Backed(m, g, b)
<1>1. ArgBlocks(g) = ArgBlocks(f)
  BY DEF ArgBlocks
<1> QED BY <1>1 DEF Backed

LEMMA TempsCount ==
  ASSUME NEW f, NEW g, Tables(f), g.slots = f.slots, g.args = f.args, g.out = f.out,
         g.params = f.params, NEW b, NEW x \in Nat, Count(g.temps, b) = Count(f.temps, b) + x
  PROVE  FrameCount(g, b) = FrameCount(f, b) + x
<1>1. ArgBlocks(g) = ArgBlocks(f) /\ DOMAIN ArgBlocks(f) = DOMAIN f.args
  BY DEF ArgBlocks
<1>2. /\ Count(f.slots, b) \in Nat /\ Count(ArgBlocks(f), b) \in Nat /\ Count(f.temps, b) \in Nat
      /\ One(f.out, b) \in Nat /\ One(f.params, b) \in Nat
  BY <1>1, CountNat DEF Tables, One
<1> QED BY <1>1, <1>2 DEF FrameCount

\* The blocks of kinds are all for the frame, or none is.
Takes(m, kinds, s, t) ==
  \/ t = s /\ \A i \in 1 .. Len(kinds) : kinds[i] \in NeverFreed
  \/ t = s \o NewBlocks(m, kinds) /\ AllReturned(kinds)

LEMMA TakesBlocks ==
  ASSUME NEW m \in Seq(MemBlock), NEW kinds \in Seq(Kinds), NEW S, NEW s \in Seq(S), NEW t,
         Takes(m, kinds, s, t)
  PROVE  /\ \A b \in Nat \ {0} : Count(t, b) = Count(s, b) + Fresh(m, kinds, b)
         /\ \A i \in DOMAIN s : i \in DOMAIN t /\ t[i] = s[i]
<1>1. CASE t = s /\ \A i \in 1 .. Len(kinds) : kinds[i] \in NeverFreed
  <2>1. ASSUME NEW b \in Nat \ {0}
        PROVE  Fresh(m, kinds, b) = 0
    <3>1. b \in Len(m) + 1 .. Len(m) + Len(kinds) => b - Len(m) \in 1 .. Len(kinds)
      OBVIOUS
    <3> QED BY <1>1, <3>1 DEF Fresh
  <2>2. \A b : Count(s, b) \in Nat
    BY FiniteDomain, CountNat
  <2> QED BY <1>1, <2>1, <2>2
<1>2. CASE t = s \o NewBlocks(m, kinds) /\ AllReturned(kinds)
  <2>1. /\ \A b \in Nat \ {0} : Count(t, b) = Count(s, b) + Fresh(m, kinds, b)
        /\ Numbered(t, s, Len(kinds), Len(m))
    <3>1. m \in Seq(MemBlock) /\ kinds \in Seq(Kinds) /\ s \in Seq(S)
      OBVIOUS
    <3> QED BY ONLY <1>2, <3>1, TempsGrow
  <2>2. DOMAIN s = 1 .. Len(s) /\ Len(s) \in Nat /\ Len(kinds) \in Nat
    BY LenProperties
  <2> QED BY <2>1, <2>2 DEF Numbered
<1> QED BY <1>1, <1>2 DEF Takes

LEMMA BoundFields ==
  ASSUME NEW B, NEW f \in Frame(B), NEW temps, NEW subs, NEW sym
  PROVE  LET g == Bound(f, temps, subs, sym) IN
         /\ g.slots = f.slots /\ g.args = f.args /\ g.out = f.out /\ g.params = f.params
         /\ g.ret = f.ret /\ g.phase = f.phase
         /\ g.temps = temps /\ g.subs = subs /\ g.syms = Append(f.syms, sym)
<1>1. PICK syms : syms = Append(f.syms, sym)
  OBVIOUS
<1>2. PICK g : g = [f EXCEPT !.n = @ + 1, !.temps = temps, !.subs = subs, !.syms = syms]
  OBVIOUS
<1>3. /\ g.slots = f.slots /\ g.args = f.args /\ g.out = f.out /\ g.params = f.params
      /\ g.ret = f.ret /\ g.phase = f.phase
      /\ g.temps = temps /\ g.subs = subs /\ g.syms = syms
  BY <1>2 DEF Frame
<1>4. g = Bound(f, temps, subs, sym)
  BY <1>1, <1>2 DEF Bound
<1> QED BY <1>1, <1>3, <1>4

LEMMA AppendAt ==
  ASSUME NEW S, NEW s \in Seq(S), NEW e, NEW t, t = Append(s, e)
  PROVE  \A i \in DOMAIN t : t[i] = e \/ (i \in DOMAIN s /\ t[i] = s[i])
<1>1. s \in Seq(S \cup {e})
  BY SeqMonotonic
<1>2. /\ DOMAIN t = 1 .. Len(s) + 1 /\ t[Len(s) + 1] = e /\ \A i \in 1 .. Len(s) : t[i] = s[i]
      /\ DOMAIN s = 1 .. Len(s) /\ Len(s) \in Nat
  BY <1>1, AppendProperties, LenProperties
<1>3. \A i \in 1 .. Len(s) + 1 : i = Len(s) + 1 \/ i \in 1 .. Len(s)
  BY <1>2
<1> QED BY <1>2, <1>3

\* A symbol may point to b in a frame with these temporaries.
Points(m, f, temps, b) ==
  \/ b = 0
  \/ \E a \in DOMAIN f.args : ArgBlocks(f)[a] = b
  \/ \E t \in DOMAIN temps : temps[t] = b
  \/ m[b].kind \in {"null array", "persistent"}

Extends(s, t, temps) == t = s \/ \E i \in DOMAIN temps : t = Append(s, temps[i])

LEMMA LetMem ==
  ASSUME IInv, IInv', MemoryOK, Running("let"), kept' = kept,
         NEW kinds \in Seq(Kinds), mem' = New(mem, kinds),
         NEW temps, Takes(mem, kinds, Top.temps, temps),
         NEW subs, Extends(Top.subs, subs, temps),
         NEW sym, Points(mem', Top, temps, sym),
         Continue(Bound(Top, temps, subs, sym))
  PROVE  MemoryOK'
<1>1. stack # <<>> /\ Top.phase = "let"
  BY DEF Running
<1>2. PICK m, l, f, g : m = mem /\ l = mem' /\ f = Top /\ g = Bound(f, temps, subs, sym)
  OBVIOUS
<1>3. /\ m \in Seq(MemBlock) /\ l \in Seq(MemBlock) /\ Len(m) \in Nat /\ l = New(m, kinds)
      /\ f \in Frame(0 .. Len(m)) /\ Owned(m, f) /\ Tables(f)
      /\ Takes(m, kinds, f.temps, temps) /\ Points(l, f, temps, sym)
      /\ Extends(f.subs, subs, temps)
  BY <1>1, <1>2, TopOwned DEF IInv, TypeOK
<1>4. Continue(g)
  BY <1>2
<1>5. /\ g.slots = f.slots /\ g.args = f.args /\ g.out = f.out /\ g.params = f.params
      /\ g.ret = f.ret /\ g.phase = f.phase
      /\ g.temps = temps /\ g.subs = subs /\ g.syms = Append(f.syms, sym)
  BY <1>2, <1>3, BoundFields
<1>6. Evolves(m, l)
  <2>1. Len(l) = Len(m) + Len(kinds) /\ Len(kinds) \in Nat
    BY <1>3, NewMemory
  <2>2. \A b \in 1 .. Len(m) : l[b] = m[b]
    BY <1>3, NewAt
  <2> QED BY <1>3, <2>1, <2>2 DEF Evolves
<1>7. Owned(l, f)
  BY <1>3, <1>6, OwnedEvolves
<1>8. PICK B : /\ f.temps \in Seq(B) /\ f.subs \in Seq(B) /\ f.syms \in Seq(B)
  BY <1>3, FieldsOf
<1>9. /\ \A b \in Nat \ {0} : Count(temps, b) = Count(f.temps, b) + Fresh(m, kinds, b)
      /\ \A i \in DOMAIN f.temps : i \in DOMAIN temps /\ temps[i] = f.temps[i]
  BY <1>3, <1>8, TakesBlocks
<1>10. \A i \in DOMAIN g.subs : \E t \in DOMAIN g.temps : g.temps[t] = g.subs[i]
  <2>1. \A i \in DOMAIN f.subs : \E t \in DOMAIN temps : temps[t] = f.subs[i]
    <3>1. \A i \in DOMAIN f.subs : \E t \in DOMAIN f.temps : f.temps[t] = f.subs[i]
      BY <1>7 DEF Owned
    <3>2. \A i \in DOMAIN f.temps : i \in DOMAIN temps /\ temps[i] = f.temps[i]
      BY <1>9
    <3> QED BY ONLY <3>1, <3>2
  <2>2. ASSUME NEW j \in DOMAIN temps, subs = Append(f.subs, temps[j])
        PROVE  \A i \in DOMAIN subs : \E t \in DOMAIN temps : temps[t] = subs[i]
    <3>1. PICK e : e = temps[j]
      OBVIOUS
    <3>2. \A i \in DOMAIN subs : subs[i] = e \/ (i \in DOMAIN f.subs /\ subs[i] = f.subs[i])
      BY <1>8, <2>2, <3>1, AppendAt
    <3> QED BY <2>1, <3>1, <3>2
  <2>3. subs = f.subs \/ \E j \in DOMAIN temps : subs = Append(f.subs, temps[j])
    BY <1>3 DEF Extends
  <2>4. \A i \in DOMAIN subs : \E t \in DOMAIN temps : temps[t] = subs[i]
    <3>1. CASE subs = f.subs
      BY ONLY <3>1, <2>1
    <3>2. CASE \E j \in DOMAIN temps : subs = Append(f.subs, temps[j])
      BY ONLY <3>2, <2>2
    <3> QED BY ONLY <2>3, <3>1, <3>2
  <2> QED BY <1>5, <2>4
<1>11. \A i \in DOMAIN g.syms : Backed(l, g, g.syms[i])
  <2>1. ASSUME NEW i \in DOMAIN f.syms
        PROVE  Backed(l, g, f.syms[i])
    <3>1. PICK b : b = f.syms[i] /\ Backed(l, f, b)
      BY <1>7 DEF Owned
    <3> QED BY <1>5, <1>9, <3>1, BackedGrows
  <2>2. Backed(l, g, sym)
    <3>1. ArgBlocks(g) = ArgBlocks(f)
      BY <1>5 DEF ArgBlocks
    <3> QED BY <1>3, <1>5, <3>1 DEF Points, Backed
  <2>3. \A i \in DOMAIN g.syms : g.syms[i] = sym \/ (i \in DOMAIN f.syms /\ g.syms[i] = f.syms[i])
    BY <1>5, <1>8, AppendAt
  <2> QED BY <2>1, <2>2, <2>3
<1>12. Owned(l, g)
  BY <1>5, <1>7, <1>10, <1>11, GrownOwned
<1>13. ASSUME NEW b \in Nat \ {0}
       PROVE  FrameCount(g, b) = FrameCount(f, b) + Fresh(m, kinds, b)
  <2>1. Fresh(m, kinds, b) \in Nat
    BY DEF Fresh
  <2>2. PICK c, x \in Nat : c = b /\ x = Fresh(m, kinds, b)
    BY <2>1
  <2>3. Count(g.temps, c) = Count(f.temps, c) + x
    BY <1>5, <1>9, <2>2
  <2>4. FrameCount(g, c) = FrameCount(f, c) + x
    BY <1>3, <1>5, <2>3, TempsCount
  <2> QED BY <2>2, <2>4
<1>14. Books(m, f, l, g)
  BY <1>3, <1>13, BooksNew
<1> QED BY <1>1, <1>2, <1>4, <1>6, <1>12, <1>14, TopTurn

NoneReturned(kinds) == \A i \in 1 .. Len(kinds) : kinds[i] \in NeverFreed

Stays(kind) == kind \in {"null array", "persistent"}

\* What the symbol of a let statement points to, once it has its blocks.
SymFits(m, f, kinds, auto, sym) ==
  \/ sym = 0
  \/ \E a \in DOMAIN f.args : ArgBlocks(f)[a] = sym
  \/ /\ sym = Len(m) + 1 /\ Len(kinds) = 1
     /\ auto \/ Stays(kinds[1])

LEMMA BindsMem ==
  ASSUME IInv, IInv', MemoryOK, Running("let"), kept' = kept,
         NEW kinds \in Seq(Kinds), NEW auto \in BOOLEAN, NEW sym, Binds(kinds, auto, sym),
         IF auto THEN AllReturned(kinds) ELSE NoneReturned(kinds),
         SymFits(mem, Top, kinds, auto, sym)
  PROVE  MemoryOK'
<1>1. stack # <<>> /\ mem' = New(mem, kinds)
  BY DEF Running, Binds
<1>2. PICK m, l, f : m = mem /\ l = mem' /\ f = Top
  OBVIOUS
<1>3. /\ m \in Seq(MemBlock) /\ Len(m) \in Nat /\ l = New(m, kinds) /\ Len(kinds) \in Nat
      /\ f \in Frame(0 .. Len(m))
  BY <1>1, <1>2, TopOwned
<1>4. PICK temps : temps = IF auto THEN f.temps \o NewBlocks(m, kinds) ELSE f.temps
  OBVIOUS
<1>5. Takes(m, kinds, f.temps, temps)
  BY <1>4 DEF Takes, NoneReturned
<1>6. Continue(Bound(Top, temps, Top.subs, sym))
  <2>1. Bound(Top, temps, Top.subs, sym)
          = [Top EXCEPT !.n = Top.n + 1, !.temps = temps, !.syms = Append(Top.syms, sym)]
    BY <1>2, <1>3 DEF Frame, Bound
  <2>2. Continue([Top EXCEPT !.n = Top.n + 1, !.temps = temps, !.syms = Append(Top.syms, sym)])
    BY <1>2, <1>4 DEF Binds
  <2> QED BY <2>1, <2>2, Zenon
<1>7. Points(l, f, temps, sym)
  <2>1. CASE sym = 0
    BY <2>1 DEF Points
  <2>2. CASE \E a \in DOMAIN f.args : ArgBlocks(f)[a] = sym
    BY <2>2 DEF Points
  <2>3. CASE sym = Len(m) + 1 /\ Len(kinds) = 1 /\ auto
    <3>1. PICK S : f.temps \in Seq(S)
      BY <1>3, FieldsOf
    <3>2. Numbered(temps, f.temps, Len(kinds), Len(m))
      <4>1. AllReturned(kinds) /\ temps = f.temps \o NewBlocks(m, kinds)
        BY <1>4, <2>3
      <4> QED BY <1>3, <3>1, <4>1, TempsGrow
    <3>3. PICK n \in Nat : n = Len(f.temps)
      BY <3>1
    <3>4. DOMAIN temps = 1 .. n + 1 /\ temps[n + 1] = Len(m) + 1
      BY <2>3, <3>2, <3>3 DEF Numbered
    <3>5. n + 1 \in DOMAIN temps
      BY <3>3, <3>4
    <3> QED BY <2>3, <3>4, <3>5 DEF Points
  <2>4. CASE sym = Len(m) + 1 /\ Len(kinds) = 1 /\ Stays(kinds[1])
    <3>1. PICK kind : kind = kinds[1]
      OBVIOUS
    <3>2. l[Len(m) + 1] = [kind |-> kind, refs |-> 1]
      <4>1. 1 \in 1 .. Len(kinds)
        BY <2>4
      <4>2. \A i \in 1 .. Len(kinds) : l[Len(m) + i] = [kind |-> kinds[i], refs |-> 1]
        BY <1>3, NewAt
      <4> HIDE <2>4
      <4> QED BY <4>1, <4>2, <3>1
    <3>3. l[sym].kind = kind
      BY <2>4, <3>2
    <3>4. Stays(l[sym].kind)
      BY <2>4, <3>1, <3>3
    <3> QED BY <3>4, Zenon DEF Points, Stays
  <2> QED BY <1>2, <2>1, <2>2, <2>3, <2>4 DEF SymFits
<1>8. Extends(Top.subs, Top.subs, temps)
  BY DEF Extends
<1>9. Takes(mem, kinds, Top.temps, temps) /\ Points(mem', Top, temps, sym)
  BY <1>2, <1>5, <1>7
<1> QED BY <1>1, <1>6, <1>8, <1>9, LetMem

LEMMA KindsReturned ==
  /\ AllReturned(<<>>) /\ NoneReturned(<<>>) /\ <<>> \in Seq(Kinds)
  /\ AllReturned(<<"temp">>) /\ <<"temp">> \in Seq(Kinds) /\ Len(<<"temp">>) = 1
  /\ NoneReturned(<<"persistent">>) /\ <<"persistent">> \in Seq(Kinds)
  /\ Len(<<"persistent">>) = 1 /\ Stays(<<"persistent">>[1])
<1>0. Stays("persistent") /\ <<"persistent">>[1] = "persistent"
  <2>1. <<"persistent">>[1] = "persistent"
    OBVIOUS
  <2>2. Stays("persistent")
    BY Zenon DEF Stays
  <2> QED BY <2>1, <2>2
<1>1. "temp" \in Kinds \ NeverFreed /\ "persistent" \in Kinds \cap NeverFreed
  BY DEF Kinds, NeverFreed
<1> QED BY <1>0, <1>1 DEF AllReturned, NoneReturned

LEMMA NullArrayReturned ==
  /\ NoneReturned(<<"null array">>) /\ <<"null array">> \in Seq(Kinds)
  /\ Len(<<"null array">>) = 1 /\ Stays(<<"null array">>[1])
<1>1. PICK kind : kind = "null array" /\ kind \in Kinds \cap NeverFreed
  BY DEF Kinds, NeverFreed
<1>2. kind \in NeverFreed /\ kind \in Kinds
  BY <1>1
<1>3. <<kind>> \in Seq(Kinds) /\ Len(<<kind>>) = 1 /\ <<kind>>[1] = kind
  BY ONLY <1>2
<1>4. NoneReturned(<<kind>>)
  BY ONLY <1>2, <1>3 DEF NoneReturned
<1>5. Stays(kind)
  BY <1>1, Zenon DEF Stays
<1> QED BY <1>1, <1>3, <1>4, <1>5, Zenon

LEMMA LetsMem ==
  ASSUME IInv, IInv', MemoryOK, LetNone \/ LetNullArray \/ LetCalloc \/ LetCallback
  PROVE  MemoryOK'
<1>1. TRUE \in BOOLEAN /\ FALSE \in BOOLEAN
  OBVIOUS
<1>2. CASE Running("let") /\ kept' = kept /\ Binds(<<>>, FALSE, 0)
  <2>1. SymFits(mem, Top, <<>>, FALSE, 0)
    BY DEF SymFits
  <2> QED BY <1>1, <1>2, <2>1, KindsReturned, BindsMem
<1>3. CASE Running("let") /\ kept' = kept /\ Binds(<<"null array">>, FALSE, Len(mem) + 1)
  <2>1. SymFits(mem, Top, <<"null array">>, FALSE, Len(mem) + 1)
    BY NullArrayReturned DEF SymFits
  <2> QED BY <1>1, <1>3, <2>1, NullArrayReturned, BindsMem
<1>4. CASE Running("let") /\ kept' = kept /\ Binds(<<"temp">>, TRUE, Len(mem) + 1)
  <2>1. SymFits(mem, Top, <<"temp">>, TRUE, Len(mem) + 1)
    BY KindsReturned DEF SymFits
  <2> QED BY <1>1, <1>4, <2>1, KindsReturned, BindsMem
<1>5. CASE Running("let") /\ kept' = kept /\ Binds(<<"persistent">>, FALSE, Len(mem) + 1)
  <2>1. SymFits(mem, Top, <<"persistent">>, FALSE, Len(mem) + 1)
    BY KindsReturned DEF SymFits
  <2> QED BY <1>1, <1>5, <2>1, KindsReturned, BindsMem
<1> QED BY <1>2, <1>3, <1>4, <1>5
         DEF LetNone, LetNullArray, LetCalloc, LetCallback, LetRuns

LEMMA StrvalMem ==
  ASSUME IInv, IInv', MemoryOK, Running("let"), Top.n < Len(Im.lets),
         Let.kind \in {"strval", "pathval"}, Strval, kept' = kept
  PROVE  MemoryOK'
<1>1. TRUE \in BOOLEAN /\ FALSE \in BOOLEAN
  OBVIOUS
<1>2. CASE LetArg.type = "string" /\ Binds(<<>>, FALSE, LetArg.ival)
  <2>1. SymFits(mem, Top, <<>>, FALSE, LetArg.ival)
    <3>1. Let.arg \in DOMAIN Top.args
      <4>1. Top \in Frame(Block) /\ WellFormed(Top) /\ IsImpl(Im) /\ Top.phase = "let"
        BY TopFacts DEF Running
      <4>2. Top.n + 1 \in 1 .. Len(Im.lets)
        BY <4>1, ImplFacts DEF Frame
      <4>3. Let.arg \in 1 .. Len(Im.args)
        BY <4>1, <4>2, ImplFacts DEF Let
      <4>4. Top.args \in Seq(Arguments(Block)) /\ Let.arg \in 1 .. Len(Top.args)
        BY <4>1, <4>3, ImplFacts, SMTT(60) DEF WellFormed, Frame, Im
      <4> QED BY <4>4, LenProperties
    <3>2. ArgBlocks(Top)[Let.arg] = IF LetArg.ival # 0 THEN LetArg.ival ELSE 0
      BY <1>2, <3>1 DEF ArgBlocks, Releases, LetArg
    <3> QED BY <3>1, <3>2 DEF SymFits
  <2> QED BY <1>1, <1>2, <2>1, KindsReturned, BindsMem
<1>3. CASE Binds(<<"temp">>, TRUE, Len(mem) + 1)
  <2>1. SymFits(mem, Top, <<"temp">>, TRUE, Len(mem) + 1)
    BY KindsReturned DEF SymFits
  <2> QED BY <1>1, <1>3, <2>1, KindsReturned, BindsMem
<1> QED BY <1>2, <1>3 DEF Strval

LEMMA StringsMem ==
  ASSUME IInv, IInv', MemoryOK, LetStrval \/ LetPathval
  PROVE  MemoryOK'
<1>1. CASE LetStrval
  BY <1>1, StrvalMem DEF LetStrval, LetRuns
<1>2. CASE LetPathval
  <2>1. CASE Strval
    BY <1>2, <2>1, StrvalMem DEF LetPathval, LetRuns
  <2>2. CASE Binds(<<>>, FALSE, 0)
    <3>1. Running("let") /\ kept' = kept /\ FALSE \in BOOLEAN
      BY <1>2 DEF LetPathval, LetRuns
    <3>2. SymFits(mem, Top, <<>>, FALSE, 0)
      BY DEF SymFits
    <3> QED BY <2>2, <3>1, <3>2, KindsReturned, BindsMem
  <2> QED BY <1>2, <2>1, <2>2 DEF LetPathval
<1> QED BY <1>1, <1>2

LEMMA ArrvalMem ==
  ASSUME IInv, IInv', MemoryOK, LetArrval
  PROVE  MemoryOK'
<1>1. Running("let") /\ stack # <<>> /\ kept' = kept
  BY DEF LetArrval, LetRuns, Running
<1>2. CASE Binds(<<"temp">>, TRUE, Len(mem) + 1)
  <2>1. SymFits(mem, Top, <<"temp">>, TRUE, Len(mem) + 1)
    BY KindsReturned DEF SymFits
  <2>2. TRUE \in BOOLEAN
    OBVIOUS
  <2> QED BY <1>1, <1>2, <2>1, <2>2, KindsReturned, BindsMem
<1>3. CASE /\ mem' = New(mem, ArrvalBlocks(TRUE))
           /\ Continue([Top EXCEPT !.n = @ + 1,
                          !.temps = @ \o NewBlocks(mem, ArrvalBlocks(TRUE)),
                          !.subs = Append(@, Len(mem) + 1),
                          !.syms = Append(@, Len(mem) + 3)])
  <2>1. PICK kinds \in Seq(Kinds) : kinds = ArrvalBlocks(TRUE) /\ Len(kinds) = 3
    BY KindsOf
  <2>2. AllReturned(kinds)
    <3>1. PICK kind, other : /\ kind = "spec" /\ other = "temp"
                             /\ kind \notin NeverFreed /\ other \notin NeverFreed
      <4>1. "spec" \in Kinds \ NeverFreed /\ "temp" \in Kinds \ NeverFreed
        BY DEF Kinds, NeverFreed
      <4> QED BY <4>1, Zenon
    <3>2. kinds = <<kind, other, other>>
      BY <2>1, <3>1 DEF ArrvalBlocks
    <3>3. \A i \in 1 .. 3 : kinds[i] \in {kind, other}
      BY ONLY <3>2
    <3> QED BY <2>1, <3>1, <3>3 DEF AllReturned
  <2>3. PICK f, m : f = Top /\ m = mem /\ f \in Frame(0 .. Len(m)) /\ m \in Seq(MemBlock)
                    /\ Len(m) \in Nat
    BY <1>1, TopOwned
  <2>4. PICK temps : temps = f.temps \o NewBlocks(m, kinds)
    OBVIOUS
  <2>5. PICK subs : subs = Append(f.subs, Len(m) + 1)
    OBVIOUS
  <2>6. PICK S : f.temps \in Seq(S)
    BY <2>3, FieldsOf
  <2>7. Numbered(temps, f.temps, 3, Len(m))
    <3>1. Numbered(temps, f.temps, Len(kinds), Len(m))
      BY <2>2, <2>3, <2>4, <2>6, TempsGrow
    <3> QED BY <2>1, <3>1
  <2>8. PICK n \in Nat : n = Len(f.temps)
    BY <2>6
  <2>9. /\ n + 1 \in DOMAIN temps /\ n + 3 \in DOMAIN temps
        /\ temps[n + 1] = Len(m) + 1 /\ temps[n + 3] = Len(m) + 3
    <3>1. DOMAIN temps = 1 .. n + 3
      BY <2>7, <2>8 DEF Numbered
    <3>2. \A k \in 1 .. 3 : temps[n + k] = Len(m) + k
      BY <2>7, <2>8 DEF Numbered
    <3>3. temps[n + 1] = Len(m) + 1 /\ temps[n + 3] = Len(m) + 3
      BY <2>8, <3>2
    <3> QED BY <2>8, <3>1, <3>3
  <2>10. Extends(f.subs, subs, temps)
    BY <2>5, <2>9 DEF Extends
  <2>11. Points(mem', f, temps, Len(m) + 3)
    BY <2>9 DEF Points
  <2>12. Continue(Bound(f, temps, subs, Len(m) + 3))
    BY <1>3, <2>1, <2>3, <2>4, <2>5 DEF Bound
  <2>13. Takes(m, kinds, f.temps, temps)
    BY <2>2, <2>4 DEF Takes
  <2>14. mem' = New(mem, kinds) /\ Takes(mem, kinds, Top.temps, temps)
    BY <1>3, <2>1, <2>3, <2>13
  <2>15. /\ Extends(Top.subs, subs, temps) /\ Points(mem', Top, temps, Len(m) + 3)
         /\ Continue(Bound(Top, temps, subs, Len(m) + 3))
    BY <2>3, <2>10, <2>11, <2>12
  <2> QED BY <1>1, <2>14, <2>15, LetMem
<1> QED BY <1>2, <1>3 DEF LetArrval

-----------------------------------------------------------------------------

(* A frame that refers to what another did.                                *)
LEMMA OwnedAs ==
  ASSUME NEW m, NEW f, Owned(m, f), NEW g,
         g.slots = f.slots, g.args = f.args, g.temps = f.temps, g.subs = f.subs,
         g.syms = f.syms, g.ret = f.ret, OwnsOut(m, g), g.params # 0 => g.phase = "userland"
  PROVE  Owned(m, g)
<1>1. ArgBlocks(g) = ArgBlocks(f)
  BY DEF ArgBlocks
<1>2. \A b : Backed(m, f, b) => Backed(m, g, b)
  BY <1>1 DEF Backed
<1>3. \A i \in DOMAIN g.syms : Backed(m, g, g.syms[i])
  BY <1>2 DEF Owned
<1>4. \A a \in DOMAIN g.args : ArgBacked(m, g.args[a])
  <2>1. \A a \in DOMAIN f.args : ArgBacked(m, f.args[a])
    BY DEF Owned, ArgBacked
  <2> QED BY <2>1
<1>5. \A a \in DOMAIN g.slots : g.slots[a] # 0 => m[g.slots[a]].kind \in {"string", "variadic"}
  BY DEF Owned
<1>6. \A i \in DOMAIN g.subs : \E t \in DOMAIN g.temps : g.temps[t] = g.subs[i]
  BY DEF Owned
<1>7. g.ret # 0 => m[g.ret].kind = "return value"
  BY DEF Owned
<1> QED BY <1>3, <1>4, <1>5, <1>6, <1>7 DEF Owned, ArgBacked

\* Only a foreign buffer is not what it was.
Keeps(m, l) ==
  \A b \in 1 .. Len(m) :
    l[b].kind = m[b].kind \/ (m[b].kind = "foreign" /\ l[b].kind = "lost")

LEMMA OwnedKeeps ==
  ASSUME NEW m \in Seq(MemBlock), NEW l \in Seq(MemBlock), Keeps(m, l),
         NEW f \in Frame(0 .. Len(m)), Owned(m, f), f.out = 0
  PROVE  Owned(l, f)
<1>0. Len(m) \in Nat /\ \A b \in 0 .. Len(m) : b = 0 \/ b \in 1 .. Len(m)
  OBVIOUS
<1>1. \A a \in DOMAIN f.slots : f.slots[a] # 0 => l[f.slots[a]].kind \in {"string", "variadic"}
  BY <1>0, FieldsOf DEF Keeps, Owned
<1>3. \A a \in DOMAIN f.args : f.args[a].va =>
        f.args[a].ival = 0 \/ f.args[a].type = "string" \/ l[f.args[a].ival].kind = "variadic"
  <2> SUFFICES ASSUME NEW a \in DOMAIN f.args, f.args[a].va
               PROVE  \/ f.args[a].ival = 0 \/ f.args[a].type = "string"
                      \/ l[f.args[a].ival].kind = "variadic"
    OBVIOUS
  <2>1. PICK b : b = f.args[a].ival /\ b \in 0 .. Len(m)
    BY FieldsOf
  <2>2. b = 0 \/ f.args[a].type = "string" \/ m[b].kind = "variadic"
    BY <2>1 DEF Owned
  <2>3. b # 0 => l[b].kind = m[b].kind \/ m[b].kind = "foreign"
    BY <1>0, <2>1 DEF Keeps
  <2> QED BY <2>1, <2>2, <2>3
<1>4. \A i \in DOMAIN f.syms : Backed(l, f, f.syms[i])
  <2> SUFFICES ASSUME NEW i \in DOMAIN f.syms PROVE Backed(l, f, f.syms[i])
    OBVIOUS
  <2>1. PICK b : b = f.syms[i] /\ Backed(m, f, b) /\ b \in 0 .. Len(m)
    BY FieldsOf DEF Owned
  <2>2. Backed(l, f, b)
    BY <1>0, <2>1 DEF Backed, Keeps
  <2> QED BY <2>1, <2>2
<1>5. f.ret # 0 => l[f.ret].kind = "return value"
  BY <1>0, FieldsOf DEF Keeps, Owned
<1>6. f.params # 0 => f.phase = "userland"
  BY DEF Owned
<1>7. \A i \in DOMAIN f.subs : \E t \in DOMAIN f.temps : f.temps[t] = f.subs[i]
  BY DEF Owned
<1> QED BY <1>1, <1>3, <1>4, <1>5, <1>6, <1>7 DEF Owned, OwnsOut

LEMMA EvolvesNew ==
  ASSUME NEW m \in Seq(MemBlock), NEW kinds \in Seq(Kinds)
  PROVE  Evolves(m, New(m, kinds))
<1>1. PICK l : l = New(m, kinds)
  OBVIOUS
<1>2. Len(l) = Len(m) + Len(kinds) /\ Len(kinds) \in Nat /\ Len(m) \in Nat
  BY <1>1, NewMemory
<1>3. \A b \in 1 .. Len(m) : l[b] = m[b]
  BY <1>1, NewAt
<1> QED BY <1>1, <1>2, <1>3 DEF Evolves

LEMMA EvolvesRelease ==
  ASSUME NEW m \in Seq(MemBlock), NEW bs, IsFiniteSet(DOMAIN bs)
  PROVE  Evolves(m, Release(m, bs))
<1>1. PICK l : l = Release(m, bs)
  OBVIOUS
<1>2. Len(l) = Len(m) /\ Len(m) \in Nat
  BY <1>1, ReleasedMemory
<1>3. \A b \in 1 .. Len(m) : l[b].kind = m[b].kind
  BY <1>1, ReleaseAt
<1> QED BY <1>1, <1>2, <1>3 DEF Evolves

-----------------------------------------------------------------------------

(* The foreign function, and its buffer.                                   *)

LEMMA NativeReturnsMem ==
  ASSUME IInv, IInv', MemoryOK, NEW allocates \in BOOLEAN, NativeReturns(allocates)
  PROVE  MemoryOK'
<1>1. stack # <<>> /\ Top.phase = "native" /\ kept' = kept
  BY DEF NativeReturns, Running
<1>2. PICK m, l, f : m = mem /\ l = mem' /\ f = Top
  OBVIOUS
<1>3. /\ m \in Seq(MemBlock) /\ l \in Seq(MemBlock) /\ Len(m) \in Nat
      /\ f \in Frame(0 .. Len(m)) /\ Owned(m, f) /\ Tables(f) /\ f.phase = "native"
      /\ f.out = 0 /\ f.params = 0
  BY <1>1, <1>2, TopOwned, NoOut DEF IInv, TypeOK, Owned
<1>4. PICK out : out = IF allocates THEN Len(m) + 1 ELSE 0
  OBVIOUS
<1>5. PICK g : g = Ended(f, out)
  OBVIOUS
<1>6. Continue(g)
  BY <1>2, <1>4, <1>5 DEF NativeReturns, Ended
<1>7. /\ g.phase = "post" /\ g.out = out /\ g.params = 0
      /\ g.slots = f.slots /\ g.args = f.args /\ g.temps = f.temps /\ g.subs = f.subs
      /\ g.syms = f.syms /\ g.ret = f.ret
  BY <1>3, <1>5 DEF Frame, Ended
<1>8. Evolves(m, l) /\ BooksOne(m, l, out) /\ (out # 0 => l[out].kind = "foreign")
  <2>1. CASE allocates
    <3>1. "foreign" \in Kinds /\ "foreign" \notin NeverFreed
      BY DEF Kinds, NeverFreed
    <3>2. l = New(m, <<"foreign">>) /\ out = Len(m) + 1
      BY <1>2, <1>4, <2>1 DEF NativeReturns
    <3> QED BY <1>3, <3>1, <3>2, OneNew
  <2>2. CASE ~allocates
    <3>1. l = m /\ out = 0
      BY <1>2, <1>4, <2>2 DEF NativeReturns
    <3> QED BY <1>3, <3>1, EvolvesSame, OneSame
  <2> QED BY <2>1, <2>2
<1>9. Owned(l, f)
  BY <1>3, <1>8, OwnedEvolves
<1>10. Owned(l, g)
  <2>1. OwnsOut(l, g)
    BY <1>7, <1>8 DEF OwnsOut
  <2> QED BY <1>7, <1>9, <2>1, OwnedAs
<1>11. \A b \in Nat \ {0} : FrameCount(g, b) = FrameCount(f, b) + One(out, b)
  <2> TAKE b \in Nat \ {0}
  <2>1. ArgBlocks(g) = ArgBlocks(f) /\ DOMAIN ArgBlocks(f) = DOMAIN f.args
    BY <1>7 DEF ArgBlocks
  <2>2. PICK c : c = b
    OBVIOUS
  <2>3. /\ Count(f.slots, c) \in Nat /\ Count(ArgBlocks(f), c) \in Nat /\ Count(f.temps, c) \in Nat
        /\ One(out, c) \in Nat /\ One(0, c) = 0
    BY <1>3, <2>1, <2>2, CountNat DEF Tables, One
  <2>4. FrameCount(g, c) = FrameCount(f, c) + One(out, c)
    BY <1>3, <1>7, <2>1, <2>3 DEF FrameCount
  <2> QED BY <2>2, <2>4
<1>12. Books(m, f, l, g)
  BY <1>3, <1>8, <1>11, BooksBy
<1> QED BY <1>1, <1>2, <1>6, <1>8, <1>10, <1>12, TopTurn

(* The frames below have not had anything of a foreign function yet.       *)
LEMMA OthersOut ==
  ASSUME IInv, MemoryOK, NEW j \in DOMAIN stack \ {Len(stack)}
  PROVE  stack[j] \in Frame(0 .. Len(mem)) /\ Owned(mem, stack[j]) /\ stack[j].out = 0
<1>1. stack \in Seq(Frame(0 .. Len(mem))) /\ DOMAIN stack = 1 .. Len(stack) /\ Len(stack) \in Nat
  BY LenProperties DEF IInv, TypeOK, Block
<1>2. j \in 1 .. Len(stack) - 1
  BY <1>1
<1>3. stack[j].phase = "userland"
  BY <1>2 DEF IInv, BelowCallsBack
<1>4. stack[j] \in Frame(0 .. Len(mem)) /\ Owned(mem, stack[j])
  BY <1>1 DEF MemoryOK, MemOK
<1> QED BY <1>3, <1>4, NoOut

LEMMA FailedReturnMem ==
  ASSUME IInv, IInv', MemoryOK, Return, ~Top.ok
  PROVE  MemoryOK'
<1>1. stack # <<>> /\ Top.phase = "return" /\ kept' = kept /\ Len(stack) \in DOMAIN stack
  BY DEF Return, Running, IInv, TypeOK
<1>2. PICK m, l, f : m = mem /\ l = mem' /\ f = Top
  OBVIOUS
<1>3. /\ m \in Seq(MemBlock) /\ l \in Seq(MemBlock) /\ Len(m) \in Nat
      /\ f \in Frame(0 .. Len(m)) /\ Owned(m, f) /\ Tables(f) /\ f.phase = "return"
      /\ f.params = 0 /\ f.out \in 0 .. Len(m)
  BY <1>1, <1>2, TopOwned, FieldsOf DEF IInv, TypeOK, Owned
<1>4. PICK g : g = [f EXCEPT !.phase = "over", !.n = 0]
  OBVIOUS
<1>5. Continue(g)
  BY <1>2, <1>4 DEF Return, Enters
<1>6. /\ Alike(f, g) /\ g.phase = "over" /\ g.out = f.out /\ g.params = 0
  BY <1>3, <1>4 DEF Frame, Alike
<1>7. CASE f.out = 0
  <2>1. mem' = mem /\ OwnsOut(mem, g)
    BY <1>2, <1>6, <1>7 DEF Return, OwnsOut
  <2>2. Alike(Top, g) /\ Top.phase # "userland"
    BY <1>1, <1>2, <1>6
  <2> QED BY <1>1, <1>5, <2>1, <2>2, AlikeTurn
<1>8. CASE f.out # 0
  <2>1. PICK c \in 1 .. Len(m) : c = f.out
    BY <1>3, <1>8
  <2>2. m[c].kind = "foreign"
    BY <1>3, <1>8, <2>1 DEF Owned, OwnsOut
  <2>3. l = [m EXCEPT ![c].kind = "lost"]
    BY <1>2, <1>8, <2>1 DEF Return
  <2>4. l[c].kind = "lost" /\ \A b \in 1 .. Len(m) : b # c => l[b] = m[b]
    <3>1. l[c] = [m[c] EXCEPT !.kind = "lost"] /\ m[c] \in MemBlock
      BY <1>3, <2>1, <2>3
    <3> QED BY <1>3, <2>3, <3>1 DEF MemBlock
  <2>5. Keeps(m, l)
    BY <2>2, <2>4 DEF Keeps
  <2>6. ASSUME NEW j \in DOMAIN stack \ {Len(stack)}
        PROVE  Owned(mem', stack[j])
    <3>1. PICK e : e = stack[j]
      OBVIOUS
    <3>2. e \in Frame(0 .. Len(m)) /\ Owned(m, e) /\ e.out = 0
      BY <1>2, <3>1, OthersOut
    <3>3. Owned(l, e)
      BY <1>3, <2>5, <3>2, OwnedKeeps
    <3> QED BY <1>2, <3>1, <3>3
  <2>7. Owned(l, g)
    <3>1. PICK e : e = [f EXCEPT !.out = 0]
      OBVIOUS
    <3>2. /\ e.slots = f.slots /\ e.args = f.args /\ e.temps = f.temps /\ e.subs = f.subs
          /\ e.syms = f.syms /\ e.ret = f.ret /\ e.params = 0 /\ e.out = 0
      BY <1>3, <3>1 DEF Frame
    <3>3. e \in Frame(0 .. Len(m))
      <4>1. 0 \in 0 .. Len(m)
        BY <1>3
      <4> QED BY <1>3, <3>1, <4>1, ZenonT(40) DEF Frame
    <3>4. Owned(m, e)
      <4>1. OwnsOut(m, e)
        BY <3>2 DEF OwnsOut
      <4> QED BY <1>3, <3>2, <4>1, OwnedAs
    <3>5. Owned(l, e)
      BY <1>3, <2>5, <3>2, <3>3, <3>4, OwnedKeeps
    <3>6. OwnsOut(l, g)
      BY <1>6, <2>1, <2>4 DEF OwnsOut
    <3>7. /\ g.slots = e.slots /\ g.args = e.args /\ g.temps = e.temps /\ g.subs = e.subs
          /\ g.syms = e.syms /\ g.ret = e.ret
      BY <1>6, <3>2 DEF Alike
    <3> QED BY <1>6, <3>5, <3>6, <3>7, OwnedAs
  <2>8. Books(m, f, l, g)
    <3>1. \A b \in Nat \ {0} : FrameCount(g, b) = FrameCount(f, b)
      BY <1>6, AlikeCount
    <3> QED BY <1>3, <2>2, <2>3, <3>1, BooksMarked
  <2>9. stack' = [stack EXCEPT ![Len(stack)] = g] /\ f = stack[Len(stack)]
    BY <1>2, <1>5 DEF Continue, Top
  <2> QED BY <1>1, <1>2, <2>6, <2>7, <2>8, <2>9, FrameTurn
<1> QED BY <1>7, <1>8

-----------------------------------------------------------------------------

(* What PHP's variables hold: PHP assigns them, set statements write them. *)

LEMMA CountSingle ==
  ASSUME NEW x, NEW b
  PROVE  IsFiniteSet(DOMAIN <<x>>) /\ Count(<<x>>, b) = One(x, b)
<1>1. PICK t : t = <<x>> /\ DOMAIN t = {1} /\ t[1] = x
  <2>1. DOMAIN <<x>> = {1} /\ <<x>>[1] = x
    OBVIOUS
  <2> QED BY <2>1, Zenon
<1>2. PICK w : w = [k \in {} |-> x]
  OBVIOUS
<1>3. IsFiniteSet({}) /\ IsFiniteSet({1}) /\ DOMAIN w = {}
  BY <1>2, FS_EmptySet, FS_Singleton
<1>4. Count(w, b) = 0
  BY <1>3, CountNat
<1>5. Count(t, b) = Count(w, b) + One(t[1], b)
  BY <1>1, <1>3, CountExtend
<1>6. One(x, b) \in Nat
  BY DEF One
<1>7. Count(t, b) = One(x, b) /\ IsFiniteSet(DOMAIN t)
  BY <1>1, <1>3, <1>4, <1>5, <1>6
<1> QED BY <1>1, <1>7, Zenon

LEMMA SlotCount ==
  ASSUME NEW f, Tables(f), NEW a \in DOMAIN f.slots, NEW y, NEW g,
         g.slots = [f.slots EXCEPT ![a] = y],
         g.args = f.args, g.temps = f.temps, g.out = f.out, g.params = f.params, NEW b
  PROVE  /\ FrameCount(g, b) = FrameCount(f, b) - One(f.slots[a], b) + One(y, b)
         /\ Tables(g)
<1>1. PICK s, t : s = f.slots /\ t = g.slots
  OBVIOUS
<1>2. /\ DOMAIN t = DOMAIN s /\ a \in DOMAIN s /\ t[a] = y
      /\ \A k \in DOMAIN s \ {a} : t[k] = s[k]
  BY <1>1
<1>3. IsFiniteSet(DOMAIN s)
  BY <1>1 DEF Tables
<1>4. Count(t, b) = Count(s, b) - One(s[a], b) + One(t[a], b)
  BY <1>2, <1>3, CountReplace
<1>5. ArgBlocks(g) = ArgBlocks(f) /\ DOMAIN ArgBlocks(f) = DOMAIN f.args
  BY DEF ArgBlocks
<1>6. /\ Count(s, b) \in Nat /\ Count(ArgBlocks(f), b) \in Nat /\ Count(f.temps, b) \in Nat
      /\ One(f.out, b) \in Nat /\ One(f.params, b) \in Nat
      /\ One(s[a], b) \in Nat /\ One(y, b) \in Nat
  BY <1>3, <1>5, CountNat DEF Tables, One
<1>7. FrameCount(g, b) = FrameCount(f, b) - One(f.slots[a], b) + One(y, b)
  BY <1>1, <1>2, <1>4, <1>5, <1>6 DEF FrameCount
<1>8. Tables(g)
  BY <1>1, <1>2 DEF Tables
<1> QED BY <1>7, <1>8

LEMMA SlotStep ==
  ASSUME NEW m \in Seq(MemBlock), NEW l, NEW f \in Frame(0 .. Len(m)), Owned(m, f),
         NEW a \in DOMAIN f.slots,
         l = New(Release(m, <<f.slots[a]>>), <<"string">>),
         NEW g, g.slots = [f.slots EXCEPT ![a] = Len(m) + 1],
         g.args = f.args, g.temps = f.temps, g.subs = f.subs, g.syms = f.syms, g.ret = f.ret,
         g.out = f.out, g.params = f.params, g.phase = f.phase
  PROVE  Books(m, f, l, g) /\ Owned(l, g) /\ Evolves(m, l)
<1>1. PICK x, bs : x = f.slots[a] /\ bs = <<x>>
  OBVIOUS
<1>2. IsFiniteSet(DOMAIN bs) /\ \A b : Count(bs, b) = One(x, b)
  BY <1>1, CountSingle
<1>3. PICK r \in Seq(MemBlock) : r = Release(m, bs) /\ Len(r) = Len(m)
  BY <1>2, ReleasedMemory
<1>4. PICK kind : kind = "string" /\ kind \in Kinds /\ kind \notin NeverFreed
  <2>1. "string" \in Kinds /\ "string" \notin NeverFreed
    BY DEF Kinds, NeverFreed
  <2> QED BY <2>1, Zenon
<1>5. l = New(r, <<kind>>)
  BY <1>1, <1>3, <1>4
<1>6. /\ BooksOne(r, l, Len(r) + 1) /\ l \in Seq(MemBlock) /\ Evolves(r, l)
      /\ l[Len(m) + 1].kind = "string"
  BY <1>3, <1>4, <1>5, OneNew
<1>7. Evolves(m, r)
  BY <1>2, <1>3, EvolvesRelease
<1>8. Evolves(m, l)
  BY <1>3, <1>6, <1>7, EvolvesThen
<1>9. Owned(l, f)
  BY <1>6, <1>8, OwnedEvolves
<1>10. PICK e : e = [f EXCEPT !.slots = [f.slots EXCEPT ![a] = 0]]
  OBVIOUS
<1>11. /\ e.slots = [f.slots EXCEPT ![a] = 0]
       /\ e.args = f.args /\ e.temps = f.temps /\ e.out = f.out /\ e.params = f.params
  BY <1>10 DEF Frame
<1>12. Tables(f)
  BY FrameTables
<1>13. Tables(e) /\ \A b : FrameCount(e, b) = FrameCount(f, b) - One(x, b) + One(0, b)
  BY <1>1, <1>11, <1>12, SlotCount
<1>14. /\ Tables(g)
       /\ \A b : FrameCount(g, b) = FrameCount(f, b) - One(x, b) + One(Len(m) + 1, b)
  BY <1>1, <1>12, SlotCount
<1>15. \A b : FrameCount(f, b) \in Nat /\ One(x, b) \in Nat /\ One(Len(m) + 1, b) \in Nat
  BY <1>12, FrameCountNat DEF One
<1>16. \A b \in Nat \ {0} : One(0, b) = 0
  BY DEF One
<1>17. Books(m, f, r, e)
  <2>1. \A b \in Nat \ {0} : FrameCount(f, b) = FrameCount(e, b) + Count(bs, b)
    BY <1>2, <1>13, <1>15, <1>16
  <2> QED BY <1>2, <1>3, <1>12, <1>13, <2>1, BooksRelease
<1>18. Books(r, e, l, g)
  <2>1. \A b \in Nat \ {0} : FrameCount(g, b) = FrameCount(e, b) + One(Len(r) + 1, b)
    BY <1>3, <1>13, <1>14, <1>15, <1>16
  <2> QED BY <1>6, <1>13, <2>1, BooksBy
<1>19. Books(m, f, l, g)
  BY <1>12, <1>13, <1>14, <1>17, <1>18, BooksThen
<1>20. Owned(l, g)
  <2>1. \A b \in DOMAIN g.slots : g.slots[b] # 0 => l[g.slots[b]].kind \in {"string", "variadic"}
    <3>1. \A b \in DOMAIN f.slots : f.slots[b] # 0 => l[f.slots[b]].kind \in {"string", "variadic"}
      BY <1>9 DEF Owned
    <3>2. \A b \in DOMAIN g.slots : b \in DOMAIN f.slots /\ (g.slots[b] = Len(m) + 1 \/ g.slots[b] = f.slots[b])
      OBVIOUS
    <3> QED BY <1>6, <3>1, <3>2
  <2>3. ArgBlocks(g) = ArgBlocks(f)
    BY DEF ArgBlocks
  <2>4. \A b : Backed(l, f, b) => Backed(l, g, b)
    BY <2>3 DEF Backed
  <2>5. \A i \in DOMAIN g.syms : Backed(l, g, g.syms[i])
    BY <1>9, <2>4 DEF Owned
  <2>6. \A b \in DOMAIN g.args : ArgBacked(l, g.args[b])
    <3>1. \A b \in DOMAIN f.args : ArgBacked(l, f.args[b])
      BY <1>9 DEF Owned, ArgBacked
    <3> QED BY <3>1
  <2>7. \A i \in DOMAIN g.subs : \E t \in DOMAIN g.temps : g.temps[t] = g.subs[i]
    <3>1. \A i \in DOMAIN f.subs : \E t \in DOMAIN f.temps : f.temps[t] = f.subs[i]
      BY <1>9 DEF Owned
    <3>2. g.subs = f.subs /\ g.temps = f.temps
      OBVIOUS
    <3> QED BY ONLY <3>1, <3>2
  <2>8. g.ret # 0 => l[g.ret].kind = "return value"
    BY <1>9 DEF Owned
  <2>9. OwnsOut(l, g) /\ (g.params # 0 => g.phase = "userland")
    BY <1>9 DEF Owned, OwnsOut
  <2> QED BY <2>1, <2>5, <2>6, <2>7, <2>8, <2>9 DEF Owned, ArgBacked
<1> QED BY <1>8, <1>19, <1>20

LEMMA SetMem ==
  ASSUME IInv, IInv', MemoryOK, Set
  PROVE  MemoryOK'
<1> DEFINE arg == Top.args[Im.sets[Top.n + 1][1]]
<1>1. /\ stack # <<>> /\ Top.phase = "set" /\ kept' = kept
  BY DEF Set, Running
<1>2. PICK m, l, f : m = mem /\ l = mem' /\ f = Top
  OBVIOUS
<1>3. /\ m \in Seq(MemBlock) /\ l \in Seq(MemBlock) /\ Len(m) \in Nat
      /\ f \in Frame(0 .. Len(m)) /\ Owned(m, f) /\ f.phase = "set"
  BY <1>1, <1>2, TopOwned DEF IInv, TypeOK
<1>4. arg \in Arguments(Block) /\ arg.zv <= Len(Top.slots)
  <2>0. Top \in Frame(Block) /\ WellFormed(Top) /\ IsImpl(Im) /\ Top.n < Len(Im.sets)
    BY <1>1, TopFacts DEF Set
  <2>1. Len(Im.sets) \in Nat /\ Len(Im.args) \in Nat /\ Top.n \in Nat
    BY <2>0, ImplFacts DEF Frame
  <2>2. Top.n + 1 \in 1 .. Len(Im.sets)
    BY <2>0, <2>1
  <2>3. Im.sets[Top.n + 1][1] \in 1 .. Len(Im.args)
    BY <2>0, <2>2, ImplFacts, Zenon
  <2>4. Top.args \in Seq(Arguments(Block)) /\ Len(Top.args) \in Nat
    BY <2>0 DEF Frame
  <2>5. Len(Top.args) >= Len(Im.args)
    BY <1>1, <2>0 DEF WellFormed, Im
  <2>6. Im.sets[Top.n + 1][1] \in 1 .. Len(Top.args) /\ Top.args \in Seq(Arguments(Block))
    BY <2>3, <2>1, <2>4, <2>5
  <2> QED BY <2>0, <2>6, ElementOfSeq DEF WellFormed
<1> HIDE DEF arg
<1>5. CASE /\ arg.zv # 0
           /\ mem' = New(Release(mem, <<Top.slots[arg.zv]>>), <<"string">>)
           /\ Continue([Top EXCEPT !.n = @ + 1, !.slots[arg.zv] = Len(mem) + 1])
  <2>1. PICK a : a = arg.zv
    OBVIOUS
  <2>2. a \in DOMAIN f.slots
    <3>1. f.slots \in Seq(0 .. Len(m)) /\ a \in Nat
      BY <1>3, <1>4, <2>1, FieldsOf DEF Arguments
    <3> QED BY <1>2, <1>4, <1>5, <2>1, <3>1
  <2>3. PICK slots : slots = [f.slots EXCEPT ![a] = Len(m) + 1]
    OBVIOUS
  <2>4. PICK g : g = [f EXCEPT !.n = f.n + 1, !.slots = slots]
    OBVIOUS
  <2>5. Continue(g)
    BY <1>2, <1>5, <2>1, <2>3, <2>4
  <2>6. /\ g.slots = [f.slots EXCEPT ![a] = Len(m) + 1]
        /\ g.args = f.args /\ g.temps = f.temps /\ g.subs = f.subs /\ g.syms = f.syms
        /\ g.ret = f.ret /\ g.out = f.out /\ g.params = f.params /\ g.phase = f.phase
    BY <1>3, <2>3, <2>4 DEF Frame
  <2>7. l = New(Release(m, <<f.slots[a]>>), <<"string">>)
    BY <1>2, <1>5, <2>1
  <2>8. Books(m, f, l, g) /\ Owned(l, g) /\ Evolves(m, l)
    BY ONLY <1>3, <2>2, <2>6, <2>7, SlotStep
  <2> QED BY <1>1, <1>2, <2>5, <2>8, TopTurn
<1>6. CASE Continue([Top EXCEPT !.n = @ + 1]) /\ mem' = mem
  <2>1. PICK g : g = [f EXCEPT !.n = f.n + 1]
    OBVIOUS
  <2>2. Alike(f, g) /\ g.phase = f.phase
    BY <1>3, <2>1 DEF Frame, Alike
  <2>3. OwnsOut(m, g)
    BY <1>3, <2>2 DEF Owned, OwnsOut, Alike
  <2>4. Continue(g)
    BY <1>2, <1>6, <2>1
  <2>5. Top.phase # "userland" /\ UNCHANGED <<mem, kept>>
    BY <1>1, <1>6
  <2> QED BY <1>1, <1>2, <2>2, <2>3, <2>4, <2>5, AlikeTurn
<1> QED BY <1>5, <1>6 DEF Set, arg

LEMMA AssignMem ==
  ASSUME IInv, IInv', MemoryOK, NEW n, NEW a, Assign(n, a)
  PROVE  MemoryOK'
<1>1. /\ n \in DOMAIN stack /\ a \in DOMAIN stack[n].slots
      /\ mem' = New(Release(mem, <<stack[n].slots[a]>>), <<"string">>)
      /\ stack' = [stack EXCEPT ![n].assigned = TRUE, ![n].slots[a] = Len(mem) + 1]
      /\ kept' = kept
  BY DEF Assign
<1>2. PICK m, l, f : m = mem /\ l = mem' /\ f = stack[n]
  OBVIOUS
<1>3. stack \in Seq(Frame(0 .. Len(mem))) /\ mem \in Seq(MemBlock) /\ mem' \in Seq(MemBlock)
  BY DEF IInv, TypeOK, Block
<1>4. /\ m \in Seq(MemBlock) /\ l \in Seq(MemBlock) /\ Len(m) \in Nat
      /\ f \in Frame(0 .. Len(m)) /\ Owned(m, f)
  BY <1>1, <1>2, <1>3 DEF MemoryOK, MemOK
<1>5. PICK slots : slots = [f.slots EXCEPT ![a] = Len(m) + 1]
  OBVIOUS
<1>6. PICK g : g = [f EXCEPT !.assigned = TRUE, !.slots = slots]
  OBVIOUS
<1>7. stack' = [stack EXCEPT ![n] = g]
  BY <1>1, <1>2, <1>3, <1>5, <1>6
<1>8. /\ g.slots = [f.slots EXCEPT ![a] = Len(m) + 1]
      /\ g.args = f.args /\ g.temps = f.temps /\ g.subs = f.subs /\ g.syms = f.syms
      /\ g.ret = f.ret /\ g.out = f.out /\ g.params = f.params /\ g.phase = f.phase
  BY <1>4, <1>5, <1>6 DEF Frame
<1>9. a \in DOMAIN f.slots /\ l = New(Release(m, <<f.slots[a]>>), <<"string">>)
  BY <1>1, <1>2
<1>10. Books(m, f, l, g) /\ Owned(l, g) /\ Evolves(m, l)
  BY ONLY <1>4, <1>8, <1>9, SlotStep
<1>11. ASSUME NEW j \in DOMAIN stack \ {n}
       PROVE  Owned(mem', stack[j])
  <2>1. PICK e : e = stack[j]
    OBVIOUS
  <2>2. e \in Frame(0 .. Len(m)) /\ Owned(m, e)
    BY <1>2, <1>3, <2>1 DEF MemoryOK, MemOK
  <2>3. Owned(l, e)
    BY <1>4, <1>10, <2>2, OwnedEvolves
  <2> QED BY <1>2, <2>1, <2>3
<1>12. Books(mem, stack[n], mem', g) /\ Owned(mem', g)
  BY <1>2, <1>10
<1> QED BY <1>1, <1>7, <1>11, <1>12, FrameTurn

(* The foreign buffer is given back.                                       *)
LEMMA FreeMem ==
  ASSUME IInv, IInv', MemoryOK, Free
  PROVE  MemoryOK'
<1>1. /\ stack # <<>> /\ Top.phase = "set" /\ mem' = Release(mem, <<Top.out>>) /\ kept' = kept
      /\ Continue([Top EXCEPT !.phase = "over", !.out = 0])
  BY DEF Free, Running
<1>2. PICK m, l, f : m = mem /\ l = mem' /\ f = Top
  OBVIOUS
<1>3. /\ m \in Seq(MemBlock) /\ l \in Seq(MemBlock) /\ Len(m) \in Nat
      /\ f \in Frame(0 .. Len(m)) /\ Owned(m, f) /\ f.phase = "set" /\ Tables(f) /\ f.params = 0
  BY <1>1, <1>2, TopOwned DEF IInv, TypeOK, Owned
<1>4. PICK bs : bs = <<f.out>>
  OBVIOUS
<1>5. IsFiniteSet(DOMAIN bs) /\ \A b : Count(bs, b) = One(f.out, b)
  BY <1>4, CountSingle
<1>6. l = Release(m, bs) /\ Evolves(m, l)
  BY <1>1, <1>2, <1>3, <1>4, <1>5, EvolvesRelease
<1>7. PICK g : g = [f EXCEPT !.phase = "over", !.out = 0]
  OBVIOUS
<1>8. /\ g.slots = f.slots /\ g.args = f.args /\ g.temps = f.temps /\ g.subs = f.subs
      /\ g.syms = f.syms /\ g.ret = f.ret /\ g.params = 0 /\ g.out = 0
  BY <1>3, <1>7 DEF Frame
<1>9. Owned(l, g)
  <2>1. Owned(l, f)
    BY <1>3, <1>6, OwnedEvolves
  <2>2. OwnsOut(l, g)
    BY <1>8 DEF OwnsOut
  <2> QED BY <1>8, <2>1, <2>2, OwnedAs
<1>10. \A b \in Nat \ {0} : FrameCount(f, b) = FrameCount(g, b) + Count(bs, b)
  <2> TAKE b \in Nat \ {0}
  <2>1. ArgBlocks(g) = ArgBlocks(f) /\ DOMAIN ArgBlocks(f) = DOMAIN f.args
    BY <1>8 DEF ArgBlocks
  <2>2. PICK c : c = b
    OBVIOUS
  <2>3. /\ Count(f.slots, c) \in Nat /\ Count(ArgBlocks(f), c) \in Nat /\ Count(f.temps, c) \in Nat
        /\ One(f.out, c) \in Nat /\ One(0, c) = 0 /\ Count(bs, c) = One(f.out, c)
    BY <1>3, <1>5, <2>1, <2>2, CountNat DEF Tables, One
  <2>4. FrameCount(f, c) = FrameCount(g, c) + Count(bs, c)
    BY <1>3, <1>8, <2>1, <2>3 DEF FrameCount
  <2> QED BY <2>2, <2>4
<1>11. Tables(g)
  BY <1>3, <1>8 DEF Tables
<1>12. Books(m, f, l, g)
  BY <1>3, <1>5, <1>6, <1>10, <1>11, BooksRelease
<1>13. Continue(g)
  BY <1>1, <1>2, <1>7
<1> QED BY <1>1, <1>2, <1>6, <1>9, <1>12, <1>13, TopTurn

-----------------------------------------------------------------------------

(* psi_call_frame_do_callback: what a callback gets, and its answer.       *)

LEMMA BookedParameter ==
  ASSUME NEW m \in Seq(MemBlock), NEW l, l = Append(m, [kind |-> "parameter", refs |-> 2]),
         NEW b \in Nat \ {0}, NEW h \in Nat, Booked(m, b, h)
  PROVE  Booked(l, b, h + 2 * One(Len(m) + 1, b))
<1>1. PICK e : e = [kind |-> "parameter", refs |-> 2] /\ e.refs = 2 /\ e \in MemBlock
               /\ e.kind \notin NeverFreed /\ e.kind \notin Leaked
  <2>1. "parameter" \in Kinds /\ "parameter" \notin NeverFreed /\ "parameter" \notin Leaked
    BY DEF Kinds, NeverFreed, Leaked
  <2>2. PICK kind : kind = "parameter" /\ kind \in Kinds /\ kind \notin NeverFreed /\ kind \notin Leaked
    BY <2>1, Zenon
  <2>3. PICK e : e = [kind |-> kind, refs |-> 2]
    OBVIOUS
  <2>4. e.refs = 2 /\ e.kind = kind /\ e \in MemBlock
    BY ONLY <2>2, <2>3 DEF MemBlock
  <2> QED BY <2>2, <2>3, <2>4, Zenon
<1>2. /\ Len(m) \in Nat /\ Len(l) = Len(m) + 1 /\ l[Len(m) + 1] = e
      /\ \A c \in 1 .. Len(m) : l[c] = m[c]
  BY <1>1, AppendProperties
<1> HIDE <1>1
<1>3. CASE b \in 1 .. Len(m)
  <2>1. One(Len(m) + 1, b) = 0 /\ b \in 1 .. Len(l) /\ l[b] = m[b]
    BY <1>2, <1>3 DEF One
  <2> QED BY <1>3, <2>1 DEF Booked
<1>4. CASE b = Len(m) + 1
  <2>1. One(Len(m) + 1, b) = 1 /\ b \in 1 .. Len(l) /\ l[b] = e /\ h = 0
    BY <1>2, <1>4 DEF One, Booked
  <2>2. h + 2 * One(Len(m) + 1, b) = 2
    BY <2>1
  <2> QED BY <1>1, <2>1, <2>2 DEF Booked
<1>5. CASE b \notin 1 .. Len(m) /\ b # Len(m) + 1
  <2>1. One(Len(m) + 1, b) = 0 /\ b \notin 1 .. Len(l) /\ h = 0
    BY <1>2, <1>5 DEF One, Booked
  <2> QED BY <2>1 DEF Booked
<1> QED BY <1>3, <1>4, <1>5

LEMMA CallBackMem ==
  ASSUME IInv, IInv', MemoryOK, NEW l, CallBack(l)
  PROVE  MemoryOK'
<1>1. /\ stack # <<>> /\ Top.phase = "native" /\ kept' = kept
      /\ Continue(CalledBack(Top, current[Top.impl], l, Len(mem) + 1))
      /\ mem' = Append(mem, [kind |-> "parameter", refs |-> 2])
  BY DEF CallBack, Running, CalledBack
<1>2. PICK m, n, f : m = mem /\ n = mem' /\ f = Top
  OBVIOUS
<1>3. /\ m \in Seq(MemBlock) /\ n \in Seq(MemBlock) /\ Len(m) \in Nat
      /\ f \in Frame(0 .. Len(m)) /\ Owned(m, f) /\ f.phase = "native" /\ Tables(f)
      /\ f.params = 0 /\ f.out = 0
  BY <1>1, <1>2, TopOwned, NoOut DEF IInv, TypeOK, Owned
<1>4. PICK g : g = CalledBack(f, current[f.impl], l, Len(m) + 1)
  OBVIOUS
<1>5. Continue(g) /\ n = Append(m, [kind |-> "parameter", refs |-> 2])
  BY <1>1, <1>2, <1>4
<1>6. /\ g.slots = f.slots /\ g.args = f.args /\ g.temps = f.temps /\ g.subs = f.subs
      /\ g.syms = f.syms /\ g.ret = f.ret /\ g.params = Len(m) + 1 /\ g.out = 0
      /\ g.phase = "userland"
  BY <1>3, <1>4 DEF Frame, CalledBack
<1>7. Evolves(m, n)
  <2>1. PICK e : n = Append(m, e)
    BY <1>5
  <2>2. Len(n) = Len(m) + 1 /\ \A b \in 1 .. Len(m) : n[b] = m[b]
    BY <1>3, <2>1, AppendProperties
  <2> QED BY <1>3, <2>2 DEF Evolves
<1>8. Owned(n, g)
  <2>1. Owned(n, f)
    BY <1>3, <1>7, OwnedEvolves
  <2>2. OwnsOut(n, g)
    BY <1>6 DEF OwnsOut
  <2> QED BY <1>6, <2>1, <2>2, OwnedAs
<1>9. ASSUME NEW b \in Nat \ {0}
      PROVE  FrameCount(g, b) = FrameCount(f, b) + 2 * One(Len(m) + 1, b) /\ FrameCount(f, b) \in Nat
  <2>1. ArgBlocks(g) = ArgBlocks(f) /\ DOMAIN ArgBlocks(f) = DOMAIN f.args
    BY <1>6 DEF ArgBlocks
  <2>2. PICK c : c = b
    OBVIOUS
  <2>3. /\ Count(f.slots, c) \in Nat /\ Count(ArgBlocks(f), c) \in Nat /\ Count(f.temps, c) \in Nat
        /\ One(0, c) = 0 /\ One(Len(m) + 1, c) \in Nat
    BY <1>3, <2>1, <2>2, CountNat DEF Tables, One
  <2>4. /\ FrameCount(g, c) = FrameCount(f, c) + 2 * One(Len(m) + 1, c)
        /\ FrameCount(f, c) \in Nat
    BY <1>3, <1>6, <2>1, <2>3 DEF FrameCount
  <2> QED BY <2>2, <2>4
<1>10. Books(m, f, n, g)
  <2> SUFFICES ASSUME NEW b \in Nat \ {0}, NEW h \in Nat, Booked(m, b, h)
               PROVE  Booked(n, b, h - FrameCount(f, b) + FrameCount(g, b))
    BY DEF Books
  <2>1. One(Len(m) + 1, b) \in Nat
    BY DEF One
  <2>2. h - FrameCount(f, b) + FrameCount(g, b) = h + 2 * One(Len(m) + 1, b)
    BY <1>9, <2>1
  <2>3. Booked(n, b, h + 2 * One(Len(m) + 1, b))
    BY <1>3, <1>5, BookedParameter
  <2> QED BY <2>2, <2>3
<1> QED BY <1>1, <1>2, <1>5, <1>7, <1>8, <1>10, TopTurn

\* A symbol points where it did, or to a temporary.
SymsGrow(f, temps, syms) ==
  /\ DOMAIN syms = DOMAIN f.syms
  /\ \A i \in DOMAIN syms : syms[i] = f.syms[i] \/ \E t \in DOMAIN temps : temps[t] = syms[i]

LEMMA AnswerKinds ==
  \E kinds \in Seq(Kinds) :
    /\ kinds = CASE Im.convert = "strval" -> <<"temp">>
                 [] Im.convert = "arrval" -> ArrvalBlocks(Top.inner = 0)
                 [] OTHER -> <<>>
    /\ AllReturned(kinds)
    /\ Im.convert \in {"strval", "arrval"} => Len(kinds) >= 1
<1> DEFINE blocks == CASE Im.convert = "strval" -> <<"temp">>
                       [] Im.convert = "arrval" -> ArrvalBlocks(Top.inner = 0)
                       [] OTHER -> <<>>
<1>1. CASE Im.convert = "strval"
  <2>1. blocks = <<"temp">>
    BY <1>1
  <2>2. <<"temp">> \in Seq(Kinds) /\ Len(<<"temp">>) >= 1 /\ AllReturned(<<"temp">>)
    BY KindsReturned
  <2> QED BY <2>1, <2>2, Zenon
<1>2. CASE Im.convert = "arrval"
  <2>1. blocks = ArrvalBlocks(Top.inner = 0)
    BY <1>2
  <2>2. \A adding \in BOOLEAN : /\ ArrvalBlocks(adding) \in Seq(Kinds)
                                /\ Len(ArrvalBlocks(adding)) >= 1
                                /\ AllReturned(ArrvalBlocks(adding))
    <3>1. "spec" \in Kinds \ NeverFreed /\ "temp" \in Kinds \ NeverFreed
      BY DEF Kinds, NeverFreed
    <3>2. PICK kind, other : /\ kind = "spec" /\ other = "temp"
                             /\ kind \in Kinds \ NeverFreed /\ other \in Kinds \ NeverFreed
      BY <3>1, Zenon
    <3>3. ASSUME NEW adding \in BOOLEAN
          PROVE  ArrvalBlocks(adding) = IF adding THEN <<kind, other, other>> ELSE <<other, other>>
      BY <3>2 DEF ArrvalBlocks
    <3>4. PICK s : s = <<kind, other, other>>
      OBVIOUS
    <3>5. s \in Seq(Kinds) /\ Len(s) = 3 /\ \A i \in 1 .. 3 : s[i] \in {kind, other}
      BY ONLY <3>2, <3>4
    <3>6. PICK t : t = <<other, other>>
      OBVIOUS
    <3>7. t \in Seq(Kinds) /\ Len(t) = 2 /\ \A i \in 1 .. 2 : t[i] = other
      BY ONLY <3>2, <3>6
    <3>8. AllReturned(s) /\ AllReturned(t) /\ Len(s) >= 1 /\ Len(t) >= 1
      BY <3>2, <3>5, <3>7 DEF AllReturned
    <3> QED BY <3>3, <3>4, <3>5, <3>6, <3>7, <3>8
  <2>3. (Top.inner = 0) \in BOOLEAN
    OBVIOUS
  <2> QED BY <2>1, <2>2, <2>3, Zenon
<1>3. CASE Im.convert \notin {"strval", "arrval"}
  <2>1. blocks = <<>>
    BY <1>3
  <2> QED BY <1>3, <2>1, KindsReturned, Zenon
<1> QED BY <1>1, <1>2, <1>3, Zenon

LEMMA AnsweredParts ==
  ASSUME IInv, MemoryOK, stack # <<>>, Top.phase = "userland", NEW m \in Seq(MemBlock)
  PROVE  LET a == Answered(Len(stack), Top.via, m) IN
         \E kinds \in Seq(Kinds) : \E temps, subs, syms, inner :
           /\ a.m = New(m, kinds) /\ AllReturned(kinds)
           /\ temps = Top.temps \o NewBlocks(m, kinds)
           /\ Extends(Top.subs, subs, temps) /\ SymsGrow(Top, temps, syms)
           /\ a.f = Converted(Top, temps, subs, inner, syms)
<1>1. Top \in Frame(Block) /\ WellFormed(Top)
  BY TopFacts
<1>2. /\ Top.temps \in Seq(Block) /\ Top.subs \in Seq(Block) /\ Top.syms \in Seq(Block)
      /\ Top.via \in 1 .. Len(Top.syms)
  BY <1>1 DEF Frame, WellFormed
<1> DEFINE adds == Im.convert = "arrval" /\ Top.inner = 0
<1>3. PICK kinds \in Seq(Kinds) :
        /\ kinds = CASE Im.convert = "strval" -> <<"temp">>
                     [] Im.convert = "arrval" -> ArrvalBlocks(Top.inner = 0)
                     [] OTHER -> <<>>
        /\ AllReturned(kinds)
        /\ Im.convert \in {"strval", "arrval"} => Len(kinds) >= 1
  BY AnswerKinds
<1>4. (Im.convert = "strval" => Len(kinds) >= 1) /\ (adds => Len(kinds) >= 1)
  BY <1>3, Zenon
<1>5. AllReturned(kinds)
  BY <1>3, Zenon
<1>6. PICK f, temps : f = Top /\ temps = f.temps \o NewBlocks(m, kinds)
  OBVIOUS
<1>7. Numbered(temps, f.temps, Len(kinds), Len(m))
  <2>1. f.temps \in Seq(Block)
    BY <1>2, <1>6
  <2>2. PICK S : f.temps \in Seq(S)
    BY <2>1
  <2> QED BY ONLY <1>5, <1>6, <2>2, TempsGrow, m \in Seq(MemBlock), kinds \in Seq(Kinds)
<1>8. Len(kinds) >= 1 => \E t \in DOMAIN temps : temps[t] = Len(m) + 1
  <2>1. PICK n \in Nat, j \in Nat : n = Len(f.temps) /\ j = Len(kinds)
    BY <1>2, <1>6
  <2>2. DOMAIN temps = 1 .. n + j /\ \A k \in 1 .. j : temps[n + k] = Len(m) + k
    BY <1>7, <2>1 DEF Numbered
  <2>3. j >= 1 => n + 1 \in DOMAIN temps /\ temps[n + 1] = Len(m) + 1
    BY <2>1, <2>2
  <2> QED BY <2>1, <2>3
<1>9. PICK subs : subs = IF adds THEN Append(Top.subs, Len(m) + 1) ELSE Top.subs
  OBVIOUS
<1>10. Extends(Top.subs, subs, temps)
  <2>1. CASE adds
    <3>1. PICK t \in DOMAIN temps : temps[t] = Len(m) + 1
      BY <1>4, <1>8, <2>1, Zenon
    <3>2. subs = Append(Top.subs, temps[t])
      BY <1>9, <2>1, <3>1, Zenon
    <3> QED BY <3>2 DEF Extends
  <2>2. CASE ~adds
    BY <1>9, <2>2, Zenon DEF Extends
  <2> QED BY <2>1, <2>2
<1>11. PICK inner : inner = IF adds THEN Top.backs ELSE Top.inner
  OBVIOUS
<1>12. PICK b : b = IF Im.convert = "strval" THEN Len(m) + 1 ELSE Top.syms[Top.via]
  OBVIOUS
<1>13. PICK syms : syms = [Top.syms EXCEPT ![Top.via] = b]
  OBVIOUS
<1>14. SymsGrow(Top, temps, syms)
  <2>1. DOMAIN syms = DOMAIN Top.syms
    BY <1>13
  <2>2. b = Top.syms[Top.via] \/ \E t \in DOMAIN temps : temps[t] = b
    BY <1>4, <1>8, <1>12, Zenon
  <2>3. \A i \in DOMAIN syms : syms[i] = Top.syms[i] \/ (i = Top.via /\ syms[i] = b)
    BY <1>13
  <2> QED BY <2>1, <2>2, <2>3 DEF SymsGrow
<1>15. Answered(Len(stack), Top.via, m).m = New(m, kinds)
  BY <1>3 DEF Answered, Top
<1>16. Answered(Len(stack), Top.via, m).f = Converted(Top, temps, subs, inner, syms)
  BY <1>3, <1>6, <1>9, <1>11, <1>12, <1>13 DEF Answered, Top, Converted
<1> QED BY <1>5, <1>6, <1>10, <1>14, <1>15, <1>16, Zenon

LEMMA SubsGrow ==
  ASSUME NEW m, NEW B, NEW f \in Frame(B), Owned(m, f), NEW temps, NEW subs,
         Extends(f.subs, subs, temps),
         \A i \in DOMAIN f.temps : i \in DOMAIN temps /\ temps[i] = f.temps[i]
  PROVE  \A i \in DOMAIN subs : \E t \in DOMAIN temps : temps[t] = subs[i]
<1>1. \A i \in DOMAIN f.subs : \E t \in DOMAIN temps : temps[t] = f.subs[i]
  <2>1. \A i \in DOMAIN f.subs : \E t \in DOMAIN f.temps : f.temps[t] = f.subs[i]
    BY DEF Owned
  <2> QED BY ONLY <2>1, \A i \in DOMAIN f.temps : i \in DOMAIN temps /\ temps[i] = f.temps[i]
<1>2. ASSUME NEW j \in DOMAIN temps, subs = Append(f.subs, temps[j])
      PROVE  \A i \in DOMAIN subs : \E t \in DOMAIN temps : temps[t] = subs[i]
  <2>1. PICK e : e = temps[j]
    OBVIOUS
  <2>2. \A i \in DOMAIN subs : subs[i] = e \/ (i \in DOMAIN f.subs /\ subs[i] = f.subs[i])
    BY <1>2, <2>1, FieldsOf, AppendAt
  <2> QED BY <1>1, <2>1, <2>2
<1>3. subs = f.subs \/ \E j \in DOMAIN temps : subs = Append(f.subs, temps[j])
  BY DEF Extends
<1>4. CASE subs = f.subs
  BY ONLY <1>4, <1>1
<1>5. CASE \E j \in DOMAIN temps : subs = Append(f.subs, temps[j])
  BY ONLY <1>5, <1>2
<1> QED BY ONLY <1>3, <1>4, <1>5

LEMMA ConvertedOwned ==
  ASSUME NEW l, NEW B, NEW f \in Frame(B), Owned(l, f), NEW temps, NEW subs, NEW syms, NEW inner,
         Extends(f.subs, subs, temps), SymsGrow(f, temps, syms),
         \A i \in DOMAIN f.temps : i \in DOMAIN temps /\ temps[i] = f.temps[i],
         NEW e, e = Converted(f, temps, subs, inner, syms)
  PROVE  /\ Owned(l, e)
         /\ e.slots = f.slots /\ e.args = f.args /\ e.out = f.out /\ e.params = f.params
         /\ e.ret = f.ret /\ e.phase = f.phase /\ e.temps = temps /\ e.subs = subs /\ e.syms = syms
<1>1. /\ e.slots = f.slots /\ e.args = f.args /\ e.out = f.out /\ e.params = f.params
      /\ e.ret = f.ret /\ e.phase = f.phase /\ e.temps = temps /\ e.subs = subs /\ e.syms = syms
  BY DEF Converted, Frame
<1>2. \A i \in DOMAIN e.subs : \E t \in DOMAIN e.temps : e.temps[t] = e.subs[i]
  BY <1>1, SubsGrow
<1>3. \A i \in DOMAIN e.syms : Backed(l, e, e.syms[i])
  <2>1. \A i \in DOMAIN f.syms : Backed(l, e, f.syms[i])
    <3> TAKE i \in DOMAIN f.syms
    <3>1. PICK b : b = f.syms[i] /\ Backed(l, f, b)
      BY DEF Owned
    <3>2. \A t \in DOMAIN f.temps : \E u \in DOMAIN e.temps : e.temps[u] = f.temps[t]
      BY <1>1
    <3>3. Backed(l, e, b)
      BY <1>1, <3>1, <3>2, BackedGrows
    <3> QED BY <3>1, <3>3
  <2>2. ASSUME NEW b, \E t \in DOMAIN temps : temps[t] = b
        PROVE  Backed(l, e, b)
    BY <1>1, <2>2 DEF Backed
  <2>3. DOMAIN syms = DOMAIN f.syms
    BY DEF SymsGrow
  <2>4. ASSUME NEW i \in DOMAIN syms
        PROVE  Backed(l, e, syms[i])
    <3>1. syms[i] = f.syms[i] \/ \E t \in DOMAIN temps : temps[t] = syms[i]
      BY DEF SymsGrow
    <3> QED BY <2>1, <2>2, <2>3, <3>1
  <2> QED BY <1>1, <2>4
<1>4. Owned(l, e)
  BY ONLY Owned(l, f), <1>1, <1>2, <1>3, GrownOwned
<1> QED BY <1>1, <1>4

LEMMA CountPair ==
  ASSUME NEW x, NEW b
  PROVE  IsFiniteSet(DOMAIN <<x, x>>) /\ Count(<<x, x>>, b) = 2 * One(x, b)
<1>1. PICK t : t = <<x, x>> /\ DOMAIN t = {1, 2} /\ t[1] = x /\ t[2] = x
  <2>1. DOMAIN <<x, x>> = {1, 2} /\ <<x, x>>[1] = x /\ <<x, x>>[2] = x
    OBVIOUS
  <2> QED BY <2>1, Zenon
<1>2. PICK w : w = <<x>>
  OBVIOUS
<1>3. IsFiniteSet(DOMAIN w) /\ Count(w, b) = One(x, b)
  BY <1>2, CountSingle
<1>4. DOMAIN w = {1} /\ w[1] = x
  BY <1>2
<1>5. 2 \notin DOMAIN w /\ DOMAIN t = DOMAIN w \cup {2} /\ \A k \in DOMAIN w : t[k] = w[k]
  BY <1>1, <1>4
<1>6. Count(t, b) = Count(w, b) + One(t[2], b)
  BY <1>3, <1>5, CountExtend
<1>7. IsFiniteSet(DOMAIN t)
  BY <1>3, <1>5, FS_AddElement
<1>8. One(x, b) \in Nat
  BY DEF One
<1>9. Count(t, b) = 2 * One(x, b)
  BY <1>1, <1>3, <1>6, <1>8
<1> QED BY <1>1, <1>7, <1>9, Zenon

\* What the answer is made into, and the parameters that are freed.
LEMMA AnswerBooks ==
  ASSUME NEW m \in Seq(MemBlock), NEW f \in Frame(0 .. Len(m)),
         NEW n \in Seq(MemBlock), BooksOne(m, n, 0), Evolves(m, n),
         NEW kinds \in Seq(Kinds), AllReturned(kinds),
         NEW e, e.slots = f.slots, e.args = f.args, e.out = f.out, e.params = f.params,
         e.temps = f.temps \o NewBlocks(n, kinds),
         NEW g, g.slots = e.slots, g.args = e.args, g.out = e.out, g.temps = e.temps, g.params = 0,
         NEW l, l = Release(New(n, kinds), <<e.params, e.params>>)
  PROVE  Books(m, f, l, g) /\ Evolves(m, l)
<1>1. Tables(f)
  BY FrameTables
<1>2. Books(m, f, n, f)
  <2>1. \A b \in Nat \ {0} : FrameCount(f, b) = FrameCount(f, b) + One(0, b)
    <3> TAKE b \in Nat \ {0}
    <3>1. FrameCount(f, b) \in Nat /\ One(0, b) = 0
      BY <1>1, FrameCountNat DEF One
    <3> QED BY <3>1
  <2> QED BY <1>1, <2>1, BooksBy
<1>3. PICK r \in Seq(MemBlock) : r = New(n, kinds)
  BY NewMemory
<1>4. PICK S, s : s = f.temps /\ s \in Seq(S)
  <2>1. f.temps \in Seq(0 .. Len(m))
    BY FieldsOf
  <2> QED BY <2>1
<1>5. PICK t : t = e.temps /\ t = s \o NewBlocks(n, kinds)
  BY <1>4
<1>6. /\ \A b \in Nat \ {0} : Count(t, b) = Count(s, b) + Fresh(n, kinds, b)
      /\ Numbered(t, s, Len(kinds), Len(n))
  <2>1. s \in Seq(S)
    BY <1>4
  <2> QED BY ONLY n \in Seq(MemBlock), kinds \in Seq(Kinds), AllReturned(kinds), <2>1, <1>5, TempsGrow
<1>7. Tables(e)
  <2>1. PICK j \in Nat : j = Len(s) + Len(kinds)
    BY <1>4
  <2>2. DOMAIN t = 1 .. j
    BY <1>6, <2>1 DEF Numbered
  <2>3. IsFiniteSet(DOMAIN t)
    BY <2>2, FS_Interval
  <2> QED BY <1>1, <1>5, <2>3 DEF Tables
<1>8. Books(n, f, r, e)
  <2>1. ASSUME NEW b \in Nat \ {0}
        PROVE  FrameCount(e, b) = FrameCount(f, b) + Fresh(n, kinds, b)
    <3>1. Fresh(n, kinds, b) \in Nat
      BY DEF Fresh
    <3>2. PICK c, x \in Nat : c = b /\ x = Fresh(n, kinds, b)
      BY <3>1
    <3>3. Count(e.temps, c) = Count(f.temps, c) + x
      BY <1>4, <1>5, <1>6, <3>2
    <3>4. FrameCount(e, c) = FrameCount(f, c) + x
      <4>1. e.slots = f.slots /\ e.args = f.args /\ e.out = f.out /\ e.params = f.params
        OBVIOUS
      <4>2. x \in Nat
        OBVIOUS
      <4> QED BY ONLY <1>1, <3>3, <4>1, <4>2, TempsCount
    <3> QED BY <3>2, <3>4
  <2> QED BY <1>1, <1>3, <2>1, BooksNew
<1>9. PICK bs : bs = <<e.params, e.params>>
  OBVIOUS
<1>10. IsFiniteSet(DOMAIN bs) /\ \A b : Count(bs, b) = 2 * One(e.params, b)
  BY <1>9, CountPair
<1>11. Tables(g)
  BY <1>7 DEF Tables
<1>12. Books(r, e, l, g)
  <2>1. ASSUME NEW b \in Nat \ {0}
        PROVE  FrameCount(e, b) = FrameCount(g, b) + Count(bs, b)
    <3>1. ArgBlocks(g) = ArgBlocks(e) /\ DOMAIN ArgBlocks(e) = DOMAIN e.args
      BY DEF ArgBlocks
    <3>2. PICK c : c = b
      OBVIOUS
    <3>3. /\ Count(e.slots, c) \in Nat /\ Count(ArgBlocks(e), c) \in Nat /\ Count(e.temps, c) \in Nat
          /\ One(e.out, c) \in Nat /\ One(0, c) = 0 /\ One(e.params, c) \in Nat
          /\ Count(bs, c) = 2 * One(e.params, c)
      BY <1>7, <1>10, <3>1, <3>2, CountNat DEF Tables, One
    <3>4. FrameCount(e, c) = FrameCount(g, c) + Count(bs, c)
      BY <3>1, <3>3 DEF FrameCount
    <3> QED BY <3>2, <3>4
  <2>2. l = Release(r, bs)
    BY <1>3, <1>9
  <2> QED BY <1>3, <1>7, <1>10, <1>11, <2>1, <2>2, BooksRelease
<1>13. Books(m, f, r, e)
  BY <1>1, <1>2, <1>7, <1>8, BooksThen
<1>14. Books(m, f, l, g)
  BY <1>1, <1>7, <1>11, <1>12, <1>13, BooksThen
<1>15. Evolves(m, l)
  <2>1. Evolves(n, r)
    BY <1>3, EvolvesNew
  <2>2. l \in Seq(MemBlock) /\ Evolves(r, l)
    BY <1>3, <1>9, <1>10, EvolvesRelease, ReleasedMemory
  <2>3. Evolves(m, r)
    BY <1>3, <2>1, EvolvesThen
  <2> QED BY <1>3, <2>2, <2>3, EvolvesThen
<1> QED BY <1>14, <1>15

\* A scope forgets what static implementations left in it.
LEMMA ForgetsMem ==
  ASSUME NEW m \in Seq(MemBlock), NEW s, FiniteFrames(s), NEW k, FiniteScopes(k),
         NEW scope \in DOMAIN k, NEW x, x = [k EXCEPT ![scope] = [i \in Impls |-> <<>>]],
         Counted(m, s, k)
  PROVE  /\ FiniteScopes(x)
         /\ Counted(Release(m, KeptTable(k, scope)), s, x)
<1>1. DOMAIN x = DOMAIN k /\ \A j \in DOMAIN k \ {scope} : x[j] = k[j]
  OBVIOUS
<1>2. DOMAIN KeptTable(x, scope) = {}
  <2>1. \A i \in Impls : DOMAIN x[scope][i] = {}
    OBVIOUS
  <2> QED BY <2>1 DEF KeptTable
<1>3. FiniteScopes(x)
  <2>1. \A j \in DOMAIN k \ {scope} : DOMAIN KeptTable(x, j) = DOMAIN KeptTable(k, j)
    BY <1>1 DEF KeptTable
  <2>2. IsFiniteSet({})
    BY FS_EmptySet
  <2> QED BY <1>1, <1>2, <2>1, <2>2 DEF FiniteScopes
<1>4. ASSUME NEW b \in Nat \ {0}
      PROVE  Booked(Release(m, KeptTable(k, scope)), b, Held(s, x, b))
  <2>1. PICK c : c = b
    OBVIOUS
  <2>2. /\ Held(s, x, c) = Held(s, k, c) - Count(KeptTable(k, scope), c) + Count(KeptTable(x, scope), c)
        /\ Count(KeptTable(k, scope), c) \in Nat /\ Count(KeptTable(k, scope), c) <= Held(s, k, c)
    <3>1. /\ FiniteFrames(s) /\ FiniteScopes(k) /\ FiniteScopes(x)
          /\ scope \in DOMAIN k /\ DOMAIN x = DOMAIN k
          /\ \A i \in DOMAIN k \ {scope} : x[i] = k[i]
      BY <1>1, <1>3
    <3> QED BY ONLY <3>1, HeldKept
  <2>3. Count(KeptTable(x, scope), c) = 0
    BY <1>2, CountNat, FS_EmptySet
  <2>4. Held(s, k, c) \in Nat
    BY HeldSum
  <2>5. Held(s, x, c) = Held(s, k, c) - Count(KeptTable(k, scope), c)
    BY <2>2, <2>3, <2>4
  <2>6. Booked(m, b, Held(s, k, b))
    BY DEF Counted
  <2>7. IsFiniteSet(DOMAIN KeptTable(k, scope))
    BY DEF FiniteScopes
  <2>8. PICK bs : bs = KeptTable(k, scope)
    OBVIOUS
  <2>10. PICK h \in Nat : h = Held(s, k, b)
    BY <2>1, <2>4
  <2>9. Booked(Release(m, bs), b, h - Count(bs, b))
    BY <2>1, <2>2, <2>6, <2>7, <2>8, <2>10, BookedRelease
  <2> QED BY <2>1, <2>5, <2>8, <2>9, <2>10
<1> QED BY <1>3, <1>4 DEF Counted

\* The userland function's scope ends, and its answer is converted.
LEMMA UserlandReturnsMem ==
  ASSUME IInv, IInv', MemoryOK, NEW throws \in BOOLEAN, UserlandReturns(throws)
  PROVE  MemoryOK'
<1> DEFINE released == Release(mem, KeptIn(Len(stack)))
           got == IF exception \/ throws \/ Im.convert = "intval" THEN released
                  ELSE New(released, <<"answer">>)
<1>1. /\ stack # <<>> /\ Top.phase = "userland" /\ Forgets(Len(stack))
      /\ mem' = Release(Answered(Top.home, Top.via, got).m, <<Top.params, Top.params>>)
      /\ stack' = [[stack EXCEPT ![Top.home] = Answered(Top.home, Top.via, got).f] EXCEPT
                     ![Len(stack)].phase = "native", ![Len(stack)].params = 0,
                     ![Len(stack)].home = 0, ![Len(stack)].via = 0]
  BY DEF UserlandReturns, Running
<1>2. Len(stack) \in 1 .. MaxDepth /\ Top.home = Len(stack) /\ Top = stack[Len(stack)]
  BY <1>1, TopFacts DEF Top
<1>3. /\ mem \in Seq(MemBlock) /\ mem' \in Seq(MemBlock)
      /\ stack \in Seq(Frame(0 .. Len(mem))) /\ stack' \in Seq(Frame(0 .. Len(mem')))
      /\ kept \in [0 .. MaxDepth -> [Impls -> Seq(0 .. Len(mem))]]
      /\ kept' \in [0 .. MaxDepth -> [Impls -> Seq(0 .. Len(mem'))]]
  BY DEF IInv, TypeOK, Block
<1>4. PICK m, s, k, scope : m = mem /\ s = stack /\ k = kept /\ scope = Len(stack)
  OBVIOUS
<1>5. /\ m \in Seq(MemBlock) /\ Len(m) \in Nat
      /\ FiniteFrames(s) /\ FiniteScopes(k) /\ \A j \in DOMAIN s : s[j] \in Frame(0 .. Len(m))
      /\ scope \in DOMAIN s /\ scope \in DOMAIN k /\ MemOK(m, s, k)
  <2>1. /\ m \in Seq(MemBlock) /\ s \in Seq(Frame(0 .. Len(m)))
        /\ k \in [0 .. MaxDepth -> [Impls -> Seq(0 .. Len(m))]]
    BY <1>3, <1>4
  <2>2. /\ FiniteFrames(s) /\ FiniteScopes(k) /\ DOMAIN s = 1 .. Len(s)
        /\ \A j \in DOMAIN s : s[j] \in Frame(0 .. Len(m))
    BY <2>1, TypedTables
  <2>3. scope \in DOMAIN s /\ scope \in DOMAIN k
    BY <1>2, <1>4, <2>1, <2>2, BoundsNat
  <2> QED BY <1>4, <2>1, <2>2, <2>3 DEF MemoryOK
<1>6. PICK left : left = Release(m, KeptTable(k, scope))
  OBVIOUS
<1>7. released = left
  BY <1>4, <1>6 DEF KeptIn, KeptTable
<1>8. left \in Seq(MemBlock) /\ Len(left) = Len(m) /\ Evolves(m, left)
  <2>1. IsFiniteSet(DOMAIN KeptTable(k, scope))
    BY <1>5 DEF FiniteScopes
  <2>2. PICK bs : bs = KeptTable(k, scope) /\ IsFiniteSet(DOMAIN bs)
    BY <2>1
  <2> QED BY <1>5, <1>6, <2>2, ReleasedMemory, EvolvesRelease
<1>9. PICK x : x = [k EXCEPT ![scope] = [i \in Impls |-> <<>>]]
  OBVIOUS
<1>10. x = kept'
  BY <1>1, <1>4, <1>9 DEF Forgets
<1>11. FiniteScopes(x) /\ MemOK(left, s, x)
  <2>1. FiniteScopes(x) /\ Counted(left, s, x)
    BY <1>5, <1>6, <1>9, ForgetsMem DEF MemOK
  <2>2. ASSUME NEW j \in DOMAIN s
        PROVE  Owned(left, s[j])
    <3>1. PICK g : g = s[j] /\ g \in Frame(0 .. Len(m)) /\ Owned(m, g)
      BY <1>5 DEF MemOK
    <3>2. Owned(left, g)
      BY <1>5, <1>8, <3>1, OwnedEvolves
    <3> QED BY <3>1, <3>2
  <2> QED BY <2>1, <2>2 DEF MemOK
<1> HIDE DEF released
<1>12. PICK n : n = got
  OBVIOUS
<1>13. n \in Seq(MemBlock) /\ BooksOne(left, n, 0) /\ Evolves(left, n)
  <2>1. CASE n = left
    <3>1. Len(left) \in Nat
      BY <1>5, <1>8
    <3> QED BY <1>8, <2>1, <3>1, OneSame, EvolvesSame
  <2>2. CASE n = New(left, <<"answer">>)
    <3>1. "answer" \in Kinds /\ "answer" \in NeverFreed
      <4>1. "answer" \in Kinds
        BY DEF Kinds
      <4>2. "answer" \in NeverFreed
        BY Zenon DEF NeverFreed
      <4> QED BY <4>1, <4>2
    <3>2. PICK kind \in Kinds : kind = "answer" /\ kind \in NeverFreed
      BY <3>1, Zenon
    <3>3. /\ BooksOne(left, New(left, <<kind>>), 0) /\ New(left, <<kind>>) \in Seq(MemBlock)
          /\ Evolves(left, New(left, <<kind>>))
      BY <1>8, <3>2, OneNew
    <3> QED BY <2>2, <3>2, <3>3, Zenon
  <2> QED BY <1>7, <1>12, <2>1, <2>2, Zenon
<1> HIDE DEF got
<1> DEFINE a == Answered(Len(stack), Top.via, n)
<1>14. PICK kinds, temps, subs, syms, inner :
         /\ kinds \in Seq(Kinds)
         /\ a.m = New(n, kinds) /\ AllReturned(kinds)
         /\ temps = Top.temps \o NewBlocks(n, kinds)
         /\ Extends(Top.subs, subs, temps) /\ SymsGrow(Top, temps, syms)
         /\ a.f = Converted(Top, temps, subs, inner, syms)
  <2>1. \E kinds \in Seq(Kinds) : \E temps, subs, syms, inner :
           /\ a.m = New(n, kinds) /\ AllReturned(kinds)
           /\ temps = Top.temps \o NewBlocks(n, kinds)
           /\ Extends(Top.subs, subs, temps) /\ SymsGrow(Top, temps, syms)
           /\ a.f = Converted(Top, temps, subs, inner, syms)
    BY <1>1, <1>13, AnsweredParts
  <2> QED BY <2>1, Zenon
<1>15. PICK f : f = Top
  OBVIOUS
<1>16. f = s[scope] /\ f \in Frame(0 .. Len(m)) /\ f.phase = "userland"
  BY <1>1, <1>2, <1>4, <1>5, <1>15
<1>17. PICK e : e = Converted(f, temps, subs, inner, syms)
  OBVIOUS
<1>18. PICK g : g = Returned(f, temps, subs, inner, syms)
  OBVIOUS
<1>19. stack' = [stack EXCEPT ![Len(stack)] = g]
  <2>1. stack' = [[stack EXCEPT ![Len(stack)] = a.f] EXCEPT
                    ![Len(stack)].phase = "native", ![Len(stack)].params = 0,
                    ![Len(stack)].home = 0, ![Len(stack)].via = 0]
    BY <1>1, <1>2, <1>12, Zenon
  <2> HIDE DEF a
  <2>2. a.f = e
    BY <1>14, <1>15, <1>17
  <2>3. Len(stack) \in DOMAIN stack
    BY <1>2, <1>3
  <2>4. stack' = [stack EXCEPT ![Len(stack)] =
                    [e EXCEPT !.phase = "native", !.params = 0, !.home = 0, !.via = 0]]
    BY <1>3, <2>1, <2>2, <2>3
  <2>5. [e EXCEPT !.phase = "native", !.params = 0, !.home = 0, !.via = 0] = g
    BY <1>16, <1>17, <1>18 DEF Converted, Returned, Frame
  <2> QED BY <2>4, <2>5
<1>20. PICK l : l = mem'
  OBVIOUS
<1>21. l = Release(New(n, kinds), <<f.params, f.params>>) /\ l \in Seq(MemBlock)
  <2>1. mem' = Release(a.m, <<Top.params, Top.params>>)
    BY <1>1, <1>2, <1>12, Zenon
  <2> HIDE DEF a
  <2> QED BY <1>3, <1>14, <1>15, <1>20, <2>1
<1> HIDE DEF a
<1>22. f \in Frame(0 .. Len(left)) /\ Owned(left, f)
  BY <1>8, <1>11, <1>5, <1>16 DEF MemOK
<1>23. \A i \in DOMAIN f.temps : i \in DOMAIN temps /\ temps[i] = f.temps[i]
  <2>1. PICK S, t : t = f.temps /\ t \in Seq(S)
    <3>1. f.temps \in Seq(0 .. Len(m))
      BY <1>16, FieldsOf
    <3> QED BY <3>1
  <2>2. temps = t \o NewBlocks(n, kinds)
    BY <1>14, <1>15, <2>1
  <2>3. Takes(n, kinds, t, temps)
    BY <1>14, <2>2 DEF Takes
  <2>4. t \in Seq(S) /\ kinds \in Seq(Kinds)
    BY <1>14, <2>1
  <2>5. \A i \in DOMAIN t : i \in DOMAIN temps /\ temps[i] = t[i]
    BY ONLY <1>13, <2>3, <2>4, TakesBlocks
  <2> QED BY ONLY <2>1, <2>5
<1>24. Extends(f.subs, subs, temps) /\ SymsGrow(f, temps, syms)
  BY <1>14, <1>15
<1>25. /\ e.slots = f.slots /\ e.args = f.args /\ e.out = f.out /\ e.params = f.params
       /\ e.ret = f.ret /\ e.phase = f.phase /\ e.temps = temps /\ e.subs = subs /\ e.syms = syms
       /\ g.slots = e.slots /\ g.args = e.args /\ g.out = e.out /\ g.temps = e.temps
       /\ g.subs = e.subs /\ g.syms = e.syms /\ g.ret = e.ret
       /\ g.params = 0 /\ g.phase = "native"
  BY <1>16, <1>17, <1>18 DEF Converted, Returned, Frame
<1>26. Books(left, f, l, g) /\ Evolves(left, l)
  <2>1. e.temps = f.temps \o NewBlocks(n, kinds) /\ kinds \in Seq(Kinds) /\ AllReturned(kinds)
    BY <1>14, <1>15, <1>25
  <2>2. l = Release(New(n, kinds), <<e.params, e.params>>)
    BY <1>21, <1>25
  <2> QED BY ONLY <1>8, <1>13, <1>22, <1>25, <2>1, <2>2, AnswerBooks
<1>27. \A j \in DOMAIN s : Owned(l, s[j])
  <2> TAKE j \in DOMAIN s
  <2>1. PICK h : h = s[j] /\ h \in Frame(0 .. Len(left)) /\ Owned(left, h)
    BY <1>5, <1>8, <1>11 DEF MemOK
  <2>2. Owned(l, h)
    BY <1>8, <1>21, <1>26, <2>1, OwnedEvolves
  <2> QED BY <2>1, <2>2
<1>28. Owned(l, e)
  <2>1. Owned(l, f)
    BY <1>5, <1>16, <1>27
  <2> QED BY ONLY <2>1, <1>17, <1>22, <1>23, <1>24, ConvertedOwned
<1>29. Owned(l, g)
  <2>1. g.out = 0
    BY <1>16, <1>22, <1>25, NoOut
  <2>2. OwnsOut(l, g)
    BY <2>1 DEF OwnsOut
  <2> QED BY <1>25, <1>28, <2>2, OwnedAs
<1>30. PICK t : t = stack'
  OBVIOUS
<1>31. FiniteFrames(t) /\ DOMAIN t = DOMAIN s /\ t[scope] = g /\ \A j \in DOMAIN s \ {scope} : t[j] = s[j]
  <2>1. PICK B : t \in Seq(Frame(B))
    BY <1>3, <1>30
  <2>2. FiniteFrames(t)
    BY <2>1, FrameTables, FiniteDomain DEF FiniteFrames
  <2>3. t = [s EXCEPT ![scope] = g] /\ scope \in DOMAIN s
    BY <1>4, <1>5, <1>19, <1>30
  <2>4. DOMAIN t = DOMAIN s /\ t[scope] = g /\ \A j \in DOMAIN s \ {scope} : t[j] = s[j]
    BY <2>3
  <2> QED BY <2>2, <2>4
<1>32. MemOK(l, t, x)
  <2>1. Books(left, s[scope], l, t[scope]) /\ Owned(l, t[scope])
    BY <1>16, <1>26, <1>29, <1>31
  <2>2. \A j \in DOMAIN s \ {scope} : Owned(l, s[j])
    BY <1>27
  <2>3. FiniteFrames(s) /\ scope \in DOMAIN s
    BY <1>5
  <2> QED BY ONLY <1>11, <1>31, <2>1, <2>2, <2>3, MemTurn
<1> QED BY <1>10, <1>20, <1>30, <1>32 DEF MemoryOK

\* What a scope keeps of one implementation, and of the others.
KeptRow(s, j, b, p) == p \in {j} \X DOMAIN s /\ s[p[2]] = b
KeptElse(k, scope, i, b) == {p \in Occurs(KeptTable(k, scope), b) : p[1] # i}

LEMMA KeptCount ==
  ASSUME NEW k, FiniteScopes(k), NEW scope \in DOMAIN k, NEW i \in Impls,
         IsFiniteSet(DOMAIN k[scope][i]), NEW b
  PROVE  /\ Count(KeptTable(k, scope), b) =
              Count(k[scope][i], b) + Cardinality(KeptElse(k, scope, i, b))
         /\ Count(k[scope][i], b) \in Nat /\ Cardinality(KeptElse(k, scope, i, b)) \in Nat
<1>1. PICK g, e : g = KeptTable(k, scope) /\ e = k[scope][i]
  OBVIOUS
<1>2. IsFiniteSet(DOMAIN g) /\ IsFiniteSet(DOMAIN e)
  BY <1>1 DEF FiniteScopes
<1>3. IsFiniteSet(Occurs(g, b)) /\ IsFiniteSet(Occurs(e, b)) /\ Count(e, b) \in Nat
  BY <1>2, CountNat
<1>4. PICK A, E : A = {i} \X Occurs(e, b) /\ E = KeptElse(k, scope, i, b)
  OBVIOUS
<1>5. IsFiniteSet(A) /\ Cardinality(A) = Count(e, b)
  <2>1. IsFiniteSet({i}) /\ Cardinality({i}) = 1
    BY FS_Singleton
  <2>2. IsFiniteSet(A) /\ Cardinality(A) = Cardinality({i}) * Cardinality(Occurs(e, b))
    BY <1>3, <1>4, <2>1, FS_Product
  <2> QED BY <1>3, <2>1, <2>2 DEF Count
<1>6. E \subseteq Occurs(g, b)
  BY <1>1, <1>4 DEF KeptElse
<1>7. IsFiniteSet(E) /\ Cardinality(E) \in Nat
  BY <1>3, <1>6, FS_Subset, FS_CardinalityType
<1>8. /\ \A p \in DOMAIN g : p[1] \in Impls /\ p[2] \in DOMAIN k[scope][p[1]]
                             /\ p = <<p[1], p[2]>> /\ g[p] = k[scope][p[1]][p[2]]
      /\ \A n \in DOMAIN e : <<i, n>> \in DOMAIN g /\ g[<<i, n>>] = e[n]
  BY <1>1 DEF KeptTable
<1>9. Occurs(g, b) = A \cup E
  <2>1. A \subseteq Occurs(g, b)
    BY <1>4, <1>8 DEF Occurs
  <2>2. ASSUME NEW p \in Occurs(g, b), p[1] = i
        PROVE  p \in A
    <3>1. p \in DOMAIN g /\ g[p] = b
      BY DEF Occurs
    <3>2. p = <<i, p[2]>> /\ p[2] \in DOMAIN e /\ e[p[2]] = b
      BY <1>1, <1>8, <2>2, <3>1
    <3> QED BY <1>4, <3>2 DEF Occurs
  <2> QED BY <1>1, <1>4, <1>6, <2>1, <2>2 DEF KeptElse
<1>10. A \cap E = {}
  BY <1>4 DEF KeptElse
<1>11. Cardinality(A \cup E) = Cardinality(A) + Cardinality(E)
  <2>1. Cardinality(A \cap E) = 0
    BY <1>10, FS_EmptySet
  <2>2. Cardinality(A \cup E) = Cardinality(A) + Cardinality(E) - Cardinality(A \cap E)
    BY <1>5, <1>7, FS_Union
  <2> QED BY <1>3, <1>5, <1>7, <2>1, <2>2
<1> QED BY <1>1, <1>3, <1>4, <1>5, <1>7, <1>9, <1>11 DEF Count

Scopes(B) == [0 .. MaxDepth -> [Impls -> Seq(B)]]
KeptInstead(k, scope, i, q, e, x) == q = k[scope][i] /\ x = [k EXCEPT ![scope][i] = e]

LEMMA KeptReplaced ==
  ASSUME NEW B, NEW k, k \in Scopes(B), NEW scope, scope \in 0 .. MaxDepth, NEW i, i \in Impls,
         NEW q, NEW e, e \in Seq(B), NEW x, KeptInstead(k, scope, i, q, e, x), NEW b
  PROVE  /\ Count(KeptTable(x, scope), b) = Count(KeptTable(k, scope), b) - Count(q, b) + Count(e, b)
         /\ Count(e, b) \in Nat /\ Count(q, b) \in Nat
<1>0. /\ k \in [0 .. MaxDepth -> [Impls -> Seq(B)]] /\ q = k[scope][i]
      /\ x = [k EXCEPT ![scope][i] = e]
  BY DEF Scopes, KeptInstead
<1>1. x \in [0 .. MaxDepth -> [Impls -> Seq(B)]]
  BY <1>0
<1>2. x[scope][i] = e /\ \A j \in Impls \ {i} : x[scope][j] = k[scope][j]
  BY <1>0
<1>3. FiniteScopes(k) /\ FiniteScopes(x)
  <2>1. PICK s : s = <<>>
    OBVIOUS
  <2>2. s \in Seq(Frame(B))
    BY <2>1
  <2>3. PICK u \in [0 .. MaxDepth -> [Impls -> Seq(B)]] : u = k
    BY <1>0
  <2>4. PICK v \in [0 .. MaxDepth -> [Impls -> Seq(B)]] : v = x
    BY <1>1
  <2>5. FiniteScopes(u) /\ FiniteScopes(v)
    BY ONLY <2>2, u \in [0 .. MaxDepth -> [Impls -> Seq(B)]],
            v \in [0 .. MaxDepth -> [Impls -> Seq(B)]], TypedTables
  <2> QED BY <2>3, <2>4, <2>5
<1>4. IsFiniteSet(DOMAIN k[scope][i]) /\ IsFiniteSet(DOMAIN x[scope][i])
  <2>1. k[scope][i] \in Seq(B) /\ x[scope][i] \in Seq(B)
    BY <1>0, <1>1
  <2> QED BY <2>1, FiniteDomain
<1>5. KeptElse(x, scope, i, b) = KeptElse(k, scope, i, b)
  <2>1. \A l : \A p : p \in KeptElse(l, scope, i, b) <=>
           /\ p \in UNION {{j} \X DOMAIN l[scope][j] : j \in Impls}
           /\ l[scope][p[1]][p[2]] = b /\ p[1] # i
    BY DEF KeptElse, Occurs, KeptTable
  <2>2. \A l : \A p : p \in KeptElse(l, scope, i, b) <=>
           \E j \in Impls \ {i} : KeptRow(l[scope][j], j, b, p)
    BY <2>1 DEF KeptRow
  <2>3. \A p : p \in KeptElse(x, scope, i, b) <=> p \in KeptElse(k, scope, i, b)
    <3>1. \A p : \A j \in Impls \ {i} : KeptRow(x[scope][j], j, b, p) <=> KeptRow(k[scope][j], j, b, p)
      BY <1>2
    <3> QED BY ONLY <2>2, <3>1
  <2> QED BY <2>3 DEF KeptElse
<1>6. /\ Count(KeptTable(k, scope), b) = Count(k[scope][i], b) + Cardinality(KeptElse(k, scope, i, b))
      /\ Count(k[scope][i], b) \in Nat /\ Cardinality(KeptElse(k, scope, i, b)) \in Nat
  <2>1. scope \in DOMAIN k
    BY <1>0
  <2> QED BY <1>3, <1>4, <2>1, KeptCount
<1>7. /\ Count(KeptTable(x, scope), b) = Count(e, b) + Cardinality(KeptElse(k, scope, i, b))
      /\ Count(e, b) \in Nat
  <2>1. scope \in DOMAIN x
    BY <1>1
  <2>2. /\ Count(KeptTable(x, scope), b) = Count(x[scope][i], b) + Cardinality(KeptElse(x, scope, i, b))
        /\ Count(x[scope][i], b) \in Nat
    BY <1>3, <1>4, <2>1, KeptCount
  <2> QED BY <1>2, <1>5, <2>2
<1> QED BY <1>0, <1>6, <1>7

LEMMA BookedLostLess ==
  ASSUME NEW m \in Seq(MemBlock), NEW b \in Nat \ {0}, NEW h \in Nat, NEW x, Booked(m, b, h + One(x, b)),
         x # 0 => m[x].kind = "lost"
  PROVE  Booked(m, b, h)
<1>1. CASE x = b
  <2>1. "lost" \in NeverFreed /\ "lost" \notin Leaked
    <3>1. "lost" \in NeverFreed
      BY Zenon DEF NeverFreed
    <3> QED BY <3>1 DEF Leaked
  <2>2. m[b].kind = "lost" /\ One(x, b) = 1
    BY <1>1 DEF One
  <2>3. b \in 1 .. Len(m) => m[b].refs \in Int
    <3>1. b \in 1 .. Len(m) => m[b] \in MemBlock
      OBVIOUS
    <3> QED BY <3>1 DEF MemBlock
  <2> QED BY <2>1, <2>2, <2>3 DEF Booked
<1>2. CASE x # b
  BY <1>2 DEF One
<1> QED BY <1>1, <1>2

\* r lists what p and q list; the scopes x keep p and not q, which k keeps.
Together(r, p, q) == \A b : Count(r, b) = Count(p, b) + Count(q, b)
Exchanged(t, k, p, x, q) == \A b : Held(t, x, b) + Count(q, b) = Held(t, k, b) + Count(p, b)

\* The innermost frame goes: the lists in r are those of its variables and of
\* the temporaries that go with it.
LEMMA Popped ==
  ASSUME NEW m \in Seq(MemBlock), NEW s, FiniteFrames(s), NEW t, FiniteFrames(t),
         NEW n, n \notin DOMAIN t, DOMAIN s = DOMAIN t \cup {n}, \A j \in DOMAIN t : s[j] = t[j],
         NEW k, FiniteScopes(k), NEW x, FiniteScopes(x), Counted(m, s, k),
         NEW f, f = s[n], f.params = 0, f.out # 0 => m[f.out].kind = "lost", f.out \in 0 .. Len(m),
         NEW T, IsFiniteSet(DOMAIN T),
         Exchanged(t, k, f.temps, x, T),
         NEW r, IsFiniteSet(DOMAIN r), Together(r, T, f.slots),
         NEW l, l = Release(Release(m, ArgBlocks(f)), r)
  PROVE  Counted(l, t, x) /\ l \in Seq(MemBlock) /\ Evolves(m, l)
<1>1. Tables(f)
  BY DEF FiniteFrames
<1>2. IsFiniteSet(DOMAIN ArgBlocks(f))
  BY <1>1 DEF Tables, ArgBlocks
<1>3. PICK bs : bs = ArgBlocks(f) /\ IsFiniteSet(DOMAIN bs)
  BY <1>2
<1>4. PICK w \in Seq(MemBlock) : w = Release(m, bs) /\ Len(w) = Len(m) /\ Evolves(m, w)
  BY <1>3, ReleasedMemory, EvolvesRelease
<1>5. l \in Seq(MemBlock) /\ l = Release(w, r) /\ Evolves(w, l)
  BY <1>3, <1>4, ReleasedMemory, EvolvesRelease
<1>6. Evolves(m, l)
  BY <1>4, <1>5, EvolvesThen
<1>7. f.out # 0 => l[f.out].kind = "lost"
  <2>1. ASSUME f.out # 0
        PROVE  l[f.out].kind = "lost"
    <3>1. f.out \in 1 .. Len(m) /\ m[f.out].kind = "lost"
      BY <2>1
    <3> QED BY <1>6, <3>1 DEF Evolves
  <2> QED BY <2>1
<1>8. ASSUME NEW b \in Nat \ {0}
      PROVE  Booked(l, b, Held(t, x, b))
  <2>0. PICK u : u = b
    OBVIOUS
  <2>1. /\ Held(s, k, u) = Held(t, k, u) + FrameCount(f, u)
        /\ Held(t, x, u) \in Nat /\ Held(t, k, u) \in Nat /\ Held(s, k, u) \in Nat
    <3>1. Held(s, k, u) = Held(t, k, u) + FrameCount(s[n], u)
      BY ONLY FiniteFrames(s), FiniteFrames(t), FiniteScopes(k), n \notin DOMAIN t,
              DOMAIN s = DOMAIN t \cup {n}, \A j \in DOMAIN t : s[j] = t[j], HeldPush
    <3> QED BY <3>1, HeldSum
  <2>2. /\ Count(bs, u) \in Nat /\ Count(T, u) \in Nat /\ Count(f.slots, u) \in Nat
        /\ Count(f.temps, u) \in Nat /\ One(f.out, u) \in Nat /\ One(f.params, u) = 0
    BY <1>1, <1>3, <2>0, CountNat DEF Tables, One
  <2>3. FrameCount(f, u) = Count(f.slots, u) + Count(bs, u) + Count(f.temps, u) + One(f.out, u)
    BY <1>3, <2>2 DEF FrameCount
  <2>4. PICK h \in Nat : h = Held(s, k, u)
    BY <2>1
  <2>5. PICK g \in Nat : g = Held(t, x, u)
    BY <2>1
  <2>6. Held(t, x, u) + Count(T, u) = Held(t, k, u) + Count(f.temps, u)
    BY DEF Exchanged
  <2>15. PICK n1, n2, n3, n4, n5 \in Nat :
           /\ n1 = Count(bs, u) /\ n2 = Count(T, u) /\ n3 = Count(f.slots, u)
           /\ n4 = Count(f.temps, u) /\ n5 = One(f.out, u)
    BY <2>2
  <2>7. h = g + n5 + n1 + (n2 + n3)
    <3>1. PICK i \in Nat : i = Held(t, k, u)
      BY <2>1
    <3>2. h = i + (n3 + n1 + n4 + n5) /\ g + n2 = i + n4
      BY <2>1, <2>3, <2>4, <2>5, <2>6, <2>15, <3>1
    <3> QED BY ONLY <3>2, h \in Nat, g \in Nat, n1 \in Nat, n2 \in Nat, n3 \in Nat, n4 \in Nat, n5 \in Nat, i \in Nat
  <2>8. Count(r, u) = Count(T, u) + Count(f.slots, u)
    BY DEF Together
  <2>9. Booked(m, b, h)
    BY <2>0, <2>4 DEF Counted
  <2>10. PICK c \in Nat : c = h - Count(bs, u) /\ c = g + n5 + (n2 + n3)
    <3> DEFINE c == g + n5 + (n2 + n3)
    <3>1. c \in Nat
      BY ONLY g \in Nat, n1 \in Nat, n2 \in Nat, n3 \in Nat, n5 \in Nat
    <3>2. c = h - n1
      BY ONLY <2>7, g \in Nat, n1 \in Nat, n2 \in Nat, n3 \in Nat, n5 \in Nat
    <3> HIDE DEF c
    <3>3. c = h - Count(bs, u)
      BY ONLY <2>15, <3>2
    <3>4. c = g + n5 + (n2 + n3)
      BY DEF c
    <3> QED BY ONLY <3>1, <3>3, <3>4
  <2>11. Booked(w, b, c)
    <3>1. Count(bs, u) <= h
      <4>1. n1 <= h
        BY ONLY <2>7, g \in Nat, n1 \in Nat, n2 \in Nat, n3 \in Nat, n5 \in Nat
      <4> QED BY ONLY <2>15, <4>1
    <3> QED BY <1>3, <1>4, <2>0, <2>9, <2>10, <3>1, BookedRelease
  <2>12. c - Count(r, u) = g + One(f.out, u) /\ Count(r, u) <= c
    <3>1. c - (n2 + n3) = g + n5 /\ n2 + n3 <= c
      BY ONLY <2>10, g \in Nat, n2 \in Nat, n3 \in Nat, n5 \in Nat, c \in Nat
    <3>2. Count(r, u) = n2 + n3 /\ One(f.out, u) = n5
      BY ONLY <2>8, <2>15
    <3> QED BY ONLY <3>1, <3>2
  <2>13. Booked(l, b, c - Count(r, u))
    BY <1>5, <2>0, <2>11, <2>12, BookedRelease
  <2>14. Booked(l, b, g + One(f.out, b))
    BY <2>0, <2>12, <2>13
  <2> QED BY <1>5, <1>7, <2>0, <2>5, <2>14, BookedLostLess
<1> QED BY <1>5, <1>6, <1>8 DEF Counted

LEMMA ConcatTogether ==
  ASSUME NEW S, NEW s \in Seq(S), NEW T, NEW t \in Seq(T)
  PROVE  IsFiniteSet(DOMAIN (s \o t)) /\ Together(s \o t, s, t)
<1>1. \A b : IsFiniteSet(DOMAIN (s \o t)) /\ Count(s \o t, b) = Count(s, b) + Count(t, b)
  BY CountConcat
<1> QED BY <1>1 DEF Together

\* Static implementations exchange what the scope keeps of them.
LEMMA KeptExchanged ==
  ASSUME NEW t, FiniteFrames(t), NEW B, NEW k, k \in [0 .. MaxDepth -> [Impls -> Seq(B)]],
         NEW scope, scope \in 0 .. MaxDepth, NEW i \in Impls, NEW p, p \in Seq(B),
         NEW x, x = [k EXCEPT ![scope][i] = p], NEW q, q = k[scope][i]
  PROVE  /\ x \in [0 .. MaxDepth -> [Impls -> Seq(B)]]
         /\ q \in Seq(B) /\ Exchanged(t, k, p, x, q)
<1>1. x \in [0 .. MaxDepth -> [Impls -> Seq(B)]] /\ q \in Seq(B)
  OBVIOUS
<1>2. FiniteScopes(k) /\ FiniteScopes(x)
  <2>1. PICK s : s = <<>>
    OBVIOUS
  <2>2. s \in Seq(Frame(B))
    BY <2>1
  <2> QED BY <1>1, <2>2, TypedTables
<1>3. scope \in DOMAIN k /\ DOMAIN x = DOMAIN k /\ \A j \in DOMAIN k \ {scope} : x[j] = k[j]
  OBVIOUS
<1>4. ASSUME NEW b
      PROVE  Held(t, x, b) + Count(q, b) = Held(t, k, b) + Count(p, b)
  <2>1. /\ Held(t, x, b) = Held(t, k, b) - Count(KeptTable(k, scope), b) + Count(KeptTable(x, scope), b)
        /\ Count(KeptTable(k, scope), b) \in Nat /\ Count(KeptTable(x, scope), b) \in Nat
    <3>1. PICK c : c = scope
      OBVIOUS
    <3>2. c \in DOMAIN k /\ DOMAIN x = DOMAIN k /\ \A j \in DOMAIN k \ {c} : x[j] = k[j]
      BY <1>3, <3>1
    <3>3. /\ Held(t, x, b) = Held(t, k, b) - Count(KeptTable(k, c), b) + Count(KeptTable(x, c), b)
          /\ Count(KeptTable(k, c), b) \in Nat /\ Count(KeptTable(x, c), b) \in Nat
      BY ONLY FiniteFrames(t), <1>2, <3>2, HeldKept
    <3> QED BY ONLY <3>1, <3>3
  <2>2. /\ Count(KeptTable(x, scope), b) = Count(KeptTable(k, scope), b) - Count(q, b) + Count(p, b)
        /\ Count(p, b) \in Nat /\ Count(q, b) \in Nat
    <3>1. KeptInstead(k, scope, i, q, p, x)
      BY DEF KeptInstead
    <3>2. k \in Scopes(B)
      BY DEF Scopes
    <3> QED BY ONLY scope \in 0 .. MaxDepth, i \in Impls, p \in Seq(B), <3>1, <3>2, KeptReplaced
  <2>3. Held(t, k, b) \in Nat
    BY <1>2, HeldSum
  <2> QED BY <2>1, <2>2, <2>3
<1> QED BY <1>1, <1>4 DEF Exchanged

LEMMA FrameFreeMem ==
  ASSUME IInv, IInv', MemoryOK, FrameFree
  PROVE  MemoryOK'
<1> DEFINE scope == Len(stack) - 1
           temps == IF Im.static THEN kept[scope][Top.impl] ELSE Top.temps
<1>1. /\ stack # <<>> /\ Top.phase = "over"
      /\ mem' = Release(Release(mem, ArgBlocks(Top)), temps \o Top.slots)
      /\ kept' = IF Im.static THEN [kept EXCEPT ![scope][Top.impl] = Top.temps] ELSE kept
      /\ stack' = SubSeq(stack, 1, scope)
  BY DEF FrameFree, Running
<1>2. Len(stack) \in 1 .. MaxDepth /\ Top = stack[Len(stack)] /\ Top.impl \in Impls
  BY <1>1, TopFacts DEF Top
<1>3. scope \in 0 .. MaxDepth /\ scope \in Nat /\ scope + 1 = Len(stack)
  BY <1>2, BoundsNat
<1>4. PICK m, s, k, f, l, t, x, n, c, T :
        /\ m = mem /\ s = stack /\ k = kept /\ f = Top /\ l = mem' /\ t = stack' /\ x = kept'
        /\ n = Len(stack) /\ c = scope /\ T = temps
  OBVIOUS
<1>5. /\ m \in Seq(MemBlock) /\ Len(m) \in Nat /\ s \in Seq(Frame(0 .. Len(m)))
      /\ k \in [0 .. MaxDepth -> [Impls -> Seq(0 .. Len(m))]] /\ MemOK(m, s, k)
  BY <1>4 DEF IInv, TypeOK, Block, MemoryOK
<1>6. s # <<>> /\ n = Len(s) /\ f = s[n] /\ f.phase = "over" /\ n \in Nat
  BY <1>1, <1>2, <1>4
<1>7. /\ FiniteFrames(s) /\ FiniteScopes(k) /\ DOMAIN s = 1 .. n
      /\ \A j \in DOMAIN s : s[j] \in Frame(0 .. Len(m))
  BY <1>5, <1>6, TypedTables
<1>8. t \in Seq(Frame(0 .. Len(m))) /\ Len(t) = n - 1 /\ \A j \in 1 .. n - 1 : t[j] = s[j]
  BY <1>1, <1>4, <1>5, <1>6, LastRemoved
<1>9. FiniteFrames(t) /\ DOMAIN t = 1 .. n - 1
  BY <1>5, <1>8, TypedTables
<1>10. f \in Frame(0 .. Len(m)) /\ Owned(m, f)
  <2>1. n \in DOMAIN s
    BY <1>2, <1>4, <1>7
  <2> QED BY <1>5, <1>6, <1>7, <2>1 DEF MemOK
<1>11. /\ f.temps \in Seq(0 .. Len(m)) /\ f.slots \in Seq(0 .. Len(m)) /\ f.out \in 0 .. Len(m)
       /\ f.params = 0 /\ (f.out # 0 => m[f.out].kind = "lost")
  BY <1>6, <1>10, FieldsOf DEF Owned, OwnsOut
<1>12. /\ FiniteScopes(x) /\ T \in Seq(0 .. Len(m)) /\ Exchanged(t, k, f.temps, x, T)
  <2>1. CASE Im.static
    <3>1. PICK i : i = Top.impl
      OBVIOUS
    <3>2. x = [k EXCEPT ![c][i] = f.temps] /\ T = k[c][i] /\ i \in Impls /\ c \in 0 .. MaxDepth
      BY <1>1, <1>2, <1>3, <1>4, <2>1, <3>1
    <3>3. PICK p : p = f.temps /\ p \in Seq(0 .. Len(m))
      BY <1>11
    <3>4. /\ x \in [0 .. MaxDepth -> [Impls -> Seq(0 .. Len(m))]]
          /\ T \in Seq(0 .. Len(m)) /\ Exchanged(t, k, p, x, T)
      BY <1>5, <1>9, <3>2, <3>3, KeptExchanged
    <3> QED BY <1>8, <3>3, <3>4, TypedTables
  <2>2. CASE ~Im.static
    <3>1. x = k /\ T = f.temps
      BY <1>1, <1>4, <2>2
    <3> QED BY <1>7, <1>11, <3>1 DEF Exchanged
  <2> QED BY <2>1, <2>2
<1> HIDE DEF scope, temps
<1>13. PICK r : r = T \o f.slots
  OBVIOUS
<1>14. IsFiniteSet(DOMAIN r) /\ Together(r, T, f.slots)
  BY <1>11, <1>12, <1>13, ConcatTogether
<1>15. l = Release(Release(m, ArgBlocks(f)), r)
  BY <1>1, <1>4, <1>13
<1>16. Counted(l, t, x) /\ l \in Seq(MemBlock) /\ Evolves(m, l)
  <2>1. n \notin DOMAIN t /\ DOMAIN s = DOMAIN t \cup {n} /\ \A j \in DOMAIN t : s[j] = t[j]
    BY <1>2, <1>4, <1>7, <1>8, <1>9
  <2>2. Counted(m, s, k)
    BY <1>5 DEF MemOK
  <2>3. IsFiniteSet(DOMAIN T)
    BY <1>12, FiniteDomain
  <2> QED BY ONLY <1>5, <1>6, <1>7, <1>9, <1>11, <1>12, <1>14, <1>15, <2>1, <2>2, <2>3, Popped
<1>17. ASSUME NEW j \in DOMAIN t
       PROVE  Owned(l, t[j])
  <2>1. t[j] = s[j] /\ j \in DOMAIN s
    BY <1>2, <1>4, <1>7, <1>8, <1>9
  <2>2. PICK g : g = s[j] /\ g \in Frame(0 .. Len(m)) /\ Owned(m, g)
    BY <1>5, <1>7, <2>1 DEF MemOK
  <2>3. Owned(l, g)
    BY <1>5, <1>16, <2>2, OwnedEvolves
  <2> QED BY <2>1, <2>2, <2>3
<1> QED BY <1>4, <1>16, <1>17 DEF MemoryOK, MemOK

AllStrings(kinds, count) == kinds = [s \in 1 .. count |-> "string"]

NewStrings(m, kinds, count) ==
  /\ kinds \in Seq(Kinds) /\ Len(kinds) = count
  /\ \A b : Fresh(m, kinds, b) = IF b \in Len(m) + 1 .. Len(m) + count THEN 1 ELSE 0
  /\ \A i \in 1 .. count : New(m, kinds)[Len(m) + i].kind = "string"

LEMMA StringsNew ==
  ASSUME NEW m \in Seq(MemBlock), NEW count \in Nat, NEW kinds, AllStrings(kinds, count)
  PROVE  NewStrings(m, kinds, count)
<1>1. "string" \in Kinds
  BY DEF Kinds
<1>2. kinds \in Seq(Kinds) /\ Len(kinds) = count /\ \A i \in 1 .. count : kinds[i] = "string"
  BY <1>1 DEF AllStrings
<1>3. "string" \notin NeverFreed
  BY DEF NeverFreed
<1>4. ASSUME NEW b
      PROVE  Fresh(m, kinds, b) = IF b \in Len(m) + 1 .. Len(m) + count THEN 1 ELSE 0
  <2>1. CASE b \in Len(m) + 1 .. Len(m) + count
    <3>1. b - Len(m) \in 1 .. count
      BY <2>1
    <3>2. kinds[b - Len(m)] \notin NeverFreed
      BY <1>2, <1>3, <3>1
    <3> QED BY <1>2, <2>1, <3>2 DEF Fresh
  <2>2. CASE b \notin Len(m) + 1 .. Len(m) + count
    BY <1>2, <2>2 DEF Fresh
  <2> QED BY <2>1, <2>2
<1>5. PICK l : l = New(m, kinds)
  OBVIOUS
<1>6. \A i \in 1 .. count : l[Len(m) + i].kind = "string"
  <2> TAKE i \in 1 .. count
  <2>1. \A j \in 1 .. Len(kinds) : l[Len(m) + j] = [kind |-> kinds[j], refs |-> 1]
    BY <1>2, <1>5, NewAt
  <2>2. i \in 1 .. Len(kinds) /\ kinds[i] = "string"
    BY <1>2
  <2>3. l[Len(m) + i] = [kind |-> kinds[i], refs |-> 1]
    BY ONLY <2>1, <2>2
  <2> QED BY <2>2, <2>3
<1> QED BY <1>2, <1>4, <1>5, <1>6 DEF NewStrings

LEMMA FreshFrame ==
  ASSUME NEW f, f.args = <<>>, f.temps = <<>>, f.subs = <<>>, f.syms = <<>>,
         f.out = 0, f.params = 0, f.ret = 0,
         NEW n \in Nat, DOMAIN f.slots = 1 .. n, NEW l,
         \A a \in DOMAIN f.slots : f.slots[a] # 0 => l[f.slots[a]].kind = "string"
  PROVE  /\ Tables(f) /\ Owned(l, f)
         /\ \A b \in Nat \ {0} : FrameCount(f, b) = Count(f.slots, b)
<1>1. DOMAIN f.args = {} /\ DOMAIN f.temps = {} /\ DOMAIN f.subs = {} /\ DOMAIN f.syms = {}
  OBVIOUS
<1>2. IsFiniteSet(DOMAIN f.slots) /\ IsFiniteSet({})
  BY FS_Interval, FS_EmptySet
<1>3. Tables(f)
  BY <1>1, <1>2 DEF Tables
<1>4. Owned(l, f)
  BY <1>1 DEF Owned, OwnsOut
<1>5. ASSUME NEW b \in Nat \ {0}
      PROVE  FrameCount(f, b) = Count(f.slots, b)
  <2>1. PICK c : c = b
    OBVIOUS
  <2>2. DOMAIN ArgBlocks(f) = {}
    BY <1>1 DEF ArgBlocks
  <2>3. Count(ArgBlocks(f), c) = 0 /\ Count(f.temps, c) = 0 /\ Count(f.slots, c) \in Nat
    BY <1>1, <1>2, <2>2, CountNat
  <2>4. One(f.out, c) = 0 /\ One(f.params, c) = 0
    BY <2>1 DEF One
  <2> QED BY <2>1, <2>3, <2>4 DEF FrameCount
<1> QED BY <1>3, <1>4, <1>5

LEMMA BeginCallMem ==
  ASSUME IInv, IInv', MemoryOK, NEW i \in Impls, NEW given \in ArgumentLists(i), BeginCall(i, given)
  PROVE  MemoryOK'
<1> DEFINE strings(a) == {b \in 1 .. a : given[b] = "string"}
           slots == [a \in DOMAIN given |->
                       IF given[a] = "string" THEN Len(mem) + Cardinality(strings(a)) ELSE 0]
<1>1. /\ mem' = New(mem, [s \in 1 .. Cardinality(strings(Len(given))) |-> "string"])
      /\ stack' = Append(stack, NewFrame(i, given, slots)) /\ kept' = kept
  BY DEF BeginCall
<1>2. PICK n \in Nat : n = Len(given) /\ DOMAIN given = 1 .. n
  BY GivenSequence, LenProperties
<1>3. PICK P \in SUBSET (1 .. n) : P = strings(n)
  OBVIOUS
<1>4. \A a \in 1 .. n : Cardinality(strings(a)) = Rank(P, a) /\ (a \in P <=> given[a] = "string")
  <2> TAKE a \in 1 .. n
  <2>1. strings(a) = {x \in P : x <= a}
    BY <1>3
  <2> QED BY <1>3, <2>1 DEF Rank
<1>5. PICK m, s, k, l, t, kinds, u :
        /\ m = mem /\ s = stack /\ k = kept /\ l = mem' /\ t = stack' /\ u = slots
        /\ kinds = [j \in 1 .. Cardinality(P) |-> "string"]
  OBVIOUS
<1>6. l = New(m, kinds) /\ t = Append(s, NewFrame(i, given, u))
  BY <1>1, <1>2, <1>3, <1>5
<1>7. /\ m \in Seq(MemBlock) /\ l \in Seq(MemBlock) /\ Len(m) \in Nat /\ s \in Seq(Frame(0 .. Len(m)))
      /\ t \in Seq(Frame(0 .. Len(l)))
      /\ k \in [0 .. MaxDepth -> [Impls -> Seq(0 .. Len(m))]] /\ MemOK(m, s, k)
  BY <1>5 DEF IInv, TypeOK, Block, MemoryOK
<1>8. RankedTable(u, n, P, Len(m))
  <2> HIDE DEF strings
  <2> QED BY <1>2, <1>4, <1>5 DEF RankedTable
<1> HIDE DEF slots, strings
<1>9. PICK c \in Nat : c = Cardinality(P) /\ \A a \in P : Rank(P, a) \in 1 .. c
  BY <1>3, RankGrows
<1>10. /\ kinds \in Seq(Kinds) /\ Len(kinds) = c
       /\ \A b : Fresh(m, kinds, b) = IF b \in Len(m) + 1 .. Len(m) + c THEN 1 ELSE 0
       /\ \A j \in 1 .. c : l[Len(m) + j].kind = "string"
  <2>1. AllStrings(kinds, c)
    BY <1>5, <1>9 DEF AllStrings
  <2>2. NewStrings(m, kinds, c)
    <3>1. m \in Seq(MemBlock) /\ c \in Nat
      BY <1>7
    <3> QED BY ONLY <2>1, <3>1, StringsNew
  <2> QED BY <1>6, <2>2 DEF NewStrings
<1>11. PICK f : f = NewFrame(i, given, u)
  OBVIOUS
<1>12. /\ f.args = <<>> /\ f.temps = <<>> /\ f.subs = <<>> /\ f.syms = <<>>
       /\ f.out = 0 /\ f.params = 0 /\ f.ret = 0 /\ f.slots = u
  BY <1>11 DEF NewFrame
<1>13. \A a \in DOMAIN f.slots : f.slots[a] # 0 => l[f.slots[a]].kind = "string"
  <2>1. DOMAIN u = 1 .. n
    BY <1>8 DEF RankedTable
  <2>2. ASSUME NEW a \in 1 .. n, u[a] # 0
        PROVE  l[u[a]].kind = "string"
    <3>1. a \in P /\ u[a] = Len(m) + Rank(P, a)
      BY <1>8, <2>2 DEF RankedTable
    <3>2. Rank(P, a) \in 1 .. c
      BY <1>9, <3>1
    <3> QED BY <1>10, <3>1, <3>2
  <2> QED BY <1>12, <2>1, <2>2
<1>14. /\ Tables(f) /\ Owned(l, f)
       /\ \A b \in Nat \ {0} : FrameCount(f, b) = Count(u, b)
  <2>1. DOMAIN f.slots = 1 .. n
    BY <1>8, <1>12 DEF RankedTable
  <2>2. /\ Tables(f) /\ Owned(l, f)
        /\ \A b \in Nat \ {0} : FrameCount(f, b) = Count(f.slots, b)
    BY ONLY n \in Nat, <1>12, <1>13, <2>1, FreshFrame
  <2> QED BY ONLY <1>12, <2>2
<1>15. /\ FiniteFrames(s) /\ FiniteScopes(k) /\ DOMAIN s = 1 .. Len(s) /\ Len(s) \in Nat
       /\ \A j \in DOMAIN s : s[j] \in Frame(0 .. Len(m))
  BY <1>7, TypedTables
<1>16. PICK d : d = Len(s) + 1
  OBVIOUS
<1>17. /\ d \notin DOMAIN s /\ DOMAIN t = DOMAIN s \cup {d} /\ t[d] = f
       /\ \A j \in DOMAIN s : t[j] = s[j]
  BY <1>6, <1>7, <1>11, <1>15, <1>16
<1>18. FiniteFrames(t)
  <2>1. IsFiniteSet(DOMAIN t)
    BY <1>7, FiniteDomain
  <2>2. \A j \in DOMAIN t : Tables(t[j])
    BY <1>14, <1>15, <1>17 DEF FiniteFrames
  <2> QED BY <2>1, <2>2 DEF FiniteFrames
<1>19. ASSUME NEW b \in Nat \ {0}
       PROVE  Booked(l, b, Held(t, k, b))
  <2>1. PICK v : v = b
    OBVIOUS
  <2>2. Held(t, k, v) = Held(s, k, v) + FrameCount(t[d], v) /\ FrameCount(t[d], v) \in Nat
    BY ONLY <1>15, <1>17, <1>18, HeldPush
  <2>3. Held(s, k, v) \in Nat
    BY <1>15, HeldSum
  <2>4. FrameCount(t[d], v) = Count(u, v)
    BY <1>14, <1>17, <2>1
  <2>5. Count(u, b) = IF b \in Len(m) + 1 .. Len(m) + Cardinality(P) THEN 1 ELSE 0
    <3>1. PICK q \in Nat : q = Len(m)
      BY <1>7
    <3>2. RankedTable(u, n, P, q)
      BY <1>8, <3>1
    <3>3. Count(u, b) = IF b \in q + 1 .. q + Cardinality(P) THEN 1 ELSE 0
      BY <3>2, CountRanked
    <3> QED BY <3>1, <3>3
  <2>6. Count(u, v) = Fresh(m, kinds, v)
    BY <1>9, <1>10, <2>1, <2>5
  <2>7. PICK h \in Nat : h = Held(s, k, v)
    BY <2>3
  <2>8. Booked(m, b, h)
    BY <1>7, <2>1, <2>7 DEF MemOK, Counted
  <2>9. Booked(l, b, h + Fresh(m, kinds, b))
    BY <1>6, <1>7, <1>10, <2>8, BookedNew
  <2> QED BY <2>1, <2>2, <2>4, <2>6, <2>7, <2>9
<1>20. ASSUME NEW j \in DOMAIN t
       PROVE  Owned(l, t[j])
  <2>1. CASE j = d
    BY <1>14, <1>17, <2>1
  <2>2. CASE j \in DOMAIN s
    <3>1. PICK g : g = s[j] /\ g \in Frame(0 .. Len(m)) /\ Owned(m, g)
      BY <1>7, <1>15, <2>2 DEF MemOK
    <3>2. Evolves(m, l)
      BY <1>6, <1>7, <1>10, EvolvesNew
    <3>3. Owned(l, g)
      BY <1>7, <3>1, <3>2, OwnedEvolves
    <3> QED BY <1>17, <2>2, <3>1, <3>3
  <2> QED BY <1>17, <2>1, <2>2
<1> QED BY <1>1, <1>5, <1>19, <1>20 DEF MemoryOK, MemOK, Counted

LEMMA NoDefaults ==
  ASSUME NoDefaultStrings
  PROVE  DefaultStrings = <<>> /\ Memory0 = <<>>
<1> DEFINE D == {d \in Impls \X ArgIndexes :
                   d[2] \in DOMAIN Impl[d[1]].args /\ Impl[d[1]].args[d[2]].def = "string"}
<1>1. D = {}
  BY DEF NoDefaultStrings
<1>2. DefaultStrings = CHOOSE f \in [1 .. Cardinality(D) -> D] : IsInjective(f)
  BY DEF DefaultStrings, SetToSeq
<1>3. Cardinality(D) = 0
  BY <1>1, FS_EmptySet
<1> HIDE DEF D
<1>4. 1 .. Cardinality(D) = {}
  BY <1>3
<1>5. DefaultStrings = CHOOSE f \in [{} -> {}] : IsInjective(f)
  BY <1>1, <1>2, <1>4
<1>6. \E f \in [{} -> {}] : IsInjective(f)
  <2>1. <<>> \in [{} -> {}] /\ IsInjective(<<>>)
    BY DEF IsInjective
  <2> QED BY <2>1
<1>7. DefaultStrings \in [{} -> {}]
  BY <1>5, <1>6
<1>8. DefaultStrings = <<>>
  BY <1>7
<1>9. Memory0 = <<>>
  BY <1>8 DEF Memory0
<1> QED BY <1>8, <1>9

LEMMA NothingHeld ==
  ASSUME NEW s, DOMAIN s = {}, NEW k, \A j \in DOMAIN k : \A i \in Impls : DOMAIN k[j][i] = {}
  PROVE  \A b : Held(s, k, b) = 0
<1>1. FramesHold(s) = {}
  BY DEF FramesHold, FramesOf
<1>2. \A j \in DOMAIN k : KeptHolders(k, j) = {}
  <2> TAKE j \in DOMAIN k
  <2>1. DOMAIN KeptTable(k, j) = {}
    BY DEF KeptTable
  <2> QED BY <2>1 DEF KeptHolders, Holding
<1>3. KeptHold(k) = {}
  BY <1>2 DEF KeptHold, KeptOf
<1>4. ASSUME NEW b
      PROVE  Held(s, k, b) = 0
  <2>1. Of(FramesHold(s) \cup KeptHold(k), b) = {}
    BY <1>1, <1>3 DEF Of
  <2> QED BY <2>1, FS_EmptySet DEF Held, Weight
<1> QED BY <1>4

LEMMA EmptyMemory ==
  ASSUME NEW s, s = <<>>, NEW m, m = <<>>,
         NEW k, \A j \in DOMAIN k : \A i \in Impls : k[j][i] = <<>>
  PROVE  MemOK(m, s, k)
<1>1. DOMAIN s = {} /\ \A j \in DOMAIN k : \A i \in Impls : DOMAIN k[j][i] = {}
  OBVIOUS
<1>2. \A b : Held(s, k, b) = 0
  BY <1>1, NothingHeld
<1>3. ASSUME NEW b \in Nat \ {0}
      PROVE  Booked(m, b, Held(s, k, b))
  <2>1. b \notin 1 .. Len(m)
    OBVIOUS
  <2> QED BY <1>2, <2>1 DEF Booked
<1> QED BY <1>1, <1>3 DEF MemOK, Counted

LEMMA InitMem ==
  ASSUME NoDefaultStrings, Init
  PROVE  MemoryOK
<1>1. mem = <<>> /\ stack = <<>> /\ \A j \in DOMAIN kept : \A i \in Impls : kept[j][i] = <<>>
  BY NoDefaults DEF Init
<1> QED BY <1>1, EmptyMemory DEF MemoryOK

LEMMA NextScriptMem ==
  ASSUME NoDefaultStrings, IInv, IInv', MemoryOK, NextScript
  PROVE  MemoryOK'
<1>1. mem' = <<>>
  <2>1. mem' = SubSeq(mem, 1, Len(Memory0)) /\ mem \in Seq(MemBlock)
    BY DEF NextScript, IInv, TypeOK
  <2>2. Len(Memory0) = 0
    BY NoDefaults
  <2> QED BY <2>1, <2>2
<1>2. stack' = <<>> /\ stack = <<>> /\ kept' = [kept EXCEPT ![0] = [i \in Impls |-> <<>>]]
  BY DEF NextScript, Forgets
<1>3. kept \in [0 .. MaxDepth -> [Impls -> Seq(Block)]] /\ MaxDepth \in Nat
  BY BoundsNat DEF IInv, TypeOK
<1>4. \A j \in DOMAIN kept' : \A i \in Impls : kept'[j][i] = <<>>
  <2>1. ASSUME NEW j \in 1 .. MaxDepth
        PROVE  \A i \in Impls : kept[j][i] = <<>>
    <3>1. j \in 0 .. MaxDepth /\ j > Len(stack)
      BY <1>2
    <3> QED BY <3>1 DEF IInv, ScopesForget
  <2>2. DOMAIN kept' = 0 .. MaxDepth /\ \A j \in 0 .. MaxDepth : j = 0 \/ j \in 1 .. MaxDepth
    BY <1>2, <1>3
  <2> QED BY <1>2, <1>3, <2>1, <2>2
<1>5. PICK m, s, k : m = mem' /\ s = stack' /\ k = kept'
  OBVIOUS
<1>6. MemOK(m, s, k)
  BY <1>1, <1>2, <1>4, <1>5, EmptyMemory
<1> QED BY <1>5, <1>6 DEF MemoryOK

LEMMA StepMem == NoDefaultStrings /\ IInv /\ MemoryOK /\ [Next]_vars => MemoryOK'
<1> SUFFICES ASSUME NoDefaultStrings, IInv, MemoryOK, [Next]_vars
             PROVE  MemoryOK'
  OBVIOUS
<1>0. IInv'
  BY StepIInv
<1>1. CASE \E call \in MayCall : BeginCall(call[1], call[2])
  <2>1. PICK call \in MayCall : BeginCall(call[1], call[2])
    BY <1>1
  <2>2. PICK i \in Impls : call \in {i} \X ArgumentLists(i)
    BY DEF MayCall
  <2>3. call[1] = i /\ call[2] \in ArgumentLists(i)
    BY <2>2
  <2> QED BY <1>0, <2>1, <2>3, BeginCallMem
<1>2. CASE Progress
  <2>1. CASE CountArgs
    BY <1>0, <2>1, CountArgsMem DEF CountArgs
  <2>2. CASE ParseArg \/ DefaultArg \/ Enter
    BY <1>0, <2>2, ParseArgMem, DefaultArgMem, EnterMem
  <2>3. CASE LetNone \/ LetNullArray \/ LetCalloc \/ LetCallback
    BY <1>0, <2>3, LetsMem
  <2>4. CASE LetStrval \/ LetPathval
    BY <1>0, <2>4, StringsMem
  <2>5. CASE LetArrval
    BY <1>0, <2>5, ArrvalMem
  <2>6. CASE Prepare \/ PreAssert \/ PostAssert \/ Return
    BY <1>0, <2>6, PhasesMem, FailedReturnMem
  <2>7. CASE Call
    BY <1>0, <2>7, CallMem
  <2>8. CASE \E throws \in BOOLEAN : UserlandReturns(throws)
    BY <1>0, <2>8, UserlandReturnsMem
  <2>9. CASE \E allocates \in BOOLEAN : NativeReturns(allocates)
    BY <1>0, <2>9, NativeReturnsMem
  <2>10. CASE Set \/ Free \/ FrameFree
    BY <1>0, <2>10, SetMem, FreeMem, FrameFreeMem
  <2> QED BY <1>2, <2>1, <2>2, <2>3, <2>4, <2>5, <2>6, <2>7, <2>8, <2>9, <2>10 DEF Progress
<1>3. CASE \E l \in LetIndexes : CallBack(l)
  BY <1>0, <1>3, CallBackMem
<1>4. CASE \E f \in DOMAIN stack, a \in ArgIndexes : Assign(f, a)
  BY <1>0, <1>4, AssignMem
<1>5. CASE Catch
  BY <1>5 DEF Catch, MemoryOK
<1>6. CASE NextScript
  BY <1>0, <1>6, NextScriptMem
<1>7. CASE UNCHANGED vars
  BY <1>7 DEF MemoryOK, vars
<1> QED BY <1>1, <1>2, <1>3, <1>4, <1>5, <1>6, <1>7 DEF Next

LEMMA AllHolders ==
  ASSUME NoDefaultStrings
  PROVE  Holders = FramesHold(stack) \cup KeptHold(kept)
<1>1. Holding("default", [d \in DOMAIN DefaultStrings |-> d]) = {}
  <2>1. DOMAIN [d \in DOMAIN DefaultStrings |-> d] = {}
    BY NoDefaults
  <2> QED BY <2>1 DEF Holding
<1>2. \A n : HoldersOf(n) = FrameHolders(n, stack[n])
  BY DEF HoldersOf, FrameHolders
<1>3. UNION {HoldersOf(n) : n \in DOMAIN stack} = FramesHold(stack)
  BY <1>2 DEF FramesHold, FramesOf
<1>4. \A scope : KeptIn(scope) = KeptTable(kept, scope)
  BY DEF KeptIn, KeptTable
<1>5. \A h : h \in UNION {Holding(<<scope, "kept">>, KeptIn(scope)) : scope \in DOMAIN kept}
               <=> h \in KeptHold(kept)
  <2>1. \A scope : Holding(<<scope, "kept">>, KeptIn(scope)) = KeptHolders(kept, scope)
    BY <1>4 DEF KeptHolders
  <2>2. \A h : h \in UNION {Holding(<<scope, "kept">>, KeptIn(scope)) : scope \in DOMAIN kept}
                 <=> \E scope \in DOMAIN kept : h \in Holding(<<scope, "kept">>, KeptIn(scope))
    OBVIOUS
  <2>3. \A h : h \in KeptHold(kept) <=> \E scope \in DOMAIN kept : h \in KeptHolders(kept, scope)
    BY DEF KeptHold, KeptOf
  <2> QED BY ONLY <2>1, <2>2, <2>3
<1>6. \A h : h \in Holders <=> h \in FramesHold(stack) \/ h \in KeptHold(kept)
  <2>1. \A h : h \in Holders
                <=> \/ h \in FramesHold(stack)
                    \/ h \in UNION {Holding(<<scope, "kept">>, KeptIn(scope)) : scope \in DOMAIN kept}
    BY <1>1, <1>3 DEF Holders
  <2> QED BY ONLY <2>1, <1>5
<1> QED BY ONLY <1>6

LEMMA MemoryBalanced ==
  ASSUME NoDefaultStrings, IInv, MemoryOK
  PROVE  Balanced
<1>1. mem \in Seq(MemBlock) /\ DOMAIN mem = 1 .. Len(mem)
  BY DEF IInv, TypeOK
<1>2. PICK H : H = Holders
  OBVIOUS
<1>3. ASSUME NEW b \in DOMAIN mem, mem[b].kind \notin NeverFreed
      PROVE  mem[b].refs = Cardinality({h \in H : h[1] = b})
  <2>1. b \in Nat \ {0} /\ b \in 1 .. Len(mem)
    BY <1>1
  <2>2. Booked(mem, b, Held(stack, kept, b))
    BY <2>1 DEF MemoryOK, MemOK, Counted
  <2>3. mem[b].refs = Held(stack, kept, b)
    BY <1>3, <2>1, <2>2 DEF Booked
  <2>4. Held(stack, kept, b) = Cardinality({h \in H : h[1] = b})
    BY <1>2, AllHolders DEF Held, Weight, Of
  <2> QED BY <2>3, <2>4
<1> QED BY <1>2, <1>3 DEF Balanced

(* The books of memory are kept in every run: the references to a block    *)
(* are those that frames and kept temporaries will give back, more only    *)
(* for the blocks that nobody frees (call.c:132).                          *)
THEOREM MemoryInvariance ==
  ASSUME NoDefaultStrings
  PROVE  Spec => [](IInv /\ MemoryOK)
<1>1. Init => IInv /\ MemoryOK
  BY InitIInv, InitMem
<1>2. IInv /\ MemoryOK /\ [Next]_vars => (IInv /\ MemoryOK)'
  BY StepIInv, StepMem
<1> QED BY <1>1, <1>2, PTL DEF Spec

(* Nothing is lost and nothing is given back twice, in whatever order      *)
(* calls, callbacks, assignments, exceptions and scripts come: a block has *)
(* as many references as there are arguments, variables, temporary lists   *)
(* and calls that will give one back (call.c:81, call.c:132, call.c:540).  *)
THEOREM AlwaysBalanced ==
  ASSUME NoDefaultStrings
  PROVE  Spec => []Balanced
<1>1. IInv /\ MemoryOK => Balanced
  BY MemoryBalanced
<1> QED BY <1>1, MemoryInvariance, PTL

-----------------------------------------------------------------------------

(* What converts an argument finds one: the frame has the types of the     *)
(* implementation's arguments, and a zval for each that was given.         *)

(* The least number of arguments, for psi_impl_num_min_args.               *)
LEMMA MinArgsFirst ==
  ASSUME NEW i \in Impls
  PROVE  /\ MinArgs(i) \in 0 .. Len(Impl[i].args)
         /\ \A b \in 1 .. MinArgs(i) : Impl[i].args[b].def = "none"
         /\ MinArgs(i) < Len(Impl[i].args) => Impl[i].args[MinArgs(i) + 1].def # "none"
<1> DEFINE args == Impl[i].args
           Ends == {a \in 0 .. Len(args) : a < Len(args) => args[a + 1].def # "none"}
<1>1. Len(args) \in Nat
  BY ImplAssumption DEF IsImpl
<1>2. Ends \subseteq Nat /\ Len(args) \in Ends
  BY <1>1
<1>3. PICK a \in Ends : \A e \in Ends : ~(<<e, a>> \in OpToRel(<, Nat))
  <2> HIDE DEF Ends
  <2> QED BY <1>2, NatLessThanWellFounded, WFMin
<1>4. \A e \in Ends : ~(e < a)
  <2> SUFFICES ASSUME NEW e \in Ends, e < a
               PROVE  FALSE
    OBVIOUS
  <2>1. <<e, a>> \in Nat \X Nat
    BY <1>2
  <2>2. <<e, a>> \in OpToRel(<, Nat)
    BY <2>1 DEF OpToRel
  <2> QED BY <1>3, <2>2
<1>5. \A b \in 1 .. a : args[b].def = "none"
  <2> SUFFICES ASSUME NEW b \in 1 .. a, args[b].def # "none"
               PROVE  FALSE
    OBVIOUS
  <2>1. a \in 0 .. Len(args) /\ b - 1 \in 0 .. Len(args) /\ b - 1 + 1 = b /\ b - 1 < a
    BY <1>1
  <2>2. b - 1 \in Ends
    BY <2>1
  <2> QED BY <1>4, <2>1, <2>2
<1>6. /\ a \in 0 .. Len(args) /\ \A b \in 1 .. a : args[b].def = "none"
      /\ a < Len(args) => args[a + 1].def # "none"
  BY <1>5
<1>7. \E c \in 0 .. Len(Impl[i].args) :
        /\ \A b \in 1 .. c : Impl[i].args[b].def = "none"
        /\ c < Len(Impl[i].args) => Impl[i].args[c + 1].def # "none"
  BY <1>6
<1> HIDE DEF args, Ends
<1> QED BY <1>7 DEF MinArgs

LEMMA MustBeGiven ==
  ASSUME NEW i \in Impls, NEW a \in 1 .. Len(Impl[i].args),
         \A b \in 1 .. a : Impl[i].args[b].def = "none"
  PROVE  a <= MinArgs(i)
<1>1. PICK m \in Nat : m = MinArgs(i) /\ m \in 0 .. Len(Impl[i].args)
  BY MinArgsFirst
<1>2. Len(Impl[i].args) \in Nat
  BY ImplAssumption DEF IsImpl
<1>3. m < Len(Impl[i].args) => Impl[i].args[m + 1].def # "none"
  BY <1>1, MinArgsFirst
<1>4. m < a => m + 1 \in 1 .. a /\ m < Len(Impl[i].args)
  BY <1>2
<1>5. ~(m < a)
  BY <1>3, <1>4
<1> QED BY <1>1, <1>5

Taken(f) ==
  f.phase \in {"args", "let"} =>
    /\ \A a \in 1 .. Len(f.args) : a <= Len(Impl[f.impl].args) =>
         /\ f.args[a].type = Impl[f.impl].args[a].type
         /\ f.args[a].zv = 0 => a > Len(f.given)
    /\ f.phase = "let" => MinArgs(f.impl) <= Len(f.given)

TopTaken == stack # <<>> => Taken(Top)

LEMMA TakenTurn ==
  ASSUME IInv, stack # <<>>, NEW f, Continue(f), Taken(f)
  PROVE  TopTaken'
<1>1. stack' = [stack EXCEPT ![Len(stack)] = f] /\ stack \in Seq(Frame(Block)) /\ Len(stack) \in Nat \ {0}
  BY DEF Continue, IInv, TypeOK
<1>2. Len(stack') = Len(stack) /\ stack'[Len(stack)] = f
  BY <1>1
<1>3. Top' = f
  BY <1>2 DEF Top
<1> QED BY <1>3 DEF TopTaken

LEMMA TakenElse ==
  ASSUME IInv, stack # <<>>, NEW f, Continue(f), f.phase \notin {"args", "let"}
  PROVE  TopTaken'
BY TakenTurn DEF Taken

LEMMA TakenMore ==
  ASSUME IInv, TopTaken, Running("args"), Top.n = Len(Top.args), NEW ar, ar \in Arguments(Nat),
         Continue([Top EXCEPT !.n = Top.n + 1, !.args = Append(@, ar)]),
         Top.n + 1 <= Len(Im.args) =>
           ar.type = Im.args[Top.n + 1].type /\ (ar.zv = 0 => Top.n + 1 > Len(Top.given))
  PROVE  TopTaken'
<1>1. stack # <<>> /\ Top.phase = "args" /\ Top \in Frame(Block) /\ Taken(Top)
  BY TopFacts DEF Running, TopTaken
<1>2. PICK g : g = Top /\ g \in Frame(Block)
  BY <1>1
<1>3. PICK args : args = Append(g.args, ar)
  OBVIOUS
<1>4. PICK f : f = [g EXCEPT !.n = g.n + 1, !.args = args]
  OBVIOUS
<1>5. /\ f.phase = "args" /\ f.args = args /\ f.impl = g.impl /\ f.given = g.given
  BY <1>1, <1>2, <1>4 DEF Frame
<1>6. /\ Len(args) = Len(g.args) + 1 /\ \A a \in 1 .. Len(g.args) : args[a] = g.args[a]
      /\ args[Len(g.args) + 1] = ar /\ Len(g.args) \in Nat
  <2>1. g.args \in Seq(Arguments(Block)) /\ Block \subseteq Nat
    BY <1>2 DEF Frame, Block
  <2>2. g.args \in Seq(Arguments(Nat))
    <3>1. Arguments(Block) \subseteq Arguments(Nat)
      BY <2>1 DEF Arguments
    <3>2. PICK A, B : A = Arguments(Block) /\ B = Arguments(Nat)
      OBVIOUS
    <3> QED BY <2>1, <3>1, <3>2
  <2> QED BY <1>3, <2>2, AppendProperties
<1>7. ASSUME NEW a \in 1 .. Len(args), a <= Len(Impl[g.impl].args)
      PROVE  /\ args[a].type = Impl[g.impl].args[a].type
             /\ args[a].zv = 0 => a > Len(g.given)
  <2>1. CASE a \in 1 .. Len(g.args)
    BY <1>1, <1>2, <1>6, <1>7, <2>1 DEF Taken
  <2>2. CASE a = Len(g.args) + 1
    BY <1>2, <1>6, <1>7, <2>2 DEF Im
  <2> QED BY <1>6, <2>1, <2>2
<1>8. Taken(f)
  BY <1>5, <1>7 DEF Taken
<1>9. Continue(f)
  BY <1>2, <1>3, <1>4
<1> QED BY <1>1, <1>8, <1>9, TakenTurn

LEMMA CountArgsTaken ==
  ASSUME IInv, TopTaken, CountArgs
  PROVE  TopTaken'
<1>1. /\ stack # <<>> /\ Continue([Top EXCEPT !.phase = "over", !.ok = FALSE])
      /\ Top \in Frame(Block)
  BY TopFacts DEF CountArgs, Running, Rejects
<1>2. [Top EXCEPT !.phase = "over", !.ok = FALSE].phase = "over"
  BY <1>1 DEF Frame
<1> QED BY <1>1, <1>2, TakenElse

LEMMA ParseArgTaken ==
  ASSUME IInv, TopTaken, ParseArg
  PROVE  TopTaken'
<1>1. /\ stack # <<>> /\ Running("args") /\ Top \in Frame(Block) /\ Top.phase = "args"
      /\ WellFormed(Top) /\ IsImpl(Im) /\ Top.n < Len(Top.given) /\ ~WrongCount
  BY TopFacts DEF ParseArg, Running
<1>2. PICK a, type, va, block : /\ a = Top.n + 1 /\ type = TypeOf(Top.impl, a)
                                /\ va = (a > Len(Im.args)) /\ block = Top.slots[a]
  OBVIOUS
<1>3. \/ Rejects
      \/ \E ival \in {block, Len(mem) + 1, 0} :
           Continue([Top EXCEPT !.n = a, !.args = Append(@, Argument(type, va, ival, a))])
  BY <1>2 DEF ParseArg
<1>4. CASE Rejects
  <2>1. Continue([Top EXCEPT !.phase = "over", !.ok = FALSE])
    BY <1>4 DEF Rejects
  <2>2. [Top EXCEPT !.phase = "over", !.ok = FALSE].phase = "over"
    BY <1>1 DEF Frame
  <2> QED BY <1>1, <2>1, <2>2, TakenElse
<1>5. ASSUME NEW ival \in {block, Len(mem) + 1, 0},
             Continue([Top EXCEPT !.n = a, !.args = Append(@, Argument(type, va, ival, a))])
      PROVE  TopTaken'
  <2>1. PICK ar : ar = Argument(type, va, ival, a)
    OBVIOUS
  <2>2. a \in Nat \ {0} /\ va \in BOOLEAN /\ ival \in Nat
    <3>1. Top.n \in Nat /\ Top.slots \in Seq(Block) /\ Len(mem) \in Nat /\ Top.given \in Seq(Givens)
      BY <1>1 DEF Frame, IInv, TypeOK
    <3>2. a \in 1 .. Len(Top.slots)
      BY <1>1, <1>2, <3>1 DEF WellFormed
    <3>3. block \in Block
      BY <1>2, <3>1, <3>2
    <3> QED BY <1>2, <3>1, <3>3 DEF Block
  <2>3. type \in Types
    <3>1. Len(Im.args) \in Nat /\ Len(Top.given) \in Nat /\ Top.n \in Nat
      BY <1>1, ImplFacts DEF Frame
    <3>2. CASE a <= Len(Im.args)
      <4>1. a \in 1 .. Len(Im.args)
        BY <2>2, <3>1, <3>2
      <4>2. Im.args[a].type \in Types
        BY <1>1, <4>1, ImplFacts
      <4> QED BY <1>2, <3>2, <4>2 DEF TypeOf, Im
    <3>3. CASE ~(a <= Len(Im.args))
      <4>1. Im.vararg # "none"
        BY <1>1, <1>2, <3>1, <3>3 DEF WrongCount
      <4>2. Im.vararg \in Types
        BY <1>1, <4>1, ImplFacts
      <4> QED BY <1>2, <3>3, <4>2 DEF TypeOf, Im
    <3> QED BY <3>2, <3>3
  <2>4. /\ ar \in Arguments(Nat) /\ ar.type = type /\ ar.zv = a
    BY <2>1, <2>2, <2>3 DEF Argument, Arguments
  <2>5. a <= Len(Im.args) => type = Im.args[a].type
    BY <1>2 DEF TypeOf, Im
  <2>6. Top.n = Len(Top.args)
    BY <1>1 DEF WellFormed
  <2>7. Continue([Top EXCEPT !.n = Top.n + 1, !.args = Append(@, ar)])
    BY <1>2, <1>5, <2>1
  <2>8. a # 0 /\ a = Top.n + 1
    BY <1>2, <2>2
  <2> QED BY <1>1, <2>4, <2>5, <2>6, <2>7, <2>8, TakenMore
<1> QED BY <1>3, <1>4, <1>5

LEMMA DefaultArgTaken ==
  ASSUME NoDefaultStrings, IInv, TopTaken, DefaultArg
  PROVE  TopTaken'
<1>1. /\ stack # <<>> /\ Running("args") /\ Top \in Frame(Block) /\ Top.phase = "args"
      /\ WellFormed(Top) /\ IsImpl(Im) /\ Len(Top.given) <= Top.n /\ Top.n < Len(Im.args)
      /\ Top.impl \in Impls
  BY TopFacts DEF DefaultArg, Running
<1>2. PICK a : a = Top.n + 1
  OBVIOUS
<1>3. a \in 1 .. Len(Im.args) /\ a > Len(Top.given)
  BY <1>1, <1>2, ImplFacts, SMTT(40) DEF Frame
<1>4. Im.args[a].def # "string"
  BY <1>1, <1>3, ImplFacts DEF NoDefaultStrings, Im
<1>5. PICK ar : ar = Argument(Im.args[a].type, FALSE, 0, 0)
  OBVIOUS
<1>6. Im.args[a].type \in Types
  BY <1>1, <1>3, ImplFacts
<1>7. ar \in Arguments(Nat) /\ ar.type = Im.args[a].type
  BY <1>5, <1>6 DEF Argument, Arguments
<1>8. Continue([Top EXCEPT !.n = Top.n + 1, !.args = Append(@, ar)])
  BY <1>2, <1>4, <1>5 DEF DefaultArg
<1>9. Top.n = Len(Top.args)
  BY <1>1 DEF WellFormed
<1> QED BY <1>1, <1>2, <1>3, <1>7, <1>8, <1>9, TakenMore

LEMMA EnterTaken ==
  ASSUME IInv, TopTaken, Enter
  PROVE  TopTaken'
<1>1. /\ stack # <<>> /\ Top.phase = "args" /\ ~WrongCount /\ Top \in Frame(Block)
      /\ IsImpl(Im) /\ Taken(Top) /\ Top.impl \in Impls
  BY TopFacts DEF Enter, Running, TopTaken
<1>2. PICK b : b = IF Im.large THEN Len(mem) + 1 ELSE 0
  OBVIOUS
<1>3. PICK f : f = Entered(Top, b)
  OBVIOUS
<1>4. Continue(f)
  BY <1>2, <1>3 DEF Enter, Entered
<1>5. /\ f.phase = "let" /\ f.args = Top.args /\ f.given = Top.given /\ f.impl = Top.impl
  BY <1>1, <1>3 DEF Frame, Entered
<1>6. MinArgs(Top.impl) <= Len(Top.given)
  <2>1. MinArgs(Top.impl) \in Nat /\ Len(Top.given) \in Nat
    <3>1. MinArgs(Top.impl) \in 0 .. Len(Impl[Top.impl].args)
      BY <1>1, MinArgsFirst
    <3> QED BY <1>1, <3>1 DEF Frame
  <2> QED BY <1>1, <2>1 DEF WrongCount
<1>7. Taken(f)
  BY <1>1, <1>5, <1>6 DEF Taken
<1> QED BY <1>1, <1>4, <1>7, TakenTurn

LEMMA LetTaken ==
  ASSUME IInv, TopTaken, stack # <<>>, Top.phase = "let",
         NEW temps, NEW subs, NEW sym, Continue(Bound(Top, temps, subs, sym))
  PROVE  TopTaken'
<1>1. PICK f : f = Bound(Top, temps, subs, sym)
  OBVIOUS
<1>2. Top \in Frame(Block) /\ Taken(Top)
  BY TopFacts DEF TopTaken
<1>3. f.phase = "let" /\ f.args = Top.args /\ f.given = Top.given /\ f.impl = Top.impl
  BY <1>1, <1>2 DEF Frame, Bound
<1>4. Taken(f)
  BY <1>2, <1>3 DEF Taken
<1> QED BY <1>1, <1>4, TakenTurn

LEMMA BindsTaken ==
  ASSUME IInv, TopTaken, Running("let"), NEW kinds, NEW auto \in BOOLEAN, NEW sym,
         Binds(kinds, auto, sym)
  PROVE  TopTaken'
<1>1. stack # <<>> /\ Top.phase = "let" /\ Top \in Frame(Block)
  BY TopFacts DEF Running
<1>2. PICK temps : temps = IF auto THEN Top.temps \o NewBlocks(mem, kinds) ELSE Top.temps
  OBVIOUS
<1>3. PICK f, h : /\ f = [Top EXCEPT !.n = Top.n + 1, !.temps = temps, !.syms = Append(Top.syms, sym)]
                  /\ h = Bound(Top, temps, Top.subs, sym)
  OBVIOUS
<1>4. f = h
  BY <1>1, <1>3 DEF Frame, Bound
<1>5. Continue(f)
  BY <1>2, <1>3 DEF Binds
<1>6. Continue(Bound(Top, temps, Top.subs, sym))
  BY <1>3, <1>4, <1>5, Zenon
<1> QED BY <1>1, <1>6, LetTaken

LEMMA LetsTaken ==
  ASSUME IInv, TopTaken,
         LetNone \/ LetNullArray \/ LetCalloc \/ LetStrval \/ LetPathval \/ LetArrval \/ LetCallback
  PROVE  TopTaken'
<1>1. CASE LetNone
  BY <1>1, BindsTaken DEF LetNone, LetRuns
<1>2. CASE LetNullArray
  BY <1>2, BindsTaken, Zenon DEF LetNullArray, LetRuns
<1>3. CASE LetCalloc
  BY <1>3, BindsTaken DEF LetCalloc, LetRuns
<1>4. CASE LetStrval
  BY <1>4, BindsTaken DEF LetStrval, Strval, LetRuns
<1>5. CASE LetPathval
  <2>1. Running("let")
    BY <1>5 DEF LetPathval, LetRuns
  <2>2. CASE Strval
    BY <2>1, <2>2, BindsTaken DEF Strval
  <2>3. CASE Binds(<<>>, FALSE, 0)
    BY <2>1, <2>3, BindsTaken
  <2> QED BY <1>5, <2>2, <2>3 DEF LetPathval
<1>6. CASE LetCallback
  BY <1>6, BindsTaken DEF LetCallback, LetRuns
<1>7. CASE LetArrval
  <2>1. Running("let") /\ stack # <<>> /\ Top.phase = "let"
    BY <1>7 DEF LetArrval, LetRuns, Running
  <2>2. CASE Binds(<<"temp">>, TRUE, Len(mem) + 1)
    BY <2>1, <2>2, BindsTaken
  <2>3. CASE Continue([Top EXCEPT !.n = @ + 1,
                         !.temps = @ \o NewBlocks(mem, ArrvalBlocks(TRUE)),
                         !.subs = Append(@, Len(mem) + 1),
                         !.syms = Append(@, Len(mem) + 3)])
    <3>1. Continue(Bound(Top, Top.temps \o NewBlocks(mem, ArrvalBlocks(TRUE)),
                         Append(Top.subs, Len(mem) + 1), Len(mem) + 3))
      BY <2>3 DEF Bound
    <3> QED BY <2>1, <3>1, LetTaken
  <2> QED BY <1>7, <2>2, <2>3 DEF LetArrval
<1> QED BY <1>1, <1>2, <1>3, <1>4, <1>5, <1>6, <1>7

LEMMA PhasesTaken ==
  ASSUME IInv, Prepare \/ PreAssert \/ PostAssert \/ Return
  PROVE  TopTaken'
<1>1. stack # <<>>
  BY DEF Prepare, PreAssert, PostAssert, Return, Running
<1>2. PICK phase : /\ phase \in {"pre", "call", "return", "set", "over"}
                   /\ Enters(phase) \/ AssertFails("pre") \/ AssertFails("post")
  <2>1. \/ Enters("pre") \/ Enters("call") \/ Enters("return") \/ Enters("set") \/ Enters("over")
        \/ AssertFails("pre") \/ AssertFails("post")
    BY DEF Prepare, PreAssert, PostAssert, Return
  <2> QED BY <2>1
<1>3. PICK f : Continue(f) /\ f.phase \in {phase, "return"}
  <2>1. CASE Enters(phase)
    BY <1>1, <2>1, EntersPhase
  <2>2. CASE AssertFails("pre") \/ AssertFails("post")
    BY <1>1, <2>2, AssertFailsPhase
  <2> QED BY <1>2, <2>1, <2>2
<1>4. f.phase \notin {"args", "let"}
  BY <1>2, <1>3
<1> QED BY <1>1, <1>3, <1>4, TakenElse

LEMMA NativeTaken ==
  ASSUME IInv, \/ Call
               \/ \E l \in LetIndexes : CallBack(l)
               \/ \E allocates \in BOOLEAN : NativeReturns(allocates)
  PROVE  TopTaken'
<1>1. stack # <<>> /\ Top \in Frame(Block)
  BY TopFacts DEF Call, CallBack, NativeReturns, Running
<1>2. CASE Call
  <2>1. PICK f : f = Called(Top, current[Top.impl])
    OBVIOUS
  <2>2. f.phase = "native"
    BY <1>1, <2>1 DEF Frame, Called
  <2>3. Continue(f)
    BY <1>2, <2>1 DEF Call, Called
  <2> QED BY <1>1, <2>2, <2>3, TakenElse
<1>3. CASE \E l \in LetIndexes : CallBack(l)
  <2>1. PICK l : CallBack(l)
    BY <1>3
  <2>2. PICK f : f = CalledBack(Top, current[Top.impl], l, Len(mem) + 1)
    OBVIOUS
  <2>3. f.phase = "userland"
    BY <1>1, <2>2 DEF Frame, CalledBack
  <2>4. Continue(f)
    BY <2>1, <2>2 DEF CallBack, CalledBack
  <2> QED BY <1>1, <2>3, <2>4, TakenElse
<1>4. CASE \E allocates \in BOOLEAN : NativeReturns(allocates)
  <2>1. PICK allocates : NativeReturns(allocates)
    BY <1>4
  <2>2. PICK f : f = Ended(Top, IF allocates THEN Len(mem) + 1 ELSE 0)
    OBVIOUS
  <2>3. f.phase = "post"
    BY <1>1, <2>2 DEF Frame, Ended
  <2>4. Continue(f)
    BY <2>1, <2>2 DEF NativeReturns, Ended
  <2> QED BY <1>1, <2>3, <2>4, TakenElse
<1> QED BY <1>2, <1>3, <1>4

LEMMA WritesTaken ==
  ASSUME IInv, Set \/ Free
  PROVE  TopTaken'
<1>1. stack # <<>> /\ Top.phase = "set" /\ Top \in Frame(Block)
  BY TopFacts DEF Set, Free, Running
<1>2. PICK slots, out, n : \/ Continue([Top EXCEPT !.n = n, !.slots = slots])
                           \/ Continue([Top EXCEPT !.n = n])
                           \/ Continue([Top EXCEPT !.phase = "over", !.out = out])
  <2>1. CASE Free
    <3>1. Continue([Top EXCEPT !.phase = "over", !.out = 0])
      BY <2>1 DEF Free
    <3> QED BY <3>1
  <2>2. CASE Set
    <3>1. PICK n : n = Top.n + 1
      OBVIOUS
    <3>2. \/ \E a : Continue([Top EXCEPT !.n = n, !.slots[a] = Len(mem) + 1])
          \/ Continue([Top EXCEPT !.n = n])
      BY <2>2, <3>1, Zenon DEF Set
    <3>3. CASE \E a : Continue([Top EXCEPT !.n = n, !.slots[a] = Len(mem) + 1])
      <4>1. PICK a : Continue([Top EXCEPT !.n = n, !.slots[a] = Len(mem) + 1])
        BY <3>3
      <4>2. PICK t : t = [Top.slots EXCEPT ![a] = Len(mem) + 1]
        OBVIOUS
      <4>3. Continue([Top EXCEPT !.n = n, !.slots = t])
        BY <4>1, <4>2
      <4> QED BY <4>3
    <3> QED BY <3>2, <3>3
  <2> QED BY <2>1, <2>2
<1>3. PICK f, g, h : /\ f = [Top EXCEPT !.n = n, !.slots = slots] /\ g = [Top EXCEPT !.n = n]
                     /\ h = [Top EXCEPT !.phase = "over", !.out = out]
  OBVIOUS
<1>4. f.phase = "set" /\ g.phase = "set" /\ h.phase = "over"
  BY <1>1, <1>3 DEF Frame
<1>5. Continue(f) \/ Continue(g) \/ Continue(h)
  BY <1>2, <1>3
<1> QED BY <1>1, <1>4, <1>5, TakenElse

LEMMA AnswerTaken ==
  ASSUME IInv, NEW throws \in BOOLEAN, UserlandReturns(throws)
  PROVE  TopTaken'
<1>1. /\ stack # <<>> /\ Top.phase = "userland" /\ Top.home = Len(stack) /\ Top \in Frame(Block)
      /\ stack \in Seq(Frame(Block)) /\ Len(stack) \in Nat \ {0}
  <2>1. stack # <<>> /\ Top.phase = "userland"
    BY ZenonT(60) DEF UserlandReturns, Running
  <2>2. Top.home = Len(stack) /\ Top \in Frame(Block) /\ Len(stack) \in 1 .. MaxDepth
    BY <2>1, TopFacts
  <2>3. stack \in Seq(Frame(Block))
    BY DEF IInv, TypeOK
  <2>4. Len(stack) \in Nat \ {0}
    BY <2>2, BoundsAssumption
  <2> QED BY <2>1, <2>2, <2>3, <2>4
<1>2. PICK m : stack' = [[stack EXCEPT ![Top.home] = Answered(Top.home, Top.via, m).f] EXCEPT
                           ![Len(stack)].phase = "native", ![Len(stack)].params = 0,
                           ![Len(stack)].home = 0, ![Len(stack)].via = 0]
  BY Zenon DEF UserlandReturns
<1>3. PICK g : g = Answered(Top.home, Top.via, m).f
  OBVIOUS
<1>4. PICK temps, subs, inner, syms : g = Converted(Top, temps, subs, inner, syms)
  BY <1>1, <1>3, ZenonT(60) DEF Answered, Converted, Top
<1>5. PICK f : f = Returned(Top, temps, subs, inner, syms)
  OBVIOUS
<1>6. stack' = [stack EXCEPT ![Len(stack)] =
                  [g EXCEPT !.phase = "native", !.params = 0, !.home = 0, !.via = 0]]
  BY <1>1, <1>2, <1>3
<1>7. [g EXCEPT !.phase = "native", !.params = 0, !.home = 0, !.via = 0] = f
  BY <1>1, <1>4, <1>5 DEF Converted, Returned, Frame
<1>8. f.phase = "native" /\ Continue(f)
  BY <1>1, <1>5, <1>6, <1>7 DEF Frame, Returned, Continue
<1> QED BY <1>1, <1>8, TakenElse

LEMMA FrameFreeTaken ==
  ASSUME IInv, FrameFree
  PROVE  TopTaken'
<1>0. stack # <<>> /\ stack' = SubSeq(stack, 1, Len(stack) - 1)
  BY DEF FrameFree, Running
<1>1. stack \in Seq(Frame(Block)) /\ Len(stack) \in Nat \ {0}
  BY <1>0 DEF IInv, TypeOK
<1>2. PICK k \in Nat : k = Len(stack) - 1
  BY <1>1
<1>3. /\ stack' \in Seq(Frame(Block)) /\ Len(stack') = k /\ \A n \in 1 .. k : stack'[n] = stack[n]
  BY <1>0, <1>1, <1>2, LastRemoved
<1>4. CASE k = 0
  BY <1>3, <1>4 DEF TopTaken
<1>5. CASE k # 0
  <2>1. Top' = stack[k] /\ k \in 1 .. Len(stack) - 1
    BY <1>2, <1>3, <1>5 DEF Top
  <2>2. stack[k].phase = "userland"
    BY <2>1 DEF IInv, BelowCallsBack
  <2>3. Taken(stack[k])
    BY <2>2 DEF Taken
  <2> QED BY <2>1, <2>3 DEF TopTaken
<1> QED BY <1>4, <1>5

LEMMA PHPTaken ==
  ASSUME IInv, Catch \/ NextScript \/ \E n \in DOMAIN stack, a \in ArgIndexes : Assign(n, a)
  PROVE  TopTaken'
<1>1. CASE Catch \/ NextScript
  <2>1. stack' = stack /\ (stack # <<>> => Top.phase = "userland")
    BY <1>1 DEF Catch, NextScript, InPHP
  <2>2. Top' = Top
    BY <2>1 DEF Top
  <2> QED BY <2>1, <2>2 DEF TopTaken, Taken
<1>2. CASE \E n \in DOMAIN stack, a \in ArgIndexes : Assign(n, a)
  <2>1. PICK n, a : n \in DOMAIN stack /\ Assign(n, a)
    BY <1>2
  <2>2. /\ n \in DOMAIN stack
        /\ stack' = [stack EXCEPT ![n].assigned = TRUE, ![n].slots[a] = Len(mem) + 1]
        /\ stack \in Seq(Frame(Block)) /\ Len(stack) \in Nat /\ DOMAIN stack = 1 .. Len(stack)
    BY <2>1, LenProperties DEF Assign, IInv, TypeOK
  <2>0. stack # <<>> /\ Top.phase = "userland"
    <3>1. stack # <<>>
      BY <2>1
    <3> QED BY <2>1, <3>1 DEF Assign, InPHP
  <2>3. PICK g \in Frame(Block) : g = stack[n]
    BY <2>2
  <2>4. PICK t : t = [g.slots EXCEPT ![a] = Len(mem) + 1]
    OBVIOUS
  <2>5. PICK f : f = [g EXCEPT !.assigned = TRUE, !.slots = t]
    OBVIOUS
  <2>6. stack' = [stack EXCEPT ![n] = f]
    BY <2>2, <2>3, <2>4, <2>5
  <2>10. Len(stack') = Len(stack)
    BY ONLY <2>2, <2>6
  <2>7. f.phase = g.phase
    BY <2>5 DEF Frame
  <2>8. stack'[Len(stack)].phase = stack[Len(stack)].phase
    BY <2>2, <2>3, <2>6, <2>7
  <2>9. Top'.phase = "userland"
    BY <2>0, <2>8, <2>10 DEF Top
  <2> QED BY <2>9 DEF TopTaken, Taken
<1> QED BY <1>1, <1>2

LEMMA BeginCallTaken ==
  ASSUME IInv, NEW i, NEW given, BeginCall(i, given)
  PROVE  TopTaken'
<1>1. PICK slots : stack' = Append(stack, NewFrame(i, given, slots))
  BY DEF BeginCall
<1>2. PICK f : f = NewFrame(i, given, slots)
  OBVIOUS
<1>3. Taken(f)
  <2>1. f.phase = "args" /\ f.args = <<>>
    BY <1>2 DEF NewFrame
  <2> QED BY <2>1 DEF Taken
<1>4. stack \in Seq(Frame(Block) \union {f})
  BY SeqMonotonic DEF IInv, TypeOK
<1>5. Top' = f
  BY <1>1, <1>2, <1>4, AppendProperties DEF Top
<1> QED BY <1>3, <1>5 DEF TopTaken

LEMMA StepTaken == NoDefaultStrings /\ IInv /\ TopTaken /\ [Next]_vars => TopTaken'
<1> SUFFICES ASSUME NoDefaultStrings, IInv, TopTaken, [Next]_vars
             PROVE  TopTaken'
  OBVIOUS
<1>1. CASE \E call \in MayCall : BeginCall(call[1], call[2])
  BY <1>1, BeginCallTaken
<1>2. CASE Progress
  <2>1. CASE CountArgs \/ ParseArg \/ DefaultArg \/ Enter
    BY <2>1, CountArgsTaken, ParseArgTaken, DefaultArgTaken, EnterTaken
  <2>2. CASE LetNone \/ LetNullArray \/ LetCalloc \/ LetStrval \/ LetPathval \/ LetArrval \/ LetCallback
    BY <2>2, LetsTaken
  <2>3. CASE Prepare \/ PreAssert \/ PostAssert \/ Return
    BY <2>3, PhasesTaken
  <2>4. CASE Call \/ \E allocates \in BOOLEAN : NativeReturns(allocates)
    BY <2>4, NativeTaken
  <2>5. CASE \E throws \in BOOLEAN : UserlandReturns(throws)
    BY <2>5, AnswerTaken
  <2>6. CASE Set \/ Free \/ FrameFree
    BY <2>6, WritesTaken, FrameFreeTaken
  <2> QED BY <1>2, <2>1, <2>2, <2>3, <2>4, <2>5, <2>6 DEF Progress
<1>3. CASE \E l \in LetIndexes : CallBack(l)
  BY <1>3, NativeTaken
<1>4. CASE (\E f \in DOMAIN stack, a \in ArgIndexes : Assign(f, a)) \/ Catch \/ NextScript
  BY <1>4, PHPTaken
<1>5. CASE UNCHANGED vars
  BY <1>5 DEF TopTaken, Top, vars
<1> QED BY <1>1, <1>2, <1>3, <1>4, <1>5 DEF Next

-----------------------------------------------------------------------------

(* What a frame points to is live, and so is what it holds: there are at   *)
(* least as many references as the frame has places for them.              *)

LEMMA OccursOnce ==
  ASSUME NEW t, IsFiniteSet(DOMAIN t), NEW k \in DOMAIN t
  PROVE  Count(t, t[k]) \in Nat /\ Count(t, t[k]) >= 1
BY CountNat

LEMMA FrameRefs ==
  ASSUME NEW m \in Seq(MemBlock), NEW s \in Seq(Frame(0 .. Len(m))),
         NEW k \in [0 .. MaxDepth -> [Impls -> Seq(0 .. Len(m))]], MemOK(m, s, k),
         NEW n \in DOMAIN s, NEW b \in 1 .. Len(m)
  PROVE  /\ m[b].refs \in Int /\ FrameCount(s[n], b) \in Nat
         /\ m[b].refs >= FrameCount(s[n], b)
         /\ m[b].kind \in Leaked => m[b].refs > FrameCount(s[n], b)
<1>1. PICK B : B = 0 .. Len(m)
  OBVIOUS
<1>2. FiniteFrames(s) /\ FiniteScopes(k)
  BY <1>1, TypedTables
<1>3. Len(m) \in Nat /\ b \in Nat \ {0} /\ m[b] \in MemBlock
  OBVIOUS
<1>4. /\ FrameCount(s[n], b) \in Nat /\ FrameCount(s[n], b) <= Held(s, k, b)
      /\ Held(s, k, b) \in Nat
  <2>1. PICK c : c = b
    OBVIOUS
  <2>2. /\ FrameCount(s[n], c) \in Nat /\ FrameCount(s[n], c) <= Held(s, k, c)
        /\ Held(s, k, c) \in Nat
    BY <1>2, HeldTurn, HeldSum
  <2> QED BY <2>1, <2>2
<1>5. Booked(m, b, Held(s, k, b))
  BY <1>3 DEF MemOK, Counted
<1>6. m[b].refs \in Int
  BY <1>3 DEF MemBlock
<1>7. m[b].refs >= Held(s, k, b) /\ (m[b].kind \in Leaked => m[b].refs > Held(s, k, b))
  BY <1>5 DEF Booked
<1> QED BY <1>4, <1>6, <1>7

LEMMA FrameParts ==
  ASSUME NEW f, Tables(f), NEW b
  PROVE  /\ Count(f.slots, b) \in Nat /\ Count(ArgBlocks(f), b) \in Nat /\ Count(f.temps, b) \in Nat
         /\ FrameCount(f, b) >= Count(f.slots, b) + Count(ArgBlocks(f), b) + Count(f.temps, b)
<1>1. DOMAIN ArgBlocks(f) = DOMAIN f.args
  BY DEF ArgBlocks
<1>2. Count(f.slots, b) \in Nat /\ Count(ArgBlocks(f), b) \in Nat /\ Count(f.temps, b) \in Nat
  BY <1>1, CountNat DEF Tables
<1>3. One(f.out, b) \in Nat /\ One(f.params, b) \in Nat
  BY DEF One
<1>4. \A p, q, r, u, v \in Nat : p + q + r + u + 2 * v >= p + q + r
  OBVIOUS
<1> QED BY <1>2, <1>3, <1>4 DEF FrameCount

(* A block that a symbol points to outlives the variable that has it, too. *)
LEMMA BackedRefs ==
  ASSUME NEW m \in Seq(MemBlock), NEW s \in Seq(Frame(0 .. Len(m))),
         NEW k \in [0 .. MaxDepth -> [Impls -> Seq(0 .. Len(m))]], MemOK(m, s, k),
         NEW n \in DOMAIN s, NEW b \in 1 .. Len(m), Backed(m, s[n], b)
  PROVE  /\ m[b].refs \in Int /\ Count(s[n].slots, b) \in Nat
         /\ m[b].refs > Count(s[n].slots, b)
<1>1. PICK B : B = 0 .. Len(m)
  OBVIOUS
<1>2. PICK f : f = s[n] /\ f \in Frame(0 .. Len(m))
  BY <1>1, TypedTables
<1>3. Tables(f)
  BY <1>1, <1>2, FrameTables
<1>4. PICK c : c = b
  OBVIOUS
<1>5. /\ Count(f.slots, c) \in Nat /\ Count(ArgBlocks(f), c) \in Nat /\ Count(f.temps, c) \in Nat
      /\ FrameCount(f, c) >= Count(f.slots, c) + Count(ArgBlocks(f), c) + Count(f.temps, c)
  BY <1>3, FrameParts
<1>6. /\ m[c].refs \in Int /\ FrameCount(f, c) \in Nat
      /\ m[c].refs >= FrameCount(f, c)
      /\ m[c].kind \in Leaked => m[c].refs > FrameCount(f, c)
  BY <1>2, <1>4, FrameRefs
<1>7. c # 0 /\ Backed(m, f, c)
  BY <1>2, <1>4
<1>8. CASE \E a \in DOMAIN f.args : ArgBlocks(f)[a] = c
  <2>1. PICK a \in DOMAIN f.args : ArgBlocks(f)[a] = c
    BY <1>8
  <2>2. IsFiniteSet(DOMAIN ArgBlocks(f)) /\ a \in DOMAIN ArgBlocks(f)
    BY <1>3 DEF ArgBlocks, Tables
  <2>3. Count(ArgBlocks(f), c) >= 1
    BY <2>1, <2>2, OccursOnce
  <2> QED BY <1>2, <1>4, <1>5, <1>6, <2>3
<1>9. CASE \E t \in DOMAIN f.temps : f.temps[t] = c
  <2>1. Count(f.temps, c) >= 1
    BY <1>3, <1>9, OccursOnce DEF Tables
  <2> QED BY <1>2, <1>4, <1>5, <1>6, <2>1
<1>10. CASE m[c].kind \in {"null array", "persistent"}
  <2>1. m[c].kind \in Leaked
    BY <1>10, Zenon DEF Leaked, NeverFreed
  <2> QED BY <1>2, <1>4, <1>5, <1>6, <2>1
<1> QED BY <1>7, <1>8, <1>9, <1>10 DEF Backed

LEMMA BackedLive ==
  ASSUME NEW m \in Seq(MemBlock), NEW s \in Seq(Frame(0 .. Len(m))),
         NEW k \in [0 .. MaxDepth -> [Impls -> Seq(0 .. Len(m))]], MemOK(m, s, k),
         NEW n \in DOMAIN s, NEW b \in 0 .. Len(m), Backed(m, s[n], b)
  PROVE  Live(m, b)
<1>1. CASE b = 0
  BY <1>1 DEF Live
<1>2. CASE b # 0
  <2>1. b \in 1 .. Len(m)
    BY <1>2
  <2>2. PICK c \in 1 .. Len(m) : c = b /\ Backed(m, s[n], c)
    BY <2>1
  <2>3. m[c].refs \in Int /\ Count(s[n].slots, c) \in Nat /\ m[c].refs > Count(s[n].slots, c)
    BY <2>2, BackedRefs
  <2>4. m[c].refs > 0
    BY <2>3
  <2> QED BY <2>2, <2>4 DEF Live
<1> QED BY <1>1, <1>2

(* The variadic arguments, and the memory for the return value.            *)
LEMMA LeakedLive ==
  ASSUME NEW m \in Seq(MemBlock), NEW s \in Seq(Frame(0 .. Len(m))),
         NEW k \in [0 .. MaxDepth -> [Impls -> Seq(0 .. Len(m))]], MemOK(m, s, k),
         NEW n \in DOMAIN s, NEW b \in 0 .. Len(m), b = 0 \/ m[b].kind \in Leaked
  PROVE  Live(m, b)
<1>1. CASE b = 0
  BY <1>1 DEF Live
<1>2. CASE b # 0
  <2>1. PICK c \in 1 .. Len(m) : c = b /\ m[c].kind \in Leaked
    BY <1>2
  <2>2. m[c].refs \in Int /\ FrameCount(s[n], c) \in Nat /\ m[c].refs > FrameCount(s[n], c)
    BY <2>1, FrameRefs
  <2>3. m[c].refs > 0
    BY <2>2
  <2> QED BY <2>1, <2>3 DEF Live
<1> QED BY <1>1, <1>2

LEMMA ArgumentBacked ==
  ASSUME NEW m, NEW f, NEW a \in DOMAIN f.args, f.args[a].type = "string"
  PROVE  Backed(m, f, f.args[a].ival)
<1>1. CASE f.args[a].ival = 0
  BY <1>1 DEF Backed
<1>2. CASE f.args[a].ival # 0
  <2>1. ArgBlocks(f)[a] = f.args[a].ival
    BY <1>2 DEF ArgBlocks, Releases
  <2> QED BY <2>1 DEF Backed
<1> QED BY <1>1, <1>2

LEMMA PointersLive ==
  ASSUME NEW m \in Seq(MemBlock), NEW s \in Seq(Frame(0 .. Len(m))),
         NEW k \in [0 .. MaxDepth -> [Impls -> Seq(0 .. Len(m))]], MemOK(m, s, k),
         NEW n \in DOMAIN s
  PROVE  /\ \A i \in DOMAIN s[n].syms : Live(m, s[n].syms[i])
         /\ \A a \in DOMAIN s[n].args :
              s[n].args[a].va \/ s[n].args[a].type = "string" => Live(m, s[n].args[a].ival)
         /\ Live(m, s[n].ret)
<1>1. PICK B : B = 0 .. Len(m)
  OBVIOUS
<1>2. PICK f : f = s[n] /\ f \in Frame(B) /\ Owned(m, f)
  BY <1>1, TypedTables DEF MemOK
<1>3. /\ \A i \in DOMAIN f.syms : f.syms[i] \in B
      /\ \A a \in DOMAIN f.args : f.args[a].ival \in B
      /\ f.ret \in B
  BY <1>2, FieldsOf
<1>4. ASSUME NEW i \in DOMAIN f.syms
      PROVE  Live(m, f.syms[i])
  <2>1. Backed(m, f, f.syms[i])
    BY <1>2 DEF Owned
  <2> QED BY <1>1, <1>2, <1>3, <2>1, BackedLive
<1>5. ASSUME NEW a \in DOMAIN f.args, f.args[a].va \/ f.args[a].type = "string"
      PROVE  Live(m, f.args[a].ival)
  <2>1. CASE f.args[a].type = "string"
    <3>1. Backed(m, f, f.args[a].ival)
      BY <2>1, ArgumentBacked
    <3> QED BY <1>1, <1>2, <1>3, <3>1, BackedLive
  <2>2. CASE f.args[a].type # "string"
    <3>1. f.args[a].ival = 0 \/ m[f.args[a].ival].kind = "variadic"
      BY <1>2, <1>5, <2>2 DEF Owned
    <3>2. "variadic" \in Leaked
      BY Zenon DEF Leaked, NeverFreed
    <3> QED BY <1>1, <1>3, <3>1, <3>2, LeakedLive
  <2> QED BY <2>1, <2>2
<1>6. Live(m, f.ret)
  <2>1. f.ret = 0 \/ m[f.ret].kind \in Leaked
    <3>0. "return value" \in Leaked
      BY Zenon DEF Leaked, NeverFreed
    <3>1. PICK kind : kind = "return value" /\ kind \in Leaked
      BY <3>0, Zenon
    <3>2. f.ret # 0 => m[f.ret].kind = kind
      BY <1>2, <3>1, Zenon DEF Owned
    <3> QED BY <3>1, <3>2, Zenon
  <2> QED BY <1>1, <1>3, <2>1, LeakedLive
<1> QED BY <1>2, <1>4, <1>5, <1>6

-----------------------------------------------------------------------------

(* A script that does not go on after an exception and calls only what it  *)
(* was given, on a system that allows its paths.                           *)
NoHabits == Habits = {}

(* A let statement makes a string of an argument that must be given, if it *)
(* is not one of strings: psi_let_strval reads the zval (marshal.c:419).  *)
ConvertsGiven ==
  \A i \in Impls : \A l \in 1 .. Len(Impl[i].lets) :
    Impl[i].lets[l].kind \in {"strval", "pathval"} =>
      \/ Impl[i].args[Impl[i].lets[l].arg].type = "string"
      \/ \A b \in 1 .. Impl[i].lets[l].arg : Impl[i].args[b].def = "none"

LEMMA TopPointers ==
  ASSUME IInv, MemoryOK, stack # <<>>
  PROVE  /\ \A i \in DOMAIN Top.syms : Live(mem, Top.syms[i])
         /\ \A a \in DOMAIN Top.args :
              Top.args[a].va \/ Top.args[a].type = "string" => Live(mem, Top.args[a].ival)
         /\ Live(mem, Top.ret)
<1>1. PICK m, s, k, n : m = mem /\ s = stack /\ k = kept /\ n = Len(stack)
  OBVIOUS
<1>2. /\ m \in Seq(MemBlock) /\ s \in Seq(Frame(0 .. Len(m))) /\ s[n] = Top
      /\ k \in [0 .. MaxDepth -> [Impls -> Seq(0 .. Len(m))]] /\ MemOK(m, s, k)
  BY <1>1 DEF IInv, TypeOK, Block, MemoryOK, Top
<1>3. n \in DOMAIN s
  BY <1>1, TopOwned DEF IInv, TypeOK
<1>4. /\ \A i \in DOMAIN s[n].syms : Live(m, s[n].syms[i])
      /\ \A a \in DOMAIN s[n].args :
           s[n].args[a].va \/ s[n].args[a].type = "string" => Live(m, s[n].args[a].ival)
      /\ Live(m, s[n].ret)
  BY <1>2, <1>3, PointersLive
<1> QED BY <1>1, <1>2, <1>4

LEMMA ConvertedGiven ==
  ASSUME ConvertsGiven, IInv, TopTaken, Running("let"), Top.n < Len(Im.lets),
         Let.kind \in {"strval", "pathval"}
  PROVE  /\ Let.arg \in DOMAIN Top.args
         /\ LetArg.type = "string" \/ LetArg.zv # 0
<1>1. /\ stack # <<>> /\ Top.phase = "let" /\ Top \in Frame(Block) /\ WellFormed(Top)
      /\ IsImpl(Im) /\ Top.impl \in Impls /\ Taken(Top)
  BY TopFacts DEF Running, TopTaken
<1>2. PICK i, l, c : i = Top.impl /\ l = Top.n + 1 /\ c = Let.arg
  OBVIOUS
<1>3. i \in Impls /\ Im = Impl[i] /\ Let = Impl[i].lets[l]
  BY <1>1, <1>2 DEF Im, Let
<1>4. l \in 1 .. Len(Impl[i].lets)
  <2>1. Top.n \in Nat
    BY <1>1 DEF Frame
  <2>2. Top.n < Len(Impl[i].lets)
    BY <1>3
  <2>3. Len(Impl[i].lets) \in Nat
    BY <1>1, <1>3, ImplFacts
  <2> QED BY ONLY <1>2, <2>1, <2>2, <2>3
<1>5. c \in 1 .. Len(Impl[i].args) /\ c = Impl[i].lets[l].arg /\ Len(Impl[i].args) \in Nat
  BY <1>1, <1>2, <1>3, <1>4, ImplFacts
<1>6. Top.args \in Seq(Arguments(Block)) /\ c \in 1 .. Len(Top.args) /\ DOMAIN Top.args = 1 .. Len(Top.args)
  <2>1. Top.args \in Seq(Arguments(Block)) /\ Len(Top.args) >= Len(Impl[i].args)
    BY <1>1, <1>2 DEF Frame, WellFormed
  <2> QED BY <1>5, <2>1, LenProperties
<1>7. LetArg = Top.args[c]
  BY <1>2 DEF LetArg
<1>8. /\ LetArg.type = Impl[i].args[c].type
      /\ LetArg.zv = 0 => c > Len(Top.given)
      /\ MinArgs(i) <= Len(Top.given)
  <2>1. PICK f : f = Top /\ Taken(f) /\ f.phase = "let" /\ f.impl = i
    BY <1>1, <1>2
  <2>2. c \in 1 .. Len(f.args) /\ c <= Len(Impl[i].args)
    BY <1>5, <1>6, <2>1
  <2>3. f.args[c].type = Impl[i].args[c].type /\ (f.args[c].zv = 0 => c > Len(f.given))
    BY <2>1, <2>2 DEF Taken
  <2>4. MinArgs(i) <= Len(f.given)
    BY <2>1 DEF Taken
  <2> QED BY <1>7, <2>1, <2>3, <2>4
<1>9. CASE \A b \in 1 .. c : Impl[i].args[b].def = "none"
  <2>1. c <= MinArgs(i)
    BY <1>3, <1>5, <1>9, MustBeGiven
  <2>2. PICK p, q \in Nat : p = MinArgs(i) /\ q = Len(Top.given)
    BY <1>1, <1>3, MinArgsFirst DEF Frame
  <2>3. c \in Nat /\ ~(c > q)
    BY <1>5, <1>8, <2>1, <2>2
  <2> QED BY <1>2, <1>6, <1>8, <2>2, <2>3
<1>10. Impl[i].args[c].type = "string" \/ \A b \in 1 .. c : Impl[i].args[b].def = "none"
  BY <1>3, <1>4, <1>5 DEF ConvertsGiven
<1> QED BY <1>2, <1>6, <1>8, <1>9, <1>10

LEMMA StrvalSafe ==
  ASSUME ConvertsGiven, IInv, MemoryOK, TopTaken, NoFault, Running("let"), Top.n < Len(Im.lets),
         Let.kind \in {"strval", "pathval"}, Strval
  PROVE  NoFault'
<1>1. stack # <<>>
  BY DEF Running
<1>2. Let.arg \in DOMAIN Top.args /\ (LetArg.type = "string" \/ LetArg.zv # 0)
  BY ConvertedGiven
<1>3. LetArg.type = "string" => Live(mem, LetArg.ival)
  BY <1>1, <1>2, TopPointers DEF LetArg
<1>4. \/ LetArg.type = "string" /\ Faults(~Live(mem, LetArg.ival), "use after free")
      \/ LetArg.type # "string" /\ Faults(LetArg.zv = 0, "null pointer")
  BY DEF Strval
<1> QED BY <1>2, <1>3, <1>4 DEF Faults, NoFault

LEMMA StringsSafe ==
  ASSUME NoHabits, ConvertsGiven, IInv, MemoryOK, TopTaken, NoFault, LetStrval \/ LetPathval
  PROVE  NoFault'
<1>1. CASE LetStrval
  BY <1>1, StrvalSafe DEF LetStrval, LetRuns
<1>2. CASE LetPathval
  <2>1. Running("let") /\ Top.n < Len(Im.lets) /\ Let.kind = "pathval"
    BY <1>2 DEF LetPathval, LetRuns
  <2>2. CASE Strval
    BY <2>1, <2>2, StrvalSafe
  <2>3. CASE (LetArg.type # "string" \/ "denies" \in Habits) /\ Faults(LetArg.type = "string", "bad free")
    BY <2>3 DEF NoHabits, Faults, NoFault
  <2> QED BY <1>2, <2>2, <2>3 DEF LetPathval
<1> QED BY <1>1, <1>2

LEMMA PrepareSafe ==
  ASSUME IInv, MemoryOK, NoFault, Prepare
  PROVE  NoFault'
<1>1. stack # <<>>
  BY DEF Prepare, Running
<1>2. ~ \E a \in DOMAIN Top.args : Top.args[a].va /\ ~Live(mem, Top.args[a].ival)
  BY <1>1, TopPointers
<1>3. Faults(\E a \in DOMAIN Top.args : Top.args[a].va /\ ~Live(mem, Top.args[a].ival), "use after free")
  BY DEF Prepare
<1> QED BY <1>2, <1>3 DEF Faults, NoFault

LEMMA CallBackSafe ==
  ASSUME NoHabits, IInv, NoFault, NEW l, CallBack(l)
  PROVE  NoFault'
<1>1. PICK home : home = current[Top.impl]
  OBVIOUS
<1>2. stack # <<>> /\ Top.phase = "native"
  BY DEF CallBack, Running
<1>3. home = Len(stack) /\ Len(stack) \in 1 .. MaxDepth
  BY <1>1, <1>2, HomeIsTop, TopFacts
<1>4. home # 0 /\ home > 0
  BY <1>3, BoundsNat
<1>5. /\ CallableOf(home, l).ival # 0 /\ ~exception
  BY <1>1, <1>4 DEF CallBack, NoHabits
<1>6. fault' = CASE home = 0 \/ exception -> "assertion"
                 [] CallableOf(home, l).ival = 0 -> "null pointer"
                 [] OTHER -> fault
  BY <1>1, Zenon DEF CallBack
<1>7. fault' = fault
  BY <1>4, <1>5, <1>6, Zenon
<1> QED BY <1>7 DEF NoFault

(* The value of a variable is made of what a symbol points to, after the   *)
(* variable gave back what it had.                                         *)
LEMMA SourceSurvives ==
  ASSUME NEW m \in Seq(MemBlock), NEW s \in Seq(Frame(0 .. Len(m))),
         NEW k \in [0 .. MaxDepth -> [Impls -> Seq(0 .. Len(m))]], MemOK(m, s, k),
         NEW n \in DOMAIN s, NEW a \in DOMAIN s[n].slots, NEW b \in 0 .. Len(m), Backed(m, s[n], b)
  PROVE  Live(Release(m, <<s[n].slots[a]>>), b)
<1>1. CASE b = 0
  BY <1>1 DEF Live
<1>2. CASE b # 0
  <2>1. PICK c \in 1 .. Len(m) : c = b /\ Backed(m, s[n], c)
    BY <1>2
  <2>2. PICK x, t : x = s[n].slots[a] /\ t = <<x>>
    OBVIOUS
  <2>3. IsFiniteSet(DOMAIN t) /\ Count(t, c) = One(x, c)
    BY <2>2, CountSingle
  <2>4. Release(m, t)[c].refs = m[c].refs - One(x, c)
    BY <2>3, ReleaseAt
  <2>5. m[c].refs \in Int /\ Count(s[n].slots, c) \in Nat /\ m[c].refs > Count(s[n].slots, c)
    BY <2>1, BackedRefs
  <2>6. One(x, c) \in {0, 1} /\ (One(x, c) = 1 => x = c)
    BY DEF One
  <2>7. x = c => Count(s[n].slots, c) >= 1
    <3>1. PICK B : B = 0 .. Len(m)
      OBVIOUS
    <3>2. PICK f : f = s[n] /\ f \in Frame(B)
      BY <3>1, TypedTables
    <3>3. Tables(f)
      BY <3>2, FrameTables
    <3> QED BY <2>2, <3>2, <3>3, OccursOnce DEF Tables
  <2>8. Release(m, t)[c].refs > 0
    BY <2>4, <2>5, <2>6, <2>7
  <2> QED BY <2>1, <2>2, <2>8 DEF Live
<1> QED BY <1>1, <1>2

LEMMA SetSafe ==
  ASSUME IInv, MemoryOK, NoFault, Set
  PROVE  NoFault'
<1> DEFINE arg == Top.args[Im.sets[Top.n + 1][1]]
           source == Top.syms[Im.sets[Top.n + 1][2]]
<1>1. /\ stack # <<>> /\ Top.phase = "set"
      /\ \/ arg.zv # 0 /\ Faults(~Live(Release(mem, <<Top.slots[arg.zv]>>), source), "use after free")
         \/ UNCHANGED fault
  BY DEF Set, Running
<1>2. /\ Top \in Frame(Block) /\ WellFormed(Top) /\ IsImpl(Im) /\ Top.n < Len(Im.sets)
      /\ Owned(mem, Top)
  BY <1>1, TopFacts, TopOwned DEF Set
<1>3. Top.n + 1 \in 1 .. Len(Im.sets)
  BY <1>2, ImplFacts DEF Frame
<1>4. PICK p, q : /\ p = Im.sets[Top.n + 1][1] /\ q = Im.sets[Top.n + 1][2]
                  /\ p \in 1 .. Len(Im.args) /\ q \in 1 .. Len(Im.lets)
  BY <1>2, <1>3, ImplFacts, Zenon
<1>5. q \in DOMAIN Top.syms /\ p \in DOMAIN Top.args
  <2>1. /\ Top.syms \in Seq(Block) /\ Len(Top.syms) = Len(Im.lets) /\ Top.args \in Seq(Arguments(Block))
        /\ Len(Top.args) >= Len(Im.args)
    BY <1>1, <1>2 DEF Frame, WellFormed, Im
  <2>2. DOMAIN Top.syms = 1 .. Len(Top.syms) /\ DOMAIN Top.args = 1 .. Len(Top.args)
    BY <2>1, LenProperties
  <2>3. Len(Im.args) \in Nat /\ Len(Top.args) \in Nat
    BY <1>2, <2>1, ImplFacts
  <2> QED BY <1>4, <2>1, <2>2, <2>3
<1>6. PICK zv, b : zv = arg.zv /\ b = source
  OBVIOUS
<1>7. b \in Block /\ Backed(mem, Top, b)
  <2>1. b = Top.syms[q]
    BY <1>4, <1>6
  <2>2. Top.syms \in Seq(Block)
    BY <1>2 DEF Frame
  <2>3. Backed(mem, Top, Top.syms[q])
    BY <1>2, <1>5 DEF Owned
  <2>4. Top.syms[q] \in Block
    BY <1>5, <2>2
  <2> QED BY <2>1, <2>3, <2>4
<1>8. zv # 0 => zv \in DOMAIN Top.slots
  <2>1. Top.args \in Seq(Arguments(Block)) /\ Top.slots \in Seq(Block)
    BY <1>2 DEF Frame
  <2>2. Top.args[p] \in Arguments(Block) /\ p \in 1 .. Len(Top.args)
    BY <1>5, <2>1, LenProperties
  <2>3. zv = Top.args[p].zv
    BY <1>4, <1>6
  <2>4. zv \in Nat /\ zv <= Len(Top.slots)
    BY <1>2, <2>2, <2>3 DEF Arguments, WellFormed
  <2> QED BY <2>1, <2>4, LenProperties
<1> HIDE DEF arg, source
<1>9. zv # 0 => Live(Release(mem, <<Top.slots[zv]>>), b)
  <2>1. PICK m, s, k, n : m = mem /\ s = stack /\ k = kept /\ n = Len(stack)
    OBVIOUS
  <2>2. /\ m \in Seq(MemBlock) /\ s \in Seq(Frame(0 .. Len(m))) /\ s[n] = Top
        /\ k \in [0 .. MaxDepth -> [Impls -> Seq(0 .. Len(m))]] /\ MemOK(m, s, k)
    BY <2>1 DEF IInv, TypeOK, Block, MemoryOK, Top
  <2>3. n \in DOMAIN s
    <3>1. Len(stack) \in DOMAIN stack
      <4>1. stack # <<>> /\ stack \in Seq(Frame(Block))
        BY <1>1 DEF IInv, TypeOK
      <4> QED BY ONLY <4>1
    <3> QED BY <2>1, <3>1
  <2>4. b \in 0 .. Len(m) /\ Backed(m, s[n], b)
    BY <1>7, <2>1, <2>2 DEF Block
  <2>5. zv # 0 => zv \in DOMAIN s[n].slots
    BY <1>8, <2>2
  <2>6. zv # 0 => Live(Release(m, <<s[n].slots[zv]>>), b)
    BY <2>2, <2>3, <2>4, <2>5, SourceSurvives
  <2> QED BY <2>1, <2>2, <2>6
<1>10. \/ zv # 0 /\ Faults(~Live(Release(mem, <<Top.slots[zv]>>), b), "use after free")
       \/ UNCHANGED fault
  BY <1>1, <1>6
<1> QED BY <1>9, <1>10 DEF Faults, NoFault

(* The specs of sub-arguments are read while the arguments are freed,      *)
(* before the temporaries are.                                             *)
LEMMA SubSurvives ==
  ASSUME NEW m \in Seq(MemBlock), NEW s \in Seq(Frame(0 .. Len(m))),
         NEW k \in [0 .. MaxDepth -> [Impls -> Seq(0 .. Len(m))]], MemOK(m, s, k),
         NEW n \in DOMAIN s, NEW i \in DOMAIN s[n].subs
  PROVE  Live(Release(m, ArgBlocks(s[n])), s[n].subs[i])
<1>1. PICK B : B = 0 .. Len(m)
  OBVIOUS
<1>2. PICK f : f = s[n] /\ f \in Frame(B) /\ Owned(m, f)
  BY <1>1, TypedTables DEF MemOK
<1>3. Tables(f) /\ DOMAIN ArgBlocks(f) = DOMAIN f.args
  BY <1>2, FrameTables DEF ArgBlocks
<1>4. PICK t \in DOMAIN f.temps : f.temps[t] = f.subs[i]
  BY <1>2 DEF Owned
<1>5. PICK b : b = f.temps[t] /\ b \in B
  BY <1>2, FieldsOf
<1>6. CASE b = 0
  BY <1>2, <1>4, <1>5, <1>6 DEF Live
<1>7. CASE b # 0
  <2>1. PICK c \in 1 .. Len(m) : c = b
    BY <1>1, <1>5, <1>7
  <2>2. /\ Count(f.slots, c) \in Nat /\ Count(ArgBlocks(f), c) \in Nat /\ Count(f.temps, c) \in Nat
        /\ FrameCount(f, c) >= Count(f.slots, c) + Count(ArgBlocks(f), c) + Count(f.temps, c)
    BY <1>3, FrameParts
  <2>3. m[c].refs \in Int /\ FrameCount(f, c) \in Nat /\ m[c].refs >= FrameCount(f, c)
    BY <1>2, FrameRefs
  <2>4. Count(f.temps, c) >= 1
    BY <1>3, <1>5, <2>1, OccursOnce DEF Tables
  <2>5. Release(m, ArgBlocks(f))[c].refs = m[c].refs - Count(ArgBlocks(f), c)
    <3>1. PICK bs : bs = ArgBlocks(f)
      OBVIOUS
    <3>2. IsFiniteSet(DOMAIN bs)
      BY <1>3, <3>1 DEF Tables
    <3> QED BY <3>1, <3>2, ReleaseAt
  <2>6. Release(m, ArgBlocks(f))[c].refs > 0
    BY <2>2, <2>3, <2>4, <2>5
  <2> QED BY <1>2, <1>4, <1>5, <2>1, <2>6 DEF Live
<1> QED BY <1>6, <1>7

LEMMA FrameFreeSafe ==
  ASSUME IInv, MemoryOK, NoFault, FrameFree
  PROVE  NoFault'
<1>1. /\ stack # <<>>
      /\ Faults(\E i \in DOMAIN Top.subs : ~Live(Release(mem, ArgBlocks(Top)), Top.subs[i]),
                "use after free")
  BY DEF FrameFree, Running
<1>2. PICK m, s, k, n : m = mem /\ s = stack /\ k = kept /\ n = Len(stack)
  OBVIOUS
<1>3. /\ m \in Seq(MemBlock) /\ s \in Seq(Frame(0 .. Len(m))) /\ s[n] = Top
      /\ k \in [0 .. MaxDepth -> [Impls -> Seq(0 .. Len(m))]] /\ MemOK(m, s, k)
  BY <1>2 DEF IInv, TypeOK, Block, MemoryOK, Top
<1>4. n \in DOMAIN s
  <2>1. Len(stack) \in DOMAIN stack
    <3>1. stack # <<>> /\ stack \in Seq(Frame(Block))
      BY <1>1 DEF IInv, TypeOK
    <3> QED BY ONLY <3>1
  <2> QED BY <1>2, <2>1
<1>5. \A i \in DOMAIN s[n].subs : Live(Release(m, ArgBlocks(s[n])), s[n].subs[i])
  BY <1>3, <1>4, SubSurvives
<1>6. ~ \E i \in DOMAIN Top.subs : ~Live(Release(mem, ArgBlocks(Top)), Top.subs[i])
  BY <1>2, <1>3, <1>5
<1> QED BY <1>1, <1>6 DEF Faults, NoFault

LEMMA StepSafe ==
  NoHabits /\ ConvertsGiven /\ IInv /\ MemoryOK /\ TopTaken /\ NoFault /\ [Next]_vars => NoFault'
<1> SUFFICES ASSUME NoHabits, ConvertsGiven, IInv, MemoryOK, TopTaken, NoFault, [Next]_vars
             PROVE  NoFault'
  OBVIOUS
<1>1. CASE \E call \in MayCall : BeginCall(call[1], call[2])
  <2>1. fault' = fault
    BY <1>1 DEF BeginCall
  <2> QED BY <2>1 DEF NoFault
<1>2. CASE Progress
  <2>1. CASE CountArgs \/ ParseArg \/ DefaultArg \/ Enter
    <3>1. fault' = fault
      BY <2>1 DEF CountArgs, ParseArg, DefaultArg, Enter
    <3> QED BY <3>1 DEF NoFault
  <2>2. CASE LetNone \/ LetNullArray \/ LetCalloc \/ LetArrval \/ LetCallback
    <3>1. fault' = fault
      BY <2>2, Zenon DEF LetNone, LetNullArray, LetCalloc, LetArrval, LetCallback
    <3> QED BY <3>1 DEF NoFault
  <2>3. CASE LetStrval \/ LetPathval
    BY <2>3, StringsSafe
  <2>4. CASE Prepare
    BY <2>4, PrepareSafe
  <2>5. CASE PreAssert \/ PostAssert \/ Return \/ Call \/ Free
    <3>1. fault' = fault
      BY <2>5 DEF PreAssert, PostAssert, Return, Call, Free
    <3> QED BY <3>1 DEF NoFault
  <2>6. CASE \/ \E throws \in BOOLEAN : UserlandReturns(throws)
             \/ \E allocates \in BOOLEAN : NativeReturns(allocates)
    <3>1. fault' = fault
      BY <2>6, Zenon DEF UserlandReturns, NativeReturns
    <3> QED BY <3>1 DEF NoFault
  <2>7. CASE Set
    BY <2>7, SetSafe
  <2>8. CASE FrameFree
    BY <2>8, FrameFreeSafe
  <2> QED BY <1>2, <2>1, <2>2, <2>3, <2>4, <2>5, <2>6, <2>7, <2>8 DEF Progress
<1>3. CASE \E l \in LetIndexes : CallBack(l)
  BY <1>3, CallBackSafe
<1>4. CASE (\E f \in DOMAIN stack, a \in ArgIndexes : Assign(f, a)) \/ Catch \/ NextScript
  <2>1. fault' = fault
    BY <1>4 DEF Assign, Catch, NextScript
  <2> QED BY <2>1 DEF NoFault
<1>5. CASE UNCHANGED vars
  BY <1>5 DEF NoFault, vars
<1> QED BY <1>1, <1>2, <1>3, <1>4, <1>5 DEF Next

LEMMA ValidPointers ==
  ASSUME IInv, MemoryOK
  PROVE  PointersValid
<1>1. PICK m, s, k : m = mem /\ s = stack /\ k = kept
  OBVIOUS
<1>2. /\ m \in Seq(MemBlock) /\ s \in Seq(Frame(0 .. Len(m)))
      /\ k \in [0 .. MaxDepth -> [Impls -> Seq(0 .. Len(m))]] /\ MemOK(m, s, k)
  BY <1>1 DEF IInv, TypeOK, Block, MemoryOK
<1>3. ASSUME NEW n \in DOMAIN s
      PROVE  /\ \A i \in DOMAIN s[n].syms : Live(m, s[n].syms[i])
             /\ \A a \in DOMAIN s[n].args : s[n].args[a].va => Live(m, s[n].args[a].ival)
             /\ Live(m, s[n].ret)
  BY <1>2, PointersLive
<1> QED BY <1>1, <1>3 DEF PointersValid

(* No step uses what was freed, frees what it does not own or runs into a  *)
(* null pointer, and what a foreign function was given stays where it is   *)
(* until it returns, whatever PHP does in its callbacks (call.c:81,        *)
(* call.c:301, call.c:446).                                                *)
THEOREM NothingEverDangles ==
  ASSUME NoDefaultStrings, NoHabits, ConvertsGiven
  PROVE  Spec => []NothingDangles
<1>1. Init => IInv /\ MemoryOK /\ TopTaken /\ NoFault
  <2>1. Init => TopTaken /\ NoFault
    BY DEF Init, TopTaken, NoFault
  <2> QED BY <2>1, InitIInv, InitMem
<1>2. /\ IInv /\ MemoryOK /\ TopTaken /\ NoFault /\ [Next]_vars
      => (IInv /\ MemoryOK /\ TopTaken /\ NoFault)'
  BY StepIInv, StepMem, StepTaken, StepSafe
<1>3. IInv /\ MemoryOK /\ NoFault => NothingDangles
  BY ValidPointers DEF NothingDangles
<1> QED BY <1>1, <1>2, <1>3, PTL DEF Spec

=============================================================================

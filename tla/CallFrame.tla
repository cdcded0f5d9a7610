----------------------------- MODULE CallFrame -----------------------------
(***************************************************************************)
(* The life of a call: psi_context_call (context.c) takes a call of an     *)
(* implementation from PHP's arguments through its let statements, its     *)
(* pre-conditions, the foreign function, its post-conditions and its       *)
(* return, set and free statements, on a frame (call.c) that owns what is  *)
(* allocated on the way.  The foreign function may call back into PHP      *)
(* (psi_call_frame_do_callback), which may call foreign functions again.   *)
(* libffi.c and libjit.c find the frame a callback belongs to in           *)
(* impl_info->frame.                                                       *)
(*                                                                         *)
(* Memory is a sequence of blocks with the number of references to each; 0 *)
(* stands for no block, and for a value that needs none, like an integer.  *)
(* A block without references was freed.                                   *)
(***************************************************************************)
EXTENDS Integers, Sequences, FiniteSets, SequencesExt

CONSTANTS
  Impls,          \* the implementations
  Impl,           \* what each consists of, see IsImpl
  MaxCalls,       \* bound on the calls of a script
  MaxDepth,       \* bound on the nesting of calls
  MaxCallbacks,   \* bound on the callbacks of a call
  MaxVarArgs,     \* bound on the variadic arguments of a call
  Habits          \* what the foreign side and the system may do, see below

(* "no callable": a foreign function uses the pointer it got for a callable *)
(* that was not given; "goes on": it calls back after a callback threw;     *)
(* "denies": open_basedir forbids the path of a string argument.            *)
AllHabits == {"no callable", "goes on", "denies"}

Types == {"int", "string", "mixed", "array", "callable"}
LetKinds == {"none", "null array", "calloc", "static calloc",
             "strval", "pathval", "arrval", "callback"}

(* def tells what an argument defaults to, "none" if it must be given; a   *)
(* let statement names the argument it converts; set statements are        *)
(* <<argument, let statement>>; convert is the function that a callback's  *)
(* answer goes through; out says that the foreign function may allocate a  *)
(* buffer that the free statement frees; large, that the return value does *)
(* not fit an impl_val; static, that temporaries outlive the call.         *)
IsImpl(im) ==
  /\ im.args \in Seq([type : Types, def : {"none", "null", "string"}, ref : BOOLEAN])
  /\ im.vararg \in {"none", "int", "string", "mixed"}
  /\ im.lets \in Seq([kind : LetKinds, arg : 0 .. Len(im.args)])
  /\ im.convert \in {"none", "intval", "strval", "arrval"}
  /\ \A l \in DOMAIN im.lets :
       im.lets[l].kind \in {"strval", "pathval", "arrval", "callback"} => im.lets[l].arg > 0
  /\ im.asserts \subseteq {"pre", "post"}
  /\ im.sets \in Seq((1 .. Len(im.args)) \X (1 .. Len(im.lets)))
  /\ {im.out, im.large, im.static} \subseteq BOOLEAN

ASSUME ImplAssumption == IsFiniteSet(Impls) /\ \A i \in Impls : IsImpl(Impl[i])
ASSUME BoundsAssumption ==
  /\ {MaxCalls, MaxDepth, MaxCallbacks, MaxVarArgs} \subseteq Nat /\ MaxDepth > 0
  /\ Habits \subseteq AllHabits

VARIABLES
  mem,        \* the blocks: [kind, refs]
  stack,      \* the frames of the calls under way, the innermost last
  current,    \* impl_info->frame of each implementation: a frame, or 0
  kept,       \* the temporaries of static implementations, per PHP scope
  exception,  \* EG(exception) is set
  calls,      \* the calls of this script so far
  fault       \* how the process died, or "none"

vars == <<mem, stack, current, kept, exception, calls, fault>>

-----------------------------------------------------------------------------

ArgIndexes == UNION {DOMAIN Impl[i].args : i \in Impls}
LetIndexes == UNION {DOMAIN Impl[i].lets : i \in Impls}

(* psi_impl_def_val_validate: a default string is allocated once.          *)
DefaultStrings ==
  SetToSeq({d \in Impls \X ArgIndexes :
              d[2] \in DOMAIN Impl[d[1]].args /\ Impl[d[1]].args[d[2]].def = "string"})
DefaultBlock(i, a) == CHOOSE d \in DOMAIN DefaultStrings : DefaultStrings[d] = <<i, a>>

Memory0 == [d \in DOMAIN DefaultStrings |-> [kind |-> "default", refs |-> 1]]

Init ==
  /\ mem = Memory0
  /\ stack = <<>>
  /\ current = [i \in Impls |-> 0]
  /\ kept = [scope \in 0 .. MaxDepth |-> [i \in Impls |-> <<>>]]
  /\ exception = FALSE /\ calls = 0 /\ fault = "none"

Live(m, b) == b = 0 \/ m[b].refs > 0

New(m, kinds) == m \o [k \in DOMAIN kinds |-> [kind |-> kinds[k], refs |-> 1]]
NewBlocks(m, kinds) == [k \in DOMAIN kinds |-> Len(m) + k]

Hold(m, b) == IF b = 0 THEN m ELSE [m EXCEPT ![b].refs = @ + 1]

(* Gives back one reference for each k with bs[k] = b.                     *)
Release(m, bs) ==
  [b \in DOMAIN m |->
     [m[b] EXCEPT !.refs = @ - Cardinality({k \in DOMAIN bs : bs[k] = b})]]

Top == stack[Len(stack)]
Im == Impl[Top.impl]
Running(phase) == fault = "none" /\ stack # <<>> /\ Top.phase = phase
InPHP == fault = "none" /\ (stack # <<>> => Top.phase = "userland")

Continue(frame) == stack' = [stack EXCEPT ![Len(stack)] = frame]
Enters(phase) == Continue([Top EXCEPT !.phase = phase, !.n = 0])
Faults(bad, how) == fault' = IF bad THEN how ELSE fault

(* psi_call_frame_init.  n counts what the phase has done; slots are the   *)
(* zvals that PHP passes; args what was made of them, subs the arguments   *)
(* that psi_call_frame_sub_argument adds for the members of arrays; syms   *)
(* what the symbols of the let statements point to.  params is what a      *)
(* callback gets, home the frame it is run on, via its let statement,      *)
(* inner the callback that the sub-argument of the answer is from.         *)
NewFrame(i, given, slots) ==
  [impl |-> i, phase |-> "args", n |-> 0, ok |-> TRUE, given |-> given, slots |-> slots,
   args |-> <<>>, subs |-> <<>>, temps |-> <<>>, syms |-> <<>>, ret |-> 0, out |-> 0,
   prev |-> 0, backs |-> 0, params |-> 0, home |-> 0, via |-> 0, inner |-> 0,
   assigned |-> FALSE]

(* What PHP may pass for an argument of a type.                            *)
Given(type) ==
  CASE type = "string" -> {"string", "null"}
    [] type = "mixed" -> {"string", "other"}
    [] type = "callable" -> {"callable", "null"}
    [] OTHER -> {"other"}

TypeOf(i, a) == IF a <= Len(Impl[i].args) THEN Impl[i].args[a].type ELSE Impl[i].vararg
MaxArgs(i) == Len(Impl[i].args) + (IF Impl[i].vararg = "none" THEN 0 ELSE MaxVarArgs)

(* The argument lists that PHP may call an implementation with, those too  *)
(* short or too long included.                                             *)
ArgumentLists(i) ==
  UNION {{given \in [1 .. count -> {"string", "null", "callable", "other"}] :
            \A a \in 1 .. count : given[a] \in IF a <= MaxArgs(i) THEN Given(TypeOf(i, a)) ELSE {"other"}} :
         count \in 0 .. MaxArgs(i) + 1}
MayCall == UNION {{i} \X ArgumentLists(i) : i \in Impls}

(* psi_impl_num_min_args                                                   *)
MinArgs(i) ==
  CHOOSE a \in 0 .. Len(Impl[i].args) :
    /\ \A b \in 1 .. a : Impl[i].args[b].def = "none"
    /\ a < Len(Impl[i].args) => Impl[i].args[a + 1].def # "none"

(* PHP calls psi_ffi_handler, with a string in a zval of its own.          *)
BeginCall(i, given) ==
  LET strings(a) == {b \in 1 .. a : given[b] = "string"}
      count == Cardinality(strings(Len(given)))
      slots == [a \in DOMAIN given |->
                  IF given[a] = "string" THEN Len(mem) + Cardinality(strings(a)) ELSE 0]
  IN
  /\ InPHP /\ ~exception /\ Len(stack) < MaxDepth /\ calls < MaxCalls
  /\ mem' = New(mem, [s \in 1 .. count |-> "string"])
  /\ stack' = Append(stack, NewFrame(i, given, slots))
  /\ calls' = calls + 1
  /\ UNCHANGED <<current, kept, exception, fault>>

-----------------------------------------------------------------------------

(* psi_call_frame_argument_init: spec type, variadic or not, the block of  *)
(* the value (ival) and the zval (zv), which defaults do not have.         *)
Argument(type, va, ival, zv) == [type |-> type, va |-> va, ival |-> ival, zv |-> zv]

(* Mutant of WrongCount: any number of arguments will do.                  *)
WrongCountBelow == Len(Top.given) < MinArgs(Top.impl)

Rejects ==
  /\ exception' = TRUE
  /\ Continue([Top EXCEPT !.phase = "over", !.ok = FALSE])
  /\ UNCHANGED mem

WrongCount ==
  \/ Len(Top.given) < MinArgs(Top.impl)
  \/ Len(Top.given) > Len(Im.args) /\ (Im.vararg = "none" \/ Im.args = <<>>)

CountArgs ==
  /\ Running("args") /\ Top.n = 0 /\ WrongCount
  /\ Rejects
  /\ UNCHANGED <<current, kept, calls, fault>>

(* One round of psi_call_frame_parse_args.  A string is held by the frame, *)
(* too, and so is the string of a mixed variadic argument; a callable is   *)
(* copied.                                                                 *)
ParseArg ==
  LET a == Top.n + 1
      type == TypeOf(Top.impl, a)
      va == a > Len(Im.args)
      block == Top.slots[a]
      argument(ival) == Argument(type, va, ival, a)
      added(ival) == Continue([Top EXCEPT !.n = a, !.args = Append(@, argument(ival))])
  IN
  /\ Running("args") /\ ~WrongCount /\ Top.n < Len(Top.given)
  /\ \/ type # "mixed" /\ Rejects
     \/ /\ UNCHANGED exception
        /\ \/ /\ type = "string"
              /\ mem' = Hold(mem, block) /\ added(block)
           \/ /\ type = "mixed" /\ va /\ block # 0
              /\ mem' = [Hold(mem, block) EXCEPT ![block].kind = "variadic"] /\ added(block)
           \/ /\ type = "callable" /\ Top.given[a] = "callable"
              /\ mem' = New(mem, <<"callable">>) /\ added(Len(mem) + 1)
           \/ /\ type \notin {"string", "callable"} /\ ~(type = "mixed" /\ va /\ block # 0)
              /\ UNCHANGED mem /\ added(0)
           \/ /\ type = "callable" /\ Top.given[a] = "null"
              /\ UNCHANGED mem /\ added(0)
  /\ UNCHANGED <<current, kept, calls, fault>>

(* An argument that was not given has the value of its default, the        *)
(* string of which the frame does not hold.                                *)
DefaultArg ==
  LET a == Top.n + 1
      ival == IF Im.args[a].def = "string" THEN DefaultBlock(Top.impl, a) ELSE 0
  IN
  /\ Running("args") /\ ~WrongCount
  /\ Len(Top.given) <= Top.n /\ Top.n < Len(Im.args)
  /\ Continue([Top EXCEPT !.n = a, !.args = Append(@, Argument(Im.args[a].type, FALSE, ival, 0))])
  /\ UNCHANGED <<mem, current, kept, exception, calls, fault>>

(* psi_call_frame_enter: memory for the return value.                      *)
Enter ==
  /\ Running("args") /\ ~WrongCount /\ Top.n >= Len(Top.given) /\ Top.n >= Len(Im.args)
  /\ mem' = IF Im.large THEN New(mem, <<"return value">>) ELSE mem
  /\ Continue([Top EXCEPT !.phase = "let", !.n = 0,
                 !.ret = IF Im.large THEN Len(mem) + 1 ELSE 0])
  /\ UNCHANGED <<current, kept, exception, calls, fault>>

-----------------------------------------------------------------------------

(* psi_let_exp_exec: what a let statement allocates, whether the frame     *)
(* frees it (psi_call_frame_push_auto), and what its symbol points to.     *)
Binds(kinds, auto, sym) ==
  /\ mem' = New(mem, kinds)
  /\ Continue([Top EXCEPT !.n = @ + 1,
                 !.temps = IF auto THEN @ \o NewBlocks(mem, kinds) ELSE @,
                 !.syms = Append(@, sym)])

Let == Im.lets[Top.n + 1]
LetArg == Top.args[Let.arg]
LetRuns(kind) == Running("let") /\ Top.n < Len(Im.lets) /\ Let.kind = kind

(* NULL, a number, a temp statement, intval and the like.                  *)
LetNone ==
  /\ LetRuns("none")
  /\ Binds(<<>>, FALSE, 0)
  /\ UNCHANGED <<current, kept, exception, calls, fault>>

(* The frame does not know the memory of let var[n] = NULL.                *)
LetNullArray ==
  /\ LetRuns("null array")
  /\ Binds(<<"null array">>, FALSE, Len(mem) + 1)
  /\ UNCHANGED <<current, kept, exception, calls, fault>>

LetCalloc ==
  /\ \/ LetRuns("calloc") /\ Binds(<<"temp">>, TRUE, Len(mem) + 1)
     \/ LetRuns("static calloc") /\ Binds(<<"persistent">>, FALSE, Len(mem) + 1)
  /\ UNCHANGED <<current, kept, exception, calls, fault>>

(* psi_let_strval: the characters of a string argument, a copy of others.  *)
Strval ==
  \/ /\ LetArg.type = "string"
     /\ Binds(<<>>, FALSE, LetArg.ival) /\ Faults(~Live(mem, LetArg.ival), "use after free")
  \/ /\ LetArg.type # "string"
     /\ Binds(<<"temp">>, TRUE, Len(mem) + 1) /\ Faults(LetArg.zv = 0, "null pointer")

LetStrval ==
  /\ LetRuns("strval") /\ Strval
  /\ UNCHANGED <<current, kept, exception, calls>>

(* psi_let_pathval frees the path that it may not pass, also when the      *)
(* path is inside of the argument's string.                                *)
LetPathval ==
  /\ LetRuns("pathval")
  /\ \/ Strval
     \/ /\ LetArg.type # "string" \/ "denies" \in Habits
        /\ Binds(<<>>, FALSE, 0) /\ Faults(LetArg.type = "string", "bad free")
  /\ UNCHANGED <<current, kept, exception, calls>>

(* exec_let_func_arrval of a struct with one string: psi_call_frame_-      *)
(* sub_argument makes an argument of the member, and its spec, then the    *)
(* string is copied, and at last the container is pushed.                  *)
ArrvalBlocks(adds) == IF adds THEN <<"spec", "temp", "temp">> ELSE <<"temp", "temp">>

LetArrval ==
  /\ LetRuns("arrval")
  /\ \/ /\ LetArg.zv # 0
        /\ mem' = New(mem, ArrvalBlocks(TRUE))
        /\ Continue([Top EXCEPT !.n = @ + 1,
                       !.temps = @ \o NewBlocks(mem, ArrvalBlocks(TRUE)),
                       !.subs = Append(@, Len(mem) + 1),
                       !.syms = Append(@, Len(mem) + 3)])
     \/ LetArg.zv = 0 /\ Binds(<<"temp">>, TRUE, Len(mem) + 1)
  /\ UNCHANGED <<current, kept, exception, calls, fault>>

(* The pointer to a callback is that of its closure, given or not.         *)
LetCallback ==
  /\ LetRuns("callback")
  /\ Binds(<<>>, FALSE, 0)
  /\ UNCHANGED <<current, kept, exception, calls, fault>>

(* The rest of psi_call_frame_do_let: pointers to the symbols and to the   *)
(* variadic arguments, strings of which are passed as they are.            *)
Prepare ==
  /\ Running("let") /\ Top.n = Len(Im.lets)
  /\ Enters("pre")
  /\ Faults(\E a \in DOMAIN Top.args : Top.args[a].va /\ ~Live(mem, Top.args[a].ival),
            "use after free")
  /\ UNCHANGED <<mem, current, kept, exception, calls>>

(* psi_call_frame_do_assert                                                *)
AssertFails(kind) ==
  /\ kind \in Im.asserts
  /\ exception' = TRUE
  /\ Continue([Top EXCEPT !.phase = "return", !.ok = FALSE])

PreAssert ==
  /\ Running("pre")
  /\ \/ AssertFails("pre")
     \/ Enters("call") /\ UNCHANGED exception
  /\ UNCHANGED <<mem, current, kept, calls, fault>>

(* psi_ffi_call_ex, up to the foreign function.                            *)
Call ==
  /\ Running("call")
  /\ Continue([Top EXCEPT !.phase = "native", !.prev = current[Top.impl]])
  /\ current' = [current EXCEPT ![Top.impl] = Len(stack)]
  /\ UNCHANGED <<mem, kept, exception, calls, fault>>

-----------------------------------------------------------------------------

CallbackLets == {l \in DOMAIN Im.lets : Im.lets[l].kind = "callback"}
CallableOf(f, l) == stack[f].args[Im.lets[l].arg]

(* The foreign function calls back: psi_call_frame_do_callback on          *)
(* impl_info->frame, up to the userland function.  An argument made of the *)
(* foreign function's is held by zargv and by the call's parameters.  PHP  *)
(* refuses the call when there is an exception.                            *)
CallBack(l) ==
  LET home == current[Top.impl] IN
  /\ Running("native") /\ Top.backs < MaxCallbacks /\ l \in CallbackLets
  /\ home > 0 => CallableOf(home, l).ival # 0 \/ "no callable" \in Habits
  /\ exception => "goes on" \in Habits
  /\ fault' = CASE home = 0 \/ exception -> "assertion"
                [] CallableOf(home, l).ival = 0 -> "null pointer"
                [] OTHER -> fault
  /\ mem' = Append(mem, [kind |-> "parameter", refs |-> 2])
  /\ Continue([Top EXCEPT !.phase = "userland", !.backs = @ + 1, !.home = home, !.via = l,
                 !.params = Len(mem) + 1])
  /\ UNCHANGED <<current, kept, exception, calls>>

(* PHP gives a variable that it passed by reference a new string.          *)
Assign(f, a) ==
  /\ InPHP /\ f \in DOMAIN stack /\ a \in DOMAIN stack[f].slots
  /\ ~stack[f].assigned /\ stack[f].slots[a] # 0
  /\ a <= Len(Impl[stack[f].impl].args) /\ Impl[stack[f].impl].args[a].ref
  /\ mem' = New(Release(mem, <<stack[f].slots[a]>>), <<"string">>)
  /\ stack' = [stack EXCEPT ![f].assigned = TRUE, ![f].slots[a] = Len(mem) + 1]
  /\ UNCHANGED <<current, kept, exception, calls, fault>>

Catch ==
  /\ InPHP /\ exception
  /\ exception' = FALSE
  /\ UNCHANGED <<mem, stack, current, kept, calls, fault>>

(* What static implementations left in the variables of a scope.           *)
KeptIn(scope) ==
  [p \in UNION {{i} \X DOMAIN kept[scope][i] : i \in Impls} |-> kept[scope][p[1]][p[2]]]
Forgets(scope) == kept' = [kept EXCEPT ![scope] = [i \in Impls |-> <<>>]]

(* psi_let_func_exec of the answer on the frame called home, the let       *)
(* statement's symbol of which it overwrites.  The sub-argument for a      *)
(* member is that of the first answer.                                     *)
Answered(home, l, m) ==
  LET f == stack[home]
      kinds == CASE Im.convert = "strval" -> <<"temp">>
                 [] Im.convert = "arrval" -> ArrvalBlocks(f.inner = 0)
                 [] OTHER -> <<>>
      adds == Im.convert = "arrval" /\ f.inner = 0
  IN
  [m |-> New(m, kinds),
   f |-> [f EXCEPT
            !.temps = @ \o NewBlocks(m, kinds),
            !.subs = IF adds THEN Append(@, Len(m) + 1) ELSE @,
            !.inner = IF adds THEN stack[home].backs ELSE @,
            !.syms[l] = IF Im.convert = "strval" THEN Len(m) + 1 ELSE @]]

(* The userland function returns or throws, which ends its scope, and      *)
(* psi_call_frame_do_callback goes on.  It frees what it passed, but not   *)
(* the value that it got.                                                  *)
UserlandReturns(throws) ==
  LET home == Top.home
      left == Release(mem, KeptIn(Len(stack)))
      got == IF exception \/ throws \/ Im.convert = "intval" THEN left
             ELSE New(left, <<"answer">>)
      answered == Answered(home, Top.via, got)
  IN
  /\ Running("userland")
  /\ mem' = Release(answered.m, <<Top.params, Top.params>>)
  /\ stack' = [[stack EXCEPT ![home] = answered.f] EXCEPT
                 ![Len(stack)].phase = "native", ![Len(stack)].params = 0,
                 ![Len(stack)].home = 0, ![Len(stack)].via = 0]
  /\ Forgets(Len(stack))
  /\ exception' = (exception \/ throws)
  /\ UNCHANGED <<current, calls, fault>>

(* Mutant of NativeReturns: the frame is reset rather than given back.     *)
NativeReturnsReset(allocates) ==
  /\ Running("native") /\ (allocates => Im.out)
  /\ mem' = IF allocates THEN New(mem, <<"foreign">>) ELSE mem
  /\ current' = [current EXCEPT ![Top.impl] = 0]
  /\ Continue([Top EXCEPT !.phase = "post", !.out = IF allocates THEN Len(mem) + 1 ELSE 0])
  /\ UNCHANGED <<kept, exception, calls, fault>>

(* The foreign function returns, maybe with a buffer for its caller.       *)
NativeReturns(allocates) ==
  /\ Running("native") /\ (allocates => Im.out)
  /\ mem' = IF allocates THEN New(mem, <<"foreign">>) ELSE mem
  /\ current' = [current EXCEPT ![Top.impl] = Top.prev]
  /\ Continue([Top EXCEPT !.phase = "post", !.out = IF allocates THEN Len(mem) + 1 ELSE 0])
  /\ UNCHANGED <<kept, exception, calls, fault>>

-----------------------------------------------------------------------------

PostAssert ==
  /\ Running("post")
  /\ \/ AssertFails("post")
     \/ Enters("return") /\ UNCHANGED exception
  /\ UNCHANGED <<mem, current, kept, calls, fault>>

(* Mutant of Return: a failed call goes on like a good one.                *)
ReturnGoesOn ==
  /\ Running("return")
  /\ Enters("set")
  /\ UNCHANGED <<mem, current, kept, exception, calls, fault>>

(* psi_call_frame_do_return, after which psi_context_call drops a failed   *)
(* call, and the foreign function's buffer with it.                        *)
Return ==
  /\ Running("return")
  /\ Enters(IF Top.ok THEN "set" ELSE "over")
  /\ mem' = IF Top.ok \/ Top.out = 0 THEN mem ELSE [mem EXCEPT ![Top.out].kind = "lost"]
  /\ UNCHANGED <<current, kept, exception, calls, fault>>

(* Mutant of Set: stays at an argument that was not given.                 *)
SetStays ==
  LET arg == Top.args[Im.sets[Top.n + 1][1]]
      freed == Release(mem, <<Top.slots[arg.zv]>>)
  IN
  /\ Running("set") /\ Top.n < Len(Im.sets)
  /\ \/ /\ arg.zv # 0
        /\ mem' = New(freed, <<"string">>)
        /\ Continue([Top EXCEPT !.n = @ + 1, !.slots[arg.zv] = Len(mem) + 1])
     \/ arg.zv = 0 /\ Continue(Top) /\ UNCHANGED mem
  /\ UNCHANGED <<current, kept, exception, calls, fault>>

(* psi_set_exp_exec: the variable's old value goes before the new one is   *)
(* made of what the symbol points to.                                      *)
Set ==
  LET arg == Top.args[Im.sets[Top.n + 1][1]]
      source == Top.syms[Im.sets[Top.n + 1][2]]
      freed == Release(mem, <<Top.slots[arg.zv]>>)
  IN
  /\ Running("set") /\ Top.n < Len(Im.sets)
  /\ \/ /\ arg.zv # 0
        /\ mem' = New(freed, <<"string">>)
        /\ Continue([Top EXCEPT !.n = @ + 1, !.slots[arg.zv] = Len(mem) + 1])
        /\ Faults(~Live(freed, source), "use after free")
     \/ /\ arg.zv = 0
        /\ Continue([Top EXCEPT !.n = @ + 1])
        /\ UNCHANGED <<mem, fault>>
  /\ UNCHANGED <<current, kept, exception, calls>>

(* psi_call_frame_do_free: the foreign buffer is given to the function of  *)
(* the free statement, called on a frame of its own.                       *)
Free ==
  /\ Running("set") /\ Top.n = Len(Im.sets)
  /\ mem' = Release(mem, <<Top.out>>)
  /\ Continue([Top EXCEPT !.phase = "over", !.out = 0])
  /\ UNCHANGED <<current, kept, exception, calls, fault>>

(* Mutant of Releases: callables are not freed.                            *)
ReleasesStrings(arg) == arg.ival # 0 /\ arg.type = "string"

(* psi_call_frame_argument_free                                            *)
Releases(arg) == arg.ival # 0 /\ arg.type \in {"string", "callable"}
ArgBlocks(f) == [a \in DOMAIN f.args |-> IF Releases(f.args[a]) THEN f.args[a].ival ELSE 0]

(* Mutant of FrameFree: the temporaries go before the arguments.           *)
FrameFreeTempsFirst ==
  LET scope == Len(stack) - 1
      temps == IF Im.static THEN kept[scope][Top.impl] ELSE Top.temps
      noTemps == Release(mem, temps)
  IN
  /\ Running("over")
  /\ Faults(\E s \in DOMAIN Top.subs : ~Live(noTemps, Top.subs[s]), "use after free")
  /\ mem' = Release(noTemps, ArgBlocks(Top) \o Top.slots)
  /\ kept' = IF Im.static THEN [kept EXCEPT ![scope][Top.impl] = Top.temps] ELSE kept
  /\ stack' = SubSeq(stack, 1, scope)
  /\ UNCHANGED <<current, exception, calls>>

(* psi_call_frame_free: the arguments, which read their specs, then the    *)
(* temporaries; or a variable of the caller's scope keeps those, in place  *)
(* of the ones it had.  Then PHP frees the zvals that it passed.           *)
FrameFree ==
  LET scope == Len(stack) - 1
      noArgs == Release(mem, ArgBlocks(Top))
      temps == IF Im.static THEN kept[scope][Top.impl] ELSE Top.temps
  IN
  /\ Running("over")
  /\ Faults(\E s \in DOMAIN Top.subs : ~Live(noArgs, Top.subs[s]), "use after free")
  /\ mem' = Release(noArgs, temps \o Top.slots)
  /\ kept' = IF Im.static THEN [kept EXCEPT ![scope][Top.impl] = Top.temps] ELSE kept
  /\ stack' = SubSeq(stack, 1, scope)
  /\ UNCHANGED <<current, exception, calls>>

(* A script ends, and the next one begins: PHP frees what is its own.      *)
NextScript ==
  /\ fault = "none" /\ stack = <<>> /\ calls > 0
  /\ mem' = SubSeq(mem, 1, Len(Memory0))
  /\ Forgets(0)
  /\ exception' = FALSE /\ calls' = 0
  /\ UNCHANGED <<stack, current, fault>>

-----------------------------------------------------------------------------

(* What a call does once it was made.                                      *)
Progress ==
  \/ CountArgs \/ ParseArg \/ DefaultArg \/ Enter
  \/ LetNone \/ LetNullArray \/ LetCalloc \/ LetStrval \/ LetPathval \/ LetArrval \/ LetCallback
  \/ Prepare \/ PreAssert \/ Call
  \/ \E throws \in BOOLEAN : UserlandReturns(throws)
  \/ \E allocates \in BOOLEAN : NativeReturns(allocates)
  \/ PostAssert \/ Return \/ Set \/ Free \/ FrameFree

Next ==
  \/ \E call \in MayCall : BeginCall(call[1], call[2])
  \/ Progress
  \/ \E l \in LetIndexes : CallBack(l)
  \/ \E f \in DOMAIN stack, a \in ArgIndexes : Assign(f, a)
  \/ Catch \/ NextScript

(* Foreign functions and userland functions return; the rest is a single   *)
(* thread that nothing stops.                                              *)
Spec == Init /\ [][Next]_vars /\ WF_vars(Progress)

-----------------------------------------------------------------------------

Phases == {"args", "let", "pre", "call", "native", "userland", "post", "return", "set", "over"}
Kinds == {"default", "string", "variadic", "callable", "return value", "temp", "null array",
          "persistent", "spec", "parameter", "answer", "foreign", "lost"}
Deaths == {"none", "use after free", "null pointer", "bad free", "assertion"}
Givens == {"string", "null", "callable", "other"}
MemBlock == [kind : Kinds, refs : Int]
Block == 0 .. Len(mem)

Arguments(B) == [type : Types, va : BOOLEAN, ival : B, zv : Nat]

(* The frames that refer to blocks in B.                                   *)
Frame(B) ==
  [impl : Impls, phase : Phases, n : Nat, ok : BOOLEAN, given : Seq(Givens), slots : Seq(B),
   args : Seq(Arguments(B)), subs : Seq(B), temps : Seq(B), syms : Seq(B), ret : B, out : B,
   prev : 0 .. MaxDepth, backs : 0 .. MaxCallbacks, params : B, home : 0 .. MaxDepth,
   via : Nat, inner : 0 .. MaxCallbacks, assigned : BOOLEAN]

(* Every variable has its type (call.h, libffi.c:321).                     *)
TypeOK ==
  /\ mem \in Seq(MemBlock)
  /\ stack \in Seq(Frame(Block)) /\ Len(stack) <= MaxDepth
  /\ current \in [Impls -> 0 .. MaxDepth]
  /\ kept \in [0 .. MaxDepth -> [Impls -> Seq(Block)]]
  /\ exception \in BOOLEAN /\ calls \in 0 .. MaxCalls
  /\ fault \in Deaths

(* No step of a call uses what was freed, frees what it does not own, runs *)
(* into a null pointer or fails an assertion, in any order of calls,       *)
(* callbacks, assignments and exceptions (call.c:81, call.c:446).          *)
NoFault == fault = "none"

(* The blocks that nobody frees: the memory of let var[n] = NULL           *)
(* (let_exp.c:232), a large return value (call.c:366), the string of a     *)
(* mixed variadic argument (call.c:62), the answer of a callback           *)
(* (call.c:481), static calloc, and the buffer of a call that failed its   *)
(* post-conditions (context.c:390).                                        *)
NeverFreed == {"null array", "return value", "variadic", "answer", "persistent", "lost"}

(* Who holds a block: <<block, what holds it>>.                            *)
Holding(what, bs) == {<<bs[k], <<what, k>> >> : k \in DOMAIN bs}
HoldersOf(n) ==
  LET f == stack[n] IN
  Holding(<<n, "slot">>, f.slots) \union Holding(<<n, "argument">>, ArgBlocks(f))
    \union Holding(<<n, "temp">>, f.temps)
    \union Holding(<<n, "call">>, <<f.out, f.params, f.params>>)

Holders ==
  Holding("default", [d \in DOMAIN DefaultStrings |-> d])
    \union (UNION {HoldersOf(n) : n \in DOMAIN stack})
    \union (UNION {Holding(<<scope, "kept">>, KeptIn(scope)) : scope \in DOMAIN kept})

(* A block has as many references as there are arguments, variables,       *)
(* temporary lists and calls that will give one back: nothing else is      *)
(* lost, nothing is given back twice (call.c:81, call.c:132, call.c:540).  *)
Balanced ==
  LET holders == Holders IN
  \A b \in DOMAIN mem :
    mem[b].kind \notin NeverFreed =>
      mem[b].refs = Cardinality({h \in holders : h[1] = b})

(* What a foreign function was given stays where it is until it returns,   *)
(* whatever PHP does in its callbacks (call.c:301, call.c:383).            *)
PointersValid ==
  \A n \in DOMAIN stack : stack[n].phase \in {"native", "userland"} =>
    LET f == stack[n] IN
    /\ \A s \in DOMAIN f.syms : Live(mem, f.syms[s])
    /\ \A a \in DOMAIN f.args : f.args[a].va => Live(mem, f.args[a].ival)
    /\ Live(mem, f.ret)

(* Neither a step of PHP's nor the foreign function uses what is not there *)
(* any more: not what a frame frees while one inside it ends, nor what a   *)
(* callback assigns (call.c:301, call.c:540).                              *)
NothingDangles == NoFault /\ PointersValid

(* impl_info->frame is the innermost call of the implementation the        *)
(* foreign function of which is running, and has been given back whatever  *)
(* calls ended in between (libffi.c:635).                                  *)
IsRunning(n, i) == stack[n].impl = i /\ stack[n].phase \in {"native", "userland"}
FramesNest ==
  \A i \in Impls :
    /\ current[i] # 0 => current[i] \in DOMAIN stack /\ IsRunning(current[i], i)
    /\ \A n \in DOMAIN stack : IsRunning(n, i) => n <= current[i]

(* A callback is run on the frame of the call that passed it, of which it  *)
(* takes the callable and the symbols (libffi.c:394).                      *)
CallbacksComeHome ==
  \A n \in DOMAIN stack : stack[n].phase = "userland" => stack[n].home = n

(* The one pointer of an implementation, impl_info->frame, is enough for   *)
(* nested calls of it: who reads it finds the frame it means (libffi.c:635).*)
FramesBelong == FramesNest /\ CallbacksComeHome

(* A default value is there for every call (call.c:339).                   *)
DefaultsStay == \A d \in DOMAIN DefaultStrings : mem[d].refs > 0

Stage(f) ==
  CASE f.phase \in {"args", "let", "pre", "call"} -> "asked"
    [] f.phase = "native" -> "running"
    [] f.phase = "userland" -> "callback"
    [] f.phase = "post" -> "judged"
    [] f.phase = "return" -> IF f.ok THEN "good" ELSE "bad"
    [] f.phase = "set" -> "good"
    [] f.phase = "over" -> IF f.ok THEN "done" ELSE "bad"

Stages == [n \in DOMAIN stack |-> Stage(stack[n])]

Protocol == INSTANCE CallProtocol WITH stages <- Stages, thrown <- exception

(* A call does what CallProtocol promises (context.c:360).                 *)
ImplementsProtocol == Protocol!Spec

(* Every call ends, when foreign functions and callbacks return.           *)
EveryCallEnds ==
  \A depth \in 1 .. MaxDepth : Len(stack) = depth ~> Len(stack) < depth

=============================================================================

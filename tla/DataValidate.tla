---------------------------- MODULE DataValidate ----------------------------
(***************************************************************************)
(* psi_data_validate (data.c): the entities of a parsed file are validated *)
(* in rounds, the typedefs first, then the structs, unions, enums and      *)
(* function declarations.  What fails is tried again in the next round,    *)
(* because it may use what comes after it; when a round changes nothing,   *)
(* a last one prints the errors that the others kept to themselves.        *)
(*                                                                         *)
(* Validating an entity validates what it uses, recursively, and the       *)
(* validate stack (data.h) remembers which typedefs, structs and unions    *)
(* that recursion has come by.  A struct or union that is valid gets its   *)
(* layout in passing: the offset of every member, alignment and size.      *)
(*                                                                         *)
(* An entity is <<kind, name>>; names are unique.  A use is [id, ptr]: the *)
(* type a member, an argument or a typedef names, and whether the declared *)
(* variable is a pointer.  A typedef has one use, an enum none.            *)
(***************************************************************************)
EXTENDS Integers, Sequences, FiniteSets, SequencesExt

CONSTANT Programs   \* the parsed files, see IsProgram

Kinds == {"type", "struct", "union", "enum", "decl"}
Aggregates == {"struct", "union"}

(* order is what the file declares, in the order of validation; prior is    *)
(* what earlier files left in dst, laid out; sized are the aggregates with  *)
(* a declared size; fine are the enums and declarations that have items and *)
(* a symbol to call.                                                        *)
IsProgram(p) ==
  /\ p.order \in Seq(Kinds \X STRING)
  /\ DOMAIN p.uses = Range(p.order) \union p.prior
  /\ p.fine \subseteq Range(p.order)
  /\ p.sized \subseteq {id \in DOMAIN p.uses : p.uses[id] = <<>>}
  /\ p.silent \in BOOLEAN

ASSUME ProgramsAssumption == \A p \in Programs : IsProgram(p)

VARIABLES
  prog,       \* the program, which does not change
  outcome,    \* "running", "done", or how the process died
  checkCount, \* check_count: -1 stands for ~0
  check,      \* check_types, check_structs, ... one after the other
  pending,    \* what this round has still to visit
  recheck,    \* recheck_types, ... of this round
  inRound,    \* inside the body of the loop
  silent,     \* dst->flags & PSI_SILENT
  accepted,   \* the entities of this file in dst->types, dst->structs, ...
  stack,      \* type_stack
  real,       \* the uses <<id, i>> whose `real' pointer is set
  size,       \* aggregate -> "none" (0), "wrong" or "whole"
  aligned,    \* the aggregates with an alignment
  errors,     \* what src->errors has been increased by
  told        \* the entities whose rejection was printed

known == <<stack, real, size, aligned>>
vars == <<prog, outcome, checkCount, check, pending, recheck, inRound, silent,
          accepted, stack, real, size, aligned, errors, told>>

Declared == Range(prog.order)
Sites(ids) == UNION {{<<id, i>> : i \in DOMAIN prog.uses[id]} : id \in ids}

Init ==
  /\ prog \in Programs
  /\ outcome = "running" /\ checkCount = -1
  /\ check = prog.order /\ pending = <<>> /\ recheck = <<>> /\ inRound = FALSE
  /\ silent = TRUE
  /\ accepted = <<>> /\ stack = {} /\ real = Sites(prog.prior)
  /\ size = [id \in {d \in DOMAIN prog.uses : d[1] \in Aggregates} |->
               IF id \in prog.sized \union prog.prior THEN "whole" ELSE "none"]
  /\ aligned = prog.sized \union {id \in prog.prior : id[1] \in Aggregates}
  /\ errors = 0 /\ told = {}

-----------------------------------------------------------------------------

(* The recursion of the validators works on a record: `ok' is what it      *)
(* returns, `said' that an error was raised, `crash' how it died, `short'  *)
(* that the aggregate being laid out has a member of a wrong size.         *)
Now == [stack |-> stack, real |-> real, size |-> size, aligned |-> aligned,
        ok |-> TRUE, said |-> FALSE, crash |-> "", short |-> FALSE]

Stops(s) == ~s.ok \/ s.crash # ""
Rejected(s) == [s EXCEPT !.ok = FALSE, !.said = TRUE]
Crashed(s, how) == [s EXCEPT !.crash = how]

UseAt(site) == prog.uses[site[1]][site[2]]
Kind(id) == id[1]

(* A chain of typedefs longer than this is one that never ends.            *)
ChainBound == Len(prog.order) + 1

(* psi_decl_type_get_alias, _get_struct, ...: the target was found before, *)
(* or is in its list of dst, or on the stack.  A typedef of a name is not  *)
(* looked for in the list.                                                 *)
IsTypedefOfName(id) == Kind(id) = "type" /\ Kind(UseAt(<<id, 1>>).id) = "type"

Resolves(site, s) ==
  LET id == UseAt(site).id IN
  \/ site \in s.real
  \/ id \in s.stack
  \/ id \in Range(accepted) \union prog.prior /\ ~IsTypedefOfName(id)

-----------------------------------------------------------------------------

(* psi_decl_type_get_align, psi_decl_struct_get_align: "yes", "zero", or   *)
(* the end of the process.  The alignment of an aggregate not laid out is  *)
(* the largest of its members', and an unknown typedef has none.           *)
RECURSIVE TypeAlign(_, _, _)
ArgAlign(site, s, fuel) == IF UseAt(site).ptr THEN "yes" ELSE TypeAlign(site, s, fuel)

AggregateAlign(id, s, fuel) ==
  LET all == {ArgAlign(<<id, i>>, s, fuel) : i \in DOMAIN prog.uses[id]} IN
  IF id \in s.aligned THEN "yes"
  ELSE IF all \subseteq {"yes", "zero"} THEN IF "yes" \in all THEN "yes" ELSE "zero"
  ELSE CHOOSE end \in all : end \notin {"yes", "zero"}

TypeAlign(site, s, fuel) ==
  LET id == UseAt(site).id IN
  CASE fuel = 0 -> "recursion"
    [] Kind(id) \in {"base", "enum"} -> "yes"
    [] Kind(id) = "type" -> IF site \in s.real THEN TypeAlign(<<id, 1>>, s, fuel - 1)
                            ELSE "assert"
    [] Kind(id) \in Aggregates ->
         IF site \in s.real THEN AggregateAlign(id, s, fuel - 1)
         ELSE IF Kind(id) = "struct" THEN "zero" ELSE "segv"

RECURSIVE RealUse(_, _)
RealUse(site, ptrs) ==
  LET u == UseAt(site) IN
  IF Kind(u.id) = "type" THEN RealUse(<<u.id, 1>>, ptrs \/ UseAt(<<u.id, 1>>).ptr)
  ELSE [id |-> u.id, wasPtr |-> ptrs]

(* Fault: a pointer to an aggregate has the size of the aggregate.         *)
ArgSizeOfTarget(site, s) ==
  LET u == UseAt(site) IN
  CASE u.id \in DOMAIN s.size -> s.size[u.id]
    [] u.id \notin DOMAIN s.size /\ (u.ptr \/ Kind(u.id) # "type") -> "whole"
    [] OTHER -> IF RealUse(site, FALSE).wasPtr THEN "wrong" ELSE "whole"

(* psi_decl_arg_get_size.  The pointer of a typedef'd pointer is forgotten. *)
ArgSize(site, s) ==
  LET r == RealUse(site, FALSE) IN
  CASE UseAt(site).ptr -> "whole"
    [] ~UseAt(site).ptr /\ Kind(r.id) \in Aggregates ->
         IF r.wasPtr /\ s.size[r.id] = "whole" THEN "wrong" ELSE s.size[r.id]
    [] OTHER -> IF r.wasPtr THEN "wrong" ELSE "whole"

(* The layout of a member.  psi_decl_arg_align leaves the length alone     *)
(* where it finds no alignment: it is that of the member before, or, at    *)
(* first, what was in memory, and `junk' says whether that was zero.       *)
(* psi_layout_init asserts that a member has an offset or a length.        *)
AtZero(site) == site[2] = 1 \/ Kind(site[1]) = "union"

Place(site, s, junk) ==
  LET align == ArgAlign(site, s, ChainBound) IN
  CASE align \notin {"yes", "zero"} -> Crashed(s, align)
    [] align = "zero" ->
         IF site[2] = 1 /\ ~junk THEN Crashed(s, "assert")
         ELSE [s EXCEPT !.short = TRUE]
    [] align = "yes" ->
         IF AtZero(site) /\ ArgSize(site, s) = "none" THEN Crashed(s, "assert")
         ELSE [s EXCEPT !.aligned = @ \union {site[1]},
                        !.short = @ \/ ArgSize(site, s) # "whole"]

(* The size is rounded up to the alignment: to zero where there is none.   *)
Layout(id, s) ==
  [s EXCEPT !.size[id] = IF id \notin s.aligned THEN "none"
                         ELSE IF s.short THEN "wrong" ELSE "whole"]

-----------------------------------------------------------------------------

(* psi_decl_type_validate.  It validates the struct or union it has found, *)
(* which returns at once: one of this file is on the stack when it is found,*)
(* and one of an earlier file has its layout.                              *)
RECURSIVE TypeValidate(_, _, _, _)
TypeValidate(site, ptr, s, fuel) ==
  LET id == UseAt(site).id
      resolved == [s EXCEPT !.real = @ \union {site}]
  IN
  CASE Kind(id) = "base" -> s
    [] Kind(id) = "type" /\ fuel = 0 -> Crashed(s, "recursion")
    [] Kind(id) = "type" /\ fuel > 0 ->
         IF Resolves(site, s) THEN TypeValidate(<<id, 1>>, ptr, resolved, fuel - 1)
         ELSE [s EXCEPT !.ok = FALSE]
    [] Kind(id) \in Aggregates ->
         IF Resolves(site, s) THEN resolved ELSE IF ptr THEN s ELSE Rejected(s)
    [] Kind(id) = "enum" -> IF Resolves(site, s) THEN resolved ELSE Rejected(s)

(* psi_decl_arg_validate: a pointer to anything will do.                   *)
ArgValidate(site, s) ==
  LET v == TypeValidate(site, UseAt(site).ptr, s, ChainBound) IN
  IF v.ok \/ v.crash # "" THEN v
  ELSE IF UseAt(site).ptr THEN [v EXCEPT !.ok = TRUE]
  ELSE Rejected(v)

Places(id) == [i \in DOMAIN prog.uses[id] |-> <<id, i>>]

(* The members in turn, until one fails: every outcome there may be.       *)
Member(outcomes, site) ==
  UNION {IF Stops(s) THEN {s}
         ELSE UNION {IF Stops(v) THEN {v} ELSE {Place(site, v, junk) : junk \in BOOLEAN} :
                       v \in {ArgValidate(site, s)}} : s \in outcomes}

Walked(id, s) ==
  LET ends == FoldLeft(Member, {s}, Places(id)) IN
  {IF Stops(v) THEN v ELSE Layout(id, v) : v \in ends}

(* Fault: a struct is not put on the stack.                                *)
UnseenAggregateValidate(id, s) ==
  IF prog.uses[id] # <<>> THEN Walked(id, s)
  ELSE {IF s.size[id] = "none" THEN Rejected(s) ELSE s}

(* psi_decl_struct_validate and psi_decl_union_validate.                   *)
AggregateValidate(id, s) ==
  LET entered == [s EXCEPT !.stack = @ \union {id}] IN
  IF id \in s.stack THEN {s}
  ELSE IF prog.uses[id] # <<>> THEN Walked(id, entered)
  ELSE {IF s.size[id] = "none" THEN Rejected(entered) ELSE entered}

(* psi_decl_arg_validate_typedef.                                          *)
TypedefValidate(id, s) ==
  LET v == TypeValidate(<<id, 1>>, UseAt(<<id, 1>>).ptr,
                        [s EXCEPT !.stack = @ \union {id}], ChainBound)
  IN  IF id \in s.stack THEN s
      ELSE IF v.ok \/ v.crash # "" THEN v ELSE Rejected(v)

(* psi_decl_validate.                                                      *)
DeclValidate(id, s) ==
  LET Arg(acc, site) == IF Stops(acc) THEN acc ELSE ArgValidate(site, acc)
      v == FoldLeft(Arg, s, Places(id))
  IN  IF Stops(v) \/ id \in prog.fine THEN v ELSE Rejected(v)

EnumValidate(id, s) == IF id \in prog.fine THEN s ELSE Rejected(s)

-----------------------------------------------------------------------------

(* Faults: a failed entity is not tried again, and one is left in dst.     *)
JudgeForgets(id, s) ==
  /\ IF s.crash # "" THEN outcome' = s.crash ELSE UNCHANGED outcome
  /\ accepted' = IF Stops(s) THEN accepted ELSE Append(accepted, id)
  /\ told' = IF s.said /\ ~silent THEN told \union {id} ELSE told
  /\ stack' = s.stack /\ real' = s.real /\ size' = s.size /\ aligned' = s.aligned
  /\ pending' = Tail(pending)
  /\ UNCHANGED <<prog, checkCount, check, recheck, inRound, silent, errors>>

(* What becomes of the entity: typedefs, structs and unions are in dst     *)
(* while they are validated, and leave it again if they fail.              *)
Judge(id, s) ==
  /\ IF s.crash # "" THEN outcome' = s.crash ELSE UNCHANGED outcome
  /\ accepted' = IF Stops(s) THEN accepted ELSE Append(accepted, id)
  /\ recheck' = IF s.ok THEN recheck ELSE Append(recheck, id)
  /\ told' = IF s.said /\ ~silent THEN told \union {id} ELSE told
  /\ stack' = s.stack /\ real' = s.real /\ size' = s.size /\ aligned' = s.aligned
  /\ pending' = Tail(pending)
  /\ UNCHANGED <<prog, checkCount, check, inRound, silent, errors>>

Visiting(kinds) == inRound /\ pending # <<>> /\ Kind(Head(pending)) \in kinds

ValidateType ==
  /\ Visiting({"type"})
  /\ \E s \in {TypedefValidate(Head(pending), Now)} : Judge(Head(pending), s)

ValidateAggregate ==
  /\ Visiting(Aggregates)
  /\ \E s \in AggregateValidate(Head(pending), Now) :
       Judge(Head(pending), s)

ValidateEnum ==
  /\ Visiting({"enum"})
  /\ Judge(Head(pending), EnumValidate(Head(pending), Now))

ValidateDecl ==
  /\ Visiting({"decl"})
  /\ \E s \in {DeclValidate(Head(pending), Now)} : Judge(Head(pending), s)

EndRound ==
  /\ inRound /\ pending = <<>>
  /\ check' = recheck
  /\ inRound' = FALSE
  /\ UNCHANGED <<prog, outcome, checkCount, pending, recheck, silent, accepted, known,
                 errors, told>>

AtTop == ~inRound /\ checkCount # 0

BeginRound ==
  /\ AtTop /\ checkCount # Len(check)
  /\ checkCount' = Len(check)
  /\ errors' = Len(check)
  /\ pending' = check
  /\ recheck' = <<>>
  /\ inRound' = TRUE
  /\ UNCHANGED <<prog, outcome, check, silent, accepted, known, told>>

LastRound == silent /\ ~prog.silent

(* Fault: check_count is set, the flag is left alone.                      *)
SpitForever ==
  /\ AtTop /\ checkCount = Len(check) /\ LastRound
  /\ checkCount' = -1
  /\ UNCHANGED <<prog, outcome, check, pending, recheck, inRound, silent, accepted, known,
                 errors, told>>

(* "one last error-spitting round, if not explicitly suppressed"           *)
SpitErrors ==
  /\ AtTop /\ checkCount = Len(check) /\ LastRound
  /\ silent' = FALSE
  /\ checkCount' = -1
  /\ UNCHANGED <<prog, outcome, check, pending, recheck, inRound, accepted, known,
                 errors, told>>

BailOut ==
  /\ AtTop /\ checkCount = Len(check) /\ ~LastRound
  /\ checkCount' = 0
  /\ UNCHANGED <<prog, outcome, check, pending, recheck, inRound, silent, accepted, known,
                 errors, told>>

(* reset original flags                                                    *)
Finish ==
  /\ ~inRound /\ checkCount = 0
  /\ outcome' = "done"
  /\ silent' = prog.silent
  /\ UNCHANGED <<prog, checkCount, check, pending, recheck, inRound, accepted, known,
                 errors, told>>

Next ==
  /\ outcome = "running"
  /\ \/ BeginRound \/ EndRound \/ SpitErrors \/ BailOut \/ Finish
     \/ ValidateType \/ ValidateAggregate \/ ValidateEnum \/ ValidateDecl

(* Validation is a loop of one thread.                                     *)
Spec == Init /\ [][Next]_vars /\ WF_vars(Next)

-----------------------------------------------------------------------------

IsDone == outcome = "done"

TypeOK ==
  /\ outcome \in {"running", "done", "assert", "recursion", "segv"}
  /\ checkCount \in -1 .. Len(prog.order)
  /\ errors \in 0 .. Len(prog.order)
  /\ Range(pending) \subseteq Range(check)
  /\ Range(accepted) \union Range(check) \union told \subseteq Declared
  /\ stack \subseteq DOMAIN prog.uses
  /\ \A id \in Range(accepted) : Kind(id) \in {"enum", "decl"} \/ id \in stack
  /\ real \subseteq Sites(DOMAIN prog.uses)
  /\ aligned \subseteq DOMAIN size

(* What C makes of a file.  A variable of a type by value needs the whole  *)
(* of it; a typedef may name a struct or union that is never defined.      *)
RECURSIVE UsableByValue(_, _)
UsableByValue(u, sound) ==
  CASE Kind(u.id) = "base" -> TRUE
    [] Kind(u.id) = "type" ->
         /\ u.id \in sound
         /\ UsableByValue(UseAt(<<u.id, 1>>), sound)
    [] OTHER -> u.id \in sound

IsSoundGiven(id, sound) ==
  LET uses == Range(prog.uses[id])
      usable == \A u \in uses : u.ptr \/ UsableByValue(u, sound)
  IN
  CASE Kind(id) = "type" ->
         \A u \in uses : Kind(u.id) \in {"base"} \union Aggregates \/ u.id \in sound
    [] Kind(id) \in Aggregates -> (id \in prog.sized \/ uses # {}) /\ usable
    [] Kind(id) = "enum" -> id \in prog.fine
    [] OTHER -> id \in prog.fine /\ usable

Least(Sets) == CHOOSE S \in Sets : \A T \in Sets : S \subseteq T

Sound ==
  Least({S \in SUBSET DOMAIN prog.uses :
           S = prog.prior \union {id \in Declared : IsSoundGiven(id, S)}})

(* Whatever the order of declaration, and however long it takes, every     *)
(* entity that uses only what is sound is accepted in the end.             *)
SoundIsAccepted == IsDone => Sound \intersect Declared \subseteq Range(accepted)

(* The number of errors psi_validate goes by is the number of entities     *)
(* that were left out, and no entity is in a list of dst twice.            *)
ErrorsAreRejections ==
  IsDone => /\ errors = Cardinality(Declared \ Range(accepted))
            /\ Len(accepted) = Cardinality(Range(accepted))

(* Every entity that is left out is told of, unless the caller wants none  *)
(* of it; and none that is accepted in the end.                            *)
RejectedIsTold ==
  IsDone => told = IF prog.silent THEN {} ELSE Declared \ Range(accepted)

(* The rounds of psi_data_validate reach the verdict that the declarations *)
(* deserve, and their callers hear of it: by dst, by the number of errors  *)
(* and by what is told.                                                    *)
Verdicts == SoundIsAccepted /\ ErrorsAreRejections /\ RejectedIsTold

(* An aggregate whose members by value are all declared before it, in the  *)
(* order in which the kinds are validated.                                 *)
RECURSIVE PlainUse(_, _)
PlainUse(u, before) ==
  CASE u.ptr \/ Kind(u.id) = "base" -> TRUE
    [] ~u.ptr /\ Kind(u.id) = "type" ->
         /\ u.id \in Declared \union prog.prior
         /\ ~UseAt(<<u.id, 1>>).ptr /\ PlainUse(UseAt(<<u.id, 1>>), before)
    [] OTHER -> u.id \in before

Before(id) == prog.prior \union {prog.order[i] : i \in 1 .. SelectInSeq(prog.order, LAMBDA e : e = id) - 1}

LaidOut ==
  CHOOSE S \in SUBSET DOMAIN size :
    S = {id \in DOMAIN size :
           \/ id \in prog.prior \union prog.sized
           \/ /\ prog.uses[id] # <<>>
              /\ \A u \in Range(prog.uses[id]) : PlainUse(u, S \intersect Before(id))}

(* Such an aggregate is laid out in full, no matter what is wrong with the *)
(* entities before it.                                                     *)
PlainLayouts == IsDone => \A id \in LaidOut : size[id] = "whole"

(* Validation ends, one way or the other.                                  *)
Terminates == <>(outcome # "running")

=============================================================================

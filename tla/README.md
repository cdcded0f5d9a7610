# A TLA+ model of psi

psi is a PHP extension that makes C functions callable from PHP. It reads
`.psi` files: C declarations, and *implementations* of PHP functions that say
how arguments are converted for a C function and what becomes of its results.
This directory specifies what psi does with such a file, from the preprocessor
to the foreign call, checks it with TLC and proves parts of it with TLAPS.

Paths below are relative to the repository; the C code is in `src/`.

## 1. Inventory

A `.psi` file goes through these parts, in this order:

    text -> scanner -> stage 1 -> stage 2 (directives, #include) -> parser
         -> validation (types, declarations, implementations) -> compiled context
    PHP call -> frame -> let -> foreign function <-> callbacks -> set, free

| component | code | state it keeps | operations |
|---|---|---|---|
| conditionals | `types/cpp_exp.c` | `level`, `skip`, the bit mask `seen`, the table of macros | one for each directive |
| files | `cpp.c` | the once table, the `search` pointer, the calls of `psi_cpp_process` under way | include, include_next, import, pragma once |
| token cursor | `cpp_tokiter.c`, `plist.c` | the token list and an index into it | next, prev, delete, insert, expand |
| stage 1 | `cpp.c:98` | six flags about the tokens before the cursor | delete comments, white space and continuations, mark heads of macros |
| stage 2 | `cpp.c:191` | flags about the directive under the cursor, and where it began | collect and execute directives, drop skipped text, expand macros |
| function-like macros | `cpp_tokiter.c` | - | collect the arguments of a call, substitute |
| scanner | `parser.re` (generated: `parser.c`) | the pointers `cur`, `mrk`, `tok`, the line, `escaped`, the parentheses that are open | text to tokens |
| parser | `parser_proc_grammar.y` | generated | tokens to trees |
| validation | `data.c`, `types/decl*.c`, `types/layout.c` | the entities left to validate, the accepted ones, the validate stack, resolved types, layouts | rounds over all kinds until nothing changes |
| numeric expressions | `types/num_exp.c`, `types/number.c`, `calc/*.h` | operand and operator stacks | evaluation with C's promotions |
| life of a call | `call.c`, `context.c` | the frame: arguments, symbols, temporaries | parse arguments, let, assert, call, callback, return, set, free |
| statements | `types/let_*.c`, `set_*.c`, `free_*.c`, ... | their variables' full names and arguments, handlers | validation against the declaration; what `call.c` executes |
| marshalling | `marshal.c` | - | zval to C value and back |
| engines | `libffi.c`, `libjit.c` | the current frame of every implementation | closures and foreign calls |
| constants, module | `types/const*.c`, `module.c` | - | registration with PHP |

How they interact. `psi_cpp_process` runs both stages on a token list and
calls itself, in the middle of a directive, for an included file: the cursor is
saved and restored, everything else (`level`, `skip`, `seen`, macros, once
table, `search`) is shared by the files. Validation is a loop over lists that
its own steps change. A foreign call runs on a frame; a callback finds the
frame in `impl_info->frame`, which the engine saves and restores around each
foreign call, because a callback may call the same implementation again. Frame
and PHP share strings by reference counts.

psi is single-threaded. Hard are the *orders*: directives in any sequence and
nesting; a cursor that moves backwards and a list that shrinks and grows under
it; nested processing of files that share half of their state; files that fail
half way; entities that use each other across kinds and rounds; callbacks that
call, throw, or assign the variables of the call under way; and memory that is
owned by frame, argument, temporary list, PHP variable, foreign function, or
nobody.

What makes each component correct:

* conditionals: the three words encode the stack of groups of C, no bit
  survives its group, a group takes at most one branch, no assertion fails;
* files: a file closes and opens only groups of its own, whatever it includes;
  including ends; a file that fails ends no other and touches no group around it
  (what it has open it leaves to its includer, section 5); import happens once;
* stage 1: deletes exactly what it should and ends;
* scanner: tokens cover the text, each as long as it can be, told as what it is
  and where it is; it reads no further than the buffer and ends;
* stage 2: leaves exactly the live text, with macros of that time replaced as C
  replaces them;
* numeric expressions: two stacks compute what the operators' precedences say,
  of each pair of types what the result's type can hold;
* statements: an accepted implementation names members that exist, by the path
  that leads there, and its handlers fit what is in them;
* validation: ends, accepts what is sound and only that, counts and tells what
  it rejects, lays out what it accepts;
* life of a call: nothing is used after it was freed, freed twice or lost;
  callbacks run on the frame that passed them; nothing is written unless all
  conditions hold; a failed call throws.

## 2. Modules

| module | models | state and actions |
|---|---|---|
| `CppGroups` | *abstract*: C's conditional groups | a stack of groups (whether one was taken, whether it is live), macros; open, branch, close, define |
| `CppCond` | `psi_cpp_exp_exec` on the words | `level`, `skip`, `seen`, `defs` are the fields of `struct psi_cpp`; one action for each directive |
| `CppCond_proofs` | theorems about `CppCond` | |
| `CppInclude` | `psi_cpp_process`, `psi_cpp_include`, `try_include` | `CppCond`'s variables (instantiated as `Cond`), the stack of calls of `psi_cpp_process`, `once`, `search`; a line is executed, opens a file or is malformed; a file ends |
| `CppInclude_proofs` | theorems about `CppInclude`, over those about `CppCond` | |
| `CppTokiter` | the cursor and its list, as operators | |
| `CppStage1` | `psi_cpp_stage1` | the list, the cursor and the flags; one action for each branch of the loop |
| `CppStage1_proofs` | theorems about `CppStage1` | |
| `Scanner` | `psi_parser_scan`, as the automaton re2c makes of it | the pointers, the mode (the state of the automaton), the accepting state to step back to, line and column, `escaped`, `parens`, tokens; a step for each character, newline, end of a token, step back, end of the buffer |
| `Scanner_proofs` | theorems about `Scanner` | |
| `MacroCall` | `psi_cpp_tokiter_expand`, as operators | reading a call, substitution, `#`, `##`, where the result goes |
| `CppText` | *reference*: line-by-line preprocessing with the macro replacement of C | a recursive definition of the live text |
| `CppStage2` | `psi_cpp_stage2` with `psi_cpp_exp_exec` and `expand` | as stage 1; reading, expanding again, executing a directive |
| `CppStage2_proofs` | theorems about `CppStage2` and `MacroCall`, over those about `CppCond` | |
| `DataValidate` | `psi_data_validate` up to the constants, and the validators of types and declarations | what is left to check, accepted, on the validate stack, told, resolved, laid out; an action for each entity and each end of a round |
| `CNum` | C's types and arithmetic on them (external) | |
| `Calc` | `calc/*.h`: each operation on each pair of types | operators; a pair's case is its row in the switch |
| `Number` | `number.c`: validation and evaluation of a number | operators |
| `NumExp` | `num_exp.c`: the parser's tree, `psi_num_exp_reduce` and `_exec` | the tree (its nodes, in the order in which the parser makes them), the nested calls of `_exec` with their places in the walk and both stacks; a step for each node, entry of the output, and return |
| `NumMeaning` | *reference*: the value of an expression by the precedences that the grammar declares | a recursive definition, and the property that compares |
| `NumExp_proofs` | theorems about `NumExp`, `Calc` and `Number` | |
| `ImplValidate` | `psi_impl_validate`'s statements: let, return, set, assert, free | the implementation, changed by what validation resolves and deletes; a step for each statement |
| `CallProtocol` | *abstract*: what a call promises | the stages of the nested calls, whether an exception is under way |
| `CallFrame` | `psi_context_call`, `call.c`, the statements, `psi_ffi_call_ex` | memory as blocks with reference counts, the frames, `impl_info->frame` (`current`), exceptions; an action for each argument, statement, callback, and exit |
| `CallFrame_proofs` | theorems about `CallFrame`: its frames, `ImplementsProtocol`, its memory | |
| `SequenceLemmas` | lemmas that the proofs share: stacks, sequences cut and put together, induction along a table, how often a value occurs | |

Composition: `CppInclude` and `CppStage2` instantiate or repeat the state of
`CppCond`; `CppStage1` and `CppStage2` (through `MacroCall`) extend `CppTokiter`;
`NumMeaning` extends `NumExp`, which extends `Number`, which extends `Calc`; `CppCond` implements
`CppGroups` and `CallFrame` implements `CallProtocol` (the refinement mappings
are the INSTANCE statements at the end of each module). `MC*` modules hold the
inputs of the runs. PROJECT.json maps each definition to the lines it models.
Where several facts make one claim, the property that a run checks is the
conjunction of their named parts, each with its comment. The operators named as faults or mutants are single changes of a definition,
with which the property they belong to must be violated.

Abstractions. Characters are those of `Scanner` only; behind it, tokens are types
with a name. Numbers have their width (`% 2^w`), with small widths in the run: the
cases of `calc` are the same for all, and 2, 4, 8 and 10 bits keep the order of
8, 16, 32 and 64. Floats are those of IEEE 754: binary, rounded to the nearest (of two the even one),
with infinities, NaN and signed zeros, and each operation rounds to its own type
(`FLT_EVAL_METHOD` 0). Their formats are constants; in the run a `FLOAT` has 5 digits, a `DOUBLE` 9
and a `LONG_DOUBLE` 10, which keeps what the real formats can hold: all shorts, all ints, all longs.
What is left of IEEE 754 are its traps and the kinds of NaN; below its last digit, a float is one of
equal steps, as subnormal numbers are.
In `ImplValidate` types have members to a depth of two. Files are sequences
of directive lines. An entity is its name, its kind and the types it uses, each
by value or through a pointer; a size is none, partial or whole, with padding
left to a later module. A zval or C value is the block of memory that it needs,
or 0; a struct converted with `arrval` has one string in it. What PHP, userland
functions and foreign functions do is nondeterministic: which arguments PHP
passes (too few and too many too), whether a type check fails, whether a callback
is made, returns or throws, whether the caller's variable is assigned meanwhile,
whether a foreign function allocates, and whether a condition holds.

## 3. Runs

Runs that pass:

| run | states | bounds | shows |
|---|---|---|---|
| `cppcond` | 6,400 | 2 macros, 4 bits, 4 levels | every sequence of directives; `LevelsConsistent` is the encoding, `AssertsHold` the three assertions, `ImplementsGroups` the refinement. As many levels as bits: the boundary at which bits are reused is reached. |
| `cppinclude` | 27,000 | 4 mains, 5x3x2 headers in two directories that include each other in circles behind guards, and files that fail half way; 8 nested files | `FilesApart`: the groups around an `#include` are the same after it, whatever becomes of the file; whole files leave none of their own; no failure ends another file; `ImplementsCond`: inclusion adds no way to change the conditionals; `Completes`; `NextIsElsewhere`: `include_next` opens another file |
| `cppstage1` | 124,000 | all texts of up to 4 of 8 token types, continuations of a `#define`, lines before one | `LeavesTokens`: only what should be deleted is, and heads are marked; the walk ends |
| `scanner` | 211,000 | all texts of up to 3 to 6 characters over alphabets for numbers, words, literals, comments, headers and attributes, and longer chosen ones | `Tiling`: no character is lost, taken twice or read behind the buffer, lines and columns are right; `TokensWhole`: numbers and words are as long as the rules allow, literals, comments and attributes end where they close; `LosesLittle`: what the end drops, and where a scan fails |
| `cppstage2` | 392,000 | all texts of up to 3 of 20 lines, groups of six lines with every opening, branch and definition, and 1,400 texts with two macros with parameters, nested calls of them, and calls in conditions | the output is what `CppText` says, failures are where it says, an assertion fails only at a condition with a macro left in it, and the walk ends |
| `numexp` | 555,000 | all operators on all pairs of 40 boundary values of 11 types, with floats next to integers that are rounded, infinities and NaN, any three operators in a row, 8 templates with parentheses, casts, prefixes and conditions | `Evaluates`: precedence, branches and the stacks; `Comparisons`: the six tables of `cmp.h` agree on one order of all numbers, in which NaN has no place; it is that of the numbers themselves unless a sign is lost (`SignLost`) or an integer has more digits than the float (`TooLong`). `Arithmetic`: sums and products commute; those of integers are exact, and division and remainder fit (`IntegersFit`); casts to integers cut, wrap or keep (`CastsToIntegers`), casts to floats keep what has no more digits (`CastsToFloats`) |
| `implvalidate` | 31,000 | 3,300 implementations of two functions with structs, arrays of them, pointers and callbacks; casts nested to a depth of two, with wrong names and kinds in each place | `NamesResolve`: full names lead to the members and tell symbols apart; `InnersFit`: what deletion leaves is what handlers expect; `DiesOnlyFor`: the crashes that there are |
| `datavalidate` | 56,000 | files of up to 6 entities that use each other in every direction, files after earlier files | `Verdicts`: sound is accepted, rejected is counted and told; `PlainLayouts`: what is declared in order is laid out in full; rounds end |
| `callframe` | 84,000 | 2 nested calls of 6 implementations that between them have every kind of argument and statement, 2 callbacks a call, 1 variadic argument | `NothingDangles`, `Balanced`: memory; `FramesBelong`: frames, and the frames callbacks run on; `ImplementsProtocol`, `EveryCallEnds` |

Why the bounds are enough: a conditional group interacts with the groups
directly around it, which four levels contain twice. A token's treatment depends
on at most the flags set by its line and the continuation before it. The
validators see one entity and what it uses; three kinds, three rounds and both
directions of use occur. Two nested calls are the smallest number in which a
frame is current twice and a callback's scope ends before its caller's; two calls
of a script make the second use of what the first left behind. Three nested calls
were searched in part (three million states, no violation).

Runs that are violated, each showing where the program departs from what its
repository says (details under "findings" in PROJECT.json):

| run | property | what happens |
|---|---|---|
| `cppinclude_import` | `ImportOnce` | a file is imported twice when it lies next to its importer: the once table is asked for a prefix of its path (`cpp.c:464`) |
| `callframe_defaults` | `DefaultsStay` | the first call that uses a default string frees it (`call.c:346`) |
| `numexp_asserts` | `AssertsHold` | a literal with the suffix `f` gets a type that evaluation has no case for, and `assert(0)` fails (`types/number.c:656`) |

What the passing runs leave out, because the program does not do it well (section 5
says what happens): `callframe` has no default strings, and foreign functions that do
not call back after an exception or through a callable that was not given (`Habits =
{}`). `cppstage2` has no texts that end in a directive, no macros that lead back to
themselves by way of another, and gives `#` and `##` arguments that are no macros;
calls do not run over the end of a line. `MeansAsDeclared` is about expressions without
`&` next to `==`. `datavalidate` has structs of unknown types among its files, but
claims nothing about their rejection.

Deadlock is checked where the system never stops (`cppcond`, `callframe`) or its end
is an action (`scanner`); the
others end.

Fairness. Scanner, preprocessor, validation and evaluation are loops of one thread that never
waits: WF(Next). For calls, WF of `Progress`: psi's own steps are taken by that
thread, and foreign and userland functions return in the end. That they do is an
assumption about others, without which no call ends; they are free to call back,
call, throw and catch before, and nothing is assumed about a caller that makes
further calls.

## 4. Proofs

Seven modules hold theorems about the runs' specifications (`SequenceLemmas`
holds the lemmas that they share), each for every value of
the constants that satisfies what is named here.

### The conditionals (`CppCond_proofs`)

For every set of macros, every `Width` and every
`MaxLevel <= Width`: `TypeCorrect`, `AlwaysConsistent`, `NoAssertFails`,
`OneBranch` and `Refinement` (of `CppGroups`).

The inductive invariant is `TypeOK /\ LevelsConsistent /\ AssertsHold`. That no
assertion fails is not inductive: opening a group asserts that its bit is 0,
which holds because no bit is left above `level`, which holds because `#endif`
clears the bit of the level that it closes; and because two levels within the
width have different bits (`BitDistinct`), which is where the assumption is
needed. The refinement maps level `l` to the group that is skipped if `l` is at
or above `skip` and taken if its bit is set; each directive is a lemma.

The assumption is real: with more levels than bits the assertion on a new level
fails (`types/cpp_exp.c:174`).

### The files (`CppInclude_proofs`)

For every set of files, every search path and every depth of inclusion, with
`MaxLevel <= Width`: `TypeCorrect`, `ConditionalsImplemented`, `OneStackOfGroups`;
and `FilesStayApart` if the files that can be included close what they open.

* `ConditionalsImplemented` is a refinement step by step: a line is a directive of
  `CppCond`, and opening, ending or failing a file changes nothing there. So what
  `CppCond_proofs` proves (instantiated as `Conditionals`) holds of all files
  together: `OneStackOfGroups` chains the two refinements. Its invariant,
  `SharedInv`, is the one of `CppCond` with the types of the stack of files.
* `FilesApart` is about files that nest: the hypothesis `FilesNest` gives each file a
  depth at each of its lines, which directives change by one and which is 0 at the end. It is
  about the texts, not about runs, and without it the property is false. That the files of the run
  satisfy it is checked there, as `EveryFileNests`. The invariant `Nested` says that
  the level at which a file goes on is the one at which it was entered plus the
  depth of its line; so its own `#else` and `#endif` are of levels above the
  one it was entered at, and the groups and the bits of its includers stay. They stay
  where the file fails, too (`StepAround`); that it leaves no groups of its own is true of
  whole files only (`LeftLevel`), as the level is then *at least* the one of entry.

### The scanner (`Scanner_proofs`)

For every set of texts and every spelling of the keywords: `TypeCorrect`, `TokensTile`
and `LosesNothing`. `SpellingAssumption` asks for what the generated code takes for
granted: no keyword is empty, `__attribute__` begins with an underscore and is
no keyword, and there are keywords that the prefixes `u8`, `u`, `U`, `L` run into.

The inductive invariant has five parts. `Typed`: the pointers are in the buffer.
`Read`: in a state of the automaton, at least as many characters were read as any path
to that state has, and no end of line among them. `Mark`: in a state that
accepts nothing, there is a token behind the mark, which is not behind the cursor.
`Lined`: `lines` counts the ends of lines before the cursor, and `eol` is
behind the last. `Joined`: every token is in its place and fits to the one before
it, and what is being read begins (`Began`) behind the last. Stepping back to `mrk` keeps
`Lined` only because of `Read`, and stepping back to something needs `Mark`.
What the 60 edge functions contribute is one relation, `Leads`: which state may follow
which, on characters (`Ink`) that are neither an end of line nor behind the text.
`LosesNothing` adds `Spelled`: what was read tells the state, for those states
in which the text may end or the scan fail.

### The first stage (`CppStage1_proofs`)

For every set of texts, of any length: `TypeCorrect`, `SpaceLost` and `MarksStand`.
The lemmas `DelRangeShrinks` and `InsRangeGrows` say what the two operations of the
cursor (`cpp_tokiter.c`) make of a list, `ClampBounds` where they leave the cursor.

* `Remembers`: what the flags say is in front of the cursor. If `esc` is set, the token before the
  cursor is a backslash, so that `del_range(index - 1, 2)` deletes what it should and begins in the
  list. Deleting at the end of the list puts the cursor back on a token that was
  walked over, which is the other case of `After`; a backslash is then
  counted twice, but no newline follows it. If `name` is set, no mark stands
  before the cursor, so that no parenthesis is marked twice.
* `Sifted`: there is no comment and no blank before the cursor, also when it goes back.
* `InOrder`, `Told` and `Losses`: tokens are in their order, each was scanned or
  marks the next, and every place of the text that is missing is a comment, a blank,
  or half of a pair of backslash and newline between which everything is missing.

`SpaceLost` is weaker than `KeepsTheRest` on purpose. It does not say that the
pairs are the continued lines of C, which is not so for every text (section 5:
three backslashes before two newlines), but holds of all.

### The second stage (`CppStage2_proofs`)

For every set of inputs, with `MaxLevel <= Width`: `TypeCorrect`, `NoNewlineIsLeft`,
`OnlyLiveTextIsKept`, `ConditionalsImplemented` and `OneStackOfGroups`. Four of them state
properties (`OneLine`, `SkippedIsLost`, `ImplementsCond` and, of `CppCond`,
`ImplementsGroups`) that no run lists; TLC found them to hold on the run's inputs before they were proved.

`Spellings` is what is assumed of the constants. `Names` holds every spelling: those of the
tokens of the inputs, and what `##` and `#` make of them (`Glued`); `Names = STRING` is
such a set. The tokens of an included file have no newline among them, which is what
`NoNewlineIsLeft` says of the file itself, as `try_include` runs it through the same walk
(`cpp.c:409`). The run needs only five names: those of its inputs, and the one (`AB`) that
they paste.

* `MacroCall`: `ExpandTokens` and `ReadCall` are tables along the tokens of a body and of a call
  (`IsTable`), and what they return is shown by induction on the index (`StaysAlong`): a
  copied body has no newline, whatever it glues; a call that was read ends in the
  list, behind its beginning. From `DelRange` and `InsRange` follows `Replaced`: an expansion
  keeps the cursor in the list, never moves it on, and leaves no newline in front of it. This
  includes the odd case of a call at the end of a text, where the cursor goes back and the
  result is inserted in front of a token that was kept (`Seek`).
* `Typed`: the words of the state, the cursor in the list, `do_cpp` exactly while a line is being
  collected. That `WellFormed` lines have the tokens that the directives read (`Arg`, the
  parameters between `LPAREN` and the first `RPAREN`) is the grammar's part.
* `Kept`: no newline in front of the cursor. A newline is dropped or ends a directive; the cursor
  moves on only over a kept token, or over the header that was inserted. `Done`: the walk ends at the
  end of the list. The two together are `OneLine`.
* `ConditionalsImplemented`: `Sound` is `CppCond` with a status that never changes, so
  that each directive is one of those whose assertions hold. It needs the
  invariant of `CppCond_proofs` (`Conditionals!IInv`), because only with it can no
  assertion of `types/cpp_exp.c` fail; the assertions that may fail in this walk are others
  (`types/number.c:579`, `cpp_tokiter.c:80`). What is proved of `CppCond` follows of the
  walk: `OneStackOfGroups`.

### The calls (`CallFrame_proofs`)

For every finite set of implementations, every bound and all habits of foreign functions:
`TypeCorrect` and `FramesAlwaysBelong`; and `ProtocolImplemented`, the refinement of
`CallProtocol`, if foreign functions return to PHP after a callback threw
(`ReturnsAfterThrow`; otherwise `assert(rc == SUCCESS)`, `call.c:478`, fails).

`FramesBelong` is about the top frame and `impl_info->frame`. The invariant says it of all
frames: `Linked`, that `prev` of the frames and `current` of the implementations are
threaded through the stack, each to the innermost running frame of the
same implementation below it (`Innermost`), which is what makes restoring `prev` on return
right; `BelowCallsBack`, that every frame below the top one is in a callback, so that
a new call never interrupts another at a different place; `WellFormed`, how far each
call is by what it holds; `FailuresThrow`, that a call that failed leaves an exception;
and `ScopesForget`, that scopes not under way keep nothing.

### The memory of calls (`CallFrame_proofs`, second half)

For every finite set of implementations and every bound: `MemoryInvariance`,
`AlwaysBalanced` and `NothingEverDangles`, each from what it needs of these:

* `NoDefaultStrings` (all three): no argument has a string as its default. With one the
  claims are false, as the run `callframe_defaults` shows: a frame releases it without
  holding it (`call.c:346`).
* `NoHabits` (`NothingEverDangles`): foreign functions do not call back after an exception or
  through a callable that was not given, and no path is denied. Each of these is a
  fault by itself (section 5). `AlwaysBalanced` holds with them too.
* `ConvertsGiven` (`NothingEverDangles`): `strval` or `pathval` of an argument that is no
  string is of one that must be given. Otherwise `psi_let_strval` reads
  through a null zval (`marshal.c:419`).

The implementations of the run satisfy these, which is checked there
(`MCImplsAreSafe`).

`Balanced` counts, for a block, the arguments, slots, temporaries and calls of all frames
and the temporaries kept in scopes. A set of holders is no way to reason about
steps; so `Held` is shown to be the sum, over frames and scopes, of how often the block occurs in
each of their tables (`AllHolders`, `FrameWeight`), and a step changes one or two of
these tables. The invariant, `MemoryOK`, has two parts besides the one above:

* `Counted`: every block is `Booked`. It has at least as many references as holders,
  exactly as many if somebody frees its kind, and more if its kind is one with a reference
  that nobody gives back (a null array, static memory, a large return value, an answer). What was never allocated has no holder.
* `Owned`, for each frame: a symbol is `Backed` by an argument or temporary of the same
  frame, or by a block that nobody frees; the inner pointers of converted arguments are
  among its temporaries; a slot holds a string or a variadic argument, and `out` what the foreign
  function allocated.

Neither is inductive alone: giving back the temporaries of a frame frees no block of
another frame only because every holder was counted, and what a foreign function
was given stays live because what backs it is held by the frame, whatever is
assigned to the variables of the caller in a callback. For each action there is a
lemma that says which tables it changes and that the counts follow (`CountArgsMem`
to `FrameFreeMem`), and for each statement one about the blocks that it makes.
`NothingEverDangles` needs `TopTaken` also: while arguments are converted, what was given
has a zval, so that there is no null pointer to read.

### The numeric expressions (`NumExp_proofs`)

For all widths of the integers, all formats of the floats, all expressions, and all values of enums,
constants and variables: `TypeCorrect`, `OperandsAreThere` (`OneValueLeft`, the second part of
`Evaluates`), `NumbersAreOrdered`, `IntegersAreExact` (`IntegersFit` and `CastsToIntegers`: what is
claimed of integers) and `TablesAreExact` (with floats).

Assumed is what C and the scanner grant. `WidthsAssumption`: each of `char`, `short` and
`int` has at least twice the bits of the one before, and 64-bit integers more than `int`. `char` has more than one bit.
`FormatsAssumption`: a `DOUBLE` holds each `FLOAT` and a `LONG_DOUBLE` each `DOUBLE`, one is a number
of every type, and every type ranges over all integers, which are rounded where it has
too few digits, and never infinite.
`DataAssumption`: what a name stands for is a number of its type.
`TextsAssumption`: tokens are those of the grammar, and a literal's fraction has a
denominator. The texts themselves are any; the specification starts from those that the
grammar accepts.

* *The tree.* The parser's tables are functions of the number of tokens read and of reductions made
  (`ParseKeeps`, `SettleKeeps`): each node refers to earlier ones (`IsNode`). If it validates, no
  operator lacks its right side, so that no walk reads a null pointer (`ValidityIs`).
* *The walk.* `psi_num_exp_reduce` has put a program in the output when it is over; before, what
  is in the output and what waits on the operator stack are both incomplete. `Runs(s, h, n)`
  says that the program `s` finds its operands on a stack of `h` values and leaves `n`;
  `Waiting(s, h)`, that the stack `s` of operators and parentheses has `h` binary operators,
  each of which has had its left operand. A call of `_exec` `Walks` if its output
  leaves one value for each that waits, and one more if the walk is
  between two operands (`Having`). Popping operators that bind more tightly keeps
  this (`WaitingPop`), whatever the tiers are: how operators bind decides which
  value comes out, and never whether one does. Two facts about the stack are needed besides: a
  closing parenthesis finds its own (the parentheses on the stack are at least as many as are still to be
  closed), and nothing is popped over one (`PopsNoParen`).
* *The execution.* A call `Executes` if the rest of its output turns the values on its stack
  into one. Each entry consumes its operands and pushes its result (`ExecuteStep`), which
  is a number of its type (`Calculated`, `CastIs`) or undefined. Calls below the
  top one wait at a `?:` (`Stacked`).
* *The tables.* For each of the 18 binary operators a lemma says that the block of the left
  operand's type computes what C does in the common type (`AddIs`, `ComparesLt`, `AndWords`, ...). The properties
  follow from these and from what conversion does. Among integers it is the identity on what fits, and else
  modulo a power of two (`ConvertKeeps`, `Wrapped`). To a float it rounds; a number that the type holds is
  rounded to itself (`RoundsToItself`), so that it keeps integers of few digits (`IntegerKept`) and
  floats of types that are not wider (`FloatKept`). `KeptInCommon` puts these together for two
  operands, and `NaNKept` says that nothing else becomes NaN. `QuotientAndRemainder` and `CastToInteger`
  are division with remainder, towards zero. `LastOK`, part of the invariant, says of the
  last operation that its operands were numbers and its result the table's.

That the program computes what the *declared* precedences say stays with TLC: the reference
is recursive, and `&` binds otherwise (section 5).

### What is checked by TLC only

* Liveness (`Completes`, `Terminates`, `EveryCallEnds` and the like): out of the prover's reach under
  fairness.
* `NextIsElsewhere` of `CppInclude` and `LeavesTokens` of `CppStage1`, which are so for the texts
  and files of the runs but not for all (section 5: a second `include_next`, three backslashes); what
  holds for all texts is `SpaceLost`.
* `TokensWhole` of `Scanner`: its `Numbers` compares an automaton with regular
  expressions, which is an induction over texts.
* `OutputIsLiveText` of `CppStage2`, whose reference, `CppText`, is recursive.
* `MeansAsDeclared`, the first part of `Evaluates` of `NumExp`, whose reference,
  `NumMeaning`, is recursive.
* Everything about `DataValidate` and `ImplValidate`, whose definitions are recursive.

## 5. What the program does that nobody asked for

Met while modelling. The models do what the code does; these are kept out of
the inputs or the properties of the runs, as said at each property.

* Scanner: a text that does not end in a newline loses its last token
  (`parser.re:286`). The prefixes `u8`, `u`, `U`, `L` of literals have no `goto start`
  behind them (`parser.re:323-326`): the quote becomes part of a word, and the width
  that was set is never used. `#pragma once` is no `PRAGMA_ONCE`, whose rule wants a
  word character in between (`parser.re:368`). `1-1` is two numbers
  (`parser.re:308`). A backslash before a newline in a string still escapes the
  character after it. `\r\n` counts as two lines, and columns of tokens that hold
  newlines are negative.
* Conditionals nested deeper than the mask has bits fail an assertion.
* A file that fails within groups of its own, or ends in a directive without a newline,
  leaves them open: `psi_cpp_process` puts back the tokens and the index and nothing
  else (`cpp.c:336-339`), and `try_include` goes on as if nothing had happened
  (`cpp.c:407`). The lines after the `#include` stand in the groups of that file. After a header
  with `#if 0` and a malformed line the rest of the includer is skipped, without a
  word; an `#else` or `#endif` of the includer branches or closes the header's group, and leaves the
  includer's own one open. The headers of `cppinclude` that
  fail or are cut short all do so in an open group: `GroupsAroundStay` says what they leave as
  it was, and `IncludeKeepsConditionals` is about whole files.
* A `#` line that is no directive fails its file, in skipped text too;
  README.md:135 and 143 suggest otherwise.
* A C++ comment holds its newline (`parser.re:512`), and takes it along:
  the next line is joined to the one before.
* `#define foo`, newline, `(a)`: neither `define` nor `name` is reset at an end
  of line (`cpp.c:145`), and the parenthesis is marked as that of a macro's
  head. `#define foo\`, newline, `(a)` is not marked (`cpp.c:181`).
* Three backslashes before two newlines lose a token (`cpp.c:119`).
* Macros that are defined as each other are expanded for ever
  (`cpp_tokiter.c:493` leaves only a macro of its own name alone).
* `#define A A`, then `#if A`, fails an assertion (`types/number.c:579`), and so does
  the name of a function-like macro that is not called. At the very end of a text
  such a name fails the assertion of `psi_cpp_tokiter_current`.
* Calls of macros (`cpp_tokiter.c`): arguments are not replaced before they are
  handed on, so that the usual pair of macros around `#` and `##` does not work; `#`
  makes a string of the first token of its argument only, and if that string comes
  first and is spelled like a macro it is replaced (`:484` does not look at types). A
  macro of no parameters takes and drops one argument (`:345`). A call of itself in
  a body is expanded for ever. An argument of several tokens at the beginning of a
  body is written past the end of a list (`plist.c:119`). After a call at the end
  of a text the cursor cannot go back, and the result is inserted in front of the
  token before (`:437`). A call may run over newlines, also that of its directive.
* A directive without a newline at the end of a text is dropped (`cpp.c:288`).
  A skipped group left open there takes kept text along, and a
  directive at the very end makes the last kept token be walked by twice
  (`Settled` in `CppStage2`).
* A second `include_next` in a file, or one after another include from the search path,
  starts where the last file of any kind was found (`cpp.c:479`), and may open its own
  file again. The files of the run have no search-path include before an `include_next`:
  `NextIsElsewhere` is about the first.
* A member that is a union adds no size to its struct, since unions are laid out
  after structs; a struct in a struct that waits for an enum fails an assertion
  (`types/layout.c:35`).
* A struct with a member of an unknown type is accepted in the round after it
  failed, without a layout (`types/decl_struct.c:90`).
* A typedef of a pointer to an unknown struct is accepted, and its uses rejected
  (`types/decl_type.c:226`). Typedefs of each other and structs that hold
  themselves recurse until the stack is exhausted. A null pointer is read for a
  union by value that was never found (`types/decl_type.c:423`).
* Numeric expressions: `&` binds more tightly than `==` (`calc/oper.h`), other than
  `parser_proc_grammar.y:259-260` declares and C does. `&&` and `||` evaluate both sides. Unary
  plus and minus have no case of their own: the grammar makes binary expressions of
  them without a right side, which validation follows. Division by zero is not looked
  at: of integers it is undefined, of floats it goes on with an infinity or NaN, which compares
  unequal to itself. An integer is compared with a float as the float it is rounded to:
  the `INT64` 9007199254740993 equals the `DOUBLE` 9007199254740992.0, and the `INT32` 16777217 the
  `FLOAT` 16777216. A negative number is shifted to the right as an unsigned one. `#if 0.5` is
  false, as conditions are cast to integers. A character constant of several
  characters is that of its last but one.
* Statements: a free of the variable that is returned fails an assertion
  (`types/free_exp.c:115`); an array whose element is no cast of a variable compares with a
  null name (`types/let_func.c:166`); a recursive cast that is in nothing reads a null pointer
  (`types/set_func.c:122`), and so does a number in a cast of a struct
  (`marshal.c:584`). A set of a number fails `assert(set_dvar)` when it is executed
  (`types/set_exp.c:61`).
* The closure of a callable that was not given is passed all the same, and the
  callback goes through a null pointer (`types/let_exp.c:280`). A foreign function that
  calls back after a callback threw fails `assert(rc == SUCCESS)` (`call.c:478`).
* Nobody frees: the string of a mixed variadic argument (`call.c:65`), the array
  of `let var[n] = NULL` (`types/let_exp.c:232`), a large return value
  (`call.c:366`), the value that a callback returned (`call.c:474`), and the
  foreign function's buffer if the post-conditions fail (`context.c:390`).
* The argument made of a member of a callback's answer stays that of the first
  answer, whose zval was on the C stack (`call.c:200`).
* `pathval` of a string argument outside of open_basedir frees the inside of the
  string (`marshal.c:444`): the habit "denies" of `CallFrame` is this case.
* A function pointer that outlives its call fails an assertion, or runs on the
  frame of a later call (`libffi.c:387`).

## 6. Not modelled

The parser is generated; its grammar is modelled in `CppStage2` (which lines are
directives), and `NumExp` (expressions). What `Scanner` leaves out of the rules are
keywords beyond the prefixes of a few and bytes above 127, which are letters.
Conditions in `CppStage2` are a number, a name, a call or `defined`: operators are
`NumExp`'s. Tokens, dumping, error formatting and registration with PHP keep no state
of interest. `libffi` and `libjit` are external: the part of the engines
that matters to calls is the current frame. Conversions of numbers between PHP and C are data.
`exit` and fatal errors in a callback, with which PHP jumps over the frames of psi and of the
foreign function to the end of the request, are not modelled: in `CallFrame` a callback
returns or throws.
Static variables of PHP functions other than those of static implementations,
objects and the arrays of `to_array` are left out of `CallFrame`.

## 7. Plan

In order of importance; done are 1 to 10 and 13.

1. `CppCond` against `CppGroups`, with proofs.
2. `CppInclude` over `CppCond`.
3. `CppTokiter`, `CppStage1`.
4. `CppStage2` against `CppText`.
5. `DataValidate`.
6. `CallFrame` against `CallProtocol`.
7. `MacroCall` in `CppStage2`, against replacement as C defines it.
8. `NumExp` against a recursive reference, `Calc` with widths.
9. Validation of implementations (`ImplValidate`).
10. `Scanner`.
11. `Layout`: alignment, padding and bit fields as numbers (`psi_align`,
    `decl_struct.c`, `decl_union.c`), with `% 2^w`; to be composed with `DataValidate`.
    Theorems: members do not overlap, a size is a multiple of its alignment.
12. Constants: the middle of `psi_data_validate`.
13. Proofs: those of section 4. Left are the parts of `TokensWhole` that are about literals
    and comments, and `DataValidate` and `ImplValidate`, whose recursion would have to become tables.

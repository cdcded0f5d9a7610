----------------------------- MODULE CppInclude -----------------------------
(***************************************************************************)
(* Inclusion of files: psi_cpp_process, psi_cpp_include and try_include    *)
(* (cpp.c), around the execution of directives (CppCond).                  *)
(*                                                                         *)
(* psi_cpp_process calls itself through psi_cpp_include for every file     *)
(* that is included.  The token list and the position in it are saved and  *)
(* restored around a nested call: a frame of `stack' is such a call.  The  *)
(* rest of struct psi_cpp is shared by all of them: the conditional state, *)
(* the definitions, the `once' table and the `search' pointer.             *)
(*                                                                         *)
(* A file is a sequence of directive lines, and whether the last of them   *)
(* ends in a newline.                                                      *)
(***************************************************************************)
EXTENDS Naturals, Sequences, SequencesExt

CONSTANTS
  Names,        \* macro names
  Width,        \* bits of the mask of branches seen
  MaxLevel,     \* bound on the nesting of conditional groups
  Dirs,         \* the directories of PSI_G(search_path)
  FileSystems,  \* the file systems to run on, each [paths -> files]
  Main,         \* path of the file the parser was opened on
  MaxFrames     \* nested files at which the C stack counts as exhausted

ASSUME DirsAssumption == Dirs \in Seq(STRING) /\ Dirs # <<>>
ASSUME FramesAssumption == MaxFrames \in Nat \ {0}
ASSUME MaskAssumption == Width \in Nat \ {0} /\ MaxLevel \in Nat

Inclusions == {"include", "include_next", "import"}
Operations ==
  Inclusions \union {"if", "ifdef", "ifndef", "elif", "else", "endif", "define", "undef",
                     "error", "warning", "pragma_once", "malformed"}

(* A line is its operation and the name, condition or header it is about.  *)
IsLine(l) ==
  /\ l.op \in Operations
  /\ l.op \in {"ifdef", "ifndef", "define", "undef"} => l.arg \in Names
  /\ l.op \in {"if", "elif"} => l.arg \in BOOLEAN

IsFile(f) ==
  /\ f.eol \in BOOLEAN
  /\ f.lines \in Seq(Range(f.lines)) /\ \A n \in DOMAIN f.lines : IsLine(f.lines[n])

ASSUME FilesAssumption ==
  \A f \in FileSystems : Main \in DOMAIN f /\ \A p \in DOMAIN f : IsFile(f[p])

VARIABLES
  level, skip, seen, defs, effects, status,  \* see CppCond
  fs,       \* the file system, which does not change
  stack,    \* calls of psi_cpp_process, the outermost first
  once,     \* cpp->once: paths
  search,   \* cpp->search: 0 is NULL, Len(Dirs) + 1 the end of the string
  outcome   \* of psi_cpp_process for Main

condVars == <<level, skip, seen, defs, effects, status>>
vars == <<level, skip, seen, defs, effects, status, fs, stack, once, search, outcome>>

Cond == INSTANCE CppCond

Top == stack[Len(stack)]

(* A directive is executed at the end of its line: a last line without a   *)
(* newline is collected and dropped.                                       *)
RunsLines(f) == IF f.eol THEN Len(f.lines) ELSE Len(f.lines) - 1
Line == fs[Top.path].lines[Top.pos]

(* `level', `skip' and `seen' of a frame are those it was entered with, and *)
(* `how' is the directive that opened the file.                             *)
Frame(path, how) == [path |-> path, pos |-> 1, how |-> how,
                     level |-> level, skip |-> skip, seen |-> seen]

Init ==
  /\ Cond!Init
  /\ fs \in FileSystems
  /\ stack = <<Frame(Main, "main")>>
  /\ once = {}
  /\ search = 0
  /\ outcome = "running"

FrameType ==
  [path : DOMAIN fs, pos : Nat \ {0}, how : Inclusions \union {"main"},
   level : 0 .. MaxLevel, skip : 0 .. MaxLevel, seen : SUBSET (0 .. Width - 1)]

TypeOK ==
  /\ Cond!TypeOK
  /\ fs \in FileSystems
  /\ stack \in Seq(FrameType) /\ Len(stack) <= MaxFrames
  /\ \A i \in 1 .. Len(stack) : stack[i].pos <= Len(fs[stack[i].path].lines) + 1
  /\ once \subseteq DOMAIN fs
  /\ search \in 0 .. Len(Dirs) + 1
  /\ outcome \in {"running", "parsed", "failed", "exhausted"}

Advanced(s) == [s EXCEPT ![Len(s)].pos = @ + 1]

-----------------------------------------------------------------------------

(* Fault: #define has no effect.                                           *)
CondStepLosesDefine(l) ==
  \/ l.op = "ifdef" /\ Cond!Ifdef(l.arg)
  \/ l.op = "ifndef" /\ Cond!Ifndef(l.arg)
  \/ l.op = "if" /\ Cond!If(l.arg)
  \/ l.op = "endif" /\ Cond!Endif
  \/ l.op = "define" /\ UNCHANGED condVars
  \/ l.op = "undef" /\ Cond!Undef(l.arg)
  \/ l.op \in {"else", "elif"} /\ Cond!Else
  \/ l.op \in {"error", "warning"} /\ Cond!Effect(l.op)

(* Lines that neither include nor fail.                                    *)
CondStep(l) ==
  \/ l.op = "ifdef" /\ Cond!Ifdef(l.arg)
  \/ l.op = "ifndef" /\ Cond!Ifndef(l.arg)
  \/ l.op = "if" /\ Cond!If(l.arg)
  \/ l.op = "elif" /\ Cond!Elif(l.arg)
  \/ l.op = "else" /\ Cond!Else
  \/ l.op = "endif" /\ Cond!Endif
  \/ l.op = "define" /\ Cond!Define(l.arg)
  \/ l.op = "undef" /\ Cond!Undef(l.arg)
  \/ l.op \in {"error", "warning"} /\ Cond!Effect(l.op)
  \/ \* "Ingoring lone ..."
     l.op \in {"elif", "else", "endif"} /\ level = 0 /\ UNCHANGED condVars

Execute ==
  /\ CondStep(Line)
  /\ stack' = Advanced(stack)
  /\ UNCHANGED <<fs, once, search, outcome>>

PragmaOnce ==
  /\ Line.op = "pragma_once"
  /\ Cond!Effect("pragma_once")
  /\ once' = IF skip = 0 THEN once \union {Top.path} ELSE once
  /\ stack' = Advanced(stack)
  /\ UNCHANGED <<fs, search, outcome>>

-----------------------------------------------------------------------------

(* A header name is [dir, name], with dir = "" unless it starts with a     *)
(* slash.  A path is <<dir, name>>.  The empty string past the end of the  *)
(* search path names the root directory.                                   *)
Absolute(h) == h.dir # ""
DirAt(i) == IF i <= Len(Dirs) THEN Dirs[i] ELSE ""

(* include_path: the name as it stands, or next to the including file.     *)
OwnPath(h) == IF Absolute(h) THEN <<h.dir, h.name>> ELSE <<Top.path[1], h.name>>

(* Fault: the search begins with the directory it was left at.             *)
NextStaysPut == IF search = 0 THEN 1 ELSE search

(* Where the search for `#include_next' begins: after the directory that   *)
(* cpp->search was left at.                                                *)
NextStart ==
  IF search = 0 THEN 1
  ELSE IF search < Len(Dirs) THEN search + 1
  ELSE Len(Dirs) + 1

SearchStart(op) == IF op = "include_next" THEN NextStart ELSE 1

(* The search runs to the last directory, or over the empty rest.          *)
SearchEnd(op) == IF SearchStart(op) > Len(Dirs) THEN Len(Dirs) + 1 ELSE Len(Dirs)

Known(op, path) == op = "import" /\ path \in once

(* The first try of #import looks the path up under its first              *)
(* strlen(file->text) characters, which is the path only if absolute.      *)
KnownAtFirst(op, h) == Absolute(h) /\ Known(op, OwnPath(h))

TriesFirst(op, h) == op # "include_next" \/ Absolute(h)

Hits(op, h) ==
  {i \in SearchStart(op) .. SearchEnd(op) :
     Known(op, <<DirAt(i), h.name>>) \/ <<DirAt(i), h.name>> \in DOMAIN fs}

(* try_include: the file is processed by a nested psi_cpp_process.         *)
Enter(path, how) ==
  IF Len(stack) < MaxFrames
  THEN stack' = Append(stack, Frame(path, how)) /\ UNCHANGED outcome
  ELSE outcome' = "exhausted" /\ UNCHANGED stack

Pass == stack' = Advanced(stack) /\ UNCHANGED outcome

(* #include, #include_next and #import.                                    *)
Include ==
  LET op == Line.op
      h == Line.arg
  IN
  /\ op \in Inclusions
  /\ Cond!Effect(op)
  /\ UNCHANGED <<fs, once>>
  /\ \/ /\ skip # 0
        /\ Pass /\ UNCHANGED search
     \/ /\ skip = 0 /\ TriesFirst(op, h)
        /\ \/ KnownAtFirst(op, h) /\ Pass
           \/ ~KnownAtFirst(op, h) /\ OwnPath(h) \in DOMAIN fs /\ Enter(OwnPath(h), op)
        /\ UNCHANGED search
     \/ /\ skip = 0
        /\ ~(TriesFirst(op, h) /\ (KnownAtFirst(op, h) \/ OwnPath(h) \in DOMAIN fs))
        /\ \/ \* "Failed to include"
              Absolute(h) /\ Pass /\ UNCHANGED search
           \/ /\ ~Absolute(h) /\ Hits(op, h) = {}
              /\ search' = SearchEnd(op)
              /\ Pass
           \/ /\ ~Absolute(h) /\ Hits(op, h) # {}
              /\ search' = Min(Hits(op, h))
              /\ LET path == <<DirAt(search'), h.name>> IN
                   IF Known(op, path) THEN Pass ELSE Enter(path, op)

(* Mutant of Leave: the error of an included file ends the including one.  *)
LeavePropagates(result) ==
  IF Len(stack) = 1 \/ result = "failed"
  THEN stack' = <<>> /\ outcome' = result /\ UNCHANGED once
  ELSE /\ stack' = Advanced(Front(stack))
       /\ once' = once \union {Top.path}
       /\ UNCHANGED outcome

(* Fault: the once table remembers the name, not the path.                 *)
LeaveByName(result) ==
  IF Len(stack) = 1
  THEN stack' = <<>> /\ outcome' = result /\ UNCHANGED once
  ELSE /\ stack' = Advanced(Front(stack))
       /\ once' = once \union {<<"", Top.path[2]>>}
       /\ UNCHANGED outcome

(* The end of a nested psi_cpp_process, whatever came of it: the path goes *)
(* into the once table, and the including file goes on.  Nothing puts the  *)
(* conditional state or the search pointer back.                           *)
Leave(result) ==
  IF Len(stack) = 1
  THEN stack' = <<>> /\ outcome' = result /\ UNCHANGED once
  ELSE /\ stack' = Advanced(Front(stack))
       /\ once' = once \union {Top.path}
       /\ UNCHANGED outcome

(* Fault: the level is put back at the end of a file, the mask is not.     *)
ReturnForgetsMask ==
  /\ Top.pos > RunsLines(fs[Top.path])
  /\ Leave("parsed")
  /\ level' = Top.level /\ skip' = Top.skip
  /\ UNCHANGED <<seen, defs, effects, status, fs, search>>

Return ==
  /\ Top.pos > RunsLines(fs[Top.path])
  /\ Leave("parsed")
  /\ UNCHANGED <<condVars, fs, search>>

(* A directive line the grammar does not accept ends its file, even where  *)
(* lines are skipped.                                                      *)
Malformed ==
  /\ Line.op = "malformed"
  /\ Leave("failed")
  /\ UNCHANGED <<condVars, fs, search>>

Next ==
  /\ outcome = "running" /\ status = "running"
  /\ \/ Return
     \/ /\ Top.pos <= RunsLines(fs[Top.path])
        /\ Execute \/ PragmaOnce \/ Include \/ Malformed

(* The preprocessor is one thread that never waits.                        *)
Spec == Init /\ [][Next]_vars /\ WF_vars(Next)

-----------------------------------------------------------------------------

(* Files whose every line is accepted, and executed.                       *)
Whole(f) == f.eol /\ \A n \in DOMAIN f.lines : f.lines[n].op # "malformed"
WholeFiles == \A p \in DOMAIN fs : Whole(fs[p])

(* d counts the groups that the lines before each line of a file leave     *)
(* open, and lone lines stand where there is none.                         *)
IsDepth(d, lines, lone) ==
  /\ d[1] = 0
  /\ \A n \in 1 .. Len(lines) :
       LET op == lines[n].op IN
       /\ op \in {"if", "ifdef", "ifndef"} => d[n + 1] = d[n] + 1
       /\ op = "endif" => d[n + 1] = IF d[n] > 0 THEN d[n] - 1 ELSE 0
       /\ op \notin {"if", "ifdef", "ifndef", "endif"} => d[n + 1] = d[n]
       /\ op \in {"elif", "else", "endif"} => lone \/ d[n] > 0

(* A file that opens the groups it closes, and closes them if it is whole. *)
Nests(f, d, lone) ==
  /\ IsDepth(d, f.lines, lone)
  /\ Whole(f) => d[Len(f.lines) + 1] = 0

(* The paths that a file system's files may include.                       *)
Includable(f) ==
  {p \in DOMAIN f : \E q \in DOMAIN f : \E n \in DOMAIN f[q].lines :
     f[q].lines[n].op \in Inclusions /\ p[2] = f[q].lines[n].arg.name}

(* Each file closes its own groups and no others, but for the lone lines   *)
(* of those that no other includes, which are ignored.                     *)
FilesNest ==
  \A f \in FileSystems : \A p \in DOMAIN f :
    \E d \in [1 .. Len(f[p].lines) + 1 -> Nat] : Nests(f[p], d, p \notin Includable(f))

(* Each directive does to the shared state what CppCond says, in whatever  *)
(* file it stands: inclusion adds no other way to change it.               *)
ImplementsCond == Cond!Spec

(* The directives of an included file act on the groups that file opened:  *)
(* the groups of the including files stay open and stay live.  It is what  *)
(* sharing level and skip between all files must not break.                *)
OwnGroupsOnly ==
  stack # <<>> => level >= Top.level /\ (skip = 0 \/ skip > Top.level)

(* An inclusion of whole files leaves the conditional state as it found    *)
(* it: what comes after it belongs to the same groups as what came before. *)
IncludeKeepsConditionals ==
  [][WholeFiles /\ Len(stack') < Len(stack)
       => <<level', skip', seen'>> = <<Top.level, Top.skip, Top.seen>>]_vars

(* #include_next in a file that was found on the search path does not find *)
(* that file again.                                                        *)
NextIsElsewhere ==
  \A i \in 1 .. Len(stack) - 1 :
    stack[i + 1].how = "include_next" => stack[i + 1].path # stack[i].path

(* Preprocessing ends, whatever the files hold, as long as the files do    *)
(* not include each other without a guard; and files that guard themselves *)
(* with a macro are processed to the end, however they include each other. *)
Completes ==
  /\ <>(outcome \in {"parsed", "failed"})
  /\ WholeFiles => <>(outcome = "parsed")

(* However a file ends, failed or cut short within groups of its own, the   *)
(* groups that were open where it was included are as they were: what it   *)
(* leaves behind are groups above them.  psi_cpp_process puts back tokens  *)
(* and index only, so those it does leave: their level, skip and bits are  *)
(* the includer's from then on (cpp.c:336).                                *)
GroupsAroundStay ==
  [][Len(stack') < Len(stack) =>
       /\ level' >= Top.level
       /\ skip' = 0 \/ skip' > Top.level
       /\ \A l \in 1 .. Top.level : Cond!Masked(l, seen') <=> Cond!Masked(l, Top.seen)]_vars

(* An error in an included file is a warning: only an error in the main    *)
(* file itself makes the whole parse fail.                                 *)
FailureStaysInside ==
  [][outcome' = "failed" => Len(stack) = 1 /\ Line.op = "malformed"]_vars

(* Files share the fields of struct psi_cpp, and an included one acts on   *)
(* groups of its own only: never on those around it, whatever comes of it; *)
(* and none is left when all files are whole.  One that fails or ends      *)
(* early ends no other file, but the groups that it has open stay open:    *)
(* the lines after the #include stand in them (cpp.c:328, cpp.c:407).      *)
FilesApart ==
  /\ []OwnGroupsOnly
  /\ GroupsAroundStay
  /\ IncludeKeepsConditionals
  /\ FailureStaysInside

(* #import processes no file whose path is in the once table:              *)
(* psi_cpp_include asks for it before it tries to include.                 *)
ImportOnce ==
  [][Len(stack') > Len(stack) /\ stack'[Len(stack')].how = "import"
       => stack'[Len(stack')].path \notin once]_vars

=============================================================================

---------------------------- MODULE MCCppInclude ----------------------------
(***************************************************************************)
(* Small file systems for CppInclude: a main file outside the search path  *)
(* d1:d2, a header <a> in both directories (d1's may wrap d2's), and a     *)
(* header <b> in one of them.  Headers include each other in circles,      *)
(* behind include guards.                                                  *)
(***************************************************************************)
EXTENDS CppInclude

L(op, arg) == [op |-> op, arg |-> arg]
File(lines) == [lines |-> lines, eol |-> TRUE]
H(name) == [dir |-> "", name |-> name]

Endif == L("endif", "")
Guarded(g, lines) ==
  <<L("ifndef", g), L("define", g)>> \o lines \o <<Endif>>

MainPath == <<"d0", "main">>

Mains ==
  << <<L("include", H("a"))>>,
    <<L("import", H("a")), L("import", H("a")), L("include", H("b"))>>,
    <<L("if", FALSE), L("include", H("a")), L("elif", TRUE), L("include", H("b")),
      L("else", ""), L("include", H("a")), Endif>>,
    <<L("if", TRUE), L("include", H("b")), L("include", [dir |-> "d1", name |-> "a"]),
      Endif, L("endif", ""), L("include", H("none"))>> >>

FirstA ==
  << Guarded("G", <<L("include", H("a")), L("include", H("b"))>>),
    Guarded("G", <<L("include_next", H("a"))>>),
    <<L("include_next", H("a"))>>,
    Guarded("G", <<L("if", FALSE), L("include_next", H("a")), L("else", ""),
                   L("import", H("b")), Endif>>),
    <<L("pragma_once", ""), L("ifdef", "G"), L("warning", ""), L("else", ""),
      L("include_next", H("a")), Endif>> >>

SecondA ==
  << <<L("define", "G")>>,
    <<L("include_next", H("a"))>>,
    Guarded("G", <<L("include", H("b"))>>) >>

Bs ==
  << Guarded("F", <<L("include", H("a")), L("undef", "G")>>),
    Guarded("F", <<L("import", H("a"))>>),
    <<L("ifdef", "G"), L("error", ""), Endif>> >>

Scenarios ==
  (DOMAIN Mains) \X (DOMAIN FirstA) \X (DOMAIN SecondA) \X (DOMAIN Bs) \X {"d1", "d2"}

MCFileSystems ==
  {MainPath :> File(Mains[s[1]]) @@ <<"d1", "a">> :> File(FirstA[s[2]])
     @@ <<"d2", "a">> :> File(SecondA[s[3]]) @@ <<s[5], "b">> :> File(Bs[s[4]]) :
     s \in Scenarios}

MCDirs == <<"d1", "d2">>

(* Headers that stop half way: at a malformed line, or at a last #endif    *)
(* that has no newline.                                                    *)
Broken ==
  << File(<<L("if", TRUE), L("malformed", ""), Endif>>),
     File(<<L("if", FALSE), L("malformed", ""), Endif>>),
     File(<<L("ifdef", "F"), L("else", ""), L("include", H("b")), L("malformed", "")>>),
     [lines |-> <<L("ifndef", "G"), L("include", H("b")), L("else", ""), Endif>>,
      eol |-> FALSE],
     [lines |-> Guarded("G", <<L("include", H("b"))>>), eol |-> FALSE] >>

AroundBroken ==
  << <<L("include", H("a")), L("else", ""), L("endif", "")>>,
     <<L("if", TRUE), L("include", H("a")), L("else", ""), L("include", H("a")), Endif>>,
     <<L("ifdef", "F"), L("define", "G"), L("elif", TRUE), L("include", H("a")),
       L("elif", TRUE), L("import", H("b")), Endif, L("malformed", "")>> >>

BrokenScenarios == (DOMAIN AroundBroken) \X (DOMAIN Broken) \X (DOMAIN Broken)

BrokenFileSystems ==
  {MainPath :> File(AroundBroken[s[1]]) @@ <<"d1", "a">> :> Broken[s[2]]
     @@ <<"d2", "b">> :> (IF s[3] = s[2] THEN File(<<L("undef", "F")>>) ELSE
                          [Broken[s[3]] EXCEPT !.lines =
                             SelectSeq(@, LAMBDA l : l.op # "include")]) :
     s \in BrokenScenarios}

EveryFileSystem == MCFileSystems \union BrokenFileSystems

(* What FilesNest says holds of all these files.                           *)
DepthOf(lines) ==
  LET d[n \in 1 .. Len(lines) + 1] ==
        IF n = 1 THEN 0
        ELSE CASE lines[n - 1].op \in {"if", "ifdef", "ifndef"} -> d[n - 1] + 1
               [] lines[n - 1].op = "endif" -> IF d[n - 1] > 0 THEN d[n - 1] - 1 ELSE 0
               [] OTHER -> d[n - 1]
  IN  d

ASSUME EveryFileNests ==
  \A f \in EveryFileSystem : \A p \in DOMAIN f :
    Nests(f[p], DepthOf(f[p].lines), p \notin Includable(f))

(* Two imports of one header that lies next to the main file.              *)
ImportTwice ==
  {MainPath :> File(<<L("import", H("a")), L("import", H("a"))>>)
     @@ <<"d0", "a">> :> File(<<L("pragma_once", "")>>)}
=============================================================================

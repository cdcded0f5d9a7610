----------------------------- MODULE MCCppStage1 -----------------------------
(* All short inputs, and all short continuations of a #define.             *)
EXTENDS CppStage1

SeqsUpTo(S, n) == UNION {[1 .. m -> S] : m \in 0 .. n}

Alphabet == {"EOL", "HASH", "DEFINE", "NAME", "LPAREN", "WHITESPACE", "COMMENT", "BSLASH"}

MCInputs ==
  SeqsUpTo(Alphabet, 4)
    \union {<<"HASH", "DEFINE">> \o s : s \in SeqsUpTo(Alphabet, 4)}
    \union {s \o <<"EOL", "HASH", "WHITESPACE", "DEFINE", "WHITESPACE", "NAME">> \o t :
              s \in SeqsUpTo(Alphabet, 2), t \in SeqsUpTo(Alphabet, 2)}
    \union SeqsUpTo({"EOL", "HASH", "LPAREN", "BSLASH", "OTHER", "LINE_COMMENT"}, 4)

=============================================================================

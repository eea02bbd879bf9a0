------------------------------ MODULE MCPrompt ------------------------------
(* Lines of up to three words, or the five of cat, some with blanks around   *)
(* them, typed from E:/w.                                                    *)
EXTENDS Prompt

MCRoot == <<"E", ":", "/", "w">>

a == <<"a">>
x == <<"x", ".", "t">>
Paths == {a, x, <<"a", "/", "b">>, <<"a", "/">>, <<"E", ":", "/", "x", ".", "t">>, <<".", ".">>, Slash}
MCCharacters ==
  UNION {ToSet(w) : w \in Paths \cup {COMMANDS[c] : c \in DOMAIN COMMANDS} \cup {MCRoot, <<" ", ">", "z">>}}

Commands == {COMMANDS[c] : c \in DOMAIN COMMANDS} \cup {<<"z">>}

Spaced(words, gap) ==
  FlattenSeq([i \in 1 .. 2 * Len(words) - 1 |-> IF i % 2 = 1 THEN words[(i + 1) \div 2] ELSE gap])

MCWords ==
  {<<>>}
    \cup {<<c>> : c \in Commands}
    \cup {<<c, p>> : c \in Commands, p \in Paths}
    \cup {<<c, p, q>> : c \in {COMMANDS.cp, COMMANDS.mv, COMMANDS.cd}, p \in Paths, q \in Paths}
    \cup {<<COMMANDS.cat, p, q, <<">">>, r>> : p \in {a, x}, q \in {x, <<"E", ":", "/", "x", ".", "t">>}, r \in Paths}

MCLines ==
  {before \o Spaced(words, gap) \o after :
     words \in MCWords, before \in {<<>>, <<" ", " ">>}, gap \in {<<" ">>, <<" ", " ">>},
     after \in {<<>>, <<" ">>}}

\* A cd to each of the paths.
CdLines == {Spaced(<<COMMANDS.cd, p>>, <<" ">>) : p \in Paths}
=============================================================================

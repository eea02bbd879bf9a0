------------------------------- MODULE Prompt -------------------------------
(***************************************************************************)
(* The prompt of file-op-commands: main reads a line, str_format takes the *)
(* blanks out that are too many, and the command named by the first word   *)
(* finds its paths in what is left and hands them to my_file.h. What that  *)
(* does to the drive is in module FileShell; here the drive only answers   *)
(* file_exist, either way.                                                 *)
(*                                                                         *)
(* A command that reads through a NULL it was given ends the process. The  *)
(* line fits the buffer it is read into.                                   *)
(***************************************************************************)
EXTENDS MyString

CONSTANTS
  Characters,   \* what lines and paths are made of
  ROOT_PATH,    \* where a process starts
  Lines,        \* bound: the lines that may be typed
  MaxPath       \* bound: no line is typed in a directory with a longer path

\* The root is a drive or on one; NULL is no string.
ASSUME RootAssumption ==
  /\ ROOT_PATH \in Seq(Characters) /\ str_full_path(ROOT_PATH) /\ str_indexOf(ROOT_PATH, "/") # 0
  /\ NULL \notin Seq(Characters)
ASSUME LinesAssumption == Lines \subseteq Seq(Characters)

VARIABLES
  pc,         \* "down", "prompt", "format", "run", "done"
  cur_path,
  typed,      \* the line gets() read
  t,          \* how much of it str_format has seen
  get_com,    \* what str_format has made of that
  call        \* what the last line asked of my_file.h, and what file_exist said

lineVars == <<typed, t, get_com>>
vars == <<pc, cur_path, typed, t, get_com, call>>

COMMANDS ==
  [ls |-> <<"l", "s">>, cat |-> <<"c", "a", "t">>, cp |-> <<"c", "p">>, rm |-> <<"r", "m">>,
   mv |-> <<"m", "v">>, mkdir |-> <<"m", "k", "d", "i", "r">>,
   rmdir |-> <<"r", "m", "d", "i", "r">>, cd |-> <<"c", "d">>, find |-> <<"f", "i", "n", "d">>]

ASSUME CharactersAssumption ==
  {Blank, "/"} \subseteq Characters /\ \A name \in DOMAIN COMMANDS : COMMANDS[name] \in Seq(Characters)

NoCall == [name |-> "none", paths |-> <<>>, exists |-> TRUE]

Init ==
  /\ pc = "down"
  /\ cur_path = ROOT_PATH
  /\ typed = <<>> /\ t = 0 /\ get_com = <<>>
  /\ call = NoCall

\* main
Start ==
  /\ pc = "down"
  /\ pc' = "prompt"
  /\ cur_path' = ROOT_PATH
  /\ UNCHANGED <<lineVars, call>>

NoLine == typed' = <<>> /\ t' = 0 /\ get_com' = <<>> /\ call' = NoCall

\* The process ends.
Ends ==
  /\ pc' = "down"
  /\ cur_path' = ROOT_PATH
  /\ NoLine

Kill == pc # "down" /\ Ends

\* The prompt shows cur_path, and reads through it when it is NULL.
PromptNull == pc = "prompt" /\ cur_path = NULL /\ Ends

ReadLine(line) ==
  /\ pc = "prompt" /\ cur_path # NULL /\ Len(cur_path) <= MaxPath
  /\ pc' = "format"
  /\ typed' = line
  /\ UNCHANGED <<cur_path, t, get_com, call>>

-----------------------------------------------------------------------------
(* str_format.                                                             *)

Char == typed[t + 1]

\* Mutant of NextWord: the loop stays on the blank.
NextWordStuck == t

\* Mutant of NextWord: it passes over what follows the blank, blank or not.
NextWordPast == IF t + 2 <= Len(typed) THEN t + 2 ELSE t + 1

\* The position after the blank at t and those that follow it.
NextWord == CHOOSE n \in t + 1 .. Len(typed) :
  /\ \A i \in t + 1 .. n : typed[i] = Blank
  /\ n < Len(typed) => typed[n + 1] # Blank

\* One pass of the loop. Nothing is kept (touch) before the first character.
FormatChar ==
  /\ pc = "format" /\ t < Len(typed)
  /\ \/ /\ Char = Blank /\ get_com = <<>>
        /\ t' = t + 1
        /\ UNCHANGED get_com
     \/ /\ Char = Blank /\ get_com # <<>>
        /\ get_com' = Append(get_com, Blank)
        /\ t' = NextWord
     \/ /\ Char # Blank
        /\ get_com' = Append(get_com, Char)
        /\ t' = t + 1
  /\ UNCHANGED <<pc, cur_path, typed, call>>

FormatEnd ==
  /\ pc = "format" /\ t = Len(typed)
  /\ pc' = "run"
  /\ UNCHANGED <<cur_path, lineVars, call>>

-----------------------------------------------------------------------------
(* The commands.                                                           *)

Slash == <<"/">>
Full(s) == IF str_full_path(s) THEN s ELSE cur_path \o Slash \o s

\* How main tells which command it is.
Head1 == str_substring(get_com, 0, str_indexOf(get_com, Blank) - 1)
Is(name) ==
  /\ pc = "run"
  /\ IF get_com \in {COMMANDS.ls, COMMANDS.find} THEN name = "ls" ELSE Head1 = COMMANDS[name]

Done == pc' = "done" /\ UNCHANGED lineVars
Asks(name, paths, exists) ==
  /\ Done
  /\ call' = [name |-> name, paths |-> paths, exists |-> exists]
  /\ UNCHANGED cur_path
AsksNothing == Done /\ UNCHANGED <<cur_path, call>>

Unknown == pc = "run" /\ (\A name \in DOMAIN COMMANDS : ~Is(name)) /\ AsksNothing

Ls == Is("ls") /\ Asks("ls", <<cur_path>>, TRUE)

\* two_init_path
two_init_path == Full(From(get_com, str_indexOf(get_com, Blank) + 1))

\* rm looks whether the path exists, mkdir, rmdir and find leave that to others.
OnePath ==
  \/ Is("rm") /\ Asks("rm", <<two_init_path>>, TRUE)
  \/ Is("rm") /\ AsksNothing
  \/ \E name \in {"mkdir", "rmdir", "find"} : Is(name) /\ Asks(name, <<two_init_path>>, TRUE)

\* Mutant of Second: the blank before the word is taken with it.
SecondBlank ==
  LET f1 == str_indexOf(get_com, Blank)
  IN str_substring(get_com, f1, str_indexOf_start(get_com, Blank, f1 + 1) - 1)

\* cp and mv: what is between the first two blanks, and what is after them.
Second ==
  LET f1 == str_indexOf(get_com, Blank)
  IN str_substring(get_com, f1 + 1, str_indexOf_start(get_com, Blank, f1 + 1) - 1)

Third ==
  LET f1 == str_indexOf(get_com, Blank)
  IN str_substring(get_com, str_indexOf_start(get_com, Blank, f1 + 1) + 1, Len(get_com) - 1)

\* A target that ends in '/' gets the source's name. There is none to get of a
\* path without '/', the drive.
NoTarget(src) ==
  \/ Third = NULL
  \/ Third # NULL /\ Last(Third) = "/" /\ str_lastIndexOf(src, "/") = -1
Target(src) == Full(IF Last(Third) = "/" THEN Third \o get_fn_from_path(src) ELSE Third)

TwoPaths ==
  \E name \in {"cp", "mv"} :
    /\ Is(name)
    /\ \/ Second = NULL /\ Ends
       \/ /\ Second # NULL
          /\ \/ AsksNothing   \* the source does not exist
             \/ NoTarget(Full(Second)) /\ Ends
             \/ /\ ~NoTarget(Full(Second))
                /\ Asks(name, <<Full(Second), Target(Full(Second))>>, TRUE)

\* cat of one file prints cur_path itself when the path was typed in full.
CatFile ==
  LET arg == From(get_com, str_indexOf(get_com, Blank) + 1)
  IN /\ Is("cat") /\ str_constain_char(get_com, Blank) = 1
     /\ Asks("cat", <<cur_path \o Slash \o (IF str_full_path(arg) THEN <<>> ELSE arg)>>, TRUE)

\* cat p1 p2 > p3, whatever stands for the '>'.
CatFiles ==
  /\ Is("cat") /\ str_constain_char(get_com, Blank) = 4
  /\ LET f1 == str_indexOf(get_com, Blank)
         f2 == str_indexOf_start(get_com, Blank, f1 + 1)
         f3 == str_indexOf_start(get_com, Blank, f2 + 1)
         f4 == str_indexOf_start(get_com, Blank, f3 + 1)
         paths == <<Full(str_substring(get_com, f1 + 1, f2 - 1)),
                    Full(str_substring(get_com, f2 + 1, f3 - 1)),
                    Full(From(get_com, f4 + 1))>>
     IN \/ (\A i \in 1 .. 3 : Positions(paths[i], ".", 0) # {}) /\ Asks("cat", paths, TRUE)
        \/ AsksNothing   \* or one of them does not exist

CatOther ==
  Is("cat") /\ str_constain_char(get_com, Blank) \notin {1, 4} /\ AsksNothing

\* Mutant of Parent: the '/' before the last name stays.
ParentSlash(path) == str_substring(path, 0, str_lastIndexOf(path, "/"))

\* cd .. of the drive is NULL.
Parent(path) == str_substring(path, 0, str_lastIndexOf(path, "/") - 1)

Drive(path) ==
  LET first == str_indexOf(path, "/")
  IN IF first = -1 THEN path ELSE str_substring(path, 0, first - 1)

\* cd. file_exist returns 0 or 1, and is compared with -1.
Cd ==
  LET arg == From(get_com, 3)
      there == cur_path \o Slash \o arg
  IN /\ Is("cd")
     /\ Done
     /\ \/ arg = <<".", ".">> /\ cur_path' = Parent(cur_path) /\ UNCHANGED call
        \/ arg = Slash /\ cur_path' = Drive(cur_path) /\ UNCHANGED call
        \/ /\ arg \notin {<<".", ".">>, Slash}
           /\ cur_path' = there
           /\ \E exists \in BOOLEAN :
                call' = [name |-> "cd", paths |-> <<there>>, exists |-> exists]

\* main goes round its loop.
Again ==
  /\ pc = "done"
  /\ pc' = "prompt"
  /\ NoLine
  /\ UNCHANGED cur_path

Next ==
  \/ Start \/ Kill \/ PromptNull
  \/ \E line \in Lines : ReadLine(line)
  \/ FormatChar \/ FormatEnd
  \/ Unknown \/ Ls \/ OnePath \/ TwoPaths
  \/ CatFile \/ CatFiles \/ CatOther
  \/ Cd
  \/ Again

Spec == Init /\ [][Next]_vars

-----------------------------------------------------------------------------
(* Properties.                                                             *)

\* The values of the variables. What is made of a line fits the memory str_format
\* takes for it, at every step.
TypeOK ==
  /\ pc \in {"down", "prompt", "format", "run", "done"}
  /\ cur_path # NULL => cur_path \in Seq(Characters)
  /\ typed \in Seq(Characters) /\ get_com \in Seq(Characters)
  /\ t \in 0 .. Len(typed) /\ Len(get_com) <= t
  /\ call.name \in DOMAIN COMMANDS \cup {"none"} /\ call.exists \in BOOLEAN

\* What the commands look for their paths in is the words that were typed, none
\* lost, changed or put together, with one blank between two of them and none
\* before the first: what my_string.h:57 says of the beginning and the middle of
\* a line. There may be one blank behind the last word, or none.
LineFormatted ==
  pc = "run" =>
    LET words == WordsOf(typed)
    IN IF words = <<>> THEN get_com = <<>>
       ELSE Pieces(get_com, Blank) \in {words, Append(words, <<>>)}

\* my_string.h:57 says str_format takes the blanks away at both ends of the line.
BlanksRemoved ==
  pc = "run" /\ get_com # <<>> => get_com[1] # Blank /\ Last(get_com) # Blank

\* The paths a command hands on are the words that were typed, each from cur_path
\* on unless it names a drive, and in the order they were typed: for a line of as
\* many words as the command takes, with no blank behind them. A target typed
\* with a '/' at its end is the source's name in it.
Resolved(w) == IF ":" \in ToSet(w) THEN w ELSE cur_path \o Slash \o w
InTarget(w, src) == IF Last(w) = "/" THEN w \o Last(Pieces(src, "/")) ELSE w
PathsAsTyped ==
  LET words == WordsOf(typed)
      paths == call.paths
  IN call.name # "none" /\ call.name # "cd" /\ Last(typed) # Blank =>
       /\ words[1] = COMMANDS[call.name] \/ words = <<COMMANDS.find>>
       /\ call.name \in {"rm", "mkdir", "rmdir", "find"} /\ Len(words) = 2 =>
            paths = <<Resolved(words[2])>>
       /\ call.name \in {"cp", "mv"} /\ Len(words) = 3 =>
            paths = <<Resolved(words[2]), Resolved(InTarget(words[3], Resolved(words[2])))>>
       /\ call.name = "cat" /\ Len(words) = 5 =>
            paths = <<Resolved(words[2]), Resolved(words[3]), Resolved(words[5])>>

\* cur_path is the names from the drive down, whatever string of commands led
\* there: cd appends the names typed, cd .. drops the last one (the process ends
\* when there is none) and cd / all of them, and nothing else changes it. So cd to
\* a name and cd .. lead back, from anywhere.
Names(path) == Tail(Pieces(path, "/"))
CdMoves ==
  [][pc # "down" /\ pc' # "down" /\ cur_path' # cur_path =>
       LET arg == From(get_com, 3)
           here == Names(cur_path)
       IN /\ WordsOf(typed)[1] = COMMANDS.cd
          /\ \/ here = <<>> /\ arg = <<".", ".">> /\ cur_path' = NULL
             \/ /\ cur_path' # NULL
                /\ Head(Pieces(cur_path', "/")) = Head(Pieces(ROOT_PATH, "/"))
                /\ Names(cur_path') =
                     IF arg = <<".", ".">> THEN Front(here)
                     ELSE IF arg = Slash THEN <<>>
                     ELSE here \o Pieces(arg, "/")]_vars

\* my_file.h:26-29 has file_exist return 0 for what does not exist, and
\* commands.h:130-132 has cd say so and stay: cd never leads where nothing is.
CdChecks == [][call'.name = "cd" /\ ~call'.exists => cur_path' = cur_path]_vars
=============================================================================

----------------------------- MODULE FileShell -----------------------------
(***************************************************************************)
(* The shell of file-op-commands: the commands of commands.h and the       *)
(* recursive removal and copy of my_file.h, over a drive (FileTree) that   *)
(* outlives the process.                                                   *)
(*                                                                         *)
(* dir_remove_deep and dir_copy call each other: calls is the C stack, the *)
(* innermost call first, and a step is one pass of a loop or what a call   *)
(* does before it. The list of a directory is read once, as the set of its *)
(* names; the order in which the system lists them is left open.           *)
(*                                                                         *)
(* What is typed becomes a command and its full paths in module Prompt;    *)
(* here any existing or new path may be given. ls, find and cat of one     *)
(* file only print and are left out. rm, rmdir and mkdir free a pointer    *)
(* into the command line when the path was typed in full: the process may  *)
(* end there, as Kill lets it anywhere.                                    *)
(***************************************************************************)
EXTENDS FileTree, FiniteSets

CONSTANTS
  BUFFER,       \* blocks stdio reads ahead, and holds back before it writes
  MaxEntries,   \* bound: no command is entered on a drive with more, itself included
  MaxBlocks,    \* bound: the longest file cat makes; a longer one fills the disk
  MaxTyped      \* bound: names in the longest new path typed

ASSUME BufferAssumption == BUFFER \in Nat \ {0}

VARIABLES
  files,      \* the drive
  up,         \* whether the shell is running
  calls,      \* the calls in progress
  command,    \* the command being executed, or NoCommand
  start,      \* the drive when it began
  clean       \* no system call of it failed for a reason outside the tree, and
              \* no question was answered with n

commandVars == <<command, start>>
vars == <<files, up, calls, command, start, clean>>

NoCommand == [name |-> "none", src |-> <<>>, dst |-> <<>>]
Nowhere == <<>>   \* the value of start when no command runs

\* proc is in src (the path of a removal, the source of the others).
Call(proc, src, dst) == [proc |-> proc, at |-> "call", src |-> src, dst |-> dst, todo |-> {}]

Init ==
  /\ files = [p \in {<<>>} |-> Dir]
  /\ up = FALSE
  /\ calls = <<>>
  /\ command = NoCommand /\ start = Nowhere /\ clean = TRUE

\* main
Start ==
  /\ ~up
  /\ up' = TRUE
  /\ UNCHANGED <<files, calls, commandVars, clean>>

\* The process ends; what it did to the drive stays.
Ends ==
  /\ up' = FALSE
  /\ calls' = <<>>
  /\ command' = NoCommand /\ start' = Nowhere /\ clean' = TRUE

Kill == up /\ Ends /\ UNCHANGED files

AtPrompt == up /\ command = NoCommand
Busy == command # NoCommand
Done == Busy /\ calls = <<>>

\* A question is answered with n, or a call fails for a reason outside the tree:
\* the entry is in use or protected, the disk is full.
Declined == clean' = FALSE /\ UNCHANGED files

\* A system call: one that can succeed may still fail.
Attempt(can, after) ==
  \/ can /\ files' = after /\ UNCHANGED clean
  \/ can /\ Declined
  \/ ~can /\ UNCHANGED <<files, clean>>

-----------------------------------------------------------------------------
(* The calls in progress.                                                  *)

Running(proc, at) == calls # <<>> /\ Head(calls).proc = proc /\ Head(calls).at = at
Top == Head(calls)
Rest == Tail(calls)
At(where, names) == <<[Top EXCEPT !.at = where, !.todo = names]>> \o Rest
Without(n) == At("loop", Top.todo \ {n})

\* get_file_list returned NULL, and its caller reads through it.
NullList == Ends /\ UNCHANGED files

\* remove_file and remove_empty_dir
RemoveFile(p) == Attempt(CanRemoveFile(files, p), Drop(files, p))
RemoveEmptyDir(p) == Attempt(CanRemoveDir(files, p), Drop(files, p))

\* dir_remove_deep up to its loop.
RemoveRefused ==
  /\ Running("remove", "call")
  /\ IsFileName(Top.src) \/ ~Exists(files, Top.src)
  /\ calls' = Rest
  /\ UNCHANGED <<files, clean, up, commandVars>>

RemoveList ==
  /\ Running("remove", "call")
  /\ ~IsFileName(Top.src) /\ Exists(files, Top.src)
  /\ \/ /\ IsDir(files, Top.src)
        /\ calls' = At("loop", Entries(files, Top.src))
        /\ UNCHANGED <<files, clean, up, commandVars>>
     \/ ~IsDir(files, Top.src) /\ NullList

\* Mutant of RemoveEntry: the loop does not move on after a directory.
RemoveEntryAgain ==
  /\ Running("remove", "loop")
  /\ \E n \in Top.todo :
       LET p == Append(Top.src, n)
       IN \/ n \in Dotted /\ RemoveFile(p) /\ calls' = Without(n)
          \/ n \notin Dotted /\ calls' = <<Call("remove", p, p)>> \o calls
             /\ UNCHANGED <<files, clean>>
  /\ UNCHANGED <<up, commandVars>>

\* One pass of the loop.
RemoveEntry ==
  /\ Running("remove", "loop")
  /\ \E n \in Top.todo :
       LET p == Append(Top.src, n)
       IN \/ n \in Dotted /\ RemoveFile(p) /\ calls' = Without(n)
          \/ n \notin Dotted /\ calls' = <<Call("remove", p, p)>> \o Without(n)
             /\ UNCHANGED <<files, clean>>
  /\ UNCHANGED <<up, commandVars>>

\* Mutant of RemoveSelf: a directory that was not empty is left.
RemoveSelfNot ==
  /\ Running("remove", "loop") /\ Top.todo = {}
  /\ calls' = Rest
  /\ UNCHANGED <<files, clean, up, commandVars>>

\* After the loop, and instead of it when the list is empty.
RemoveSelf ==
  /\ Running("remove", "loop") /\ Top.todo = {}
  /\ RemoveEmptyDir(Top.src)
  /\ calls' = Rest
  /\ UNCHANGED <<up, commandVars>>

\* create_dir of a path that exists asks, but has its answer already: no.
CreateDir(p) == Attempt(CanMakeDir(files, p), Put(files, p, Dir))

\* Mutant of FileCopy: the target is replaced, whatever it is.
FileCopyOver(src, dst, rest) ==
  \/ /\ ~IsFile(files, src) \/ ~IsDir(files, Parent(dst))
     /\ calls' = rest /\ UNCHANGED <<files, clean>>
  \/ /\ IsFile(files, src) /\ IsDir(files, Parent(dst))
     /\ \/ /\ files' = Put(files, dst, File(<<>>))
           /\ calls' = <<Call("write", src, dst)>> \o rest /\ UNCHANGED clean
        \/ Declined /\ calls' = rest

\* file_copy up to its loop: the target is emptied before the source is read.
\* rest is what goes on after it.
FileCopy(src, dst, rest) ==
  \/ /\ ~IsFile(files, src) \/ ~CanWrite(files, dst)
     /\ calls' = rest /\ UNCHANGED <<files, clean>>
  \/ /\ IsFile(files, src) /\ CanWrite(files, dst)
     /\ \/ /\ files' = Put(files, dst, File(<<>>))
           /\ calls' = <<Call("write", src, dst)>> \o rest /\ UNCHANGED clean
        \/ Declined /\ calls' = rest   \* or a call of fopen failed

\* The loop of file_copy, as one step, and its return: with 1, whatever fwrite said.
FileCopyWrite ==
  /\ Running("write", "call")
  /\ Attempt(TRUE, Put(files, Top.dst, File(AsText(files[Top.src].data))))
  /\ calls' = Rest
  /\ UNCHANGED <<up, commandVars>>

\* The loops of file_copy and cat are left at the end of the file they read, and
\* nowhere else: when a read fails and goes on failing, they never are. What was
\* written before that is left out.
ReadFails ==
  /\ Running("write", "call") \/ Running("cat", "call")
  /\ calls' = At("stuck", {})
  /\ Declined
  /\ UNCHANGED <<up, commandVars>>

\* dir_copy up to where the target is there.
CopyRefused ==
  /\ Running("copy", "call")
  /\ \/ (IsFileName(Top.src) \/ IsFileName(Top.dst)) /\ UNCHANGED <<files, clean>>
     \/ ~IsFileName(Top.src) /\ ~IsFileName(Top.dst) /\ Exists(files, Top.dst) /\ Declined
  /\ calls' = Rest
  /\ UNCHANGED <<up, commandVars>>

CopyBegin ==
  /\ Running("copy", "call")
  /\ ~IsFileName(Top.src) /\ ~IsFileName(Top.dst)
  /\ calls' = (IF Exists(files, Top.dst) THEN <<Call("remove", Top.dst, Top.dst)>> ELSE <<>>)
              \o At("make", {})
  /\ UNCHANGED <<files, clean, up, commandVars>>

\* The target is made, then the source listed.
CopyMake ==
  /\ Running("copy", "make")
  /\ \/ /\ CreateDir(Top.dst)
        /\ IsDir(files', Top.src)
        /\ calls' = At("loop", Entries(files', Top.src))
        /\ UNCHANGED <<up, commandVars>>
     \/ /\ files' \in {files, IF CanMakeDir(files, Top.dst) THEN Put(files, Top.dst, Dir) ELSE files}
        /\ ~IsDir(files', Top.src)
        /\ Ends

\* Mutant of CopyEntry: source and target are swapped on the way down.
CopyEntrySwapped ==
  /\ Running("copy", "loop")
  /\ \E n \in Top.todo :
       LET src == Append(Top.src, n)
           dst == Append(Top.dst, n)
       IN \/ n \in Dotted /\ FileCopy(src, dst, Without(n))
          \/ n \notin Dotted /\ calls' = <<Call("copy", dst, src)>> \o Without(n)
             /\ UNCHANGED <<files, clean>>
  /\ UNCHANGED <<up, commandVars>>

\* Mutant of CopyEntry: directories in the directory are not copied.
CopyEntryFlat ==
  /\ Running("copy", "loop")
  /\ \E n \in Top.todo :
       LET src == Append(Top.src, n)
           dst == Append(Top.dst, n)
       IN \/ n \in Dotted /\ FileCopy(src, dst, Without(n))
          \/ n \notin Dotted /\ calls' = Without(n) /\ UNCHANGED <<files, clean>>
  /\ UNCHANGED <<up, commandVars>>

CopyEntry ==
  /\ Running("copy", "loop")
  /\ \E n \in Top.todo :
       LET src == Append(Top.src, n)
           dst == Append(Top.dst, n)
       IN \/ n \in Dotted /\ FileCopy(src, dst, Without(n))
          \/ n \notin Dotted /\ calls' = <<Call("copy", src, dst)>> \o Without(n)
             /\ UNCHANGED <<files, clean>>
  /\ UNCHANGED <<up, commandVars>>

CopyReturns ==
  /\ Running("copy", "loop") /\ Top.todo = {}
  /\ calls' = Rest
  /\ UNCHANGED <<files, clean, up, commandVars>>

\* The call of rename in file_move.
Rename ==
  /\ Running("rename", "call")
  /\ Attempt(CanRename(files, Top.src, Top.dst), Renamed(files, Top.src, Top.dst))
  /\ calls' = Rest
  /\ UNCHANGED <<up, commandVars>>

-----------------------------------------------------------------------------
(* The commands, as main starts them.                                      *)

\* The bound on commands.
Small == Cardinality(DOMAIN files) <= MaxEntries

Begin(name, src, dst) ==
  /\ AtPrompt /\ Small
  /\ command' = [name |-> name, src |-> src, dst |-> dst]
  /\ start' = files
  /\ UNCHANGED up

MkDir(p) == Begin("mkdir", p, p) /\ CreateDir(p) /\ UNCHANGED calls

Rm(p) == Exists(files, p) /\ Begin("rm", p, p) /\ RemoveFile(p) /\ UNCHANGED calls

RmDir(p) ==
  /\ Begin("rmdir", p, p)
  /\ calls' = <<Call("remove", p, p)>>
  /\ UNCHANGED <<files, clean>>

Cp(src, dst) ==
  /\ Exists(files, src)
  /\ Begin("cp", src, dst)
  /\ \/ IsFileName(src) /\ FileCopy(src, dst, <<>>)
     \/ ~IsFileName(src) /\ calls' = <<Call("copy", src, dst)>> /\ UNCHANGED <<files, clean>>

\* Bound: no move makes a path that is longer than the system takes; rename
\* would make it, but no later call could reach it.
MovesWithin(src, dst) == \A p \in Below(files, src) : Len(Moved(p, src, dst)) <= MAX_DEPTH

\* Mutant of Mv: the source is removed for the target.
MvRemovesSource(src, dst) ==
  LET rename == <<Call("rename", src, dst)>>
  IN /\ Exists(files, src) /\ MovesWithin(src, dst)
     /\ Begin("mv", src, dst)
     /\ \/ /\ Parent(src) = Parent(dst) \/ ~Exists(files, dst)
           /\ calls' = rename /\ UNCHANGED <<files, clean>>
        \/ /\ Parent(src) # Parent(dst) /\ Exists(files, dst)
           /\ \/ Declined /\ UNCHANGED calls
              \/ /\ Last(src) \notin Dotted
                 /\ calls' = <<Call("remove", src, src)>> \o rename /\ UNCHANGED <<files, clean>>
              \/ Last(src) \in Dotted /\ RemoveFile(dst) /\ calls' = rename

\* file_move. Which way the target is removed depends on the source's name.
Mv(src, dst) ==
  LET rename == <<Call("rename", src, dst)>>
  IN /\ Exists(files, src) /\ MovesWithin(src, dst)
     /\ Begin("mv", src, dst)
     /\ \/ /\ Parent(src) = Parent(dst) \/ ~Exists(files, dst)
           /\ calls' = rename /\ UNCHANGED <<files, clean>>
        \/ /\ Parent(src) # Parent(dst) /\ Exists(files, dst)
           /\ \/ Declined /\ UNCHANGED calls
              \/ /\ Last(src) \notin Dotted
                 /\ calls' = <<Call("remove", dst, dst)>> \o rename /\ UNCHANGED <<files, clean>>
              \/ Last(src) \in Dotted /\ RemoveFile(dst) /\ calls' = rename

\* Whether cat p1 p2 > p3 reads what it appends: p3 is one of the files it reads,
\* and too long for the buffer to take it in as it was.
ReadsItself(t, p1, p2, p3) ==
  p3 \in {p1, p2} /\ Exists(t, p3) /\ Len(t[p3].data) >= BUFFER

\* What it makes of p3 otherwise.
CatText(p1, p2, p3) ==
  (IF Exists(files, p3) THEN files[p3].data ELSE <<>>)
    \o AsText(files[p1].data) \o AsText(files[p2].data)

\* cat up to its loops: p3 is opened for appending. The call keeps p2 and p3, the
\* command p1.
Cat(p1, p2, p3) ==
  /\ IsFileName(p1) /\ IsFileName(p2) /\ IsFileName(p3)
  /\ IsFile(files, p1) /\ Exists(files, p2) /\ CanWrite(files, p3)
  /\ ReadsItself(files, p1, p2, p3) \/ Len(CatText(p1, p2, p3)) <= MaxBlocks
  /\ Begin("cat", p1, p3)
  /\ \/ /\ files' = Put(files, p3, IF Exists(files, p3) THEN files[p3] ELSE File(<<>>))
        /\ calls' = <<Call("cat", p2, p3)>> /\ UNCHANGED clean
     \/ Declined /\ UNCHANGED calls

\* Both loops, as one step. Files shorter than the buffer reach p3 at fclose.
CatCopies ==
  /\ Running("cat", "call") /\ IsFile(files, Top.src)
  /\ ~ReadsItself(start, command.src, Top.src, Top.dst)
  /\ Attempt(TRUE, Put(files, Top.dst, File(CatText(command.src, Top.src, Top.dst))))
  /\ calls' = Rest
  /\ UNCHANGED <<up, commandVars>>

\* A pass of the loop that reads p3: its end moves on with every block.
CatGrows ==
  LET old == files[Top.dst].data
      read == (IF command.src = Top.dst THEN <<>> ELSE files[command.src].data) \o old
      block == read[Len(old) - Len(start[Top.dst].data) + 1]
  IN /\ Running("cat", "call") /\ ReadsItself(start, command.src, Top.src, Top.dst)
     /\ Len(old) < MaxBlocks
     /\ files' = Put(files, Top.dst, File(old \o AsText(<<block>>)))
     /\ UNCHANGED <<calls, clean, up, commandVars>>

\* The disk is full: nothing more is written, and the end is reached.
CatFillsDisk ==
  /\ Running("cat", "call") /\ IsFile(files, Top.src)
  /\ ReadsItself(start, command.src, Top.src, Top.dst)
  /\ calls' = Rest
  /\ Declined
  /\ UNCHANGED <<up, commandVars>>

\* fopen of p2 may fail, of a directory always: cat reads through NULL, and what
\* it read of p1 is lost in the buffer.
CatNoSecond == Running("cat", "call") /\ Ends /\ UNCHANGED files

\* The command is over; main goes round its loop.
Return ==
  /\ Done
  /\ command' = NoCommand /\ start' = Nowhere /\ clean' = TRUE
  /\ UNCHANGED <<files, calls, up>>

\* Another program saves a new file.
SaveFile(p, d) ==
  /\ AtPrompt /\ Small
  /\ ~Exists(files, p) /\ CanWrite(files, p)
  /\ files' = Put(files, p, File(<<d>>))
  /\ UNCHANGED <<calls, up, commandVars, clean>>

Step ==
  \/ RemoveRefused \/ RemoveList \/ RemoveEntry \/ RemoveSelf
  \/ CopyRefused \/ CopyBegin \/ CopyMake \/ CopyEntry \/ CopyReturns
  \/ FileCopyWrite \/ ReadFails
  \/ Rename
  \/ CatCopies \/ CatGrows \/ CatFillsDisk \/ CatNoSecond
  \/ Return

\* A command line, or another program, between two commands.
Typed == {p \in Paths : Len(p) \in 1 .. MaxTyped}
Enter ==
  AtPrompt /\ \E p \in Typed :
    \/ MkDir(p) \/ Rm(p) \/ RmDir(p)
    \/ \E src \in DOMAIN files \ {<<>>} : Cp(src, p) \/ Mv(src, p)
    \/ \E d \in Data : SaveFile(p, d)
    \/ \E p1, p2 \in DOMAIN files : Cat(p1, p2, p)

Next ==
  \/ Start
  \/ Kill
  \/ Enter
  \/ Step

Spec == Init /\ [][Next]_vars

\* The running shell goes on with a command it began.
FairSpec == Spec /\ WF_vars(Step)

-----------------------------------------------------------------------------
(* Properties.                                                             *)

\* The values of the variables; every entry of the drive is in a directory.
TypeOK ==
  /\ IsTree(files)
  /\ up \in BOOLEAN /\ clean \in BOOLEAN
  /\ calls \in Seq([proc : {"remove", "copy", "write", "rename", "cat"},
                     at : {"call", "make", "loop", "stuck"},
                     src : Seq(Names), dst : Seq(Names), todo : SUBSET Names])
  /\ command \in [name : {"none", "mkdir", "rm", "rmdir", "cp", "mv", "cat"},
                   src : Seq(Names), dst : Seq(Names)]
  /\ IF Busy THEN IsTree(start) ELSE start = Nowhere /\ calls = <<>> /\ clean

\* However deep the recursion is, and wherever it stops, a command changes
\* nothing but what is at or below the path it was given as its target, and mv
\* what is at or below its source. The paths are put together from names on the
\* way down, in lists that were read before the tree changed.
InTarget(p) ==
  Under(p, command.dst) \/ (command.name = "mv" /\ Under(p, command.src))
OnlyTargetChanges ==
  Busy => \A p \in DOMAIN files \cup DOMAIN start : InTarget(p) \/ SameAt(files, start, p)

\* Directories with a '.' in their name, which the recursion takes for files.
DottedDirs(t, p) == {q \in Below(t, p) : q # p /\ t[q].dir /\ Last(q) \in Dotted}

\* A removal nothing gets in the way of removes everything but directories that
\* have a '.' in their name, with all they hold, and the directories on the way
\* to them.
RemovesAllItCan ==
  Done /\ command.name = "rmdir" /\ clean =>
    LET p == command.dst
        stuck == DottedDirs(start, p)
    IN Below(files, p) =
         IF IsFileName(p) THEN Below(start, p)
         ELSE {q \in Below(start, p) : \E r \in stuck : Under(q, r) \/ Under(r, q)}

\* A copy nothing gets in the way of is the source, as text, without the
\* directories that have a '.' in their name: none of the files there were before
\* is left in it, and no name is lost or added on any level.
Room(t, src, dst) ==
  /\ IsDir(t, Parent(dst))
  /\ \A p \in Below(t, src) : Len(Moved(p, src, dst)) <= MAX_DEPTH
AsCopied(entry) == IF entry.dir THEN Dir ELSE File(AsText(entry.data))
CopiesAllItCan ==
  Done /\ command.name = "cp" /\ clean =>
    LET src == command.src
        dst == command.dst
        copied == {p \in Below(start, src) : \A q \in DottedDirs(start, src) : ~Under(p, q)}
    IN /\ Unrelated(src, dst) /\ Room(start, src, dst)
       /\ IF IsFileName(src) THEN IsFile(start, src) /\ ~IsDir(start, dst)
          ELSE ~IsFileName(dst) /\ DottedDirs(start, dst) = {}
       => /\ Below(files, dst) = {Moved(p, src, dst) : p \in copied}
          /\ \A p \in copied : files[Moved(p, src, dst)] = AsCopied(start[p])

\* A move loses nothing of what it moves, when the target is unrelated to it: at
\* every moment all of it is where it was or all of it is at the target, whatever
\* becomes of what the target held before.
MoveLosesNothing ==
  Busy /\ command.name = "mv" /\ Unrelated(command.src, command.dst) =>
    LET src == command.src
        dst == command.dst
    IN \/ \A p \in Below(start, src) : SameAt(files, start, p)
       \/ \A p \in Below(start, src) :
            /\ Moved(p, src, dst) \in DOMAIN files
            /\ files[Moved(p, src, dst)] = start[p]

\* A command ends unless a read goes on failing, and whatever else fails: a copy
\* into its own source too, which adds to the directories it has still to list
\* until no longer path can be made.
ReadKeepsFailing == calls # <<>> /\ Top.at = "stuck"
CommandsEnd == Busy ~> (~Busy \/ ReadKeepsFailing)
=============================================================================

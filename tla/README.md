# Verification of CComponents

TLA+ models, model-checking runs and machine-checked proofs for the programs of this repository. The repository
holds four programs in C that share no code: a small database (`tiny-sqlite`), a virtual machine with a
mark-and-sweep collector (`gc-c`), an allocator (`mini-malloc`) and a shell of file commands
(`file-op-commands`). Each definition that stands for code is listed with its lines in `PROJECT.json` under
`map`; definitions named "Mutant of ..." are plausible bugs, used only to show that a property can fail.

## Inventory

| Component | State it keeps | Operations | What it talks to | What is hard |
|---|---|---|---|---|
| Pager: `page.c`, `table.c` | page table (pages or NULL), `num_pages`, `file_length`, the descriptor's file offset; the file | `pager_open`, `get_page`, `get_unused_page_num`, `pager_flush`; `db_open`, `db_close` | the file; called by tree, cursor, prompt | an offset that every read and write moves; process killed between two flushes; the page table's limit against the file's length |
| B+ tree: `tree_node.c` | nodes in pages | search in a leaf and in an internal node, insert, split of a leaf, new root, insert in the parent, `.btree` | pager (holds pointers into pages across calls) | in-place split; links and parents kept right; page numbers read from a file that may not hold what they promise |
| Cursor: `cursor.c` | page, cell, end of table | `table_start`, `table_find`, `cursor_advance`, `cursor_value` | tree, pager | a scan over leaves split in any order |
| Prompt: `db.c`, `record.c` | the statement being executed | insert, select, `.btree`, `.exit`, end of input | all of the above | several sessions on one file |
| VM and collector: `gc-c/vm.c` | stack, list of objects, marks, counters | push int, push pair, pop, assignment of a pair's fields, `gc()`, `freeVM` | collector is called by `newObject` in the middle of a push | cycles; a collection between the parts of an operation; the limit compared with `==` |
| Allocator: `mini_malloc.c` | list of blocks, program break | `my_malloc`, `my_free`, `my_realloc` | `sbrk`, which the C library uses too | reuse of larger blocks, realloc that copies more than was asked for, running out of memory |
| Prompt and strings of the file shell: `file-op-commands/main.c`, `commands.h`, `my_string.h` | the current directory, the line read and what `str_format` makes of it | read a line, dispatch it, cut out its paths, cd | hands full paths to the file operations | positions that are -1 when a word is not there, substrings that are NULL; a current directory that need not exist |
| File operations: `commands.h`, `my_file.h` | the drive, the calls in progress | cp, mv, rm, rmdir, mkdir, cat; `dir_remove_deep`, `dir_copy`, `file_copy`, `file_move` | the Windows file API | two recursions that call each other over a tree they change; half-done removals and copies; files told from directories by a `.` in the path |

None of the programs has threads. What interleaves is a process with its end (a kill, an end of input, an
`exit` deep in a call), a session with the next one on the same file, the allocator with the C library's own use
of the break, and the collector with the operation that called it. `PROJECT.json` lists every such place under
`hazards`, with the properties that watch it.

What makes each part correct:

- pager: a page number handed out is in use nowhere else; a page in memory stays where callers point at it;
  closing writes every page, and no page over another; what is persisted is where it is read;
- tree and cursor: leaves in order, linked in order, separators and parents right, every lookup ends at the right
  cell, a select gives every row once in order, an insert stores the row or reports a duplicate, and returns;
- across sessions and kills: what was saved is found;
- collector: nothing reachable is freed, everything else is, it terminates, it is triggered, and the program
  cannot tell that it ran;
- allocator: blocks are disjoint, contents survive, nothing is lost, a lack of memory is reported;
- file shell's prompt: the paths a command works on are the words that were typed, the current directory is what the
  cd commands made of it and exists;
- file operations: a command changes nothing outside its target, whatever fails on the way; a removal, copy or move
  that meets no failure does all it can; a move never loses what it moves; a command ends, unless a read goes on
  failing.

## Modules

    TreeNode ----> Database <---- Pager            GC ......> PairMachine      MiniMalloc
      |            |  : \           |              |                           |
      |            |  :  MCDatabase PagerClose     |-- MCGC                    |-- MCMalloc
      |            |  v             |-- MCPager    |-- GCProofs                |-- MallocProofs
      |            |                |-- PagerProofs
      |            | RowTable
      |-- TreeNodeProofs
      |            |
      |            |-- DatabaseProofs
      |
    RowFormat (the bytes of TreeNode's fields and of a row) -- RowFormatProofs

    MyString ----> Prompt      (full paths)      FileShell <---- FileTree
                     |          - - - - ->           |
                     |-- MCPrompt                    |-- MCFileShell
                     |-- PromptProofs                |-- FileShellProofs

`....>` is a refinement: the detailed specification implements the abstract one.

**Pager** models `page.c`, `db_open` and `db_close`. `pager` is the `struct Pager` plus the file offset (`pos`) of
its descriptor; `file` survives the process; `pc` says whether there is no process (`down`), one at its prompt
(`open`) or one in `db_close` (`closing`), where `flushing` is the loop variable. `LoadPage` is `get_page`
(including that it reads only when the page is in `file_len`, and where the read leaves the offset), `FlushPage`
one iteration of the flush loop with `pager_flush`'s seek from `SEEK_CUR`. Alone, the pager is driven by any client
that fetches numbered pages, changes pages it holds and takes the unused one. **PagerClose** is the same pager with one
more variable, `due`: the pages that were in memory when `db_close` was called. `pager_flush` forgets each as it goes, so
only a history says what the file owes to the session.

**TreeNode** holds the single-node operations of `tree_node.c` as operators on records: both binary searches with
their own bounds, each pass narrowing the window between `left` and `right`, `LeafInsert`, the split loop
(`SplitCells`, which runs in place, one `SplitPass` for each index in `SplitOrder`), `UpdateKey`, `InternalInsert`. A node record is its type, root flag, parent, cells and `link`, the word at offset 10, which is
the next leaf of a leaf and the right child of an internal node. Recursion is written as recursive functions.

**RowFormat** is about bytes: how `sscanf`, `serialize_row`, `deserialize_row` and `printf` take a row from the line to the
struct, to the cell, to another struct and to the screen, and at which offsets of a page the accessors of `tree_node.c` find
what TreeNode has as fields. It is pure arithmetic without steps, so it is proved about and not run.

**Database** composes the two (`P == INSTANCE Pager`, page content = nodes) and adds the cursor and the statements.
An insert is one step made of `table_find`, the duplicate check and one of `InsertInLeaf`, `InsertSplittingRoot`,
`InsertSplittingLeaf` (which ends in the code's `exit`), `InsertOutOfPages` (`get_page` exits past the table) and
`InsertEndless`. The descent is a function of how many calls of `internal_node_find` have been made (`Descend` is one); a
way longer than the table has met a page twice. A select is `SelectStart`, one `SelectRow` for each row, `SelectEnd`; `.exit` is `StartClose` and
then the pager's flush steps. `Kill` may end the process between any two steps.

**RowTable** is what a session on a new file promises: a set of rows with distinct keys, insert that stores or
reports, select that prints in ascending order, every row once.

**GC** models `vm.c`. `stack` is the VM's, `heap` what an object refers to. `mark()` is one step for each call, with
`work` the calls still pending; `sweep()` is one step for each link, with the list cut at the link in `before` and
`rest`. `pending` is the caller `gc()` returns to: a `newObject` in the middle of `pushInt` or `pushPair`, the
program, or `freeVM`. An assert that fails leads to `exited`. `FairSpec` adds that `gc()` goes on. **PairMachine** is the same machine without a
collector: memory that keeps exactly what the stack leads to.

**MiniMalloc** models `mini_malloc.c` and a client that fills what it is given and frees only what it holds, once.
`mem` holds bytes, so that a clearing `memset` or a copying `memcpy` that reaches a neighbour is seen.
`OtherSbrk` is the C library moving the break.

**FileTree** is a drive as the Windows calls see it (`_mkdir`, `_rmdir`, `remove`, `rename`, `fopen`, `_findfirst`):
when each call can succeed and what tree it leaves. A path is the sequence of its names, of which only the presence
of a `.` matters; a tree maps the paths that exist to what is there. These calls are external, modelled from how
`my_file.h` uses them.

**FileShell** models what the commands do to the drive. `files` is the drive and survives the process; `calls` is the
C stack of `dir_remove_deep`, `dir_copy`, `file_copy` and `file_move`, innermost first, each with the path it works on, where
in the function it is and which names of its list it has still to treat (`todo`). The list is read once and worked
off in any order. A step is one pass of a loop or what a function does before it: `RemoveRefused`, `RemoveList`,
`RemoveEntry`, `RemoveSelf`, `CopyRefused`, `CopyBegin`, `CopyMake`, `CopyEntry`, `CopyReturns`, `FileCopyWrite`, `Rename`. `Attempt`
lets a system call fail although it could succeed, `Declined` answers a question with n, both as often as they like; `Kill` ends the
process between any two steps. The loops of `file_copy` and `cat` are left at the end of the file they read and nowhere else: `ReadFails`
is the read that goes on failing, after which only `Kill` is left. `cat` of two files is `Cat` (up to its loops), then `CatCopies` (both
loops, when it reads files that do not change), or `CatGrows`, one step for each block, when its output is one of its inputs and longer
than stdio's buffer (`BUFFER`): it then reads what it has just written, until `CatFillsDisk`. `CatNoSecond` is the `fopen` of the second
file, whose result is not looked at. `start` remembers the drive a command began with, which the properties compare with.

**Prompt** models main's loop and the parsing in `commands.h`, **MyString** the functions of `my_string.h` it uses, over strings
as sequences of characters. `str_format` is one pass of its loop a step. `call` is what a line asks of `my_file.h`: the
command and its paths, put together with `cur_path`. Where the code reads through a NULL it was given, the process
ends. Prompt says which paths a line stands for; FileShell takes a command with any paths from there on. The two share
no other state: `cur_path` is only read to make a path full, so they are checked one by one and not as a product.

`MC*` modules only give constants values and define symmetry sets.

## What the runs check

| Run | Question | Bounds |
|---|---|---|
| `pager` | Is the page table right under any client, and does closing lose no page? | 3 pages, no session on a file longer than 5, 3 contents written |
| `pager_persist` | Is a page saved where it is read? **No** (finding 1) | the same |
| `session` | Is the tree right after every insert, in every order, with the code's node sizes, and does the session implement the table of rows? | 5 rows a leaf, 3 keys a node, 11 keys, new file; 2 values, one of the keys may come with either |
| `sessions` | What survives sessions and kills, and do selects and closes end? | 2 rows a leaf, 4 keys, 7 pages, files up to 7 pages |
| `insert_returns` | Does an insert return to the prompt? **No** (finding 2) | as `session`, 9 keys |
| `pages_in_table` | Do the pages in use fit in the page table? **No** (finding 3) | 5 pages |
| `gc` | Does the collector free what it should and only that, does every collection end, and can the program tell that memory is collected? | 4 addresses, stack of 2, first limit 2 |
| `malloc` | Are blocks disjoint and contents kept? | 9 bytes, 1 for a block's struct, requests up to 3, 2 values |
| `files` | What does a command change, what does it achieve, and does it end unless a read goes on failing? | 3 names (one with a `.`), paths of 3, commands on drives of up to 4 entries, the drive itself counted; files of up to 3 blocks, a buffer of 1 |
| `prompt` | Which paths do the commands take from a line, and where does cd lead? | 2000 lines, typed in directories of up to 6 characters |
| `format` | Are the blanks at the end of a line removed? **No** (finding 4) | the lines of `prompt` |
| `cd` | Does cd stay when the directory does not exist? **No** (finding 5) | a cd to each of 7 paths |

Why the bounds are enough to reach the interesting cases:

- `pager`: three entries are the root, a page below the offset and one above it; five file pages are past the
  table, so `OverrunExit`, `SkipPage` past the table and an `Allocate` beyond it all happen.
- `session` uses the sizes of `config.h` unchanged. The sixth insert splits the root into two leaves of three rows;
  after that each leaf takes two more, and the next row for a full one splits it and ends the process. That happens
  at the ninth insert at the earliest and at the eleventh at the latest, so eleven keys in every order reach every
  shape of tree a session on a new file can build. The table has four pages instead of 64: such a session uses
  three, and the exiting split takes the fourth.
  Neighbouring keys have different values and one key may be entered with both, so that a row stored or printed with
  another key's value, or a duplicate that overwrites, shows in the refinement of RowTable.
- `sessions` has leaves of two rows so that four keys split; files grow to the bound because a flush lands beyond the
  end, and a longer file is never opened again (`MaxFilePages`). Here keys are inserted over several sessions, and
  sessions are killed in the middle of a flush loop.
- `gc`: four addresses are twice what the stack holds and twice the first limit, so collections start from `newObject`, the limit
  doubles and falls back, and cycles form, of what the stack leads to and of garbage. Two objects on the stack are what
  `pushPair` takes. `malloc` never runs out in the C program; where no address is left the model simply cannot push. The
  addresses are alike, but TLC does not allow symmetry where it checks liveness.
- `malloc`: nine bytes hold three blocks, so first fit skips a block that is too small, reuses one that is too
  large and reallocs next to a neighbour. The other break user takes single bytes, which covers larger steps as
  sequences. Symmetry is on the data, which is only copied and compared.

- `files`: three entries besides the drive are enough for a directory in a directory with a file in it, for a source
  and a target with content each, and for a copy into its own source, which then grows to `MAX_DEPTH` levels; the bound is on the drive
  a command is entered on (`Small`), not on what the command makes of it. Every such drive is reached by commands and by another
  program that saves files (`SaveFile`). Any number of system calls of a command fail without cause, and any number of questions
  are answered with n. New paths have at most two names (`MaxTyped`), sources any length, and no move makes a path longer than
  the system's longest (`MovesWithin`): `rename` would, and no later call could reach it. `MaxBlocks` is the room on the disk: cat of files
  that do not fit is not entered, one that reads what it writes fills it. With three blocks and a buffer of one it reads blocks that
  it has itself appended. Files that another program saves hold one block, not text (`Text` is empty), so that a copied block (`Mangled`) is never
  taken for one that was there before.
- `prompt`: every command with no, one or two paths of seven kinds (name, name with `.`, path, path that ends in `/`, full
  path, `..`, `/`), cat with its five words, an unknown command, and the empty line, each with single or double blanks between,
  none or two before, none or one behind. Deeper directories repeat what six characters do: one name is there
  with and without a `/` in it.

Every configuration says `CHECK_DEADLOCK FALSE`, because each system really stops or is stopped by a named bound: no
process and a file longer than `MaxFilePages` (pager and database; with a bound of 0 a run is one session on a new
file), a VM or allocator that an assert ended, or no address left (collector), or a prompt in a directory longer than
`MaxPath`, or a command whose read goes on failing. Progress is stated where it is meant instead, by `SelectEnds`,
`CloseEnds`, `CollectionEnds` and `CommandsEnd`.

Deep properties worth reading first: `FindsPlace`, `LeavesChained` and `SplitBuildsTree` (Database),
`ImplementsRowTable`, `FirstRowsFound`, `EveryPageSaved` (whatever the offset is when `db_close` begins, no flush lands on
a page that another has written), `ReachableAllocated` with `GarbageCollected`, `CollectionEnds`, `ImplementsPairMachine`, `HeldIntact`, `OnlyTargetChanges` and
`MoveLosesNothing` (FileShell), `PathsAsTyped`.

## Fairness

`FairSpec` of Database states weak fairness of `SelectStep` and of `CloseStep`, that of GC weak fairness of `GcStep`, that of
FileShell weak fairness of `Step`, the steps of a command that was begun. All are loops or calls of the one running thread, with no lock or wait inside, so
a process that is not killed goes on with them. The question a file command may ask (overwrite?) is answered at
once: the newline left in the input by the last answer, or the next line. Nothing is assumed of the user (no statement is
ever required to be entered) and nothing of `Kill`: `SelectEnds`, `CloseEnds` and `CommandsEnd` hold if the loop finishes or the
process dies. Nothing is assumed of the system's calls either. A read that fails may go on failing for ever, and the code loops on
it: `CommandsEnd` names it as the one way not to end. A disk is finite: `CatGrows` cannot go on.

## Assumptions of the models

- A write is whole: `write()` storing fewer bytes, or an I/O error, is only the process ending (`Kill`).
- Past the page table the flush loop reads what follows `pages` in memory: the unused tail of the `Pager`'s own block
  (NULL, `SkipPage`) or the size the C library keeps before the next block, a small number that is no address
  (`write` fails, `OverrunExit`). Which of the two comes at which index depends on `TABLE_MAX_PAGES`; the model allows
  both everywhere.
- Fresh memory from `malloc` that nobody wrote holds zeros where the code follows it as a page: page-sized blocks are
  never freed while the database is open. `JunkNode` keeps it apart from a written page; a descent into it ends at
  page 0 again and again until the C stack overflows. The stack's depth is not modelled: walks that never end, end
  the process.
- Tree properties speak of sessions whose file does not begin with a split root (`Sound`): such a file has its other
  nodes elsewhere than the root says (finding 1), and nothing about order holds of it. Termination, the pager's
  bookkeeping and `FirstRowsFound` are checked without that restriction.
- Statements other than select are single steps: one thread, and a kill in the middle loses memory that is lost
  anyway. Nothing is written to the file outside `db_close`.
- Row ids are compared as `uint32_t`; a negative id is a large key, which the order-preserving set of keys covers.
- The words of an insert fit their columns: RowFormat takes a username of up to 32 bytes and an email of less than 255. What `sscanf`
  does past the struct is not modelled.
- Allocator sizes stay below where `size + META_SIZE` wraps; the client is well behaved.
- The drive changes by the calls FileTree lists, and between commands by another program that saves a file. `rename` fails
  when the target exists, `_rmdir` when the directory is not empty, a path longer than `MAX_DEPTH` cannot be made. Letter case and a `/` at a
  path's end are left to Prompt; FileShell's paths are sequences of names.
- Whether a question is answered y or n is open: `scanf("%c")` takes whatever character is left in the input. A question asked
  with `create_dir` has its answer before the user sees it (no).
- `get_file_list` returns NULL for a path that is not a directory, and its callers read through it: the process ends
  (`NullList`, `CopyMake`). The directory a failed `fopen` leaves the other file open in is covered by the call that may fail later.
- A `file_copy` or `cat` cut short, by a failing write, a failing read or the end of the process, leaves its target as it was when it
  was opened; the prefixes it could hold instead are not told apart. That holds for a cat that reads its own output only up to
  the failure: what `CatGrows` has written stays. Text mode changes what is not `Text` (`AsText`).
- A line fits the buffer it is read into. After the first line that buffer has the size of the line before (`main.c:19`): a longer
  one overruns it, and what that does is not modelled beyond `Kill`.

## Findings

1. `pager_flush` seeks from the current offset (`page.c:85`), so only the root page of a new file is where
   `get_page` will look for it. Run `pager_persist`.
2. Splitting a leaf below the root calls `exit(EXIT_FAILURE)` (`tree_node.c:232`) after changing the tree: a session
   of the sixteen inserts that `test.c` prints ends at the ninth. Run `insert_returns`. What the split leaves in
   memory is right (`SplitBuildsTree`).
3. `db_close` indexes the page table up to `num_pages`, which comes from the length of the file (`table.c:22`). Run
   `pages_in_table`.
4. `str_format` keeps a blank behind the last word although its comment (`my_string.h:57`) says it removes the blanks at both ends, so
   that `cat a.t b.t > c.t ` with a blank at its end does nothing. Run `format`.
5. cd compares `file_exist` with -1, but it returns 0 or 1 (`commands.h:130`): a directory that does not exist becomes the
   current one. Run `cd`.

Seen as well, modelled as the code has it, and plain enough to need no run:

- the loops of `file_copy` and `cat` are left by `feof` only (`my_file.h:226`, `commands.h:193` and `202`). A read that fails sets
  `ferror`: while it goes on failing `file_copy` returns neither of the 1 and 0 its comment (`my_file.h:193`) promises (`ReadFails`);
- `request_space` asserts `old_addr == request` before it looks whether `sbrk` failed (`mini_malloc.c:54`): with asserts enabled the
  `return NULL` behind it, and the checks for it in `my_malloc` and `my_realloc`, are never reached (`aborted` in MiniMalloc);
- `file_type` takes every path with a `.` for a file (`my_file.h:19`), against its comment: a directory with one in its name is
  never removed or copied by the recursion, nor removed what it is in, and the shell says that it does not exist;
- cat into a file it reads, if that is longer than stdio's buffer, fills the disk (`CatGrows`);
- `PREPARE_NEGATIVE_ID` (`db.c:31`), `PREPARE_STRING_TOO_LONG` (`db.c:30`) and `EXECUTE_TABLE_FULL` (`db.c:50`, handled at
  `db.c:252`) are declared and never returned;
- cat of a path typed in full prints the current directory's path instead;
- copying a directory or a file onto itself empties it, which is why `CopiesAllItCan` asks for unrelated paths;
- a username of 32 characters, which `config.h:21` allows, is printed with the email behind it (theorem `FullNameRunsOn`).

## What is proved

The proofs hold for every value of the constants, under the named assumptions of the modules: a page table with at
least one entry, `Null` not a page's content and not a row, the keys natural numbers, an unset field neither a number nor a node's type, stack size and first limit at least one, a block's struct of at least one
byte, 0 not among what the allocator's client writes; for the file commands, `MAX_DEPTH` at least one, the names with a `.` among the names and the texts among the
data; for the prompt, `Characters` holding the blank, the `/` and what the commands' names are made of, lines made of
them, and a root path that names a drive (`RootAssumption`: it has a `:`, does not begin with `/`, as the code's `E:/TestWorkSpace`).

**PagerProofs** proves `PagerInv` inductive. `UnusedIsUnused` alone is not: that `num_pages` stays past the file needs
`file_len = Len(file)` while the database is open; that no page is left behind by the flush loop needs all cached
pages below `num_pages` when the loop starts. That closing saves every page is about a whole loop of flushes whose slots depend on
each other. Its invariant gives each page that was due and is no longer in memory a slot below the offset that holds it, no two
of them the same; the next flush lands behind the offset and so on none of these, and what is still in memory is still what was due. The
slots are not named, since where they lie depends on the history: the invariant says that there is such a function. From these follow, for
all table sizes, file lengths and contents: `UnusedPageIsUnused`, `CloseReachesEveryPage`, `CloseSavesEveryPage`,
`PagesStay`.

**GCProofs** proves `GCInv` inductive. `ReachableAllocated` is not inductive: while `sweep` runs, an object survives
because of its mark. The strengthening says, for `mark`: what a marked object or the stack refers to is marked or
still in `work`, and all of these are reachable and allocated; for `sweep`: what it has passed and what is still
marked is closed under references and holds the stack (`Kept`), and holds nothing unreachable; outside a sweep the
list as a whole is closed. `Reachable` is the least closed set, so lemmas show that a closed set holds it, that it is
closed itself, and that changing an unreachable object leaves it alone. The list has no repetition, which ties
`numObjects` to it. Results: `NothingReachableFreed`, `AllGarbageCollected`, `LimitTriggersCollection`.

That a collection terminates is proved as far as this prover goes: `StepsLeft` counts the steps a collection can still make, from the
unmarked objects, the calls of `mark()` that wait and the links `sweep()` has ahead. It is a natural number in every state
(the objects are a finite list, whatever `Addr` is) and every step of a collection makes it smaller (`MarkObjectUsesStep`,
`CollectionUsesStep`): a call of `mark()` that makes two more has marked an object that was not. Result:
`CollectionTerminates`. That `gc()` is scheduled until it ends (`CollectionEnds`) is checked by TLC.

Its second part proves that GC implements PairMachine, step by step, from `GCInv` and `PendingInv`: the caller that `gc()`
works for is remembered through it, and a machine that is or will be freed has an empty stack. PairMachine's memory is what the stack leads to,
so the mapping forgets whatever is garbage: `sweep` frees only what lies outside of `Kept` and is a stutter
(`UnseenStutters`), and a new object adds itself and what it refers to (`PushReach`). Result: `CollectorUnseen`.

**TreeNodeProofs** proves the operations on one node, for nodes with any number of cells. A place (`IsPlace`) is where all smaller
keys are before and none behind; there is exactly one, and both searches end there: the window always holds it, and a
window whose search ended elsewhere would have to be followed by a shorter one, so there is no shortest. Inserts at the place keep the order and lose no cell. The split loop
moves cells within the leaf it reads from: `After` says what the two leaves hold when the passes down to an index are done, and
`PassIsAfter` that the next pass reads a cell none of them has written. What it ends with, read from the old leaf into the new one, is
what `LeafInsert` would have made of a leaf with room. Results: `LeafFindIsPlace`, `FindChildIsPlace`,
`LeafInsertInOrder`, `InternalInsertInOrder`, `UpdateKeyInOrder`, `SplitInOrder`.

**DatabaseProofs** proves `DatabaseInv` inductive, for nodes, page tables, files and keys of any size, over every string of
sessions, closes and kills. None of the tree's properties is inductive: whether a leaf is found depends on which pages are in
memory, and what a later session finds on what the flush loop left in the file, which is not what was in memory. The
invariant says which trees there are. A session on a new file or on a single leaf has that leaf (`Single`) until it splits, and then a root over two
leaves (`Forked`); there is no third level and no third leaf, because the split that would make it ends the process. Of a
file that was closed after a split (`Saved`) only slot 0 is a node that is where it should be; in the slots of its
children are zeros, a leaf, or another root (`Misplaced`), and this must be kept while the flush loop
moves over them (`ClosingInv`). `CursorInv` keeps the cursor of a select on a leaf of the tree. The pager's own invariant is part of it, so
each load and store of a statement is shown to keep it (`LoadPageLoads`, `StorePageKept`). Searches, inserts and the split of a leaf come from TreeNodeProofs.
The descent, the walk of `.btree` and the rows below a page are functions of a depth, of which the trees above use two levels: lemmas
unfold them that far and show that the rest changes nothing, so no induction over the depth is needed. Results: `DatabaseInvariant`,
`DatabaseTypes`, `PagerStaysKept`, `TreeStaysOrdered`, `EveryLeafChained`, `EveryParentKnown`, `EveryPlaceFound`,
`FirstRowsStay`.

What the split below the root leaves in memory is the one tree of three leaves there ever is, and no later state is a session on it: it is no
part of the invariant but a fact about a step, from `Forked` to `ForkedTwice`. The split leaf is the left one (`LeftSplits`: the new leaf goes
between the two) or the right one (`RightSplits`: it becomes the root's right child, and the old one gets a separator); either way `update_key`
renames or keeps the old separator so that the three leaves lie apart, and page 0 stored last leaves them as they are. Result:
`SplitLeavesTree`, for `INTERNAL_NODE_MAX_CELLS` above one, as in `config.h`; with one, `tree_node.c:333` finds the root full and
the new leaf is not linked.

Its last part proves that Database implements RowTable when no session is begun on a file with content (`MaxFilePages = 0`, as in
the run `session`; a session on another file starts with rows it did not insert). `SessionTable` adds to `DatabaseInv` that the rows still to
be printed are those ahead of the cursor, in its leaf and along the chain. An insert into a leaf adds its row to those in
memory and so does the split of the root (`SplitAddsRow`), whose pages are the table's rows between them without loss or repetition.
Result: `NewFileIsRowTable`.

**RowFormatProofs** follows a row through its copies: `Contains` says of a struct or a value that it holds the id, the
username (with a 0 behind it if it is shorter than its column) and the email, and `RowCopied` that the two `strncpy` calls keep
that from any offsets to any others that are apart. Results: `PrintedAsEntered`, `FullNameRunsOn`, and that fields do not overlap,
`LeafFieldsApart` and `InternalFieldsApart`.

**MallocProofs** proves `MallocInv` inductive: every block ends before any later one begins and before the break (`Apart`;
`BlocksApart` speaks of neighbours only, which is too little to move bytes past a block that is not next), every pointer the
client holds is that of a block not free and at least as large (`Owned`), and what is known of its bytes goes no further than its size
(`Intact`), so that the copy of a whole block in `my_realloc` and the clearing of a whole block in `my_free` stay in blocks
of their own. That first fit finds a block whenever there is one, and the first, rests on the least index, which exists because `<`
is well founded. Results: `TypeCorrect`, `BlocksNeverOverlap`, `ContentsKept`, `NothingLeaks`.

**FileShellProofs** proves four invariants inductive, over trees of any depth and with any number of calls pending: `ShellInv`, `TypeInv`, `RemoveInv`, `CopyInv`.
`OnlyTargetChanges` and `MoveLosesNothing` compare the drive with the one the command began with; that the next call keeps them
needs to know where it works. `ShellInv` therefore says of the whole stack (`StacksFor`) that every pending call works at or below
the command's target, and that a `rename` is mv's own, of its source to its target, and runs when every other call has returned. A move then is
either still where it was (`InPlace`) or `Arrived`, with no call left. For `TypeOK` it is not enough that the directory an entry is in
exists: `rename` carries a subtree to another place, and that the result is a tree takes every path above an entry to be a
directory (`IsDrive`). `TypeInv` adds that a copy which writes in the middle of its call is the innermost one and has
both its files. The module's first part holds the facts about paths and about what `Put`, `Drop` and `Renamed` make of a tree.
Results: `NothingElseTouched`, `MovedIsSomewhere`, `TypeCorrect`.

What a removal achieves as a whole is proved without induction over the tree. `RemoveInv` says at every moment which entries are left of
those there were: the ones a pending call still awaits (`Awaits`: all of the directory of a call that has not listed it yet; of a call in its
loop the directory and what is below the names in its list), and the `Blocked` ones, which no call can remove. Each call was made for a
name that is no longer in the list of any caller (`MadeBy`), so no two calls await the same entry, and what one removes no list
misses. When a loop is over, its directory is empty exactly if nothing below it is blocked (`SelfRemoved`). With no call left nothing is
awaited. Result: `RemovalIsWhole`.

`CopyInv` says the same of a copy, in four phases: dir_copy not yet begun (`Entered`), the old target being removed below it on the
stack (`Clearing`, which is the removal's invariant over the rest of the stack), dir_copy at work (`AtWork`) and one of its files
emptied and not yet written (`Open`). At work, the target holds the copy of what is `There`: the entries to be copied that no
pending call has still to copy (`Still`). The calls are nested as those of a removal are (`Nested`), so each entry is put once and
nothing that is there is replaced. That nothing gets in the way has to be shown too: a call finds its target missing
and the directory it goes into made, because the call of that directory is in its loop already (`NotMadeYet`), and a file's target
can always be opened (`EntryPassed`), so the test in `file_copy` skips only directories with a `.`, which are not to be copied. The source
stays as it was because the target is unrelated to it (`SourceKept`). Result: `CopyIsWhole`.

**PromptProofs** proves the four properties of Prompt for lines and paths of any characters and length. What a line's words and a
path's names are is defined by recursion over the string; the proofs need no induction over it. A string is
cut into pieces where a character stands: `CutAt` gives the places, there is one such list for a string
(`CutAgree`: where two differ first, one of them would pass over the character), and the pieces defined by recursion are cut
that way. From it follow what each search of `my_string.h` finds (`FindsFirst`, and its likes for the next and the
last) and what is between two finds, so that parsing needs no position but those.
`FormatInv` says at every pass of `str_format` that what it holds is kept (`Kept`) from what it has read: the words so far, and an
empty piece behind them if a blank was read after one. `PathInv` says that the current directory is on the drive the
process started on; it alone makes `CdMoves` a step property: cd to a path appends its pieces, `cd ..` drops the last cut and `cd /`
all but the first. For `PathsAsTyped` the formatted line is read as the words
(`ReadAs`), and each command's searches as the cuts between them (`Parsed`). Recursive functions that a theorem rests on are shown to exist (`Recursion`)
from well-foundedness of `<`. Results: `TypeCorrect`, `LineIsFormatted`, `CdMovesAsTold`, `PathsAreAsTyped`.

Only model-checked:

- Liveness (`SelectEnds`, `CloseEnds`, `CollectionEnds`, `CommandsEnd`), which the prover does not reach. For the collector the
  decreasing measure behind it is proved (`CollectionTerminates`); for the others it is not stated.
- What `cat` of two files leaves in its target.

## Not modelled

- `row_slot`, `table_end` and `delete_char`, which nothing calls; the wording of output, commands that are
  not understood.
- ls, find and cat of one file beyond the path they are asked for: they only print. `file_msg_log` writes a struct nobody reads.
- mv of the drive itself, whose parent `get_par_from_path` gives as NULL.
- Test generator and documents, which are cited where the code disagrees with them.

## Plan

Done, in this order: Pager, TreeNode, Database, RowTable, GC, PairMachine, MiniMalloc, PagerProofs, GCProofs, FileTree,
FileShell, MyString, Prompt, FileShellProofs, MallocProofs, TreeNodeProofs, RowFormat, RowFormatProofs, DatabaseProofs, PromptProofs,
PagerClose.

Next:

1. **Liveness**: what `CollectionTerminates` says of the collector, of the other loops: a measure of the work left (calls and names not yet
   treated, pages to flush, leaves ahead of a select) as a state function, and that every step of the loop lowers it.
2. **FileShell**: that `cat` of two files leaves the target with both contents, as an invariant with a theorem.

----------------------------- MODULE MiniMalloc -----------------------------
(***************************************************************************)
(* The first-fit allocator of mini-malloc/mini_malloc.c: a list of blocks  *)
(* in the order of their addresses, grown with sbrk, never shrunk, split   *)
(* or merged; and a client that frees only what it holds, once.            *)
(*                                                                         *)
(* A byte of the model is the unit in which META_SIZE and the sizes are    *)
(* given. Sizes so large that size + META_SIZE wraps around are left out,  *)
(* as are my_malloc(0), my_free(NULL) and my_realloc(NULL, n): the first   *)
(* two change nothing, the last is my_malloc(n).                           *)
(***************************************************************************)
EXTENDS Integers, Sequences, SequencesExt

CONSTANTS
  META_SIZE,    \* bytes of a struct block_meta
  MemorySize,   \* where sbrk fails; finite in any process
  Data,         \* what the client writes
  MaxRequest    \* bound: the largest size asked for

ASSUME MetaAssumption == META_SIZE \in Nat \ {0}
ASSUME MemoryAssumption == MemorySize \in Nat
ASSUME DataAssumption == 0 \notin Data
ASSUME RequestAssumption == MaxRequest \in Nat

VARIABLES
  blocks,  \* the list from global_base: [addr, size, free]
  brk,     \* the program break
  mem,     \* the bytes of memory; 0 where nothing was written
  held,    \* the client's pointers: [size, data, filled], the first filled bytes
           \* of size are known to be data
  pc       \* "run", or "aborted" by an assert

vars == <<blocks, brk, mem, held, pc>>

Addresses == 0 .. MemorySize - 1
Sizes == 0 .. MaxRequest

RealPtr(block) == block.addr + META_SIZE        \* get_real_ptr
Bytes(p, n) == p .. p + n - 1
BlockOf(p) == CHOOSE i \in DOMAIN blocks : RealPtr(blocks[i]) = p  \* get_block_ptr

Fill(m, p, n, d) == [a \in Addresses |-> IF a \in Bytes(p, n) THEN d ELSE m[a]]

\* Mutant of FindFreeBlock: any free block will do.
FindFreeBlockAny(size) == SelectInSeq(blocks, LAMBDA b : b.free)

\* find_free_block: the first that is free and large enough, or 0.
FindFreeBlock(size) == SelectInSeq(blocks, LAMBDA b : b.free /\ b.size >= size)

\* sbrk fails, and with it the assert before request_space looks at the result.
OutOfMemory(size) ==
  FindFreeBlock(size) = 0 /\ brk + size + META_SIZE > MemorySize

\* What request_space writes at the old break.
NewBlock(size) == [addr |-> brk, size |-> size, free |-> FALSE]

\* Mutant of NewBreak: no room for the struct block_meta.
NewBreakShort(size) == brk + size

\* Mutant of NewBreak: the struct block_meta is counted twice.
NewBreakTwice(size) == brk + size + META_SIZE + META_SIZE

\* sbrk(size + META_SIZE)
NewBreak(size) == brk + size + META_SIZE

\* my_malloc when it does not run out of memory: the list, break and pointer.
Allocated(size) ==
  LET i == FindFreeBlock(size)
  IN IF i # 0
     THEN [blocks |-> [blocks EXCEPT ![i].free = FALSE], brk |-> brk, ptr |-> RealPtr(blocks[i])]
     ELSE [blocks |-> Append(blocks, NewBlock(size)), brk |-> NewBreak(size),
           ptr |-> RealPtr(NewBlock(size))]

Holds(p, h) == [q \in DOMAIN held \cup {p} |-> IF q = p THEN h ELSE held[q]]

Init ==
  /\ blocks = <<>>
  /\ brk = 0
  /\ mem = [a \in Addresses |-> 0]
  /\ held = <<>>
  /\ pc = "run"

\* The client allocates and fills what it got.
Malloc(size, d) ==
  /\ pc = "run"
  /\ ~OutOfMemory(size)
  /\ LET got == Allocated(size)
     IN /\ blocks' = got.blocks
        /\ brk' = got.brk
        /\ mem' = Fill(mem, got.ptr, size, d)
        /\ held' = Holds(got.ptr, [size |-> size, data |-> d, filled |-> size])
  /\ UNCHANGED pc

Abort == pc' = "aborted" /\ UNCHANGED <<blocks, brk, mem, held>>

MallocAborts(size) == pc = "run" /\ OutOfMemory(size) /\ Abort

\* my_free clears the whole block.
Free(p) ==
  /\ pc = "run"
  /\ blocks' = [blocks EXCEPT ![BlockOf(p)].free = TRUE]
  /\ mem' = Fill(mem, p, blocks[BlockOf(p)].size, 0)
  /\ held' = [q \in DOMAIN held \ {p} |-> held[q]]
  /\ UNCHANGED <<brk, pc>>

Smaller(m, n) == IF m <= n THEN m ELSE n

\* my_realloc in a block that is large enough.
ReallocInPlace(p, size) ==
  /\ pc = "run"
  /\ blocks[BlockOf(p)].size >= size
  /\ held' = [held EXCEPT ![p].size = size, ![p].filled = Smaller(@, size)]
  /\ UNCHANGED <<blocks, brk, mem, pc>>

\* Mutant of ReallocMove: the old block is not freed.
ReallocMoveLeak(p, size) ==
  LET old == blocks[BlockOf(p)]
      got == Allocated(size)
      copied == [a \in Addresses |-> IF a \in Bytes(got.ptr, old.size)
                                     THEN mem[p + (a - got.ptr)] ELSE mem[a]]
  IN /\ pc = "run"
     /\ old.size < size /\ ~OutOfMemory(size)
     /\ blocks' = got.blocks
     /\ brk' = got.brk
     /\ mem' = copied
     /\ held' = [q \in (DOMAIN held \ {p}) \cup {got.ptr} |->
                   IF q = got.ptr THEN [held[p] EXCEPT !.size = size] ELSE held[q]]
     /\ UNCHANGED pc

\* my_realloc in another: malloc, memcpy of the old block's size, free.
ReallocMove(p, size) ==
  LET old == blocks[BlockOf(p)]
      got == Allocated(size)
      copied == [a \in Addresses |-> IF a \in Bytes(got.ptr, old.size)
                                     THEN mem[p + (a - got.ptr)] ELSE mem[a]]
  IN /\ pc = "run"
     /\ old.size < size /\ ~OutOfMemory(size)
     /\ blocks' = [got.blocks EXCEPT ![BlockOf(p)].free = TRUE]
     /\ brk' = got.brk
     /\ mem' = Fill(copied, p, old.size, 0)
     /\ held' = [q \in (DOMAIN held \ {p}) \cup {got.ptr} |->
                   IF q = got.ptr THEN [held[p] EXCEPT !.size = size] ELSE held[q]]
     /\ UNCHANGED pc

ReallocAborts(p, size) ==
  pc = "run" /\ blocks[BlockOf(p)].size < size /\ OutOfMemory(size) /\ Abort

\* The C library moves the break for itself: the first printf does.
OtherSbrk ==
  /\ pc = "run"
  /\ brk < MemorySize
  /\ brk' = brk + 1
  /\ UNCHANGED <<blocks, mem, held, pc>>

Next ==
  \/ \E size \in Sizes \ {0} : (\E d \in Data : Malloc(size, d)) \/ MallocAborts(size)
  \/ \E p \in DOMAIN held :
       \/ Free(p)
       \/ \E size \in Sizes :
            ReallocInPlace(p, size) \/ ReallocMove(p, size) \/ ReallocAborts(p, size)
  \/ OtherSbrk

Spec == Init /\ [][Next]_vars

-----------------------------------------------------------------------------
(* Properties.                                                             *)

\* The values of the variables.
TypeOK ==
  /\ blocks \in Seq([addr : Nat, size : Nat, free : BOOLEAN])
  /\ brk \in 0 .. MemorySize
  /\ mem \in [Addresses -> Data \cup {0}]
  /\ DOMAIN held \subseteq Addresses
  /\ \A p \in DOMAIN held : held[p] \in [size : Sizes, data : Data, filled : Sizes]
  /\ pc \in {"run", "aborted"}

\* No two blocks share a byte and none goes past the break, whoever else moved
\* it: each block and its struct end before the next struct begins.
EndOf(block) == RealPtr(block) + block.size
BlocksApart ==
  \A i \in DOMAIN blocks :
    EndOf(blocks[i]) <= IF i = Len(blocks) THEN brk ELSE blocks[i + 1].addr

\* What the client holds is in a block of its own, large enough for what it
\* asked last, and still contains what the client wrote, also after a realloc
\* moved it and whatever else was freed or cleared.
HeldIntact ==
  \A p \in DOMAIN held :
    /\ \E i \in DOMAIN blocks :
         RealPtr(blocks[i]) = p /\ ~blocks[i].free /\ held[p].size <= blocks[i].size
    /\ \A n \in 0 .. held[p].filled - 1 : mem[p + n] = held[p].data

\* A block that is not free is held: after a realloc that moves, the old block
\* can be used again.
NoneLost == {RealPtr(b) : b \in {c \in ToSet(blocks) : ~c.free}} \subseteq DOMAIN held
=============================================================================

--------------------------------- MODULE GC ---------------------------------
(***************************************************************************)
(* The mark-and-sweep collector of gc-c/vm.c and the stack machine that    *)
(* calls it. The program on the machine pushes ints and pairs, pops, sets  *)
(* the fields of a pair it has on the stack and may ask for a collection   *)
(* or free the machine.                                                    *)
(*                                                                         *)
(* mark() is recursive: work holds the objects its pending calls still     *)
(* have to visit, next one first. How deep the C stack gets is left out.   *)
(* sweep() walks the list of all objects with a pointer to the link it is  *)
(* at: before and rest are the list up to and from that link. What is      *)
(* stored in an int or in freed memory is left out.                        *)
(***************************************************************************)
EXTENDS Integers, Sequences, SequencesExt

CONSTANTS
  Addr,              \* addresses malloc may return; it never runs out in C
  STACK_MAX,
  INIT_OBJ_NUM_MAX

ASSUME StackAssumption == STACK_MAX \in Nat \ {0}
ASSUME InitMaxAssumption == INIT_OBJ_NUM_MAX \in Nat \ {0}

VARIABLES
  stack,       \* stack[1 .. stackSize]
  heap,        \* what an object refers to: <<>> for an int, <<first, second>>
  before,      \* the list of all objects, up to sweep's position ...
  rest,        \* ... and from it on; all of it outside sweep
  marked,      \* the objects whose mark is set
  work,        \* calls of mark() still to make
  numObjects, maxObjects,
  pc,          \* "none": no VM; "run"; "mark", "sweep", "collected": in gc();
               \* "exited": an assert failed
  pending      \* the call gc() returns to: "int", "pair", "gc", "free" or "none"

machineVars == <<stack, heap>>
listVars == <<before, rest, numObjects, maxObjects>>
markVars == <<marked, work>>
controlVars == <<pc, pending>>
vars == <<stack, heap, before, rest, marked, work, numObjects, maxObjects, pc, pending>>

Objects == ToSet(before) \cup ToSet(rest)

\* Reachable is the least set that holds the stack and what its members refer to.
Closed(S) == ToSet(stack) \subseteq S /\ \A o \in S : ToSet(heap[o]) \subseteq S
Reachable == {o \in Addr : \A S \in SUBSET Addr : Closed(S) => o \in S}

Init ==
  /\ stack = <<>>
  /\ heap = [o \in Addr |-> <<>>]
  /\ before = <<>> /\ rest = <<>>
  /\ marked = {} /\ work = <<>>
  /\ numObjects = 0 /\ maxObjects = INIT_OBJ_NUM_MAX
  /\ pc = "none" /\ pending = "none"

NewVM ==
  /\ pc = "none"
  /\ pc' = "run" /\ pending' = "none"
  /\ stack' = <<>>
  /\ before' = <<>> /\ rest' = <<>>
  /\ numObjects' = 0 /\ maxObjects' = INIT_OBJ_NUM_MAX
  /\ UNCHANGED <<heap, marked, work>>

\* assert: prints and exits.
Exit == pc' = "exited" /\ UNCHANGED <<machineVars, listVars, markVars, pending>>

-----------------------------------------------------------------------------
(* gc().                                                                   *)

\* gc() starts with markAll on stack s.
StartGc(s, caller) ==
  /\ pc = "run"
  /\ pc' = "mark"
  /\ pending' = caller
  /\ work' = s
  /\ UNCHANGED <<heap, listVars, marked>>

\* Mutant of MarkObject: mark() visits the first object of a pair and looks at
\* the pair's mark after that.
MarkObjectAgain ==
  /\ pc = "mark" /\ work # <<>>
  /\ marked' = marked \cup {Head(work)}
  /\ work' = (IF Head(work) \in marked
              THEN SubSeq(heap[Head(work)], 1, Len(heap[Head(work)]) \div 2)
              ELSE heap[Head(work)]) \o Tail(work)
  /\ UNCHANGED <<machineVars, listVars, controlVars>>

\* Mutant of MarkObject: mark() forgets the second object of a pair.
MarkObjectFirst ==
  /\ pc = "mark" /\ work # <<>>
  /\ IF Head(work) \in marked
     THEN marked' = marked /\ work' = Tail(work)
     ELSE /\ marked' = marked \cup {Head(work)}
          /\ work' = SubSeq(heap[Head(work)], 1, Len(heap[Head(work)]) \div 2) \o Tail(work)
  /\ UNCHANGED <<machineVars, listVars, controlVars>>

\* One call of mark().
MarkObject ==
  /\ pc = "mark" /\ work # <<>>
  /\ IF Head(work) \in marked
     THEN marked' = marked /\ work' = Tail(work)
     ELSE marked' = marked \cup {Head(work)} /\ work' = heap[Head(work)] \o Tail(work)
  /\ UNCHANGED <<machineVars, listVars, controlVars>>

MarkEnd ==
  /\ pc = "mark" /\ work = <<>>
  /\ pc' = "sweep"
  /\ UNCHANGED <<machineVars, listVars, markVars, pending>>

\* sweep() unlinks and frees an object without a mark.
SweepFree ==
  /\ pc = "sweep" /\ rest # <<>>
  /\ Head(rest) \notin marked
  /\ rest' = Tail(rest)
  /\ heap' = [heap EXCEPT ![Head(rest)] = <<>>]
  /\ numObjects' = numObjects - 1
  /\ UNCHANGED <<stack, before, maxObjects, markVars, controlVars>>

\* Mutant of SweepKeep: the mark stays.
SweepKeepMarked ==
  /\ pc = "sweep" /\ rest # <<>>
  /\ Head(rest) \in marked
  /\ before' = Append(before, Head(rest))
  /\ rest' = Tail(rest)
  /\ UNCHANGED <<machineVars, markVars, numObjects, maxObjects, controlVars>>

\* sweep() clears a mark and moves on.
SweepKeep ==
  /\ pc = "sweep" /\ rest # <<>>
  /\ Head(rest) \in marked
  /\ marked' = marked \ {Head(rest)}
  /\ before' = Append(before, Head(rest))
  /\ rest' = Tail(rest)
  /\ UNCHANGED <<machineVars, work, numObjects, maxObjects, controlVars>>

\* Mutant of NextMax: the heap may not grow.
NextMaxSame(n) == IF n = 0 THEN INIT_OBJ_NUM_MAX ELSE n

\* The number of objects that starts the next collection.
NextMax(n) == IF n = 0 THEN INIT_OBJ_NUM_MAX ELSE n * 2

SweepEnd ==
  /\ pc = "sweep" /\ rest = <<>>
  /\ rest' = before /\ before' = <<>>
  /\ maxObjects' = NextMax(numObjects)
  /\ pc' = "collected"
  /\ UNCHANGED <<machineVars, markVars, numObjects, pending>>

-----------------------------------------------------------------------------
(* The machine's operations.                                               *)

\* newObject collects when the count meets the limit, once, and then allocates.
NeedsGc == numObjects = maxObjects
MayAllocate(caller) ==
  \/ pc = "run" /\ ~NeedsGc
  \/ pc = "collected" /\ pending = caller
NewObject(o, fields) ==
  /\ o \notin Objects
  /\ heap' = [heap EXCEPT ![o] = fields]
  /\ rest' = <<o>> \o rest
  /\ numObjects' = numObjects + 1
  /\ pc' = "run" /\ pending' = "none"
  /\ UNCHANGED <<before, maxObjects, markVars>>

CollectFirst(caller) ==
  /\ NeedsGc
  /\ StartGc(stack, caller)
  /\ UNCHANGED stack

\* Mutant of HasRoom: one past the stack.
HasRoomPast == Len(stack) <= STACK_MAX
\* The assert of push().
HasRoom == Len(stack) < STACK_MAX

PushInt(o) ==
  /\ MayAllocate("int")
  /\ HasRoom
  /\ NewObject(o, <<>>)
  /\ stack' = Append(stack, o)

PushOverflow == MayAllocate("int") /\ ~HasRoom /\ Exit

\* Mutant of PushPair: the first pop is the first field.
PushPairSwapped(o) ==
  LET n == Len(stack)
  IN /\ MayAllocate("pair")
     /\ n >= 2
     /\ NewObject(o, <<stack[n], stack[n - 1]>>)
     /\ stack' = Append(SubSeq(stack, 1, n - 2), o)

PushPair(o) ==
  LET n == Len(stack)
  IN /\ MayAllocate("pair")
     /\ n >= 2
     /\ NewObject(o, <<stack[n - 1], stack[n]>>)
     /\ stack' = Append(SubSeq(stack, 1, n - 2), o)

PushPairUnderflow == MayAllocate("pair") /\ Len(stack) < 2 /\ Exit

Pop ==
  /\ pc = "run"
  /\ stack # <<>>
  /\ stack' = Front(stack)
  /\ UNCHANGED <<heap, listVars, markVars, controlVars>>

PopUnderflow == pc = "run" /\ stack = <<>> /\ Exit

\* The program assigns a field of a pair, as test_pair2 does.
SetField(pair, o) ==
  /\ pc = "run"
  /\ heap[pair] # <<>>
  /\ \E fields \in {<<o, heap[pair][2]>>, <<heap[pair][1], o>>} :
        heap' = [heap EXCEPT ![pair] = fields]
  /\ UNCHANGED <<stack, listVars, markVars, controlVars>>

Collect == StartGc(stack, "gc") /\ UNCHANGED stack

\* freeVM empties the stack and collects.
FreeVM == StartGc(<<>>, "free") /\ stack' = <<>>

\* gc() returns to the program, or to freeVM, which frees the machine.
GcReturns ==
  /\ pc = "collected"
  /\ \/ pending = "gc" /\ pc' = "run"
     \/ pending = "free" /\ pc' = "none"
  /\ pending' = "none"
  /\ UNCHANGED <<machineVars, listVars, markVars>>

GcStep == MarkObject \/ MarkEnd \/ SweepFree \/ SweepKeep \/ SweepEnd

Next ==
  \/ NewVM
  \/ \E caller \in {"int", "pair"} : CollectFirst(caller)
  \/ \E o \in Addr : PushInt(o) \/ PushPair(o)
  \/ PushOverflow \/ PushPairUnderflow \/ PopUnderflow
  \/ Pop
  \/ \E pair, o \in ToSet(stack) : SetField(pair, o)
  \/ Collect
  \/ FreeVM
  \/ GcStep
  \/ GcReturns

Spec == Init /\ [][Next]_vars

\* A process inside gc() keeps running; what the program calls is its own choice.
FairSpec == Spec /\ WF_vars(GcStep)

-----------------------------------------------------------------------------
(* Properties.                                                             *)

\* The values of the variables; the stack stays within its array.
TypeOK ==
  /\ stack \in Seq(Addr) /\ Len(stack) <= STACK_MAX
  /\ heap \in [Addr -> {<<>>} \cup (Addr \X Addr)]
  /\ before \in Seq(Addr) /\ rest \in Seq(Addr)
  /\ marked \subseteq Addr /\ work \in Seq(Addr)
  /\ numObjects \in Nat /\ maxObjects \in Nat \ {0}
  /\ pc \in {"none", "run", "mark", "sweep", "collected", "exited"}
  /\ pending \in {"none", "int", "pair", "gc", "free"}

\* No object the program can still get at is freed, in the middle of a sweep
\* either: what the stack leads to is on the list of allocated objects.
ReachableAllocated == Reachable \subseteq Objects

\* After a collection nothing but what the stack leads to is left: cycles of
\* garbage go, and freeVM, whose stack is empty, frees every object.
GarbageCollected == pc = "collected" => Objects = Reachable

\* newObject compares numObjects and maxObjects with ==: a count that is wrong,
\* or a limit that is passed, would mean no collection ever again.
LimitNotPassed ==
  /\ numObjects = Len(before) + Len(rest)
  /\ pc = "run" => numObjects <= maxObjects
  /\ pc = "collected" => numObjects < maxObjects

\* What the invariants above rest on. Outside a sweep all that the objects refer
\* to is allocated. While mark() runs, everything a marked object or the stack
\* refers to is marked or still to be visited; while sweep() runs, what it has
\* passed and what is marked refer to each other only. Nothing that the stack
\* does not lead to is ever marked, and no object is on the list twice.
Kept == ToSet(before) \cup marked

ListInv ==
  /\ IsInjective(before) /\ IsInjective(rest)
  /\ ToSet(before) \cap ToSet(rest) = {}
  /\ pc # "sweep" => before = <<>>

MarkInv ==
  /\ pc \notin {"mark", "sweep"} => marked = {}
  /\ pc # "mark" => work = <<>>
  /\ pc = "mark" =>
       /\ ToSet(stack) \subseteq marked \cup ToSet(work)
       /\ \A o \in marked : ToSet(heap[o]) \subseteq marked \cup ToSet(work)
       /\ marked \cup ToSet(work) \subseteq Objects \cap Reachable

SweepInv ==
  /\ pc # "sweep" => Closed(Objects)
  /\ pc = "sweep" => Closed(Kept) /\ marked \subseteq ToSet(rest) /\ Kept \subseteq Reachable

GCInv == TypeOK /\ ListInv /\ MarkInv /\ SweepInv /\ GarbageCollected /\ LimitNotPassed

\* gc() ends, on cyclic data too: mark() does not chase a cycle for ever and
\* sweep() gets past every link of the list.
CollectionEnds == pc \in {"mark", "sweep"} ~> pc = "collected"

\* The collector is not to be seen by the program: its stack and what it leads
\* to change as if memory were never reclaimed (PairMachine).
Machine == INSTANCE PairMachine WITH
  graph <- [o \in Reachable |-> heap[o]],
  mode <- IF pc = "none" \/ pending = "free" THEN "none"
          ELSE IF pc = "exited" THEN "exited" ELSE "run"
ImplementsPairMachine == Machine!Spec
=============================================================================

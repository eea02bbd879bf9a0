---------------------------- MODULE PairMachine ----------------------------
(***************************************************************************)
(* What gc-c's virtual machine promises a program: a bounded stack of      *)
(* references to ints and pairs in a memory that keeps every object the    *)
(* stack leads to and is never collected.                                  *)
(***************************************************************************)
EXTENDS Integers, Sequences, SequencesExt

CONSTANTS Addr, STACK_MAX

VARIABLES
  stack,  \* references, the last one on top
  graph,  \* for each object the stack leads to, the objects it refers to
  mode    \* "none": no machine; "run"; "exited"

machineVars == <<stack, graph, mode>>

\* The part of graph g that stack s leads to.
Live(s, g) ==
  LET closed == {S \in SUBSET DOMAIN g :
                   ToSet(s) \subseteq S /\ \A o \in S : ToSet(g[o]) \subseteq S}
      live == {o \in DOMAIN g : \A S \in closed : o \in S}
  IN [o \in live |-> g[o]]

Init == stack = <<>> /\ graph = <<>> /\ mode = "none"

New == mode = "none" /\ mode' = "run" /\ UNCHANGED <<stack, graph>>

With(o, fields) == [p \in DOMAIN graph \cup {o} |-> IF p = o THEN fields ELSE graph[p]]

PushInt(o) ==
  /\ mode = "run" /\ Len(stack) < STACK_MAX
  /\ stack' = Append(stack, o)
  /\ graph' = With(o, <<>>)
  /\ UNCHANGED mode

PushPair(o) ==
  LET n == Len(stack)
  IN /\ mode = "run" /\ n >= 2
     /\ stack' = Append(SubSeq(stack, 1, n - 2), o)
     /\ graph' = With(o, SubSeq(stack, n - 1, n))
     /\ UNCHANGED mode

Pop ==
  /\ mode = "run" /\ stack # <<>>
  /\ stack' = Front(stack)
  /\ graph' = Live(Front(stack), graph)
  /\ UNCHANGED mode

SetField(pair, o) ==
  /\ mode = "run" /\ graph[pair] # <<>>
  /\ \E fields \in {<<o, graph[pair][2]>>, <<graph[pair][1], o>>} :
       graph' = Live(stack, [graph EXCEPT ![pair] = fields])
  /\ UNCHANGED <<stack, mode>>

Free ==
  /\ mode = "run"
  /\ mode' = "none" /\ stack' = <<>> /\ graph' = <<>>

\* A push on a full stack, a pop from an empty one or of a pair it does not have.
Fail ==
  /\ mode = "run"
  /\ Len(stack) < 2 \/ Len(stack) = STACK_MAX
  /\ mode' = "exited"
  /\ UNCHANGED <<stack, graph>>

Next ==
  \/ New
  \/ \E o \in Addr \ DOMAIN graph : PushInt(o) \/ PushPair(o)
  \/ Pop
  \/ \E pair, o \in ToSet(stack) : SetField(pair, o)
  \/ Free
  \/ Fail

Spec == Init /\ [][Next]_machineVars
=============================================================================

------------------------------ MODULE GCProofs ------------------------------
(***************************************************************************)
(* The collector of GC proved for every set of addresses, every stack size *)
(* and every first limit: GCInv is inductive, and the safety properties    *)
(* follow from it.                                                         *)
(***************************************************************************)
EXTENDS GC, SequenceTheorems, FiniteSetTheorems, TLAPS

-----------------------------------------------------------------------------
(* Sequences of addresses and the sets of their elements.                  *)

\* An element of a sequence is at one of its indices; a sequence without
\* repetition has it at one only.
LEMMA InToSet ==
  ASSUME NEW T, NEW s \in Seq(T)
  PROVE  /\ \A x : x \in ToSet(s) <=> \E i \in 1 .. Len(s) : s[i] = x
         /\ IsInjective(s) <=> \A i, j \in 1 .. Len(s) : s[i] = s[j] => i = j
         /\ ToSet(s) \subseteq T
<1>1. DOMAIN s = 1 .. Len(s) /\ \A i \in 1 .. Len(s) : s[i] \in T
  OBVIOUS
<1>2. ToSet(s) = {s[i] : i \in 1 .. Len(s)}
  BY <1>1, Zenon DEF ToSet
<1>3. IsInjective(s) <=> \A i, j \in 1 .. Len(s) : s[i] = s[j] => i = j
  BY <1>1, Zenon DEF IsInjective
<1> QED BY <1>1, <1>2, <1>3

\* What Append adds to a sequence.
LEMMA AppendToSet ==
  ASSUME NEW T, NEW s \in Seq(T), NEW e \in T
  PROVE  /\ Append(s, e) \in Seq(T) /\ Len(Append(s, e)) = Len(s) + 1
         /\ ToSet(Append(s, e)) = ToSet(s) \cup {e}
         /\ IsInjective(s) /\ e \notin ToSet(s) => IsInjective(Append(s, e))
<1> DEFINE t == Append(s, e)
<1>1. /\ t \in Seq(T) /\ Len(t) = Len(s) + 1 /\ Len(s) \in Nat
      /\ \A i \in 1 .. Len(s) : t[i] = s[i]
      /\ t[Len(s) + 1] = e
  OBVIOUS
<1> HIDE DEF t
<1>2. ASSUME NEW x PROVE x \in ToSet(t) <=> x \in ToSet(s) \cup {e}
  <2>1. x \in ToSet(t) <=> \E i \in 1 .. Len(s) + 1 : t[i] = x
    BY <1>1, InToSet
  <2>2. x \in ToSet(s) <=> \E i \in 1 .. Len(s) : s[i] = x
    BY InToSet
  <2> QED BY <1>1, <2>1, <2>2
<1>3. ASSUME IsInjective(s), e \notin ToSet(s) PROVE IsInjective(t)
  <2>1. \A i, j \in 1 .. Len(s) : s[i] = s[j] => i = j
    BY <1>3, InToSet
  <2>2. \A i \in 1 .. Len(s) : s[i] # e
    BY <1>3, InToSet
  <2>3. \A i, j \in 1 .. Len(s) + 1 : t[i] = t[j] => i = j
    BY <1>1, <2>1, <2>2
  <2> QED BY <1>1, <2>3, InToSet
<1> QED BY <1>1, <1>2, <1>3 DEF t

\* A sequence of one element in front of another.
LEMMA PrependToSet ==
  ASSUME NEW T, NEW s \in Seq(T), NEW e \in T
  PROVE  /\ <<e>> \o s \in Seq(T) /\ Len(<<e>> \o s) = Len(s) + 1
         /\ ToSet(<<e>> \o s) = {e} \cup ToSet(s)
         /\ IsInjective(s) /\ e \notin ToSet(s) => IsInjective(<<e>> \o s)
<1> DEFINE t == <<e>> \o s
<1>1. /\ t \in Seq(T) /\ Len(t) = Len(s) + 1 /\ Len(s) \in Nat
      /\ \A i \in 1 .. Len(s) : t[i + 1] = s[i]
      /\ t[1] = e
  OBVIOUS
<1> HIDE DEF t
<1>2. \A i \in 1 .. Len(s) + 1 : i = 1 \/ (i - 1 \in 1 .. Len(s) /\ t[i] = s[i - 1])
  BY <1>1
<1>3. ASSUME NEW x PROVE x \in ToSet(t) <=> x \in {e} \cup ToSet(s)
  <2>1. x \in ToSet(t) <=> \E i \in 1 .. Len(s) + 1 : t[i] = x
    BY <1>1, InToSet
  <2>2. x \in ToSet(s) <=> \E i \in 1 .. Len(s) : s[i] = x
    BY InToSet
  <2> QED BY <1>1, <1>2, <2>1, <2>2
<1>4. ASSUME IsInjective(s), e \notin ToSet(s) PROVE IsInjective(t)
  <2>1. \A i, j \in 1 .. Len(s) : s[i] = s[j] => i = j
    BY <1>4, InToSet
  <2>2. \A i \in 1 .. Len(s) : s[i] # e
    BY <1>4, InToSet
  <2>3. \A i \in 1 .. Len(s) + 1 : i = 1 \/ (t[i] = s[i - 1] /\ t[i] # e)
    BY <1>2, <2>2
  <2>4. ASSUME NEW i \in 1 .. Len(s) + 1, NEW j \in 1 .. Len(s) + 1, t[i] = t[j] PROVE i = j
    <3>1. CASE i = 1 \/ j = 1
      BY <1>1, <2>3, <2>4, <3>1
    <3>2. CASE i # 1 /\ j # 1
      <4>1. s[i - 1] = s[j - 1]
        BY <1>2, <2>4, <3>2
      <4>2. i - 1 = j - 1
        BY <1>2, <2>1, <3>2, <4>1
      <4> QED BY <4>2
    <3> QED BY <3>1, <3>2
  <2> QED BY <1>1, <2>4, InToSet
<1> QED BY <1>1, <1>3, <1>4 DEF t

\* The head and the tail of a sequence share its elements out.
LEMMA HeadTailToSet ==
  ASSUME NEW T, NEW s \in Seq(T), s # <<>>
  PROVE  /\ Head(s) \in T /\ Tail(s) \in Seq(T)
         /\ Len(Tail(s)) = Len(s) - 1 /\ Len(s) \in Nat \ {0}
         /\ ToSet(s) = {Head(s)} \cup ToSet(Tail(s))
         /\ IsInjective(s) => IsInjective(Tail(s)) /\ Head(s) \notin ToSet(Tail(s))
<1> DEFINE t == Tail(s)
<1>1. /\ Len(s) \in Nat \ {0} /\ Head(s) = s[1] /\ Head(s) \in T
      /\ t \in Seq(T) /\ Len(t) = Len(s) - 1
      /\ \A i \in 1 .. Len(s) - 1 : t[i] = s[i + 1]
  OBVIOUS
<1> HIDE DEF t
<1>2. \A i \in 1 .. Len(s) : i = 1 \/ (i - 1 \in 1 .. Len(s) - 1 /\ s[i] = t[i - 1])
  BY <1>1
<1>3. ASSUME NEW x PROVE x \in ToSet(s) <=> x \in {Head(s)} \cup ToSet(t)
  <2>1. x \in ToSet(t) <=> \E i \in 1 .. Len(s) - 1 : t[i] = x
    BY <1>1, InToSet
  <2>2. x \in ToSet(s) <=> \E i \in 1 .. Len(s) : s[i] = x
    BY InToSet
  <2> QED BY <1>1, <1>2, <2>1, <2>2
<1>4. ASSUME IsInjective(s) PROVE IsInjective(t) /\ Head(s) \notin ToSet(t)
  <2>1. \A i, j \in 1 .. Len(s) : s[i] = s[j] => i = j
    BY <1>4, InToSet
  <2>2. \A i \in 1 .. Len(s) - 1 : i + 1 \in 1 .. Len(s) /\ 1 \in 1 .. Len(s) /\ i + 1 # 1
    BY <1>1
  <2>3. \A i, j \in 1 .. Len(t) : t[i] = t[j] => i = j
    BY <1>1, <2>1, <2>2
  <2>4. \A i \in 1 .. Len(t) : t[i] # Head(s)
    BY <1>1, <2>1, <2>2
  <2> QED BY <1>1, <2>3, <2>4, InToSet
<1> QED BY <1>1, <1>3, <1>4 DEF t

\* The fields of an object are its two references or none.
LEMMA Fields ==
  ASSUME NEW f \in {<<>>} \cup (Addr \X Addr), NEW s \in Seq(Addr)
  PROVE  /\ f \o s \in Seq(Addr)
         /\ ToSet(f) \subseteq Addr
         /\ ToSet(f \o s) = ToSet(f) \cup ToSet(s)
<1>1. CASE f = <<>>
  BY <1>1 DEF ToSet
<1>2. CASE f \in Addr \X Addr
  <2>1. PICK a \in Addr, b \in Addr : f = <<a, b>>
    BY <1>2
  <2>2. f \o s = <<a>> \o (<<b>> \o s)
    <3> DEFINE l == <<a, b>> \o s
               r == <<a>> \o (<<b>> \o s)
    <3>1. /\ l \in Seq(Addr) /\ Len(l) = Len(s) + 2 /\ l[1] = a /\ l[2] = b
          /\ \A i \in 3 .. Len(s) + 2 : l[i] = s[i - 2]
      OBVIOUS
    <3>2. /\ r \in Seq(Addr) /\ Len(r) = Len(s) + 2 /\ r[1] = a /\ r[2] = b
          /\ \A i \in 3 .. Len(s) + 2 : r[i] = s[i - 2]
      OBVIOUS
    <3>3. l = r
      <4> HIDE DEF l, r
      <4>1. \A i \in 1 .. Len(s) + 2 : l[i] = r[i]
        BY <3>1, <3>2
      <4> QED BY <3>1, <3>2, <4>1, SeqEqual
    <3> QED BY <2>1, <3>3
  <2>3. ToSet(f) = {a, b}
    BY <2>1 DEF ToSet
  <2>4. <<b>> \o s \in Seq(Addr) /\ ToSet(<<b>> \o s) = {b} \cup ToSet(s)
    BY PrependToSet
  <2>5. f \o s \in Seq(Addr) /\ ToSet(f \o s) = {a} \cup ({b} \cup ToSet(s))
    <3> DEFINE u == <<b>> \o s
    <3>1. u \in Seq(Addr) /\ ToSet(u) = {b} \cup ToSet(s) /\ f \o s = <<a>> \o u
      BY <2>2, <2>4
    <3> HIDE DEF u
    <3> QED BY <3>1, PrependToSet
  <2> QED BY <2>3, <2>5
<1> QED BY <1>1, <1>2

\* The empty sequence has no element and repeats none.
LEMMA EmptyToSet == <<>> \in Seq(Addr) /\ ToSet(<<>>) = {} /\ IsInjective(<<>>) /\ Len(<<>>) = 0
BY DEF ToSet, IsInjective

-----------------------------------------------------------------------------
(* What the stack leads to.                                                *)

\* Reachable is a closed set, and within every other.
LEMMA ReachableLeast ==
  ASSUME TypeOK
  PROVE  /\ Reachable \subseteq Addr
         /\ Closed(Reachable)
         /\ \A S \in SUBSET Addr : Closed(S) => Reachable \subseteq S
<1>1. Reachable \subseteq Addr /\ \A S \in SUBSET Addr : Closed(S) => Reachable \subseteq S
  BY DEF Reachable
<1>2. ToSet(stack) \subseteq Reachable
  BY InToSet DEF Reachable, Closed, TypeOK
<1>3. ASSUME NEW o \in Reachable PROVE ToSet(heap[o]) \subseteq Reachable
  <2>1. o \in Addr /\ heap[o] \in {<<>>} \cup (Addr \X Addr)
    BY <1>1 DEF TypeOK
  <2>2. ToSet(heap[o]) \subseteq Addr
    BY <2>1, Fields, EmptyToSet
  <2>3. \A S \in SUBSET Addr : Closed(S) => ToSet(heap[o]) \subseteq S
    BY <1>1 DEF Closed
  <2> QED BY <2>2, <2>3 DEF Reachable
<1> QED BY <1>1, <1>2, <1>3 DEF Closed

-----------------------------------------------------------------------------
(* Each action keeps the invariant.                                        *)

\* A VM is set up with an empty stack and an empty list.
LEMMA NewVMKeeps == GCInv /\ NewVM => GCInv'
<1> SUFFICES ASSUME GCInv, NewVM PROVE GCInv'
  OBVIOUS
<1> USE EmptyToSet DEF GCInv, NewVM
<1>1. TypeOK'
  BY InitMaxAssumption, StackAssumption DEF TypeOK
<1>2. ListInv'
  BY DEF ListInv
<1>3. MarkInv'
  BY DEF MarkInv
<1>4. SweepInv'
  BY DEF SweepInv, Closed, Objects
<1>5. GarbageCollected' /\ LimitNotPassed'
  BY InitMaxAssumption DEF GarbageCollected, LimitNotPassed
<1> QED BY <1>1, <1>2, <1>3, <1>4, <1>5

\* An assert that fails ends the process with its memory as it was.
LEMMA ExitKeeps == GCInv /\ pc \in {"run", "collected"} /\ Exit => GCInv'
BY DEF GCInv, Exit, machineVars, listVars, markVars, TypeOK, ListInv, MarkInv, SweepInv,
       GarbageCollected, LimitNotPassed, Closed, Objects

\* A collection starts with the whole stack, or an empty one, to be visited.
LEMMA StartGcKeeps ==
  GCInv /\ (\/ \E caller \in {"int", "pair"} : CollectFirst(caller)
            \/ Collect \/ FreeVM) => GCInv'
<1> SUFFICES ASSUME GCInv, NEW caller \in {"int", "pair", "gc", "free"},
                    StartGc(stack', caller), stack' = stack \/ stack' = <<>>
             PROVE  GCInv'
  <2>1. ASSUME NEW caller \in {"int", "pair"}, CollectFirst(caller)
        PROVE  StartGc(stack', caller) /\ stack' = stack
    BY <2>1 DEF CollectFirst
  <2>2. Collect => StartGc(stack', "gc") /\ stack' = stack
    BY DEF Collect
  <2>3. FreeVM => StartGc(stack', "free") /\ stack' = <<>>
    BY DEF FreeVM
  <2> QED BY <2>1, <2>2, <2>3
<1> USE EmptyToSet DEF GCInv, StartGc, listVars
<1>1. TypeOK'
  <2>1. stack' \in Seq(Addr) /\ Len(stack') <= STACK_MAX
    <3>1. CASE stack' = stack
      BY <3>1 DEF TypeOK
    <3>2. CASE stack' = <<>>
      <4>1. stack' \in Seq(Addr) /\ Len(stack') = 0
        BY <3>2
      <4> QED BY <4>1, StackAssumption
    <3> QED BY <3>1, <3>2
  <2> QED BY <2>1 DEF TypeOK
<1>2. ListInv'
  BY DEF ListInv
<1>3. Objects' = Objects /\ ToSet(stack') \subseteq ToSet(stack) /\ Closed(Objects)
  BY DEF Objects, SweepInv
<1>4. SweepInv'
  BY <1>3 DEF SweepInv, Closed
<1>5. ToSet(stack') \subseteq Objects' \cap Reachable'
  <2>1. ToSet(stack') \subseteq Addr
    BY <1>1, InToSet DEF TypeOK
  <2>2. ToSet(stack') \subseteq Reachable'
    BY <2>1 DEF Reachable, Closed
  <2> QED BY <1>3, <2>2 DEF Closed
<1>6. MarkInv'
  BY <1>5 DEF MarkInv
<1>7. GarbageCollected' /\ LimitNotPassed'
  BY DEF GarbageCollected, LimitNotPassed
<1> QED BY <1>1, <1>2, <1>4, <1>6, <1>7

\* A call of mark() moves an object from the work to the marked, or finds it there.
LEMMA MarkObjectKeeps == GCInv /\ MarkObject => GCInv'
<1> SUFFICES ASSUME GCInv, MarkObject PROVE GCInv'
  OBVIOUS
<1> DEFINE o == Head(work)
<1>1. /\ pc = "mark" /\ work # <<>> /\ work \in Seq(Addr)
      /\ heap \in [Addr -> {<<>>} \cup (Addr \X Addr)]
      /\ UNCHANGED <<machineVars, listVars, controlVars>>
  BY DEF GCInv, TypeOK, MarkObject
<1>2. o \in Addr /\ Tail(work) \in Seq(Addr) /\ ToSet(work) = {o} \cup ToSet(Tail(work))
  BY <1>1, HeadTailToSet
<1>3. heap[o] \in {<<>>} \cup (Addr \X Addr)
  BY <1>1, <1>2
<1> HIDE DEF o
<1>4. \/ o \in marked /\ marked' = marked /\ work' = Tail(work) /\ ToSet(work') = ToSet(Tail(work))
      \/ /\ o \notin marked /\ marked' = marked \cup {o} /\ work' = heap[o] \o Tail(work)
         /\ ToSet(work') = ToSet(heap[o]) \cup ToSet(Tail(work))
  BY <1>2, <1>3, Fields DEF MarkObject, o
<1>5. work' \in Seq(Addr)
  BY <1>2, <1>3, <1>4, Fields
<1>6. TypeOK'
  BY <1>1, <1>2, <1>4, <1>5 DEF GCInv, TypeOK, machineVars, listVars, controlVars
<1>7. Objects' = Objects /\ Reachable' = Reachable
  BY <1>1 DEF Objects, Reachable, Closed, machineVars, listVars
<1>8. ListInv' /\ SweepInv' /\ GarbageCollected' /\ LimitNotPassed'
  BY <1>1, <1>7 DEF GCInv, ListInv, SweepInv, Closed, GarbageCollected, LimitNotPassed,
                    machineVars, listVars, controlVars
<1>9. MarkInv'
  <2>1. ToSet(stack') \subseteq marked' \cup ToSet(work')
    BY <1>1, <1>2, <1>4 DEF GCInv, MarkInv, machineVars
  <2>2. ASSUME NEW p \in marked' PROVE ToSet(heap'[p]) \subseteq marked' \cup ToSet(work')
    <3>1. CASE p \in marked
      BY <1>1, <1>2, <1>4, <3>1 DEF GCInv, MarkInv, machineVars
    <3>2. CASE p = o
      BY <1>1, <1>2, <1>4, <3>2 DEF GCInv, MarkInv, machineVars
    <3> QED BY <1>4, <3>1, <3>2
  <2>3. marked \cup ToSet(work) \subseteq Objects \cap Reachable
    BY <1>1 DEF GCInv, MarkInv
  <2>4. ToSet(heap[o]) \subseteq Objects \cap Reachable
    <3>1. Closed(Objects) /\ Closed(Reachable)
      BY <1>1, ReachableLeast DEF GCInv, SweepInv
    <3> QED BY <1>2, <2>3, <3>1 DEF Closed
  <2>5. marked' \cup ToSet(work') \subseteq Objects' \cap Reachable'
    BY <1>2, <1>4, <1>7, <2>3, <2>4
  <2> QED BY <1>1, <2>1, <2>2, <2>5 DEF MarkInv, controlVars
<1> QED BY <1>6, <1>8, <1>9 DEF GCInv

\* mark() has nothing left to visit: the marked objects are a closed set.
LEMMA MarkEndKeeps == GCInv /\ MarkEnd => GCInv'
<1> SUFFICES ASSUME GCInv, MarkEnd PROVE GCInv'
  OBVIOUS
<1>1. /\ pc = "mark" /\ pc' = "sweep" /\ work = <<>>
      /\ UNCHANGED <<machineVars, listVars, markVars, pending>>
  BY DEF MarkEnd
<1>2. /\ TypeOK' /\ ListInv' /\ GarbageCollected' /\ LimitNotPassed' /\ MarkInv'
  BY <1>1 DEF GCInv, TypeOK, ListInv, GarbageCollected, LimitNotPassed, MarkInv,
              machineVars, listVars, markVars
<1>3. before = <<>> /\ ToSet(before) = {} /\ ToSet(work) = {}
  BY <1>1, EmptyToSet DEF GCInv, ListInv
<1>4. /\ Objects' = ToSet(rest') /\ Kept' = marked' /\ Reachable' = Reachable
  BY <1>1, <1>3 DEF Objects, Kept, Reachable, Closed, machineVars, listVars, markVars
<1>5. SweepInv'
  BY <1>1, <1>3, <1>4 DEF GCInv, MarkInv, SweepInv, Closed, Objects,
                          machineVars, listVars, markVars
<1> QED BY <1>2, <1>5 DEF GCInv

\* sweep() frees the object at its position, which is not one of those it keeps.
LEMMA SweepFreeKeeps == GCInv /\ SweepFree => GCInv'
<1> SUFFICES ASSUME GCInv, SweepFree PROVE GCInv'
  OBVIOUS
<1> DEFINE h == Head(rest)
<1>1. /\ pc = "sweep" /\ rest # <<>> /\ h \notin marked
      /\ rest' = Tail(rest) /\ heap' = [heap EXCEPT ![h] = <<>>]
      /\ numObjects' = numObjects - 1
      /\ UNCHANGED <<stack, before, maxObjects, marked, work, pc, pending>>
  BY DEF SweepFree, markVars, controlVars
<1>2. /\ h \in Addr /\ Tail(rest) \in Seq(Addr) /\ Len(Tail(rest)) = Len(rest) - 1
      /\ Len(rest) \in Nat \ {0} /\ Len(before) \in Nat
      /\ ToSet(rest) = {h} \cup ToSet(Tail(rest))
      /\ IsInjective(Tail(rest)) /\ h \notin ToSet(Tail(rest))
  BY <1>1, HeadTailToSet DEF GCInv, TypeOK, ListInv
<1> HIDE DEF h
<1>3. h \notin ToSet(before)
  BY <1>2 DEF GCInv, ListInv
<1>4. /\ numObjects = Len(before) + Len(rest)
      /\ numObjects' = Len(before') + Len(rest') /\ numObjects' \in Nat
  BY <1>1, <1>2 DEF GCInv, LimitNotPassed
<1>5. TypeOK'
  <2>1. heap' \in [Addr -> {<<>>} \cup (Addr \X Addr)]
    BY <1>1 DEF GCInv, TypeOK
  <2> QED BY <1>1, <1>2, <1>4, <2>1 DEF GCInv, TypeOK
<1>6. ListInv' /\ MarkInv' /\ GarbageCollected' /\ LimitNotPassed'
  BY <1>1, <1>2, <1>3, <1>4 DEF GCInv, ListInv, MarkInv, GarbageCollected, LimitNotPassed
<1>7. /\ Kept' = Kept /\ h \notin Kept /\ Kept \subseteq Addr /\ Closed(Kept) /\ Kept \subseteq Reachable
      /\ \A o \in Addr : o # h => heap'[o] = heap[o]
  <2>1. Kept \subseteq Addr
    BY InToSet DEF GCInv, TypeOK, Kept
  <2> QED BY <1>1, <1>3, <2>1 DEF GCInv, TypeOK, SweepInv, Kept
<1>8. Closed(Kept)'
  BY <1>1, <1>7 DEF Closed
<1>9. Kept' \subseteq Reachable'
  <2>1. ASSUME NEW S \in SUBSET Addr, Closed(S)' PROVE Kept \subseteq S
    <3>1. Closed(S \cap Kept)
      BY <1>1, <1>7, <2>1 DEF Closed
    <3>2. Reachable \subseteq S \cap Kept
      BY <3>1 DEF Reachable
    <3> QED BY <1>7, <3>2
  <2>2. ASSUME NEW o \in Kept PROVE o \in Reachable'
    <3>1. \A S \in SUBSET Addr : Closed(S)' => o \in S
      BY <2>1
    <3> QED BY <1>7, <3>1 DEF Reachable
  <2> QED BY <1>7, <2>2
<1>10. marked' \subseteq ToSet(rest')
  BY <1>1, <1>2 DEF GCInv, SweepInv, h
<1>11. SweepInv'
  BY <1>1, <1>8, <1>9, <1>10 DEF SweepInv
<1> QED BY <1>5, <1>6, <1>11 DEF GCInv

\* sweep() passes an object it keeps: it is among the kept before and after.
LEMMA SweepKeepKeeps == GCInv /\ SweepKeep => GCInv'
<1> SUFFICES ASSUME GCInv, SweepKeep PROVE GCInv'
  OBVIOUS
<1> DEFINE h == Head(rest)
<1>1. /\ pc = "sweep" /\ rest # <<>> /\ h \in marked
      /\ marked' = marked \ {h} /\ rest' = Tail(rest) /\ before' = Append(before, h)
      /\ UNCHANGED <<stack, heap, work, numObjects, maxObjects, pc, pending>>
  BY DEF SweepKeep, machineVars, controlVars
<1>2. /\ h \in Addr /\ Tail(rest) \in Seq(Addr) /\ Len(Tail(rest)) = Len(rest) - 1
      /\ Len(rest) \in Nat \ {0} /\ Len(before) \in Nat
      /\ ToSet(rest) = {h} \cup ToSet(Tail(rest))
      /\ IsInjective(Tail(rest)) /\ h \notin ToSet(Tail(rest))
  BY <1>1, HeadTailToSet DEF GCInv, TypeOK, ListInv
<1> HIDE DEF h
<1>3. /\ before' \in Seq(Addr) /\ Len(before') = Len(before) + 1
      /\ ToSet(before') = ToSet(before) \cup {h} /\ IsInjective(before')
  BY <1>1, <1>2, AppendToSet DEF GCInv, TypeOK, ListInv
<1>4. TypeOK' /\ ListInv' /\ MarkInv' /\ GarbageCollected' /\ LimitNotPassed'
  BY <1>1, <1>2, <1>3 DEF GCInv, TypeOK, ListInv, MarkInv, GarbageCollected, LimitNotPassed
<1>5. Kept' = Kept /\ Reachable' = Reachable
  BY <1>1, <1>3 DEF Kept, Reachable, Closed
<1>6. SweepInv'
  BY <1>1, <1>2, <1>5 DEF GCInv, SweepInv, Closed
<1> QED BY <1>4, <1>6 DEF GCInv

\* At its end the list is what sweep() kept, and the limit is past its length.
LEMMA SweepEndKeeps == GCInv /\ SweepEnd => GCInv'
<1> SUFFICES ASSUME GCInv, SweepEnd PROVE GCInv'
  OBVIOUS
<1>1. /\ pc = "sweep" /\ pc' = "collected" /\ rest = <<>> /\ rest' = before /\ before' = <<>>
      /\ maxObjects' = NextMax(numObjects)
      /\ UNCHANGED <<stack, heap, marked, work, numObjects, pending>>
  BY DEF SweepEnd, machineVars, markVars
<1>2. NextMax(numObjects) \in Nat \ {0} /\ NextMax(numObjects) > numObjects
  BY InitMaxAssumption DEF NextMax, GCInv, TypeOK
<1>3. /\ marked = {} /\ Kept = ToSet(before) /\ Objects' = ToSet(before) /\ Reachable' = Reachable
      /\ Len(rest) = 0 /\ Len(before') = 0 /\ Len(before) \in Nat
  <2>1. ToSet(rest) = {} /\ ToSet(before') = {} /\ marked \subseteq ToSet(rest)
    BY <1>1, EmptyToSet DEF GCInv, SweepInv
  <2> QED BY <1>1, <2>1, EmptyToSet DEF Kept, Objects, Reachable, Closed, GCInv, TypeOK
<1>4. TypeOK' /\ ListInv' /\ MarkInv' /\ LimitNotPassed'
  BY <1>1, <1>2, <1>3, EmptyToSet DEF GCInv, TypeOK, ListInv, MarkInv, LimitNotPassed
<1>5. Closed(Kept) /\ Kept \subseteq Reachable /\ Kept \subseteq Addr
  BY <1>1, <1>3, InToSet DEF GCInv, SweepInv, TypeOK
<1>6. SweepInv'
  BY <1>1, <1>3, <1>5 DEF SweepInv, Closed
<1>7. GarbageCollected'
  BY <1>3, <1>5, ReachableLeast DEF GarbageCollected, GCInv
<1> QED BY <1>4, <1>6, <1>7 DEF GCInv

\* A new object refers to objects on the list and goes on the list itself.
LEMMA NewObjectKeeps ==
  ASSUME GCInv, NEW caller \in {"int", "pair"}, MayAllocate(caller),
         NEW o \in Addr, NEW fields \in {<<>>} \cup (Addr \X Addr), NewObject(o, fields),
         ToSet(fields) \subseteq Objects,
         stack' \in Seq(Addr), Len(stack') <= STACK_MAX, ToSet(stack') \subseteq Objects \cup {o}
  PROVE  GCInv'
<1>1. /\ pc \in {"run", "collected"} /\ numObjects < maxObjects
      /\ o \notin Objects
      /\ heap' = [heap EXCEPT ![o] = fields]
      /\ rest' = <<o>> \o rest /\ numObjects' = numObjects + 1
      /\ pc' = "run" /\ pending' = "none"
      /\ UNCHANGED <<before, maxObjects, marked, work>>
  BY DEF MayAllocate, NeedsGc, NewObject, markVars, GCInv, TypeOK, LimitNotPassed
<1>2. /\ before = <<>> /\ ToSet(before) = {} /\ marked = {} /\ work = <<>> /\ Closed(Objects)
      /\ Objects = ToSet(rest)
  BY <1>1, EmptyToSet DEF GCInv, ListInv, MarkInv, SweepInv, Objects
<1>3. /\ rest' \in Seq(Addr) /\ Len(rest') = Len(rest) + 1 /\ Len(rest) \in Nat /\ Len(before) \in Nat
      /\ ToSet(rest') = {o} \cup Objects /\ IsInjective(rest')
  BY <1>1, <1>2, PrependToSet DEF GCInv, TypeOK, ListInv
<1>4. heap' \in [Addr -> {<<>>} \cup (Addr \X Addr)]
  BY <1>1 DEF GCInv, TypeOK
<1>5. TypeOK' /\ ListInv' /\ MarkInv' /\ GarbageCollected' /\ LimitNotPassed'
  BY <1>1, <1>2, <1>3, <1>4 DEF GCInv, TypeOK, ListInv, MarkInv, GarbageCollected, LimitNotPassed
<1>6. Objects' = {o} \cup Objects /\ Objects \subseteq Addr
  BY <1>1, <1>2, <1>3, InToSet DEF Objects, GCInv, TypeOK
<1>7. \A p \in Objects' : ToSet(heap'[p]) \subseteq Objects'
  BY <1>1, <1>2, <1>6 DEF Closed, GCInv, TypeOK
<1>8. SweepInv'
  BY <1>1, <1>6, <1>7 DEF SweepInv, Closed
<1> QED BY <1>5, <1>8 DEF GCInv

\* The bottom of a stack holds elements of the stack only.
LEMMA BottomToSet ==
  ASSUME NEW s \in Seq(Addr), NEW n \in 0 .. Len(s)
  PROVE  /\ SubSeq(s, 1, n) \in Seq(Addr) /\ Len(SubSeq(s, 1, n)) = n
         /\ ToSet(SubSeq(s, 1, n)) \subseteq ToSet(s)
<1> DEFINE t == SubSeq(s, 1, n)
<1>1. t \in Seq(Addr) /\ Len(t) = n /\ \A i \in 1 .. n : t[i] = s[i] /\ i \in 1 .. Len(s)
  OBVIOUS
<1> HIDE DEF t
<1>2. ASSUME NEW x \in ToSet(t) PROVE x \in ToSet(s)
  BY <1>1, InToSet
<1> QED BY <1>1, <1>2 DEF t

\* An int goes on top of the stack.
LEMMA PushIntKeeps == ASSUME GCInv, NEW o \in Addr, PushInt(o) PROVE GCInv'
<1>1. /\ MayAllocate("int") /\ NewObject(o, <<>>)
      /\ stack' = Append(stack, o) /\ Len(stack) < STACK_MAX /\ stack \in Seq(Addr)
  BY DEF PushInt, HasRoom, GCInv, TypeOK
<1>2. pc # "sweep"
  BY <1>1 DEF MayAllocate
<1>3. /\ stack' \in Seq(Addr) /\ Len(stack') <= STACK_MAX
      /\ ToSet(stack') \subseteq Objects \cup {o}
  <2>1. /\ stack' \in Seq(Addr) /\ Len(stack') = Len(stack) + 1 /\ Len(stack) \in Nat
        /\ ToSet(stack') = ToSet(stack) \cup {o}
    BY <1>1, AppendToSet
  <2> QED BY <1>1, <1>2, <2>1, StackAssumption DEF GCInv, SweepInv, Closed
<1> QED BY <1>1, <1>3, NewObjectKeeps, EmptyToSet

\* A pair takes the place of the two objects it refers to.
LEMMA PushPairKeeps == ASSUME GCInv, NEW o \in Addr, PushPair(o) PROVE GCInv'
<1> DEFINE n == Len(stack)
           s == SubSeq(stack, 1, n - 2)
           a == stack[n - 1]
           b == stack[n]
<1>1. /\ MayAllocate("pair") /\ NewObject(o, <<a, b>>) /\ n >= 2 /\ n \in Nat
      /\ stack' = Append(s, o) /\ Len(stack) <= STACK_MAX /\ stack \in Seq(Addr)
  BY DEF PushPair, GCInv, TypeOK
<1>2. ToSet(stack) \subseteq Objects
  BY <1>1 DEF MayAllocate, GCInv, SweepInv, Closed
<1>3. a \in ToSet(stack) /\ b \in ToSet(stack) /\ a \in Addr /\ b \in Addr
  BY <1>1, InToSet
<1>4. s \in Seq(Addr) /\ Len(s) = n - 2 /\ ToSet(s) \subseteq ToSet(stack)
  BY <1>1, BottomToSet
<1> HIDE DEF s, a, b
<1>5. /\ stack' \in Seq(Addr) /\ Len(stack') = n - 1 /\ ToSet(stack') = ToSet(s) \cup {o}
  BY <1>1, <1>4, AppendToSet
<1>6. <<a, b>> \in {<<>>} \cup (Addr \X Addr) /\ ToSet(<<a, b>>) \subseteq Objects
  <2>1. ToSet(<<a, b>>) = {a, b}
    BY DEF ToSet
  <2> QED BY <1>2, <1>3, <2>1
<1>7. Len(stack') <= STACK_MAX /\ ToSet(stack') \subseteq Objects \cup {o}
  BY <1>1, <1>2, <1>4, <1>5, StackAssumption
<1> QED BY <1>1, <1>5, <1>6, <1>7, NewObjectKeeps

\* The program itself only drops references and copies those it has.
LEMMA PopKeeps == GCInv /\ Pop => GCInv'
<1> SUFFICES ASSUME GCInv, Pop PROVE GCInv'
  OBVIOUS
<1>1. /\ pc = "run" /\ stack # <<>> /\ stack \in Seq(Addr) /\ Len(stack) \in Nat \ {0}
      /\ stack' = SubSeq(stack, 1, Len(stack) - 1)
      /\ UNCHANGED <<heap, listVars, markVars, controlVars>>
  BY DEF Pop, Front, GCInv, TypeOK
<1>2. stack' \in Seq(Addr) /\ Len(stack') = Len(stack) - 1 /\ ToSet(stack') \subseteq ToSet(stack)
  <2>1. Len(stack) - 1 \in 0 .. Len(stack)
    BY <1>1
  <2> QED BY <1>1, <2>1, BottomToSet
<1>3. TypeOK' /\ ListInv' /\ MarkInv' /\ GarbageCollected' /\ LimitNotPassed'
  BY <1>1, <1>2, StackAssumption DEF GCInv, TypeOK, ListInv, MarkInv, GarbageCollected,
     LimitNotPassed, listVars, markVars, controlVars
<1>4. SweepInv'
  BY <1>1, <1>2 DEF GCInv, SweepInv, Closed, Objects, listVars, controlVars
<1> QED BY <1>3, <1>4 DEF GCInv

LEMMA SetFieldKeeps ==
  ASSUME GCInv, NEW pair \in ToSet(stack), NEW o \in ToSet(stack), SetField(pair, o)
  PROVE  GCInv'
<1>1. /\ pc = "run" /\ heap[pair] # <<>> /\ stack \in Seq(Addr)
      /\ heap \in [Addr -> {<<>>} \cup (Addr \X Addr)]
      /\ UNCHANGED <<stack, listVars, markVars, controlVars>>
  BY DEF SetField, GCInv, TypeOK
<1>2. Closed(Objects) /\ pair \in Objects /\ o \in Objects /\ pair \in Addr /\ o \in Addr
  BY <1>1, InToSet DEF GCInv, SweepInv, Closed
<1>3. PICK f \in {<<o, heap[pair][2]>>, <<heap[pair][1], o>>} : heap' = [heap EXCEPT ![pair] = f]
  BY DEF SetField
<1>4. PICK a \in Addr, b \in Addr : heap[pair] = <<a, b>>
  BY <1>1, <1>2
<1>5. a \in Objects /\ b \in Objects
  <2>1. ToSet(<<a, b>>) = {a, b}
    BY DEF ToSet
  <2> QED BY <1>2, <1>4, <2>1 DEF Closed
<1>6. f \in Addr \X Addr /\ ToSet(f) \subseteq Objects
  <2>1. f = <<o, b>> \/ f = <<a, o>>
    BY <1>3, <1>4
  <2>2. ToSet(<<o, b>>) = {o, b} /\ ToSet(<<a, o>>) = {a, o}
    BY DEF ToSet
  <2> QED BY <1>2, <1>5, <2>1, <2>2
<1>7. heap' \in [Addr -> {<<>>} \cup (Addr \X Addr)]
  BY <1>1, <1>3, <1>6
<1>8. TypeOK' /\ ListInv' /\ MarkInv' /\ GarbageCollected' /\ LimitNotPassed'
  BY <1>1, <1>7 DEF GCInv, TypeOK, ListInv, MarkInv, GarbageCollected,
     LimitNotPassed, listVars, markVars, controlVars
<1>9. Objects' = Objects /\ ToSet(stack') \subseteq Objects
  BY <1>1, <1>2 DEF Objects, Closed, listVars
<1>10. ASSUME NEW p \in Objects PROVE ToSet(heap'[p]) \subseteq Objects
  <2>1. p \in Addr
    BY InToSet DEF Objects, GCInv, TypeOK
  <2>2. heap'[p] = IF p = pair THEN f ELSE heap[p]
    BY <1>1, <1>3, <2>1
  <2> QED BY <1>2, <1>6, <2>2 DEF Closed
<1>11. SweepInv'
  BY <1>1, <1>9, <1>10 DEF SweepInv, Closed, controlVars
<1> QED BY <1>8, <1>11 DEF GCInv

LEMMA GcReturnsKeeps == GCInv /\ GcReturns => GCInv'
BY DEF GCInv, GcReturns, machineVars, listVars, markVars, TypeOK, ListInv, MarkInv, SweepInv,
       GarbageCollected, LimitNotPassed, Closed, Objects

\* A step that changes nothing.
LEMMA StutterKeeps == GCInv /\ UNCHANGED vars => GCInv'
BY DEF GCInv, vars, TypeOK, ListInv, MarkInv, SweepInv,
       GarbageCollected, LimitNotPassed, Closed, Objects, Kept, Reachable

-----------------------------------------------------------------------------
(* Theorems.                                                               *)

\* GCInv holds of every reachable state.
THEOREM CollectorInvariant == Spec => []GCInv
<1>1. Init => GCInv
  BY EmptyToSet, InitMaxAssumption, StackAssumption
     DEF Init, GCInv, TypeOK, ListInv, MarkInv, SweepInv, GarbageCollected, LimitNotPassed,
         Closed, Objects
<1>2. GCInv /\ [Next]_vars => GCInv'
  <2> SUFFICES ASSUME GCInv, [Next]_vars PROVE GCInv'
    OBVIOUS
  <2>1. CASE NewVM
    BY <2>1, NewVMKeeps
  <2>2. CASE (\E caller \in {"int", "pair"} : CollectFirst(caller)) \/ Collect \/ FreeVM
    BY <2>2, StartGcKeeps
  <2>3. ASSUME NEW o \in Addr, PushInt(o) \/ PushPair(o) PROVE GCInv'
    BY <2>3, PushIntKeeps, PushPairKeeps
  <2>4. CASE PushOverflow \/ PushPairUnderflow \/ PopUnderflow
    BY <2>4, ExitKeeps DEF PushOverflow, PushPairUnderflow, PopUnderflow, MayAllocate
  <2>5. CASE Pop
    BY <2>5, PopKeeps
  <2>6. ASSUME NEW pair \in ToSet(stack), NEW o \in ToSet(stack), SetField(pair, o) PROVE GCInv'
    BY <2>6, SetFieldKeeps
  <2>7. CASE GcStep
    BY <2>7, MarkObjectKeeps, MarkEndKeeps, SweepFreeKeeps, SweepKeepKeeps, SweepEndKeeps DEF GcStep
  <2>8. CASE GcReturns
    BY <2>8, GcReturnsKeeps
  <2>9. CASE UNCHANGED vars
    BY <2>9, StutterKeeps
  <2> QED BY <2>1, <2>2, <2>3, <2>4, <2>5, <2>6, <2>7, <2>8, <2>9 DEF Next
<1> QED BY <1>1, <1>2, PTL DEF Spec

\* The variables keep their types and the stack its bound.
THEOREM CollectorTypes == Spec => []TypeOK
<1>1. GCInv => TypeOK
  BY DEF GCInv
<1> QED BY <1>1, CollectorInvariant, PTL

\* No object the program can get at is ever freed.
THEOREM NothingReachableFreed == Spec => []ReachableAllocated
<1>1. GCInv => ReachableAllocated
  <2> SUFFICES ASSUME GCInv PROVE Reachable \subseteq Objects
    BY DEF ReachableAllocated
  <2>1. Objects \subseteq Addr
    BY InToSet DEF GCInv, TypeOK, Objects
  <2>2. CASE pc # "sweep"
    BY <2>1, <2>2, ReachableLeast DEF GCInv, SweepInv
  <2>3. CASE pc = "sweep"
    <3>1. Closed(Kept) /\ Kept \subseteq Objects
      BY <2>3 DEF GCInv, SweepInv, Kept, Objects
    <3> QED BY <2>1, <3>1, ReachableLeast DEF GCInv
  <2> QED BY <2>2, <2>3
<1> QED BY <1>1, CollectorInvariant, PTL

\* A collection leaves nothing that the stack does not lead to.
THEOREM AllGarbageCollected == Spec => []GarbageCollected
<1>1. GCInv => GarbageCollected
  BY DEF GCInv
<1> QED BY <1>1, CollectorInvariant, PTL

\* The count of objects is right and the limit is met before it is passed.
THEOREM LimitTriggersCollection == Spec => []LimitNotPassed
<1>1. GCInv => LimitNotPassed
  BY DEF GCInv
<1> QED BY <1>1, CollectorInvariant, PTL

\* A sequence has finitely many elements.
LEMMA FiniteToSet == ASSUME NEW T, NEW s \in Seq(T) PROVE IsFiniteSet(ToSet(s))
<1>1. Len(s) \in Nat /\ s \in [1 .. Len(s) -> T]
  OBVIOUS
<1>2. s \in [1 .. Len(s) -> ToSet(s)] /\ \A x \in ToSet(s) : \E i \in 1 .. Len(s) : s[i] = x
  BY <1>1, InToSet
<1>3. s \in Surjection(1 .. Len(s), ToSet(s))
  BY <1>2 DEF Surjection
<1>4. IsFiniteSet(1 .. Len(s))
  BY <1>1, FS_Interval
<1> QED BY <1>3, <1>4, FS_Surjection

\* A bound on the steps a collection has still to make: an object without a mark
\* is marked in one call of mark(), which asks for at most two more.
Unmarked == Objects \ marked
StepsLeft == IF pc = "mark" THEN 3 * Cardinality(Unmarked) + Len(work) + Len(rest) + 2
             ELSE IF pc = "sweep" THEN Len(rest) + 1
             ELSE 0

\* The bound is a number.
LEMMA StepsAreFinite ==
  ASSUME GCInv
  PROVE  /\ IsFiniteSet(Unmarked) /\ Cardinality(Unmarked) \in Nat
         /\ Len(work) \in Nat /\ Len(rest) \in Nat
         /\ StepsLeft \in Nat
<1>1. work \in Seq(Addr) /\ before \in Seq(Addr) /\ rest \in Seq(Addr)
  BY DEF GCInv, TypeOK
<1>2. IsFiniteSet(Objects)
  BY <1>1, FiniteToSet, FS_Union DEF Objects
<1>3. IsFiniteSet(Unmarked) /\ Cardinality(Unmarked) \in Nat
  BY <1>2, FS_Subset, FS_CardinalityType DEF Unmarked
<1>4. Len(work) \in Nat /\ Len(rest) \in Nat
  BY <1>1
<1> QED BY <1>3, <1>4 DEF StepsLeft

\* A call of mark() uses a step up: one that marks an object pays for the two
\* calls it makes, and one that finds a mark makes none.
LEMMA MarkObjectUsesStep == ASSUME GCInv, MarkObject PROVE StepsLeft' < StepsLeft
<1> DEFINE o == Head(work)
<1>1. /\ pc = "mark" /\ work # <<>> /\ work \in Seq(Addr)
      /\ heap \in [Addr -> {<<>>} \cup (Addr \X Addr)]
      /\ UNCHANGED <<before, rest, pc>>
  BY DEF GCInv, TypeOK, MarkObject, listVars, controlVars
<1>2. /\ o \in Addr /\ o \in Objects
      /\ Tail(work) \in Seq(Addr) /\ Len(Tail(work)) = Len(work) - 1
  BY <1>1, HeadTailToSet DEF GCInv, MarkInv
<1>3. heap[o] \in {<<>>} \cup (Addr \X Addr)
  BY <1>1, <1>2
<1> HIDE DEF o
<1>4. Len(heap[o] \o Tail(work)) <= Len(work) + 1
  <2>1. CASE heap[o] = <<>>
    BY <1>1, <1>2, <2>1
  <2>2. CASE heap[o] \in Addr \X Addr
    <3>1. PICK a \in Addr, b \in Addr : heap[o] = <<a, b>>
      BY <2>2
    <3>2. <<a, b>> \in Seq(Addr) /\ Len(<<a, b>>) = 2
      OBVIOUS
    <3>3. \A s, t \in Seq(Addr) : Len(s \o t) = Len(s) + Len(t)
      OBVIOUS
    <3> QED BY <1>1, <1>2, <3>1, <3>2, <3>3
  <2> QED BY <1>3, <2>1, <2>2
<1>5. Objects' = Objects
  BY <1>1 DEF Objects
<1>6. /\ IsFiniteSet(Unmarked) /\ Cardinality(Unmarked) \in Nat
      /\ Len(work) \in Nat /\ Len(rest) \in Nat
  BY StepsAreFinite
<1>7. \/ Unmarked' = Unmarked /\ Len(work') = Len(work) - 1
      \/ /\ o \in Unmarked /\ Unmarked' = Unmarked \ {o}
         /\ Len(work') <= Len(work) + 1 /\ Len(work') \in Nat
  <2>1. CASE o \in marked
    BY <1>2, <1>5, <2>1 DEF MarkObject, Unmarked, o
  <2>2. CASE o \notin marked
    <3>1. marked' = marked \cup {o} /\ work' = heap[o] \o Tail(work)
      BY <2>2 DEF MarkObject, o
    <3>2. work' \in Seq(Addr)
      BY <1>2, <1>3, <3>1, Fields
    <3>3. Len(work') \in Nat /\ Len(work') <= Len(work) + 1
      BY <1>4, <3>1, <3>2
    <3>4. o \in Unmarked /\ Unmarked' = Unmarked \ {o}
      BY <1>2, <1>5, <2>2, <3>1 DEF Unmarked
    <3> QED BY <3>3, <3>4
  <2> QED BY <2>1, <2>2
<1>8. \/ Cardinality(Unmarked') = Cardinality(Unmarked) /\ Len(work') = Len(work) - 1
      \/ /\ Cardinality(Unmarked') = Cardinality(Unmarked) - 1
         /\ Len(work') <= Len(work) + 1 /\ Len(work') \in Nat
  BY <1>6, <1>7, FS_RemoveElement
<1> QED BY <1>1, <1>6, <1>8 DEF StepsLeft

\* Inside gc() the process does nothing else, and what it does uses a step up.
LEMMA CollectionUsesStep ==
  ASSUME GCInv, Next, pc \in {"mark", "sweep"}
  PROVE  StepsLeft' < StepsLeft
<1>1. GcStep
  BY DEF Next, NewVM, CollectFirst, StartGc, PushInt, PushPair, PushOverflow,
    PushPairUnderflow, PopUnderflow, MayAllocate, Pop, SetField, Collect, FreeVM, GcReturns
<1>2. /\ Cardinality(Unmarked) \in Nat /\ Len(work) \in Nat /\ Len(rest) \in Nat
      /\ rest \in Seq(Addr)
  BY StepsAreFinite DEF GCInv, TypeOK
<1>3. CASE MarkObject
  BY <1>3, MarkObjectUsesStep
<1>4. CASE MarkEnd
  BY <1>2, <1>4 DEF MarkEnd, StepsLeft, listVars
<1>5. CASE SweepFree
  BY <1>2, <1>5, HeadTailToSet DEF SweepFree, StepsLeft, controlVars
<1>6. CASE SweepKeep
  BY <1>2, <1>6, HeadTailToSet DEF SweepKeep, StepsLeft, controlVars
<1>7. CASE SweepEnd
  BY <1>2, <1>7 DEF SweepEnd, StepsLeft
<1> QED BY <1>1, <1>3, <1>4, <1>5, <1>6, <1>7 DEF GcStep

\* A step from within a collection lowers the bound.
UsesStep == pc \in {"mark", "sweep"} => StepsLeft' < StepsLeft

\* A collection ends: while one runs, no other step is made and each step lowers
\* a number, so that mark() and sweep() together make at most StepsLeft steps,
\* whatever cycles the program has built.
THEOREM CollectionTerminates ==
  Spec => /\ [](StepsLeft \in Nat)
          /\ [][UsesStep]_vars
<1>1. GCInv => StepsLeft \in Nat
  BY StepsAreFinite
<1>2. GCInv /\ [Next]_vars => [UsesStep]_vars
  BY CollectionUsesStep DEF UsesStep
<1> QED BY <1>1, <1>2, CollectorInvariant, PTL DEF Spec

-----------------------------------------------------------------------------
(***************************************************************************)
(* The collector is not to be seen: every step of GC, those in the middle  *)
(* of a collection included, is a step of PairMachine or leaves it alone.  *)
(* A collection changes nothing that the stack leads to, and an operation  *)
(* changes it as in a memory that is never reclaimed.                      *)
(***************************************************************************)

\* What stack s leads to in memory h: Reachable is that of the machine's own.
Leads(s, h, S) == ToSet(s) \subseteq S /\ \A o \in S : ToSet(h[o]) \subseteq S
Reach(s, h) == {o \in Addr : \A S \in SUBSET Addr : Leads(s, h, S) => o \in S}
GraphOf(s, h) == [o \in Reach(s, h) |-> h[o]]
ModeOf(p, q) == IF p = "none" \/ q = "free" THEN "none"
                ELSE IF p = "exited" THEN "exited" ELSE "run"

Heaps == [Addr -> {<<>>} \cup (Addr \X Addr)]

\* A caller is remembered as long as gc() works for it; a machine that was freed
\* or is about to be has an empty stack.
PendingInv ==
  /\ pc \in {"none", "run"} => pending = "none"
  /\ pc \in {"mark", "sweep", "collected"} => pending # "none"
  /\ pc = "exited" => pending # "free"
  /\ pc = "none" \/ pending = "free" => stack = <<>>

-----------------------------------------------------------------------------
(* What a stack leads to.                                                  *)

\* It is closed, and within every other closed set.
LEMMA ReachFacts ==
  ASSUME NEW s \in Seq(Addr), NEW h \in Heaps
  PROVE  /\ Reach(s, h) \subseteq Addr
         /\ Leads(s, h, Reach(s, h))
         /\ \A S \in SUBSET Addr : Leads(s, h, S) => Reach(s, h) \subseteq S
<1>1. Reach(s, h) \subseteq Addr /\ \A S \in SUBSET Addr : Leads(s, h, S) => Reach(s, h) \subseteq S
  BY DEF Reach
<1>2. ToSet(s) \subseteq Reach(s, h)
  BY InToSet DEF Reach, Leads
<1>3. ASSUME NEW o \in Reach(s, h) PROVE ToSet(h[o]) \subseteq Reach(s, h)
  <2>1. o \in Addr /\ h[o] \in {<<>>} \cup (Addr \X Addr)
    BY <1>1 DEF Heaps
  <2>2. ToSet(h[o]) \subseteq Addr
    BY <2>1, Fields, EmptyToSet
  <2>3. \A S \in SUBSET Addr : Leads(s, h, S) => ToSet(h[o]) \subseteq S
    BY <1>1 DEF Leads
  <2> QED BY <2>2, <2>3 DEF Reach
<1> QED BY <1>1, <1>2, <1>3 DEF Leads

\* Reachable is the same for the machine's own stack and memory.
LEMMA ReachableIsReach == Reachable = Reach(stack, heap)
BY DEF Reachable, Reach, Closed, Leads

\* A set that both memories agree on, and that each stack leads to the same in,
\* leaves what is led to as it is.
LEMMA SameReach ==
  ASSUME NEW s \in Seq(Addr), NEW h \in Heaps, NEW g \in Heaps,
         NEW D \in SUBSET Addr, Leads(s, h, D), \A o \in D : g[o] = h[o]
  PROVE  Reach(s, g) = Reach(s, h) /\ GraphOf(s, g) = GraphOf(s, h)
<1>1. Leads(s, g, D)
  BY DEF Leads
<1>2. Reach(s, h) \subseteq D /\ Reach(s, g) \subseteq D
  BY <1>1, ReachFacts
<1>3. Leads(s, g, Reach(s, h)) /\ Leads(s, h, Reach(s, g))
  BY <1>2, ReachFacts DEF Leads
<1>4. Reach(s, g) = Reach(s, h)
  <2>1. Reach(s, g) \subseteq Reach(s, h)
    BY <1>3, ReachFacts
  <2>2. Reach(s, h) \subseteq Reach(s, g)
    BY <1>3, ReachFacts
  <2> QED BY <2>1, <2>2
<1>5. \A o \in Reach(s, h) : g[o] = h[o]
  BY <1>2
<1> QED BY <1>4, <1>5 DEF GraphOf

\* An empty stack leads to nothing.
LEMMA EmptyReach ==
  ASSUME NEW h \in Heaps
  PROVE  Reach(<<>>, h) = {} /\ GraphOf(<<>>, h) = <<>>
<1>1. Leads(<<>>, h, {})
  BY EmptyToSet DEF Leads
<1>2. Reach(<<>>, h) = {}
  BY <1>1, ReachFacts, EmptyToSet
<1>3. GraphOf(<<>>, h) = [o \in {} |-> h[o]]
  BY <1>2 DEF GraphOf
<1>4. \A f : f = [o \in {} |-> h[o]] => f = <<>>
  OBVIOUS
<1> QED BY <1>2, <1>3, <1>4

\* PairMachine drops what a shorter stack or an assigned field no longer leads
\* to: what is left of a part of memory that refers to itself only is what the
\* stack leads to in all of it.
LEMMA LiveIsReach ==
  ASSUME NEW s \in Seq(Addr), NEW h \in Heaps, NEW D \in SUBSET Addr, Leads(s, h, D)
  PROVE  Machine!Live(s, [o \in D |-> h[o]]) = GraphOf(s, h)
<1> DEFINE g == [o \in D |-> h[o]]
           closed == {S \in SUBSET DOMAIN g :
                        ToSet(s) \subseteq S /\ \A o \in S : ToSet(g[o]) \subseteq S}
           live == {o \in DOMAIN g : \A S \in closed : o \in S}
<1>1. DOMAIN g = D /\ \A o \in D : g[o] = h[o]
  OBVIOUS
<1>2. Machine!Live(s, g) = [o \in live |-> g[o]]
  BY Zenon DEF Machine!Live, Machine!ToSet, ToSet
<1> HIDE DEF g
<1>3. \A S : S \in closed <=> S \subseteq D /\ Leads(s, h, S)
  BY <1>1 DEF Leads
<1>4. \A o : o \in live <=> o \in D /\ \A S \in closed : o \in S
  BY <1>1
<1> HIDE DEF closed, live
<1>5. Reach(s, h) \in closed /\ Reach(s, h) \subseteq D
  BY <1>3, ReachFacts
<1>6. live \subseteq Reach(s, h)
  BY <1>4, <1>5
<1>7. Reach(s, h) \subseteq live
  <2> SUFFICES ASSUME NEW S \in closed PROVE Reach(s, h) \subseteq S
    BY <1>4, <1>5
  <2> QED BY <1>3, ReachFacts
<1>8. live = Reach(s, h) /\ \A o \in live : g[o] = h[o]
  BY <1>1, <1>5, <1>6, <1>7
<1>9. [o \in live |-> g[o]] = GraphOf(s, h)
  BY <1>8 DEF GraphOf
<1> QED BY <1>2, <1>9 DEF g

\* Memory g with object o added.
Extended(g, o, f) == [p \in DOMAIN g \cup {o} |-> IF p = o THEN f ELSE g[p]]

\* A new object that takes the place of the objects it refers to, or of none:
\* the stack then leads to it and to what it led to before.
LEMMA PushReach ==
  ASSUME NEW s \in Seq(Addr), NEW h \in Heaps, NEW o \in Addr, o \notin Reach(s, h),
         NEW t \in Seq(Addr), NEW f \in {<<>>} \cup (Addr \X Addr),
         ToSet(t) \subseteq ToSet(s) \cup {o}, o \in ToSet(t),
         ToSet(f) \subseteq ToSet(s), ToSet(s) \subseteq ToSet(t) \cup ToSet(f),
         NEW g \in Heaps, g[o] = f, \A p \in Addr : p # o => g[p] = h[p]
  PROVE  GraphOf(t, g) = Extended(GraphOf(s, h), o, f)
<1> DEFINE R == Reach(s, h)
<1>1. R \subseteq Addr /\ Leads(s, h, R) /\ \A S \in SUBSET Addr : Leads(s, h, S) => R \subseteq S
  BY ReachFacts
<1> HIDE DEF R
<1>2. o \notin R
  BY DEF R
<1>3. Leads(t, g, R \cup {o})
  <2>1. ToSet(t) \subseteq R \cup {o} /\ ToSet(f) \subseteq R
    BY <1>1 DEF Leads
  <2>2. \A p \in R : ToSet(g[p]) \subseteq R
    BY <1>1, <1>2 DEF Leads
  <2> QED BY <2>1, <2>2 DEF Leads
<1>4. ASSUME NEW S \in SUBSET Addr, Leads(t, g, S) PROVE R \cup {o} \subseteq S
  <2>1. o \in S /\ ToSet(f) \subseteq S /\ ToSet(s) \subseteq S
    BY <1>4 DEF Leads
  <2>2. \A p \in S \cap R : ToSet(h[p]) \subseteq S \cap R
    BY <1>1, <1>2, <1>4 DEF Leads
  <2>3. Leads(s, h, S \cap R)
    BY <1>1, <2>1, <2>2 DEF Leads
  <2>4. R \subseteq S \cap R
    BY <1>1, <2>3
  <2> QED BY <2>1, <2>4
<1>5. Reach(t, g) = R \cup {o}
  <2>1. Reach(t, g) \subseteq R \cup {o}
    BY <1>1, <1>3, ReachFacts
  <2>2. R \cup {o} \subseteq Reach(t, g)
    BY <1>1, <1>4 DEF Reach
  <2> QED BY <2>1, <2>2
<1>6. DOMAIN GraphOf(s, h) = R /\ \A p \in R : GraphOf(s, h)[p] = h[p]
  BY DEF GraphOf, R
<1>7. \A p \in R \cup {o} : g[p] = IF p = o THEN f ELSE GraphOf(s, h)[p]
  BY <1>1, <1>2, <1>6
<1>8. GraphOf(t, g) = [p \in R \cup {o} |-> g[p]]
  BY <1>5 DEF GraphOf
<1> QED BY <1>6, <1>7, <1>8 DEF Extended

-----------------------------------------------------------------------------
(* The machine that the program sees.                                      *)

Graph == GraphOf(stack, heap)
Mode == ModeOf(pc, pending)

\* These are what PairMachine's variables stand for, before and after a step.
LEMMA MachineIs ==
  /\ [o \in Reachable |-> heap[o]] = Graph
  /\ ([o \in Reachable |-> heap[o]])' = Graph'
  /\ DOMAIN Graph = Reachable /\ \A o \in Reachable : Graph[o] = heap[o]
<1>1. Reachable = Reach(stack, heap) /\ Reachable' = Reach(stack', heap')
  BY DEF Reachable, Reach, Closed, Leads
<1> QED BY <1>1 DEF Graph, GraphOf

\* Whether there is a machine, as PairMachine has it.
LEMMA ModeIs ==
  /\ (IF pc = "none" \/ pending = "free" THEN "none"
      ELSE IF pc = "exited" THEN "exited" ELSE "run") = Mode
  /\ (IF pc = "none" \/ pending = "free" THEN "none"
      ELSE IF pc = "exited" THEN "exited" ELSE "run")' = Mode'
BY DEF Mode, ModeOf

\* The types the steps below use.
LEMMA TypesOfGC ==
  ASSUME GCInv
  PROVE  stack \in Seq(Addr) /\ heap \in Heaps /\ Reachable \subseteq Addr
BY ReachableLeast DEF GCInv, TypeOK, Heaps

\* A step that leaves the program's view alone.
Unseen == stack' = stack /\ Graph' = Graph /\ Mode' = Mode
\* To PairMachine it is no step.
LEMMA UnseenStutters == Unseen => UNCHANGED Machine!machineVars
BY MachineIs, ModeIs DEF Unseen, Machine!machineVars

\* A step of the program counter alone changes no reference.
LEMMA SameMemory == ASSUME UNCHANGED <<stack, heap>> PROVE Graph' = Graph
BY DEF Graph

-----------------------------------------------------------------------------
(* Collections.                                                            *)

\* sweep() frees an object that the stack does not lead to.
LEMMA SweepFreeUnseen == ASSUME GCInv, SweepFree PROVE Unseen
<1> DEFINE h == Head(rest)
<1>1. /\ pc = "sweep" /\ rest # <<>> /\ h \notin marked
      /\ heap' = [heap EXCEPT ![h] = <<>>]
      /\ UNCHANGED <<stack, pc, pending>>
  BY DEF SweepFree, markVars, controlVars
<1>2. h \in Addr /\ h \notin Kept
  BY <1>1, HeadTailToSet DEF GCInv, TypeOK, ListInv, Kept
<1> HIDE DEF h
<1>3. Kept \in SUBSET Addr /\ Leads(stack, heap, Kept)
  BY <1>1, InToSet DEF GCInv, TypeOK, SweepInv, Closed, Leads, Kept
<1>4. /\ stack \in Seq(Addr) /\ heap \in Heaps /\ heap' \in Heaps
      /\ \A o \in Kept : heap'[o] = heap[o]
  BY <1>1, <1>2, <1>3, TypesOfGC DEF Heaps
<1>5. GraphOf(stack, heap') = GraphOf(stack, heap)
  BY <1>3, <1>4, SameReach
<1> QED BY <1>1, <1>5 DEF Unseen, Graph, Mode

\* The rest of a collection, from the call of gc() on, changes no reference.
LEMMA CollectionUnseen ==
  ASSUME GCInv, PendingInv,
         \/ \E caller \in {"int", "pair"} : CollectFirst(caller)
         \/ Collect \/ MarkObject \/ MarkEnd \/ SweepKeep \/ SweepEnd \/ GcReturns
  PROVE  Unseen
<1>1. UNCHANGED <<stack, heap>>
  BY DEF CollectFirst, Collect, StartGc, MarkObject, MarkEnd, SweepKeep, SweepEnd, GcReturns, machineVars
<1>2. Mode' = Mode
  BY DEF CollectFirst, Collect, StartGc, MarkObject, MarkEnd, SweepKeep, SweepEnd, GcReturns,
         controlVars, Mode, ModeOf, PendingInv
<1> QED BY <1>1, <1>2, SameMemory DEF Unseen

-----------------------------------------------------------------------------
(* The machine's operations.                                               *)

\* newVM starts with the empty stack that the last machine, if any, left.
LEMMA NewVMSeen == ASSUME GCInv, PendingInv, NewVM PROVE Machine!New
<1>1. UNCHANGED <<stack, heap>>
  BY DEF NewVM, PendingInv
<1>2. Mode = "none" /\ Mode' = "run"
  BY DEF NewVM, Mode, ModeOf
<1> QED BY <1>1, <1>2, SameMemory, MachineIs, ModeIs DEF Machine!New

\* The object that is pushed is none that the stack leads to.
LEMMA NewObjectSeen ==
  ASSUME GCInv, PendingInv, NEW caller \in {"int", "pair"}, MayAllocate(caller),
         NEW o \in Addr, NEW f \in {<<>>} \cup (Addr \X Addr), NewObject(o, f),
         stack' \in Seq(Addr), ToSet(stack') \subseteq ToSet(stack) \cup {o}, o \in ToSet(stack'),
         ToSet(f) \subseteq ToSet(stack), ToSet(stack) \subseteq ToSet(stack') \cup ToSet(f)
  PROVE  /\ o \notin DOMAIN Graph /\ Mode = "run" /\ Mode' = "run"
         /\ Graph' = Extended(Graph, o, f)
<1>1. pc \in {"run", "collected"} /\ pending \in {"none", "int", "pair"}
  BY DEF MayAllocate, PendingInv
<1>2. Mode = "run" /\ Mode' = "run"
  BY <1>1 DEF Mode, ModeOf, NewObject
<1>3. Closed(Objects) /\ Objects \subseteq Addr
  BY <1>1, InToSet DEF GCInv, SweepInv, TypeOK, Objects
<1>4. o \notin Reachable
  BY <1>3, ReachableLeast DEF NewObject, GCInv
<1>5. o \notin Reach(stack, heap) /\ stack \in Seq(Addr) /\ heap \in Heaps
  BY <1>4, ReachableIsReach, TypesOfGC
<1>6. heap' \in Heaps /\ heap'[o] = f /\ \A p \in Addr : p # o => heap'[p] = heap[p]
  BY <1>5 DEF NewObject, Heaps
<1>7. GraphOf(stack', heap') = Extended(GraphOf(stack, heap), o, f)
  BY <1>5, <1>6, PushReach
<1>8. o \notin DOMAIN Graph
  BY <1>4, MachineIs
<1> QED BY <1>2, <1>7, <1>8 DEF Graph

\* An int goes on top of the stack.
LEMMA PushIntSeen ==
  ASSUME GCInv, PendingInv, NEW o \in Addr, PushInt(o)
  PROVE  o \notin DOMAIN Graph /\ Machine!PushInt(o)
<1>1. /\ MayAllocate("int") /\ NewObject(o, <<>>)
      /\ stack' = Append(stack, o) /\ Len(stack) < STACK_MAX /\ stack \in Seq(Addr)
  BY DEF PushInt, HasRoom, GCInv, TypeOK
<1>2. stack' \in Seq(Addr) /\ ToSet(stack') = ToSet(stack) \cup {o} /\ ToSet(<<>>) = {}
  BY <1>1, AppendToSet, EmptyToSet
<1>3. /\ o \notin DOMAIN Graph /\ Mode = "run" /\ Mode' = "run"
      /\ Graph' = Extended(Graph, o, <<>>)
  BY <1>1, <1>2, NewObjectSeen
<1> QED BY <1>1, <1>3, MachineIs, ModeIs DEF Machine!PushInt, Machine!With, Extended

\* A pair takes the place of the two objects it refers to.
LEMMA PushPairSeen ==
  ASSUME GCInv, PendingInv, NEW o \in Addr, PushPair(o)
  PROVE  o \notin DOMAIN Graph /\ Machine!PushPair(o)
<1> DEFINE n == Len(stack)
           s == SubSeq(stack, 1, n - 2)
           a == stack[n - 1]
           b == stack[n]
<1>1. /\ MayAllocate("pair") /\ NewObject(o, <<a, b>>) /\ n >= 2 /\ n \in Nat
      /\ stack' = Append(s, o) /\ stack \in Seq(Addr)
  BY DEF PushPair, GCInv, TypeOK
<1>2. a \in ToSet(stack) /\ b \in ToSet(stack) /\ a \in Addr /\ b \in Addr
  BY <1>1, InToSet
<1>3. s \in Seq(Addr) /\ ToSet(s) \subseteq ToSet(stack)
  BY <1>1, BottomToSet
<1>4. ToSet(stack) \subseteq ToSet(s) \cup {a, b}
  <2>1. Len(s) = n - 2 /\ \A i \in 1 .. n - 2 : s[i] = stack[i]
    BY <1>1
  <2> SUFFICES ASSUME NEW i \in 1 .. n PROVE stack[i] \in ToSet(s) \cup {a, b}
    BY <1>1, InToSet
  <2>2. CASE i \in 1 .. n - 2
    <3> HIDE DEF s
    <3>1. s[i] \in ToSet(s)
      BY <1>3, <2>1, <2>2, InToSet
    <3> QED BY <2>1, <2>2, <3>1
  <2>3. CASE i = n - 1 \/ i = n
    BY <1>1, <2>3
  <2> QED BY <1>1, <2>2, <2>3
<1>5. stack' \in Seq(Addr) /\ ToSet(stack') = ToSet(s) \cup {o}
  <2> HIDE DEF s, a, b
  <2> QED BY <1>1, <1>3, AppendToSet
<1>6. <<a, b>> \in {<<>>} \cup (Addr \X Addr) /\ ToSet(<<a, b>>) = {a, b}
  BY <1>2 DEF ToSet
<1>7. SubSeq(stack, n - 1, n) = <<a, b>>
  <2> DEFINE t == SubSeq(stack, n - 1, n)
  <2>1. t \in Seq(Addr) /\ Len(t) = 2 /\ t[1] = a /\ t[2] = b
    BY <1>1
  <2> HIDE DEF t
  <2>2. t = <<t[1], t[2]>>
    BY <2>1
  <2> QED BY <2>1, <2>2 DEF t
<1> HIDE DEF s, a, b
<1>8. /\ o \notin DOMAIN Graph /\ Mode = "run" /\ Mode' = "run"
      /\ Graph' = Extended(Graph, o, <<a, b>>)
  BY <1>1, <1>2, <1>3, <1>4, <1>5, <1>6, NewObjectSeen
<1> QED BY <1>1, <1>7, <1>8, MachineIs, ModeIs DEF Machine!PushPair, Machine!With, Extended, s

\* An assert fails where PairMachine may fail.
LEMMA ExitSeen ==
  ASSUME GCInv, PendingInv, PushOverflow \/ PushPairUnderflow \/ PopUnderflow
  PROVE  Machine!Fail
<1>1. UNCHANGED <<stack, heap>>
  BY DEF PushOverflow, PushPairUnderflow, PopUnderflow, Exit, machineVars
<1>2. Mode = "run" /\ Mode' = "exited"
  BY DEF PushOverflow, PushPairUnderflow, PopUnderflow, Exit, MayAllocate, PendingInv, Mode, ModeOf
<1>3. Len(stack) < 2 \/ Len(stack) = STACK_MAX
  BY StackAssumption, EmptyToSet
     DEF PushOverflow, PushPairUnderflow, PopUnderflow, HasRoom, GCInv, TypeOK
<1> QED BY <1>1, <1>2, <1>3, SameMemory, MachineIs, ModeIs DEF Machine!Fail

\* What only the popped reference led to is out of the program's reach at once.
LEMMA PopSeen == ASSUME GCInv, PendingInv, Pop PROVE Machine!Pop
<1>1. /\ pc = "run" /\ stack # <<>> /\ stack \in Seq(Addr) /\ Len(stack) \in Nat \ {0}
      /\ stack' = SubSeq(stack, 1, Len(stack) - 1)
      /\ UNCHANGED <<heap, pc, pending>>
  BY DEF Pop, Front, controlVars, GCInv, TypeOK
<1>2. stack' \in Seq(Addr) /\ ToSet(stack') \subseteq ToSet(stack)
  <2>1. Len(stack) - 1 \in 0 .. Len(stack)
    BY <1>1
  <2> QED BY <1>1, <2>1, BottomToSet
<1>3. Reachable \in SUBSET Addr /\ Leads(stack', heap, Reachable) /\ heap \in Heaps
  BY <1>2, ReachableLeast, TypesOfGC DEF Closed, Leads, GCInv
<1>4. Machine!Live(stack', [o \in Reachable |-> heap[o]]) = GraphOf(stack', heap)
  BY <1>2, <1>3, LiveIsReach
<1>5. Mode = "run" /\ Mode' = Mode
  BY <1>1 DEF Mode, ModeOf, PendingInv
<1>6. Graph' = Machine!Live(stack', [o \in Reachable |-> heap[o]])
  BY <1>1, <1>4 DEF Graph
<1>7. Machine!Front(stack) = stack'
  BY <1>1 DEF Machine!Front
<1> QED BY <1>1, <1>5, <1>6, <1>7, MachineIs, ModeIs DEF Machine!Pop

\* So is what only the overwritten field led to.
LEMMA SetFieldSeen ==
  ASSUME GCInv, PendingInv, NEW pair \in ToSet(stack), NEW o \in ToSet(stack), SetField(pair, o)
  PROVE  Machine!SetField(pair, o)
<1>1. /\ pc = "run" /\ heap[pair] # <<>> /\ stack \in Seq(Addr) /\ heap \in Heaps
      /\ UNCHANGED <<stack, pc, pending>>
  BY TypesOfGC DEF SetField, controlVars
<1>2. /\ Reachable \in SUBSET Addr /\ Leads(stack, heap, Reachable)
      /\ pair \in Reachable /\ o \in Reachable
  BY ReachableLeast DEF GCInv, Closed, Leads
<1>3. PICK f \in {<<o, heap[pair][2]>>, <<heap[pair][1], o>>} : heap' = [heap EXCEPT ![pair] = f]
  BY DEF SetField
<1>4. PICK a \in Addr, b \in Addr : heap[pair] = <<a, b>>
  BY <1>1, <1>2 DEF Heaps
<1>5. ToSet(<<a, b>>) = {a, b} /\ ToSet(<<o, b>>) = {o, b} /\ ToSet(<<a, o>>) = {a, o}
  BY DEF ToSet
<1>6. f \in Addr \X Addr /\ ToSet(f) \subseteq Reachable
  <2>1. f = <<o, b>> \/ f = <<a, o>>
    BY <1>3, <1>4
  <2>2. a \in Reachable /\ b \in Reachable
    BY <1>2, <1>4, <1>5 DEF Leads
  <2> QED BY <1>2, <1>5, <2>1, <2>2
<1>7. heap' \in Heaps /\ Leads(stack, heap', Reachable)
  BY <1>1, <1>2, <1>3, <1>6 DEF Heaps, Leads
<1>8. Machine!Live(stack, [p \in Reachable |-> heap'[p]]) = Graph'
  BY <1>1, <1>2, <1>7, LiveIsReach DEF Graph
<1>9. [p \in Reachable |-> heap'[p]] = [Graph EXCEPT ![pair] = f]
  <2>1. DOMAIN Graph = Reachable /\ \A p \in Reachable : Graph[p] = heap[p]
    BY MachineIs
  <2>2. \A p \in Reachable : heap'[p] = IF p = pair THEN f ELSE heap[p]
    BY <1>1, <1>2, <1>3 DEF Heaps
  <2> QED BY <2>1, <2>2
<1>10. Mode = "run" /\ Mode' = Mode
  BY <1>1 DEF Mode, ModeOf, PendingInv
<1>11. Graph[pair] = heap[pair]
  BY <1>2, MachineIs
<1>12. /\ f \in {<<o, Graph[pair][2]>>, <<Graph[pair][1], o>>}
       /\ Graph' = Machine!Live(stack, [Graph EXCEPT ![pair] = f])
  BY <1>3, <1>8, <1>9, <1>11
<1> QED BY <1>1, <1>10, <1>11, <1>12, MachineIs, ModeIs DEF Machine!SetField

\* freeVM gives the whole machine up, although its objects are freed later.
LEMMA FreeVMSeen == ASSUME GCInv, PendingInv, FreeVM PROVE Machine!Free
<1>1. pc = "run" /\ pc' = "mark" /\ pending' = "free" /\ stack' = <<>> /\ heap' = heap /\ heap \in Heaps
  BY TypesOfGC DEF FreeVM, StartGc
<1>2. Graph' = <<>>
  BY <1>1, EmptyReach DEF Graph
<1>3. Mode = "run" /\ Mode' = "none"
  BY <1>1 DEF Mode, ModeOf, PendingInv
<1> QED BY <1>1, <1>2, <1>3, MachineIs, ModeIs DEF Machine!Free

-----------------------------------------------------------------------------
(* The refinement.                                                         *)

\* There is no machine in the beginning.
LEMMA InitSeen == Init => PendingInv /\ Machine!Init
<1> SUFFICES ASSUME Init PROVE PendingInv /\ Machine!Init
  OBVIOUS
<1>1. PendingInv /\ Mode = "none"
  BY DEF Init, PendingInv, Mode, ModeOf
<1>2. stack = <<>> /\ heap \in Heaps
  BY DEF Init, Heaps
<1>3. Graph = <<>>
  BY <1>2, EmptyReach DEF Graph
<1> QED BY <1>1, <1>2, <1>3, MachineIs, ModeIs DEF Machine!Init

\* PendingInv is inductive.
LEMMA PendingKept == PendingInv /\ [Next]_vars => PendingInv'
<1> SUFFICES ASSUME PendingInv, [Next]_vars PROVE PendingInv'
  OBVIOUS
<1> USE DEF PendingInv
<1>1. CASE NewVM
  BY <1>1 DEF NewVM
<1>2. CASE (\E caller \in {"int", "pair"} : CollectFirst(caller)) \/ Collect \/ FreeVM
  BY <1>2 DEF CollectFirst, Collect, FreeVM, StartGc
<1>3. ASSUME NEW o \in Addr, PushInt(o) \/ PushPair(o) PROVE PendingInv'
  BY <1>3 DEF PushInt, PushPair, NewObject
<1>4. CASE PushOverflow \/ PushPairUnderflow \/ PopUnderflow
  BY <1>4 DEF PushOverflow, PushPairUnderflow, PopUnderflow, Exit, MayAllocate, machineVars
<1>5. CASE Pop
  BY <1>5 DEF Pop, controlVars
<1>6. ASSUME NEW pair \in ToSet(stack), NEW o \in ToSet(stack), SetField(pair, o) PROVE PendingInv'
  BY <1>6 DEF SetField, controlVars
<1>7. CASE GcStep
  BY <1>7 DEF GcStep, MarkObject, MarkEnd, SweepFree, SweepKeep, SweepEnd, controlVars, machineVars
<1>8. CASE GcReturns
  BY <1>8 DEF GcReturns, machineVars
<1>9. CASE UNCHANGED vars
  BY <1>9 DEF vars
<1> QED BY <1>1, <1>2, <1>3, <1>4, <1>5, <1>6, <1>7, <1>8, <1>9 DEF Next

\* Every step is a step of PairMachine or none.
LEMMA NextSeen == GCInv /\ PendingInv /\ [Next]_vars => [Machine!Next]_(Machine!machineVars)
<1> SUFFICES ASSUME GCInv, PendingInv, [Next]_vars
             PROVE  Machine!Next \/ UNCHANGED Machine!machineVars
  OBVIOUS
<1>1. CASE NewVM
  BY <1>1, NewVMSeen DEF Machine!Next
<1>2. CASE FreeVM
  BY <1>2, FreeVMSeen DEF Machine!Next
<1>3. ASSUME NEW o \in Addr, PushInt(o) \/ PushPair(o) PROVE Machine!Next
  <2>1. o \notin DOMAIN Graph /\ (Machine!PushInt(o) \/ Machine!PushPair(o))
    BY <1>3, PushIntSeen, PushPairSeen
  <2>2. o \in Addr \ DOMAIN [p \in Reachable |-> heap[p]]
    BY <2>1, MachineIs
  <2> QED BY <2>1, <2>2, Zenon DEF Machine!Next
<1>4. CASE PushOverflow \/ PushPairUnderflow \/ PopUnderflow
  BY <1>4, ExitSeen DEF Machine!Next
<1>5. CASE Pop
  BY <1>5, PopSeen DEF Machine!Next
<1>6. ASSUME NEW pair \in ToSet(stack), NEW o \in ToSet(stack), SetField(pair, o) PROVE Machine!Next
  <2>1. Machine!SetField(pair, o)
    BY <1>6, SetFieldSeen
  <2>2. pair \in Machine!ToSet(stack) /\ o \in Machine!ToSet(stack)
    BY DEF Machine!ToSet, ToSet
  <2> QED BY <2>1, <2>2, Zenon DEF Machine!Next
<1>7. CASE SweepFree
  BY <1>7, SweepFreeUnseen, UnseenStutters
<1>8. CASE \/ \E caller \in {"int", "pair"} : CollectFirst(caller)
           \/ Collect \/ MarkObject \/ MarkEnd \/ SweepKeep \/ SweepEnd \/ GcReturns
  BY <1>8, CollectionUnseen, UnseenStutters
<1>9. CASE UNCHANGED vars
  <2>1. Unseen
    BY <1>9, SameMemory DEF vars, Unseen, Mode
  <2> QED BY <2>1, UnseenStutters
<1> QED BY <1>1, <1>2, <1>3, <1>4, <1>5, <1>6, <1>7, <1>8, <1>9 DEF Next, GcStep

\* The collector implements the machine without one: its program cannot tell
\* that gc() ever ran, in whatever step it was called.
THEOREM CollectorUnseen == Spec => ImplementsPairMachine
<1>1. Spec => []GCInv
  BY CollectorInvariant
<1>2. Init => PendingInv /\ Machine!Init
  BY InitSeen
<1> QED BY <1>1, <1>2, PendingKept, NextSeen, PTL DEF Spec, ImplementsPairMachine, Machine!Spec

=============================================================================

---------------------------- MODULE MallocProofs ----------------------------
(***************************************************************************)
(* Proofs about MiniMalloc, for every size of memory, of a block's struct  *)
(* and of the requests, and any number of blocks.                          *)
(***************************************************************************)
EXTENDS MiniMalloc, SequenceTheorems, WellFoundedInduction, TLAPS

Block == [addr : Nat, size : Nat, free : BOOLEAN]

\* Blocks lie one behind the other below the break. BlocksApart says so of
\* neighbours; of any two, it can be used without going through those between.
Apart(bs, b) ==
  /\ bs \in Seq(Block)
  /\ \A i \in DOMAIN bs : EndOf(bs[i]) <= b
  /\ \A i, j \in DOMAIN bs : i < j => EndOf(bs[i]) <= bs[j].addr

\* A pointer and what the client knows of it.
Owned(bs, p, size) ==
  \E i \in DOMAIN bs : RealPtr(bs[i]) = p /\ ~bs[i].free /\ size <= bs[i].size
Holding == [size : Sizes, data : Data, filled : Sizes]
Intact(m, p, h) == h.filled <= h.size /\ \A n \in 0 .. h.filled - 1 : m[p + n] = h.data

MallocInv ==
  /\ Apart(blocks, brk) /\ brk \in 0 .. MemorySize
  /\ mem \in [Addresses -> Data \cup {0}]
  /\ pc \in {"run", "aborted"}
  /\ DOMAIN held \subseteq Addresses
  /\ \A p \in DOMAIN held :
       held[p] \in Holding /\ Owned(blocks, p, held[p].size) /\ Intact(mem, p, held[p])
  /\ \A i \in DOMAIN blocks : ~blocks[i].free => RealPtr(blocks[i]) \in DOMAIN held

-----------------------------------------------------------------------------
(* The list of blocks.                                                     *)

LEMMA MinFacts ==
  ASSUME NEW S, S \subseteq Nat, S # {}
  PROVE  Min(S) \in S
<1> DEFINE R == OpToRel(<, Nat)
<1>1. IsWellFoundedOn(R, Nat)
  BY NatLessThanWellFounded
<1>2. \A x, y \in Nat : x < y => <<x, y>> \in R
  BY DEF OpToRel
<1> HIDE DEF R
<1>3. PICK x \in S : \A y \in S : ~ (<<y, x>> \in R)
  BY <1>1, WFMin
<1>4. ASSUME NEW y \in S PROVE x <= y
  <2>1. x \in Nat /\ y \in Nat
    OBVIOUS
  <2>2. ~ (y < x)
    BY <1>2, <1>3, <2>1
  <2> QED BY <2>1, <2>2
<1> QED BY <1>4 DEF Min

\* find_free_block finds a free block that is large enough, or none.
LEMMA FoundFacts ==
  ASSUME blocks \in Seq(Block), NEW size, FindFreeBlock(size) # 0
  PROVE  LET i == FindFreeBlock(size)
         IN i \in DOMAIN blocks /\ blocks[i].free /\ blocks[i].size >= size
<1> DEFINE I == {i \in 1 .. Len(blocks) : blocks[i].free /\ blocks[i].size >= size}
<1>1. FindFreeBlock(size) = IF I # {} THEN Min(I) ELSE 0
  BY DEF FindFreeBlock, SelectInSeq
<1>2. I \subseteq Nat
  OBVIOUS
<1>3. I # {} /\ Min(I) = FindFreeBlock(size)
  BY <1>1
<1>4. Min(I) \in I
  BY <1>2, <1>3, MinFacts
<1> QED BY <1>3, <1>4

LEMMA BlockFacts ==
  ASSUME NEW bs \in Seq(Block), NEW i \in DOMAIN bs
  PROVE  /\ bs[i] \in Block /\ i \in Nat
         /\ RealPtr(bs[i]) = bs[i].addr + META_SIZE
         /\ EndOf(bs[i]) = RealPtr(bs[i]) + bs[i].size
         /\ RealPtr(bs[i]) \in Nat /\ EndOf(bs[i]) \in Nat
         /\ bs[i].addr < RealPtr(bs[i])
<1>1. i \in 1 .. Len(bs) /\ bs[i] \in Block
  BY ElementOfSeq
<1> QED BY <1>1, MetaAssumption DEF Block, RealPtr, EndOf

\* Two blocks share no byte, nor a pointer.
LEMMA TwoBlocks ==
  ASSUME NEW bs, NEW b, Apart(bs, b), NEW i \in DOMAIN bs, NEW j \in DOMAIN bs, i # j
  PROVE  /\ EndOf(bs[i]) < RealPtr(bs[j]) \/ EndOf(bs[j]) < RealPtr(bs[i])
         /\ RealPtr(bs[i]) # RealPtr(bs[j])
<1>1. bs \in Seq(Block)
  BY DEF Apart
<1>2. i < j \/ j < i
  BY <1>1, BlockFacts
<1>3. EndOf(bs[i]) <= bs[j].addr \/ EndOf(bs[j]) <= bs[i].addr
  BY <1>2 DEF Apart
<1>4. /\ bs[i].addr \in Nat /\ bs[j].addr \in Nat /\ bs[i].size \in Nat /\ bs[j].size \in Nat
      /\ EndOf(bs[i]) = RealPtr(bs[i]) + bs[i].size /\ EndOf(bs[j]) = RealPtr(bs[j]) + bs[j].size
      /\ RealPtr(bs[i]) \in Nat /\ RealPtr(bs[j]) \in Nat
      /\ bs[i].addr < RealPtr(bs[i]) /\ bs[j].addr < RealPtr(bs[j])
  BY <1>1, BlockFacts DEF Block
<1> QED BY <1>3, <1>4

\* A block changes hands, and nothing else does.
LEMMA MarkFacts ==
  ASSUME NEW bs, NEW b, Apart(bs, b), NEW i \in DOMAIN bs, NEW f \in BOOLEAN
  PROVE  LET c == [bs EXCEPT ![i].free = f]
         IN /\ Apart(c, b) /\ DOMAIN c = DOMAIN bs
            /\ \A j \in DOMAIN bs : RealPtr(c[j]) = RealPtr(bs[j]) /\ c[j].size = bs[j].size
            /\ c[i].free = f
            /\ \A j \in DOMAIN bs : j # i => c[j] = bs[j]
<1> DEFINE c == [bs EXCEPT ![i].free = f]
<1>1. bs \in Seq(Block) /\ i \in 1 .. Len(bs) /\ bs[i] \in Block
  BY BlockFacts DEF Apart
<1>2. [bs[i] EXCEPT !.free = f] \in Block
  BY <1>1 DEF Block
<1>3. /\ c \in Seq(Block) /\ Len(c) = Len(bs) /\ DOMAIN c = DOMAIN bs
      /\ c[i] = [bs[i] EXCEPT !.free = f]
      /\ \A j \in DOMAIN bs : j # i => c[j] = bs[j]
  BY <1>1, <1>2, ExceptSeq
<1> HIDE DEF c
<1>4. /\ c[i].addr = bs[i].addr /\ c[i].size = bs[i].size /\ c[i].free = f
  BY <1>1, <1>3 DEF Block
<1>5. \A j \in DOMAIN bs :
        /\ c[j].addr = bs[j].addr /\ c[j].size = bs[j].size
        /\ RealPtr(c[j]) = RealPtr(bs[j]) /\ EndOf(c[j]) = EndOf(bs[j])
  BY <1>3, <1>4 DEF RealPtr, EndOf
<1>6. Apart(c, b)
  BY <1>3, <1>5 DEF Apart
<1> QED BY <1>3, <1>4, <1>5, <1>6 DEF c

\* What my_malloc leaves: the block it returns was free or is new, and is the only
\* one that changed.
LEMMA AllocatedFacts ==
  ASSUME MallocInv, NEW size \in Nat, ~OutOfMemory(size)
  PROVE  LET got == Allocated(size)
         IN \E i \in DOMAIN got.blocks :
              /\ Apart(got.blocks, got.brk) /\ got.brk \in 0 .. MemorySize
              /\ RealPtr(got.blocks[i]) = got.ptr /\ ~got.blocks[i].free
              /\ size <= got.blocks[i].size
              /\ got.ptr \notin DOMAIN held
              /\ DOMAIN got.blocks = DOMAIN blocks \cup {i}
              /\ \A j \in DOMAIN blocks : j # i => got.blocks[j] = blocks[j]
              /\ i \in DOMAIN blocks => blocks[i].free
<1> DEFINE got == Allocated(size)
<1>1. /\ Apart(blocks, brk) /\ blocks \in Seq(Block)
      /\ brk \in 0 .. MemorySize /\ MemorySize \in Nat /\ META_SIZE \in Nat
  BY MetaAssumption, MemoryAssumption DEF MallocInv, Apart
<1>2. CASE FindFreeBlock(size) # 0
  <2> DEFINE i == FindFreeBlock(size)
  <2>1. i \in DOMAIN blocks /\ blocks[i].free /\ blocks[i].size >= size
    BY <1>1, <1>2, FoundFacts
  <2>2. /\ got.blocks = [blocks EXCEPT ![i].free = FALSE]
        /\ got.brk = brk /\ got.ptr = RealPtr(blocks[i])
    BY <1>2 DEF Allocated
  <2> HIDE DEF i, got
  <2>3. /\ Apart(got.blocks, brk) /\ DOMAIN got.blocks = DOMAIN blocks
        /\ \A j \in DOMAIN blocks :
             RealPtr(got.blocks[j]) = RealPtr(blocks[j]) /\ got.blocks[j].size = blocks[j].size
        /\ got.blocks[i].free = FALSE
        /\ \A j \in DOMAIN blocks : j # i => got.blocks[j] = blocks[j]
    <3> DEFINE c == [blocks EXCEPT ![i].free = FALSE]
    <3>1. /\ Apart(c, brk) /\ DOMAIN c = DOMAIN blocks
          /\ \A j \in DOMAIN blocks :
               RealPtr(c[j]) = RealPtr(blocks[j]) /\ c[j].size = blocks[j].size
          /\ c[i].free = FALSE
          /\ \A j \in DOMAIN blocks : j # i => c[j] = blocks[j]
      BY <1>1, <2>1, MarkFacts
    <3> HIDE DEF c
    <3> QED BY <2>2, <3>1 DEF c
  <2>4. got.ptr \notin DOMAIN held
    <3> SUFFICES ASSUME got.ptr \in DOMAIN held PROVE FALSE
      OBVIOUS
    <3>1. PICK j \in DOMAIN blocks : RealPtr(blocks[j]) = got.ptr /\ ~blocks[j].free
      BY DEF MallocInv, Owned
    <3> QED BY <1>1, <2>1, <2>2, <3>1, TwoBlocks
  <2>5. size <= got.blocks[i].size
    <3>1. blocks[i].size \in Nat
      BY <1>1, <2>1, BlockFacts DEF Block
    <3> QED BY <2>1, <2>3, <3>1
  <2> QED BY <1>1, <2>1, <2>2, <2>3, <2>4, <2>5 DEF got
<1>3. CASE FindFreeBlock(size) = 0
  <2> DEFINE new == NewBlock(size)
             i == Len(blocks) + 1
             bs == Append(blocks, new)
  <2>1. /\ got.blocks = bs /\ got.brk = brk + size + META_SIZE /\ got.ptr = RealPtr(new)
    BY <1>3 DEF Allocated, NewBreak
  <2>2. brk + size + META_SIZE <= MemorySize
    BY <1>1, <1>3 DEF OutOfMemory
  <2>3. /\ new \in Block /\ new.addr = brk /\ new.size = size /\ new.free = FALSE
        /\ RealPtr(new) = brk + META_SIZE /\ EndOf(new) = brk + META_SIZE + size
    BY <1>1 DEF NewBlock, Block, RealPtr, EndOf
  <2> HIDE DEF new, got
  <2>4. /\ bs \in Seq(Block) /\ DOMAIN blocks = 1 .. Len(blocks) /\ Len(blocks) \in Nat
        /\ Len(bs) = Len(blocks) + 1 /\ DOMAIN bs = DOMAIN blocks \cup {i}
        /\ bs[i] = new /\ \A j \in DOMAIN blocks : bs[j] = blocks[j]
    <3>1. /\ bs \in Seq(Block) /\ Len(bs) = Len(blocks) + 1 /\ bs[i] = new
          /\ \A j \in 1 .. Len(blocks) : bs[j] = blocks[j]
      BY <1>1, <2>3, AppendProperties
    <3>2. /\ Len(blocks) \in Nat /\ DOMAIN blocks = 1 .. Len(blocks)
          /\ DOMAIN bs = 1 .. Len(blocks) + 1
      BY <1>1, <3>1, LenProperties
    <3> QED BY <3>1, <3>2
  <2> HIDE DEF bs, i
  <2>5. \A j \in DOMAIN blocks : EndOf(blocks[j]) <= brk /\ EndOf(blocks[j]) \in Nat
    BY <1>1, BlockFacts DEF Apart
  <2>6. \A j \in DOMAIN bs : EndOf(bs[j]) <= got.brk
    BY <1>1, <2>1, <2>3, <2>4, <2>5
  <2>7. ASSUME NEW j \in DOMAIN bs, NEW k \in DOMAIN bs, j < k
        PROVE  EndOf(bs[j]) <= bs[k].addr
    <3>1. j \in DOMAIN blocks
      BY <2>4, <2>7 DEF i
    <3>2. CASE k = i
      BY <2>3, <2>4, <2>5, <3>1, <3>2
    <3>3. CASE k \in DOMAIN blocks
      BY <1>1, <2>4, <2>7, <3>1, <3>3 DEF Apart
    <3> QED BY <2>4, <3>2, <3>3
  <2>8. Apart(bs, got.brk) /\ got.brk \in 0 .. MemorySize
    BY <1>1, <2>1, <2>2, <2>4, <2>6, <2>7 DEF Apart
  <2>9. got.ptr \notin DOMAIN held
    <3> SUFFICES ASSUME got.ptr \in DOMAIN held PROVE FALSE
      OBVIOUS
    <3>1. PICK j \in DOMAIN blocks : RealPtr(blocks[j]) = got.ptr
      BY DEF MallocInv, Owned
    <3>2. i \in DOMAIN bs /\ j \in DOMAIN bs /\ i # j
      BY <2>4 DEF i
    <3>3. RealPtr(bs[i]) # RealPtr(bs[j])
      BY <2>8, <3>2, TwoBlocks
    <3> QED BY <2>1, <2>4, <3>1, <3>3
  <2>10. i \notin DOMAIN blocks
    BY <2>4 DEF i
  <2> QED BY <1>1, <2>1, <2>3, <2>4, <2>8, <2>9, <2>10 DEF got
<1> QED BY <1>2, <1>3

-----------------------------------------------------------------------------
(* Pointers and memory.                                                    *)

\* get_block_ptr leads from a pointer the client holds to its block.
LEMMA HeldFacts ==
  ASSUME MallocInv, NEW p \in DOMAIN held
  PROVE  LET i == BlockOf(p)
         IN /\ i \in DOMAIN blocks /\ RealPtr(blocks[i]) = p /\ ~blocks[i].free
            /\ held[p] \in Holding /\ held[p].size <= blocks[i].size
            /\ Intact(mem, p, held[p]) /\ p \in Addresses
<1>1. PICK j \in DOMAIN blocks :
        RealPtr(blocks[j]) = p /\ ~blocks[j].free /\ held[p].size <= blocks[j].size
  BY DEF MallocInv, Owned
<1>2. BlockOf(p) \in DOMAIN blocks /\ RealPtr(blocks[BlockOf(p)]) = p
  BY <1>1 DEF BlockOf
<1>3. BlockOf(p) = j
  BY <1>1, <1>2, TwoBlocks DEF MallocInv
<1> QED BY <1>1, <1>2, <1>3 DEF MallocInv

LEMMA DisjointBytes ==
  ASSUME NEW bs, NEW b, Apart(bs, b), NEW i \in DOMAIN bs, NEW j \in DOMAIN bs, i # j,
         NEW a \in Bytes(RealPtr(bs[j]), bs[j].size)
  PROVE  a \notin Bytes(RealPtr(bs[i]), bs[i].size)
<1>1. /\ bs[i].size \in Nat /\ bs[j].size \in Nat
      /\ RealPtr(bs[i]) \in Nat /\ RealPtr(bs[j]) \in Nat
      /\ EndOf(bs[i]) = RealPtr(bs[i]) + bs[i].size /\ EndOf(bs[j]) = RealPtr(bs[j]) + bs[j].size
  BY BlockFacts DEF Apart, Block
<1>2. EndOf(bs[i]) < RealPtr(bs[j]) \/ EndOf(bs[j]) < RealPtr(bs[i])
  BY TwoBlocks
<1> QED BY <1>1, <1>2 DEF Bytes

LEMMA BytesInMemory ==
  ASSUME NEW bs, NEW b \in 0 .. MemorySize, Apart(bs, b), NEW i \in DOMAIN bs
  PROVE  /\ Bytes(RealPtr(bs[i]), bs[i].size) \subseteq Addresses
         /\ bs[i].size > 0 => RealPtr(bs[i]) \in Addresses
<1>1. /\ bs[i].size \in Nat /\ RealPtr(bs[i]) \in Nat
      /\ EndOf(bs[i]) = RealPtr(bs[i]) + bs[i].size
      /\ EndOf(bs[i]) <= b /\ MemorySize \in Nat
  BY BlockFacts, MemoryAssumption DEF Apart, Block
<1> QED BY <1>1 DEF Bytes, Addresses

LEMMA FillFacts ==
  ASSUME NEW m, NEW p, NEW n, NEW d, NEW a \in Addresses
  PROVE  Fill(m, p, n, d)[a] = IF a \in Bytes(p, n) THEN d ELSE m[a]
BY DEF Fill

LEMMA FillType ==
  ASSUME NEW m \in [Addresses -> Data \cup {0}], NEW p, NEW n, NEW d \in Data \cup {0}
  PROVE  Fill(m, p, n, d) \in [Addresses -> Data \cup {0}]
BY DEF Fill

\* What is written in a block does not reach what is held in another.
LEMMA OthersIntact ==
  ASSUME NEW bs, NEW b \in 0 .. MemorySize, Apart(bs, b),
         NEW i \in DOMAIN bs, NEW j \in DOMAIN bs, i # j,
         NEW m, NEW m1, NEW h \in Holding, h.size <= bs[j].size,
         Intact(m, RealPtr(bs[j]), h),
         \A a \in Addresses : a \notin Bytes(RealPtr(bs[i]), bs[i].size) => m1[a] = m[a]
  PROVE  Intact(m1, RealPtr(bs[j]), h)
<1> DEFINE p == RealPtr(bs[j])
<1>1. /\ h.filled \in Nat /\ h.size \in Nat /\ h.filled <= h.size
      /\ bs[j].size \in Nat /\ p \in Nat
  BY RequestAssumption, BlockFacts DEF Holding, Sizes, Intact, Apart, Block
<1> HIDE DEF p
<1>2. ASSUME NEW n \in 0 .. h.filled - 1 PROVE m1[p + n] = h.data
  <2>1. p + n \in Bytes(p, bs[j].size)
    BY <1>1 DEF Bytes
  <2>2. p + n \in Addresses
    BY <2>1, BytesInMemory DEF p
  <2>3. p + n \notin Bytes(RealPtr(bs[i]), bs[i].size)
    BY <2>1, DisjointBytes DEF p
  <2>4. m[p + n] = h.data
    BY DEF Intact, p
  <2> QED BY <2>2, <2>3, <2>4
<1> QED BY <1>1, <1>2 DEF Intact, p

-----------------------------------------------------------------------------
(* The steps.                                                              *)

LEMMA MallocStep ==
  ASSUME MallocInv, NEW size \in Sizes \ {0}, NEW d \in Data, Malloc(size, d)
  PROVE  MallocInv'
<1> DEFINE got == Allocated(size)
           h == [size |-> size, data |-> d, filled |-> size]
<1>1. /\ ~OutOfMemory(size) /\ blocks' = got.blocks /\ brk' = got.brk
      /\ mem' = Fill(mem, got.ptr, size, d) /\ held' = Holds(got.ptr, h) /\ pc' = pc
  BY DEF Malloc
<1>2. size \in Nat /\ size > 0 /\ h \in Holding /\ h.size = size /\ h.filled = size /\ h.data = d
  BY RequestAssumption DEF Sizes, Holding
<1> HIDE DEF got, h
<1>3. PICK i \in DOMAIN blocks' :
        /\ Apart(blocks', brk') /\ brk' \in 0 .. MemorySize
        /\ RealPtr(blocks'[i]) = got.ptr /\ ~blocks'[i].free
        /\ size <= blocks'[i].size
        /\ got.ptr \notin DOMAIN held
        /\ DOMAIN blocks' = DOMAIN blocks \cup {i}
        /\ \A j \in DOMAIN blocks : j # i => blocks'[j] = blocks[j]
        /\ i \in DOMAIN blocks => blocks[i].free
  BY <1>1, <1>2, AllocatedFacts DEF got
<1>4. /\ DOMAIN held' = DOMAIN held \cup {got.ptr} /\ held'[got.ptr] = h
      /\ \A q \in DOMAIN held : held'[q] = held[q]
  BY <1>1, <1>3 DEF Holds
<1>5. /\ blocks'[i].size \in Nat /\ got.ptr \in Nat
      /\ Bytes(got.ptr, blocks'[i].size) \subseteq Addresses /\ got.ptr \in Addresses
  <2>1. blocks'[i].size \in Nat /\ RealPtr(blocks'[i]) \in Nat
    BY <1>3, BlockFacts DEF Apart, Block
  <2>2. blocks'[i].size > 0
    BY <1>2, <1>3, <2>1
  <2> QED BY <1>3, <2>1, <2>2, BytesInMemory
<1>6. Bytes(got.ptr, size) \subseteq Bytes(got.ptr, blocks'[i].size)
  BY <1>2, <1>3, <1>5 DEF Bytes
<1>7. Intact(mem', got.ptr, h)
  <2>1. ASSUME NEW n \in 0 .. size - 1 PROVE mem'[got.ptr + n] = d
    <3>1. got.ptr + n \in Bytes(got.ptr, size)
      BY <1>2, <1>5 DEF Bytes
    <3> QED BY <1>1, <1>5, <1>6, <3>1, FillFacts
  <2> QED BY <1>2, <2>1 DEF Intact
<1>8. \A a \in Addresses : a \notin Bytes(got.ptr, blocks'[i].size) => mem'[a] = mem[a]
  BY <1>1, <1>6, FillFacts
<1>9. ASSUME NEW q \in DOMAIN held
      PROVE  Owned(blocks', q, held[q].size) /\ Intact(mem', q, held[q])
  <2> DEFINE j == BlockOf(q)
  <2>1. /\ j \in DOMAIN blocks /\ RealPtr(blocks[j]) = q /\ ~blocks[j].free
        /\ held[q] \in Holding /\ held[q].size <= blocks[j].size /\ Intact(mem, q, held[q])
    BY HeldFacts
  <2> HIDE DEF j
  <2>2. j # i /\ j \in DOMAIN blocks' /\ blocks'[j] = blocks[j]
    BY <1>3, <2>1
  <2>3. Intact(mem', q, held[q])
    BY <1>3, <1>8, <2>1, <2>2, OthersIntact
  <2> QED BY <2>1, <2>2, <2>3 DEF Owned
<1>10. Owned(blocks', got.ptr, h.size)
  BY <1>2, <1>3 DEF Owned
<1>11. \A j \in DOMAIN blocks' : ~blocks'[j].free => RealPtr(blocks'[j]) \in DOMAIN held'
  BY <1>3, <1>4 DEF MallocInv
<1>12. mem' \in [Addresses -> Data \cup {0}]
  BY <1>1, FillType DEF MallocInv
<1>13. DOMAIN held' \subseteq Addresses
  BY <1>4, <1>5 DEF MallocInv
<1>14. \A q \in DOMAIN held' :
         held'[q] \in Holding /\ Owned(blocks', q, held'[q].size) /\ Intact(mem', q, held'[q])
  BY <1>2, <1>4, <1>7, <1>9, <1>10 DEF MallocInv
<1> QED BY <1>1, <1>3, <1>11, <1>12, <1>13, <1>14 DEF MallocInv

LEMMA FreeStep == ASSUME MallocInv, NEW p \in DOMAIN held, Free(p) PROVE MallocInv'
<1> DEFINE i == BlockOf(p)
<1>1. /\ i \in DOMAIN blocks /\ RealPtr(blocks[i]) = p
      /\ Apart(blocks, brk) /\ brk \in 0 .. MemorySize
  BY HeldFacts DEF MallocInv
<1>2. /\ blocks' = [blocks EXCEPT ![i].free = TRUE] /\ brk' = brk
      /\ mem' = Fill(mem, p, blocks[i].size, 0) /\ pc' = pc
      /\ held' = [q \in DOMAIN held \ {p} |-> held[q]]
  BY DEF Free
<1> HIDE DEF i
<1>3. /\ Apart(blocks', brk) /\ DOMAIN blocks' = DOMAIN blocks /\ blocks'[i].free = TRUE
      /\ \A j \in DOMAIN blocks : RealPtr(blocks'[j]) = RealPtr(blocks[j])
      /\ \A j \in DOMAIN blocks : j # i => blocks'[j] = blocks[j]
  <2> DEFINE c == [blocks EXCEPT ![i].free = TRUE]
  <2>1. /\ Apart(c, brk) /\ DOMAIN c = DOMAIN blocks /\ c[i].free = TRUE
        /\ \A j \in DOMAIN blocks : RealPtr(c[j]) = RealPtr(blocks[j])
        /\ \A j \in DOMAIN blocks : j # i => c[j] = blocks[j]
    BY <1>1, MarkFacts
  <2> HIDE DEF c
  <2> QED BY <1>2, <2>1 DEF c
<1>4. \A a \in Addresses : a \notin Bytes(RealPtr(blocks[i]), blocks[i].size) => mem'[a] = mem[a]
  BY <1>1, <1>2, FillFacts
<1>5. ASSUME NEW q \in DOMAIN held \ {p}
      PROVE  /\ held[q] \in Holding /\ Owned(blocks', q, held[q].size)
             /\ Intact(mem', q, held[q])
  <2> DEFINE j == BlockOf(q)
  <2>1. /\ j \in DOMAIN blocks /\ RealPtr(blocks[j]) = q /\ ~blocks[j].free
        /\ held[q] \in Holding /\ held[q].size <= blocks[j].size /\ Intact(mem, q, held[q])
    BY HeldFacts
  <2> HIDE DEF j
  <2>2. j # i
    BY <1>1, <2>1
  <2>3. Intact(mem', q, held[q])
    BY <1>1, <1>4, <2>1, <2>2, OthersIntact
  <2> QED BY <1>3, <2>1, <2>2, <2>3 DEF Owned
<1>6. \A j \in DOMAIN blocks' : ~blocks'[j].free => RealPtr(blocks'[j]) \in DOMAIN held'
  <2>1. ASSUME NEW j \in DOMAIN blocks, ~blocks'[j].free PROVE RealPtr(blocks[j]) \in DOMAIN held \ {p}
    <3>1. j # i /\ blocks'[j] = blocks[j]
      BY <1>3, <2>1
    <3>2. RealPtr(blocks[j]) # p
      BY <1>1, <3>1, TwoBlocks
    <3> QED BY <2>1, <3>1, <3>2 DEF MallocInv
  <2> QED BY <1>2, <1>3, <2>1
<1>7. mem' \in [Addresses -> Data \cup {0}]
  BY <1>2, FillType DEF MallocInv
<1>8. \A q \in DOMAIN held' :
        /\ held'[q] \in Holding /\ Owned(blocks', q, held'[q].size)
        /\ Intact(mem', q, held'[q]) /\ q \in Addresses
  BY <1>2, <1>5 DEF MallocInv
<1> QED BY <1>1, <1>2, <1>3, <1>6, <1>7, <1>8 DEF MallocInv

\* my_realloc returns the pointer it was given; less of what is there is known
\* when the client asked for less.
LEMMA ReallocInPlaceStep ==
  ASSUME MallocInv, NEW p \in DOMAIN held, NEW size \in Sizes, ReallocInPlace(p, size)
  PROVE  MallocInv'
<1> DEFINE i == BlockOf(p)
           h == [held[p] EXCEPT !.size = size, !.filled = Smaller(@, size)]
<1>1. /\ i \in DOMAIN blocks /\ RealPtr(blocks[i]) = p /\ ~blocks[i].free
      /\ held[p] \in Holding /\ Intact(mem, p, held[p]) /\ size <= blocks[i].size
  BY HeldFacts, BlockFacts, RequestAssumption DEF ReallocInPlace, MallocInv, Apart, Block, Sizes
<1>2. /\ held' = [held EXCEPT ![p] = h] /\ UNCHANGED <<blocks, brk, mem, pc>>
  BY DEF ReallocInPlace
<1>3. /\ h \in Holding /\ h.size = size /\ h.data = held[p].data
      /\ h.filled <= size /\ h.filled <= held[p].filled /\ h.filled \in Nat
      /\ held[p].filled \in Nat
  <2> DEFINE f == Smaller(held[p].filled, size)
  <2>1. held[p].filled \in Sizes /\ size \in Sizes /\ Sizes \subseteq Nat
    BY <1>1, RequestAssumption DEF Holding, Sizes
  <2>2. f \in Sizes /\ f <= size /\ f <= held[p].filled
    <3>1. held[p].filled \in Nat /\ size \in Nat
      BY <2>1
    <3>2. CASE held[p].filled <= size
      BY <2>1, <3>1, <3>2 DEF Smaller
    <3>3. CASE ~(held[p].filled <= size)
      BY <2>1, <3>1, <3>3 DEF Smaller
    <3> QED BY <3>2, <3>3
  <2> HIDE DEF f
  <2>3. h = [held[p] EXCEPT !.size = size, !.filled = f]
    BY <1>1 DEF f, Holding
  <2> HIDE DEF h
  <2>4. /\ h \in Holding /\ h.size = size /\ h.data = held[p].data /\ h.filled = f
    BY <1>1, <2>1, <2>2, <2>3 DEF Holding
  <2> QED BY <2>1, <2>2, <2>4
<1> HIDE DEF i, h
<1>4. Intact(mem, p, h) /\ Owned(blocks, p, h.size)
  BY <1>1, <1>3 DEF Intact, Owned
<1>5. /\ DOMAIN held' = DOMAIN held /\ held'[p] = h
      /\ \A q \in DOMAIN held : q # p => held'[q] = held[q]
  BY <1>2
<1>6. \A q \in DOMAIN held' :
        held'[q] \in Holding /\ Owned(blocks, q, held'[q].size) /\ Intact(mem, q, held'[q])
  BY <1>3, <1>4, <1>5 DEF MallocInv
<1>7. \A j \in DOMAIN blocks : ~blocks[j].free => RealPtr(blocks[j]) \in DOMAIN held'
  BY <1>5 DEF MallocInv
<1> QED BY <1>2, <1>5, <1>6, <1>7 DEF MallocInv

\* my_realloc copies all of the old block, which is less than the new one holds,
\* and clears and frees it only then; every other block keeps what it has.
LEMMA ReallocMoveStep ==
  ASSUME MallocInv, NEW p \in DOMAIN held, NEW size \in Sizes, ReallocMove(p, size)
  PROVE  MallocInv'
<1> DEFINE o == BlockOf(p)
           n == blocks[o].size
           got == Allocated(size)
           copied == [a \in Addresses |-> IF a \in Bytes(got.ptr, n)
                                          THEN mem[p + (a - got.ptr)] ELSE mem[a]]
           h == [held[p] EXCEPT !.size = size]
<1>1. /\ n < size /\ ~OutOfMemory(size)
      /\ blocks' = [got.blocks EXCEPT ![o].free = TRUE] /\ brk' = got.brk /\ pc' = pc
      /\ mem' = Fill(copied, p, n, 0)
      /\ held' = [q \in (DOMAIN held \ {p}) \cup {got.ptr} |->
                    IF q = got.ptr THEN h ELSE held[q]]
  BY DEF ReallocMove
<1>2. /\ o \in DOMAIN blocks /\ RealPtr(blocks[o]) = p /\ ~blocks[o].free
      /\ held[p] \in Holding /\ held[p].size <= n /\ Intact(mem, p, held[p])
  BY HeldFacts
<1>3. /\ Apart(blocks, brk) /\ brk \in 0 .. MemorySize /\ size \in Nat
      /\ n \in Nat /\ p \in Nat
  BY <1>2, RequestAssumption, BlockFacts DEF MallocInv, Apart, Block, Sizes
<1> DEFINE bs == got.blocks
<1>4. PICK i \in DOMAIN bs :
        /\ Apart(bs, brk') /\ brk' \in 0 .. MemorySize
        /\ RealPtr(bs[i]) = got.ptr /\ ~bs[i].free
        /\ size <= bs[i].size
        /\ got.ptr \notin DOMAIN held
        /\ DOMAIN bs = DOMAIN blocks \cup {i}
        /\ \A j \in DOMAIN blocks : j # i => bs[j] = blocks[j]
        /\ i \in DOMAIN blocks => blocks[i].free
  BY <1>1, <1>3, AllocatedFacts
<1> HIDE DEF o, got, bs
<1>5. o # i /\ o \in DOMAIN bs /\ bs[o] = blocks[o]
  BY <1>2, <1>4
<1>6. /\ Apart(blocks', brk') /\ DOMAIN blocks' = DOMAIN bs /\ blocks'[o].free = TRUE
      /\ \A j \in DOMAIN bs : RealPtr(blocks'[j]) = RealPtr(bs[j]) /\ blocks'[j].size = bs[j].size
      /\ \A j \in DOMAIN bs : j # o => blocks'[j] = bs[j]
  <2> DEFINE c == [bs EXCEPT ![o].free = TRUE]
  <2>1. /\ Apart(c, brk') /\ DOMAIN c = DOMAIN bs /\ c[o].free = TRUE
        /\ \A j \in DOMAIN bs : RealPtr(c[j]) = RealPtr(bs[j]) /\ c[j].size = bs[j].size
        /\ \A j \in DOMAIN bs : j # o => c[j] = bs[j]
    BY <1>4, <1>5, MarkFacts
  <2> HIDE DEF c
  <2> QED BY <1>1, <2>1 DEF c, bs
<1>7. /\ i \in DOMAIN blocks' /\ RealPtr(blocks'[i]) = got.ptr /\ ~blocks'[i].free
      /\ size <= blocks'[i].size /\ blocks'[i].size \in Nat /\ got.ptr \in Nat
  BY <1>4, <1>5, <1>6, BlockFacts DEF Apart, Block
<1>8. /\ o \in DOMAIN blocks' /\ RealPtr(blocks'[o]) = p /\ blocks'[o].size = n
  BY <1>2, <1>5, <1>6
<1> HIDE DEF n
<1>9. Bytes(got.ptr, n) \subseteq Bytes(got.ptr, blocks'[i].size)
  BY <1>1, <1>3, <1>7 DEF Bytes
<1>10. /\ Bytes(got.ptr, blocks'[i].size) \subseteq Addresses /\ got.ptr \in Addresses
       /\ Bytes(p, n) \subseteq Addresses
  <2>1. blocks'[i].size > 0
    BY <1>1, <1>3, <1>7
  <2> QED BY <1>4, <1>6, <1>7, <1>8, <2>1, BytesInMemory
<1>11. copied \in [Addresses -> Data \cup {0}]
  <2>1. ASSUME NEW a \in Bytes(got.ptr, n) PROVE mem[p + (a - got.ptr)] \in Data \cup {0}
    <3>1. p + (a - got.ptr) \in Bytes(p, n)
      BY <1>3, <1>7 DEF Bytes
    <3> QED BY <1>10, <3>1 DEF MallocInv
  <2> QED BY <2>1 DEF MallocInv
<1>12. mem' \in [Addresses -> Data \cup {0}]
  BY <1>1, <1>11, FillType
<1>13. \A a \in Addresses :
         /\ a \notin Bytes(p, n) => mem'[a] = copied[a]
         /\ copied[a] = IF a \in Bytes(got.ptr, n) THEN mem[p + (a - got.ptr)] ELSE mem[a]
  BY <1>1, FillFacts
<1> HIDE DEF copied
<1>14. /\ h \in Holding /\ h.size = size /\ h.data = held[p].data /\ h.filled = held[p].filled
       /\ h.filled \in Nat /\ h.filled <= n /\ h.filled <= h.size
  <2>1. /\ held[p].filled \in Nat /\ held[p].size \in Nat /\ held[p].filled <= held[p].size
    BY <1>2, RequestAssumption DEF Holding, Sizes, Intact
  <2> QED BY <1>1, <1>2, <1>3, <2>1 DEF Holding, n
<1> HIDE DEF h
<1>15. Intact(mem', got.ptr, h)
  <2>1. ASSUME NEW k \in 0 .. h.filled - 1 PROVE mem'[got.ptr + k] = h.data
    <3>1. got.ptr + k \in Bytes(got.ptr, n)
      BY <1>3, <1>7, <1>14 DEF Bytes
    <3>2. got.ptr + k \in Bytes(got.ptr, blocks'[i].size)
      BY <1>9, <3>1
    <3>3. got.ptr + k \notin Bytes(p, n)
      BY <1>5, <1>6, <1>7, <1>8, <3>2, DisjointBytes
    <3> DEFINE a == got.ptr + k
    <3>4. a \in Addresses /\ a \in Bytes(got.ptr, n) /\ a \notin Bytes(p, n)
      BY <1>10, <3>1, <3>2, <3>3
    <3> HIDE DEF a
    <3>5. p + (a - got.ptr) = p + k
      BY <1>3, <1>7, <1>14 DEF a
    <3>6. mem'[a] = copied[a] /\ copied[a] = mem[p + (a - got.ptr)]
      BY <1>13, <3>4
    <3>7. mem'[a] = mem[p + k]
      BY <3>6, <3>5
    <3>8. mem'[got.ptr + k] = mem[p + k]
      BY <3>7 DEF a
    <3> QED BY <1>2, <1>14, <3>8 DEF Intact
  <2> QED BY <1>14, <2>1 DEF Intact
<1>16. ASSUME NEW q \in DOMAIN held \ {p}
       PROVE  /\ held[q] \in Holding /\ Owned(blocks', q, held[q].size)
              /\ Intact(mem', q, held[q])
  <2> DEFINE j == BlockOf(q)
  <2>1. /\ j \in DOMAIN blocks /\ RealPtr(blocks[j]) = q /\ ~blocks[j].free
        /\ held[q] \in Holding /\ held[q].size <= blocks[j].size /\ Intact(mem, q, held[q])
    BY HeldFacts
  <2> HIDE DEF j
  <2>2. j # i /\ j # o /\ j \in DOMAIN blocks' /\ blocks'[j] = blocks[j]
    BY <1>2, <1>4, <1>6, <2>1
  <2>3. \A a \in Addresses : a \notin Bytes(RealPtr(blocks'[i]), blocks'[i].size) => copied[a] = mem[a]
    BY <1>7, <1>9, <1>13
  <2>4. Intact(copied, q, held[q])
    BY <1>4, <1>6, <1>7, <2>1, <2>2, <2>3, OthersIntact
  <2>5. \A a \in Addresses : a \notin Bytes(RealPtr(blocks'[o]), blocks'[o].size) => mem'[a] = copied[a]
    BY <1>8, <1>13
  <2>6. Intact(mem', q, held[q])
    BY <1>4, <1>6, <1>8, <2>1, <2>2, <2>4, <2>5, OthersIntact
  <2> QED BY <2>1, <2>2, <2>6 DEF Owned
<1>17. /\ DOMAIN held' = (DOMAIN held \ {p}) \cup {got.ptr} /\ held'[got.ptr] = h
       /\ \A q \in DOMAIN held \ {p} : held'[q] = held[q]
  BY <1>1, <1>4
<1>18. Owned(blocks', got.ptr, h.size)
  BY <1>7, <1>14 DEF Owned
<1>19. \A q \in DOMAIN held' :
         /\ held'[q] \in Holding /\ Owned(blocks', q, held'[q].size)
         /\ Intact(mem', q, held'[q]) /\ q \in Addresses
  BY <1>10, <1>14, <1>15, <1>16, <1>17, <1>18 DEF MallocInv
<1>20. \A j \in DOMAIN blocks' : ~blocks'[j].free => RealPtr(blocks'[j]) \in DOMAIN held'
  <2>1. ASSUME NEW j \in DOMAIN blocks', ~blocks'[j].free, j # i
        PROVE  RealPtr(blocks'[j]) \in DOMAIN held \ {p}
    <3>1. j # o /\ j \in DOMAIN blocks /\ blocks'[j] = blocks[j]
      BY <1>4, <1>6, <2>1
    <3>2. RealPtr(blocks[j]) # p
      BY <1>2, <1>3, <3>1, TwoBlocks
    <3> QED BY <2>1, <3>1, <3>2 DEF MallocInv
  <2> QED BY <1>7, <1>17, <2>1
<1>21. pc' \in {"run", "aborted"}
  BY <1>1 DEF MallocInv
<1> QED BY <1>4, <1>6, <1>12, <1>19, <1>20, <1>21 DEF MallocInv

LEMMA OtherSbrkStep == ASSUME MallocInv, OtherSbrk PROVE MallocInv'
<1>1. brk \in 0 .. MemorySize /\ MemorySize \in Nat /\ Apart(blocks, brk)
  BY MemoryAssumption DEF MallocInv
<1>2. brk' = brk + 1 /\ brk' \in 0 .. MemorySize /\ UNCHANGED <<blocks, mem, held, pc>>
  BY <1>1 DEF OtherSbrk
<1>3. \A i \in DOMAIN blocks : EndOf(blocks[i]) \in Nat /\ EndOf(blocks[i]) <= brk
  BY <1>1, BlockFacts DEF Apart
<1>4. Apart(blocks, brk')
  BY <1>1, <1>2, <1>3 DEF Apart
<1> QED BY <1>2, <1>4 DEF MallocInv

-----------------------------------------------------------------------------
(* The theorems.                                                           *)

LEMMA InitInv == Init => MallocInv
<1> SUFFICES ASSUME Init PROVE MallocInv
  OBVIOUS
<1>1. blocks \in Seq(Block) /\ DOMAIN blocks = {} /\ DOMAIN held = {}
  BY DEF Init
<1> QED BY <1>1, MemoryAssumption DEF Init, MallocInv, Apart

LEMMA NextInv == MallocInv /\ [Next]_vars => MallocInv'
<1> SUFFICES ASSUME MallocInv, [Next]_vars PROVE MallocInv'
  OBVIOUS
<1>1. CASE Abort
  BY <1>1 DEF Abort, MallocInv
<1>2. ASSUME NEW size \in Sizes \ {0}, NEW d \in Data, Malloc(size, d) PROVE MallocInv'
  BY <1>2, MallocStep
<1>3. ASSUME NEW p \in DOMAIN held, Free(p) PROVE MallocInv'
  BY <1>3, FreeStep
<1>4. ASSUME NEW p \in DOMAIN held, NEW size \in Sizes,
             ReallocInPlace(p, size) \/ ReallocMove(p, size)
      PROVE  MallocInv'
  BY <1>4, ReallocInPlaceStep, ReallocMoveStep
<1>5. CASE OtherSbrk
  BY <1>5, OtherSbrkStep
<1>6. CASE UNCHANGED vars
  BY <1>6 DEF vars, MallocInv
<1> QED BY <1>1, <1>2, <1>3, <1>4, <1>5, <1>6 DEF Next, MallocAborts, ReallocAborts

LEMMA MallocInvHolds == Spec => []MallocInv
BY InitInv, NextInv, PTL DEF Spec

\* Every variable keeps its kind; the break never passes the end of memory.
THEOREM TypeCorrect == Spec => []TypeOK
<1>1. MallocInv => TypeOK
  BY DEF MallocInv, TypeOK, Apart, Block, Holding
<1> QED BY <1>1, MallocInvHolds, PTL

\* No two blocks overlap, whatever is freed, reused, moved or taken by others.
THEOREM BlocksNeverOverlap == Spec => []BlocksApart
<1>1. MallocInv => BlocksApart
  <2> SUFFICES ASSUME MallocInv, NEW i \in DOMAIN blocks
               PROVE  EndOf(blocks[i]) <= IF i = Len(blocks) THEN brk ELSE blocks[i + 1].addr
    BY DEF BlocksApart
  <2>1. i \in 1 .. Len(blocks) /\ Len(blocks) \in Nat /\ DOMAIN blocks = 1 .. Len(blocks)
    BY LenProperties DEF MallocInv, Apart
  <2>2. CASE i = Len(blocks)
    BY <2>2 DEF MallocInv, Apart
  <2>3. CASE i # Len(blocks)
    <3>1. i + 1 \in DOMAIN blocks /\ i < i + 1
      BY <2>1, <2>3
    <3> QED BY <2>3, <3>1 DEF MallocInv, Apart
  <2> QED BY <2>2, <2>3
<1> QED BY <1>1, MallocInvHolds, PTL

\* What the client holds is its own and keeps its contents, through every free
\* and realloc of anything else and its own moves.
THEOREM ContentsKept == Spec => []HeldIntact
<1>1. MallocInv => HeldIntact
  BY DEF MallocInv, HeldIntact, Owned, Intact
<1> QED BY <1>1, MallocInvHolds, PTL

\* Every block is held or can be handed out again.
THEOREM NothingLeaks == Spec => []NoneLost
<1>1. MallocInv => NoneLost
  BY DEF MallocInv, NoneLost, ToSet
<1> QED BY <1>1, MallocInvHolds, PTL
=============================================================================

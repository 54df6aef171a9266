----------------------------- MODULE HeapProofs -----------------------------
(***************************************************************************)
(* The kernel's heap with the first-fit manager linked: nothing leaks, the *)
(* areas in use never overlap, free neighbours are merged, the figures of  *)
(* getMemoryStatus add up and the queues in the heap are FIFO, for a pool  *)
(* of any size, any requests and any elements.                             *)
(***************************************************************************)
EXTENDS Heap, QueueLemmas, FiniteSetTheorems

-----------------------------------------------------------------------------
\* ALIGN rounds up what an address can express.
LEMMA AlignEffect ==
    ASSUME NEW sz \in 1..(WORD - ALIGNMENT)
    PROVE  ALIGN(sz) \in Nat /\ ALIGN(sz) >= sz
<1> DEFINE up == sz + ALIGNMENT - 1
<1>1. /\ ALIGNMENT \in Nat \ {0} /\ WORD \in Nat \ {0} /\ up \in 0..(WORD - 1)
      /\ sz = up - (ALIGNMENT - 1)
  BY PoolAssumption
<1> HIDE DEF up
<1>2. (WORD * 0 + up) % WORD = up
  BY <1>1, RemainderIs
<1>3. WORD * 0 + up = up
  BY <1>1
<1>4. up % ALIGNMENT \in 0..(ALIGNMENT - 1)
  BY <1>1
<1>5. ALIGN(sz) = up - (up % ALIGNMENT)
  BY <1>2, <1>3 DEF ALIGN, up
<1> QED
  BY <1>1, <1>4, <1>5

\* The pool is larger than its first header: createMemory has a block to start with.
LEMMA HeaderFits == BLOCK_HEADER_SIZE \in Nat \ {0} /\ memorySize - BLOCK_HEADER_SIZE \in Nat \ {0}
<1>1. SizeofBlock \in 1..(WORD - ALIGNMENT)
  BY PoolAssumption
<1>2. ALIGN(SizeofBlock) \in Nat /\ ALIGN(SizeofBlock) >= SizeofBlock
  BY <1>1, AlignEffect
<1> QED
  BY <1>2, PoolAssumption, RoomAssumption DEF BLOCK_HEADER_SIZE

-----------------------------------------------------------------------------
(***************************************************************************)
(* The list of blocks of the first-fit manager.                            *)
(***************************************************************************)
Block == [addr : Nat, size : Nat \ {0}, free : BOOLEAN]

\* The blocks fill the pool from its base to its end, each where the one before it ends
Tiled(b) ==
    /\ b \in Seq(Block) /\ Len(b) > 0
    /\ b[1].addr = 0
    /\ \A i \in 1..(Len(b) - 1) : b[i + 1].addr = NEXT_PHYSICAL_BLOCK(b[i])
    /\ NEXT_PHYSICAL_BLOCK(b[Len(b)]) = memorySize

\* No two free neighbours, but at i and i + 1
MergedBut(b, at) == \A i \in 1..(Len(b) - 1) : i \notin at => ~(b[i].free /\ b[i + 1].free)

PoolOK(b) == Tiled(b) /\ MergedBut(b, {})

\* What the blocks of a list are
LEMMA BlockFacts ==
    ASSUME NEW b \in Seq(Block), NEW i \in 1..Len(b)
    PROVE  /\ b[i] \in Block /\ b[i].addr \in Nat /\ b[i].size \in Nat \ {0} /\ b[i].free \in BOOLEAN
           /\ NEXT_PHYSICAL_BLOCK(b[i]) \in Nat
           /\ NEXT_PHYSICAL_BLOCK(b[i]) = b[i].addr + BLOCK_HEADER_SIZE + b[i].size
           /\ NEXT_PHYSICAL_BLOCK(b[i]) > b[i].addr + BLOCK_HEADER_SIZE
<1>1. b[i] \in Block
  OBVIOUS
<1> QED
  BY <1>1, HeaderFits DEF Block, NEXT_PHYSICAL_BLOCK

\* A block ends before every later one begins.
LEMMA BlocksOrdered ==
    ASSUME NEW b, Tiled(b), NEW i \in 1..Len(b), NEW j \in 1..Len(b), i < j
    PROVE  NEXT_PHYSICAL_BLOCK(b[i]) <= b[j].addr
<1> DEFINE Bad == {k \in Nat : /\ i < k /\ k <= Len(b)
                               /\ ~(NEXT_PHYSICAL_BLOCK(b[i]) <= b[k].addr)}
<1>1. b \in Seq(Block) /\ Len(b) \in Nat
  BY DEF Tiled
<1>2. ASSUME Bad # {} PROVE FALSE
  <2>1. PICK k \in Bad : \A y \in Bad : k <= y
    <3>1. Bad \subseteq Nat
      OBVIOUS
    <3> HIDE DEF Bad
    <3> QED
      BY <1>2, <3>1, MinInSet
  <2>2. k \in Nat /\ i < k /\ k <= Len(b) /\ ~(NEXT_PHYSICAL_BLOCK(b[i]) <= b[k].addr)
    BY <2>1
  <2>3. k - 1 \in 1..(Len(b) - 1) /\ (k - 1) + 1 = k /\ k - 1 \in 1..Len(b)
    BY <1>1, <2>2
  <2>4. b[k].addr = NEXT_PHYSICAL_BLOCK(b[k - 1])
    BY <2>3 DEF Tiled
  <2>5. i # k - 1
    <3>1. NEXT_PHYSICAL_BLOCK(b[k - 1]) \in Nat
      BY <1>1, <2>3, BlockFacts
    <3> QED
      BY <2>2, <2>4, <3>1
  <2>6. k - 1 \in Nat /\ i < k - 1 /\ k - 1 <= Len(b)
    BY <1>1, <2>2, <2>3, <2>5
  <2>7. NEXT_PHYSICAL_BLOCK(b[i]) <= b[k - 1].addr
    <3>1. k - 1 \notin Bad
      <4>1. ~(k <= k - 1)
        BY <2>2
      <4> HIDE DEF Bad
      <4> QED
        BY <2>1, <4>1
    <3> QED
      BY <2>6, <3>1
  <2>8. NEXT_PHYSICAL_BLOCK(b[k - 1]) \in Nat /\ b[k - 1].addr \in Nat
        /\ NEXT_PHYSICAL_BLOCK(b[k - 1]) > b[k - 1].addr + BLOCK_HEADER_SIZE
        /\ NEXT_PHYSICAL_BLOCK(b[i]) \in Nat
    BY <1>1, <2>3, BlockFacts
  <2> QED
    BY <2>2, <2>4, <2>7, <2>8, HeaderFits
<1>3. j \in Nat /\ j <= Len(b)
  BY <1>1
<1> QED
  BY <1>2, <1>3

\* Blocks are told apart by their addresses, and end in the pool.
LEMMA BlocksApart ==
    ASSUME NEW b, Tiled(b), NEW i \in 1..Len(b)
    PROVE  /\ NEXT_PHYSICAL_BLOCK(b[i]) <= memorySize
           /\ \A j \in 1..Len(b) : b[j].addr = b[i].addr => j = i
           /\ \A j \in 1..Len(b) : j # i =>
                NEXT_PHYSICAL_BLOCK(b[i]) <= b[j].addr \/ NEXT_PHYSICAL_BLOCK(b[j]) <= b[i].addr
<1>1. b \in Seq(Block) /\ Len(b) \in Nat /\ memorySize \in Nat
  BY PoolAssumption DEF Tiled
<1>2. ASSUME NEW j \in 1..Len(b), j # i
      PROVE  NEXT_PHYSICAL_BLOCK(b[i]) <= b[j].addr \/ NEXT_PHYSICAL_BLOCK(b[j]) <= b[i].addr
  <2>1. i < j \/ j < i
    BY <1>2
  <2> QED
    BY <2>1, BlocksOrdered
<1>3. ASSUME NEW j \in 1..Len(b), j # i PROVE b[j].addr # b[i].addr
  <2>1. /\ b[i].addr \in Nat /\ b[j].addr \in Nat
        /\ NEXT_PHYSICAL_BLOCK(b[i]) \in Nat /\ NEXT_PHYSICAL_BLOCK(b[j]) \in Nat
        /\ NEXT_PHYSICAL_BLOCK(b[i]) > b[i].addr + BLOCK_HEADER_SIZE
        /\ NEXT_PHYSICAL_BLOCK(b[j]) > b[j].addr + BLOCK_HEADER_SIZE
    BY <1>1, BlockFacts
  <2> QED
    BY <1>2, <1>3, <2>1, HeaderFits
<1>4. NEXT_PHYSICAL_BLOCK(b[i]) <= memorySize
  <2>1. CASE i = Len(b)
    BY <1>1, <2>1 DEF Tiled
  <2>2. CASE i # Len(b)
    <3>1. i < Len(b) /\ Len(b) \in 1..Len(b)
      BY <1>1, <2>2
    <3>2. NEXT_PHYSICAL_BLOCK(b[i]) <= b[Len(b)].addr
      BY <3>1, BlocksOrdered
    <3>3. /\ NEXT_PHYSICAL_BLOCK(b[i]) \in Nat /\ b[Len(b)].addr \in Nat
          /\ NEXT_PHYSICAL_BLOCK(b[Len(b)]) > b[Len(b)].addr + BLOCK_HEADER_SIZE
      BY <1>1, <3>1, BlockFacts
    <3>4. NEXT_PHYSICAL_BLOCK(b[Len(b)]) = memorySize
      BY DEF Tiled
    <3> QED
      BY <1>1, <3>2, <3>3, <3>4, HeaderFits
  <2> QED
    BY <2>1, <2>2
<1> QED
  BY <1>2, <1>3, <1>4

\* Two lists of blocks joined, block by block
LEMMA BlockConcat ==
    ASSUME NEW s \in Seq(Block), NEW t \in Seq(Block), NEW c, c = s \o t
    PROVE  /\ c \in Seq(Block) /\ Len(c) = Len(s) + Len(t)
           /\ \A i \in 1..(Len(s) + Len(t)) : c[i] = IF i <= Len(s) THEN s[i] ELSE t[i - Len(s)]
  OBVIOUS

\* splitBlock inserts a block behind the one it cuts.
LEMMA SplitIs ==
    ASSUME NEW b \in Seq(Block), NEW i \in 1..Len(b), NEW size \in Nat \ {0},
           b[i].size - size - BLOCK_HEADER_SIZE \in Nat \ {0}
    PROVE  LET c   == splitBlock(b, i, size)
               new == [addr |-> b[i].addr + BLOCK_HEADER_SIZE + size,
                       size |-> b[i].size - size - BLOCK_HEADER_SIZE, free |-> TRUE]
           IN  /\ c \in Seq(Block) /\ Len(c) = Len(b) + 1
               /\ \A j \in 1..Len(c) : c[j] = IF j < i THEN b[j]
                                              ELSE IF j = i THEN [b[i] EXCEPT !.size = size]
                                              ELSE IF j = i + 1 THEN new ELSE b[j - 1]
<1> DEFINE cut == [b[i] EXCEPT !.size = size]
           new == [addr |-> b[i].addr + BLOCK_HEADER_SIZE + size,
                   size |-> b[i].size - size - BLOCK_HEADER_SIZE, free |-> TRUE]
           d   == [b EXCEPT ![i] = cut]
           x   == SubSeq(d, 1, i)
           y   == SubSeq(d, i + 1, Len(d))
<1>1. b[i] \in Block /\ Len(b) \in Nat
  OBVIOUS
<1>2. cut \in Block
  BY <1>1 DEF Block
<1>3. new \in Block
  BY <1>1, HeaderFits DEF Block
<1>4. splitBlock(b, i, size) = SubSeq(d, 1, (i + 1) - 1) \o <<new>> \o SubSeq(d, i + 1, Len(d))
  BY DEF splitBlock, InsertAt, ReplaceAt
<1> HIDE DEF cut, new
<1>5. /\ d \in Seq(Block) /\ Len(d) = Len(b) /\ d[i] = cut
      /\ \A j \in 1..Len(b) : j # i => d[j] = b[j]
  BY <1>2
<1> HIDE DEF d
<1>6. (i + 1) - 1 = i
  OBVIOUS
<1>7. splitBlock(b, i, size) = x \o <<new>> \o y
  BY <1>4, <1>6
<1>8. /\ x \in Seq(Block) /\ Len(x) = i /\ \A j \in 1..i : x[j] = d[j]
  BY <1>1, <1>5
<1>9. /\ y \in Seq(Block) /\ Len(y) = Len(b) - i /\ \A j \in 1..(Len(b) - i) : y[j] = d[i + j]
  BY <1>1, <1>5
<1> HIDE DEF x, y
<1>10. PICK z : z = x \o <<new>>
  OBVIOUS
<1>11. /\ z \in Seq(Block) /\ Len(z) = i + 1 /\ z[i + 1] = new
       /\ \A j \in 1..i : z[j] = d[j]
  BY <1>3, <1>8, <1>10
<1>12. PICK c : c = z \o y
  OBVIOUS
<1>13. /\ c \in Seq(Block) /\ Len(c) = Len(b) + 1
       /\ \A j \in 1..(Len(b) + 1) : c[j] = IF j <= i + 1 THEN z[j] ELSE y[j - (i + 1)]
  <2>1. /\ c \in Seq(Block) /\ Len(c) = Len(z) + Len(y)
        /\ \A j \in 1..(Len(z) + Len(y)) : c[j] = IF j <= Len(z) THEN z[j] ELSE y[j - Len(z)]
    <3>1. z \in Seq(Block) /\ y \in Seq(Block) /\ c = z \o y
      BY <1>9, <1>11, <1>12
    <3> HIDE DEF Block
    <3> QED
      BY <3>1, BlockConcat
  <2>2. Len(z) = i + 1 /\ Len(z) + Len(y) = Len(b) + 1
    BY <1>1, <1>9, <1>11
  <2> QED
    BY <2>1, <2>2
<1>14. ASSUME NEW j \in 1..Len(c)
       PROVE  c[j] = IF j < i THEN b[j] ELSE IF j = i THEN cut ELSE IF j = i + 1 THEN new ELSE b[j - 1]
  <2>1. CASE j < i
    <3>1. j \in 1..Len(b) /\ j # i /\ j \in 1..i /\ j \in 1..(Len(b) + 1) /\ j <= i + 1
      BY <1>1, <1>13, <2>1
    <3>2. c[j] = z[j] /\ z[j] = d[j] /\ d[j] = b[j]
      BY <1>5, <1>11, <1>13, <3>1
    <3> QED
      BY <2>1, <3>2
  <2>2. CASE j = i
    BY <1>1, <1>5, <1>11, <1>13, <2>2
  <2>3. CASE j = i + 1
    BY <1>1, <1>11, <1>13, <2>3
  <2>4. CASE j > i + 1
    <3>1. j - (i + 1) \in 1..(Len(b) - i) /\ i + (j - (i + 1)) = j - 1 /\ j - 1 \in 1..Len(b) /\ j - 1 # i
      BY <1>1, <1>13, <2>4
    <3>2. c[j] = y[j - (i + 1)]
      BY <1>1, <1>13, <2>4
    <3>3. y[j - (i + 1)] = d[i + (j - (i + 1))]
      BY <1>9, <3>1
    <3>4. c[j] = b[j - 1]
      BY <1>5, <3>1, <3>2, <3>3
    <3> QED
      BY <1>1, <1>13, <2>4, <3>4
  <2> QED
    BY <1>1, <1>13, <2>1, <2>2, <2>3, <2>4
<1> QED
  BY <1>7, <1>10, <1>12, <1>13, <1>14 DEF cut, new

\* A merge lengthens a block by the one behind it.
LEMMA JoinedIs ==
    ASSUME NEW b \in Seq(Block), NEW i \in 1..(Len(b) - 1)
    PROVE  LET c == Joined(b, i)
           IN  /\ c \in Seq(Block) /\ Len(c) = Len(b) - 1
               /\ \A j \in 1..Len(c) :
                    c[j] = IF j < i THEN b[j]
                           ELSE IF j = i
                           THEN [b[i] EXCEPT !.size = b[i].size + BLOCK_HEADER_SIZE + b[i + 1].size]
                           ELSE b[j + 1]
<1> DEFINE long == [b[i] EXCEPT !.size = b[i].size + BLOCK_HEADER_SIZE + b[i + 1].size]
           d   == [b EXCEPT ![i] = long]
           x   == SubSeq(d, 1, i)
           y   == SubSeq(d, i + 2, Len(d))
<1>1. i \in 1..Len(b) /\ i + 1 \in 1..Len(b) /\ Len(b) \in Nat
  OBVIOUS
<1>2. b[i] \in Block /\ b[i + 1] \in Block
  BY <1>1
<1>3. long \in Block
  <2>1. b[i].size \in Nat \ {0} /\ b[i + 1].size \in Nat \ {0}
    BY <1>2 DEF Block
  <2>2. b[i].size + BLOCK_HEADER_SIZE + b[i + 1].size \in Nat \ {0}
    BY <2>1, HeaderFits
  <2> QED
    BY <1>2, <2>2 DEF Block
<1>4. [b EXCEPT ![i].size = @ + BLOCK_HEADER_SIZE + b[i + 1].size] = d
  BY <1>1, <1>2 DEF Block
<1>5. Joined(b, i) = SubSeq(d, 1, (i + 1) - 1) \o SubSeq(d, (i + 1) + 1, Len(d))
  BY <1>4 DEF Joined, RemoveAt
<1>6. (i + 1) - 1 = i /\ (i + 1) + 1 = i + 2
  BY <1>1
<1> HIDE DEF long
<1>7. /\ d \in Seq(Block) /\ Len(d) = Len(b) /\ d[i] = long
      /\ \A j \in 1..Len(b) : j # i => d[j] = b[j]
  BY <1>1, <1>3
<1> HIDE DEF d
<1>8. Joined(b, i) = x \o y
  BY <1>5, <1>6
<1>9. /\ x \in Seq(Block) /\ Len(x) = i /\ \A j \in 1..i : x[j] = d[j]
  BY <1>1, <1>7
<1>10. /\ y \in Seq(Block) /\ Len(y) = Len(b) - i - 1
       /\ \A j \in 1..(Len(b) - i - 1) : y[j] = d[i + 1 + j]
  BY <1>1, <1>7
<1> HIDE DEF x, y
<1>11. PICK c : c = x \o y
  OBVIOUS
<1>12. /\ c \in Seq(Block) /\ Len(c) = Len(b) - 1
       /\ \A j \in 1..(Len(b) - 1) : c[j] = IF j <= i THEN x[j] ELSE y[j - i]
  <2>1. /\ c \in Seq(Block) /\ Len(c) = Len(x) + Len(y)
        /\ \A j \in 1..(Len(x) + Len(y)) : c[j] = IF j <= Len(x) THEN x[j] ELSE y[j - Len(x)]
    BY <1>9, <1>10, <1>11, BlockConcat
  <2>2. Len(x) = i /\ Len(x) + Len(y) = Len(b) - 1
    BY <1>1, <1>9, <1>10
  <2> QED
    BY <2>1, <2>2
<1>13. ASSUME NEW j \in 1..Len(c)
       PROVE  c[j] = IF j < i THEN b[j] ELSE IF j = i THEN long ELSE b[j + 1]
  <2>1. CASE j < i
    <3>1. j \in 1..Len(b) /\ j # i /\ j \in 1..i /\ j \in 1..(Len(b) - 1) /\ j <= i
      BY <1>1, <1>12, <2>1
    <3>2. c[j] = x[j] /\ x[j] = d[j] /\ d[j] = b[j]
      BY <1>7, <1>9, <1>12, <3>1
    <3> QED
      BY <2>1, <3>2
  <2>2. CASE j = i
    BY <1>1, <1>7, <1>9, <1>12, <2>2
  <2>3. CASE j > i
    <3>1. j - i \in 1..(Len(b) - i - 1) /\ i + 1 + (j - i) = j + 1 /\ j + 1 \in 1..Len(b) /\ j + 1 # i
      BY <1>1, <1>12, <2>3
    <3>2. c[j] = y[j - i]
      BY <1>1, <1>12, <2>3
    <3> QED
      BY <1>7, <1>10, <2>3, <3>1, <3>2
  <2> QED
    BY <1>1, <1>12, <2>1, <2>2, <2>3
<1> QED
  BY <1>8, <1>11, <1>12, <1>13 DEF long

-----------------------------------------------------------------------------
RegionOf(x) == [ptr |-> x.addr + BLOCK_HEADER_SIZE, size |-> x.size]

\* The data areas in use, by the places of their blocks in the list
LEMMA RegionsAre ==
    ASSUME NEW b \in Seq(Block), NEW r
    PROVE  r \in FirstFitRegions(b) <=> \E i \in 1..Len(b) : ~b[i].free /\ r = RegionOf(b[i])
<1>1. Range(b) = {b[i] : i \in 1..Len(b)}
  BY DEF Range
<1> QED
  BY <1>1 DEF FirstFitRegions, RegionOf

\* The neighbours of each block, of a list in which each entry follows the one before it
LEMMA TiledIs ==
    ASSUME NEW c \in Seq(Block), Len(c) > 0, c[1].addr = 0,
           \A i \in 1..Len(c) :
              NEXT_PHYSICAL_BLOCK(c[i]) = IF i = Len(c) THEN memorySize ELSE c[i + 1].addr
    PROVE  Tiled(c)
<1>1. \A i \in 1..(Len(c) - 1) : i \in 1..Len(c) /\ i # Len(c)
  OBVIOUS
<1>2. Len(c) \in 1..Len(c)
  OBVIOUS
<1> QED
  BY <1>1, <1>2 DEF Tiled

\* The physical neighbour of a block is the next one of the list; the last one ends the pool.
LEMMA TiledEnds ==
    ASSUME NEW b, Tiled(b), NEW i \in 1..Len(b)
    PROVE  NEXT_PHYSICAL_BLOCK(b[i]) = IF i = Len(b) THEN memorySize ELSE b[i + 1].addr
<1>1. Len(b) \in Nat
  BY DEF Tiled
<1>2. i # Len(b) => i \in 1..(Len(b) - 1)
  BY <1>1
<1> QED
  BY <1>2 DEF Tiled

\* Two free neighbours that are joined: the pool stays tiled, no area in use changes,
\* and the block behind them is not free.
LEMMA JoinKeeps ==
    ASSUME NEW b, Tiled(b), NEW i \in 1..(Len(b) - 1), b[i].free, b[i + 1].free,
           NEW E, E \subseteq {i - 1, i}, MergedBut(b, E), NEW c, c = Joined(b, i)
    PROVE  /\ Tiled(c) /\ MergedBut(c, E \ {i}) /\ FirstFitRegions(c) = FirstFitRegions(b)
           /\ Len(c) = Len(b) - 1 /\ c[i].free /\ c[i].addr = b[i].addr
           /\ \A j \in 1..(i - 1) : c[j] = b[j]
<1> DEFINE long == [b[i] EXCEPT !.size = b[i].size + BLOCK_HEADER_SIZE + b[i + 1].size]
<1>1. b \in Seq(Block) /\ Len(b) \in Nat /\ i \in Nat /\ i >= 1 /\ i + 1 <= Len(b)
      /\ i \in 1..Len(b) /\ i + 1 \in 1..Len(b)
  BY DEF Tiled
<1>2. /\ c \in Seq(Block) /\ Len(c) = Len(b) - 1
      /\ \A j \in 1..Len(c) : c[j] = IF j < i THEN b[j] ELSE IF j = i THEN long ELSE b[j + 1]
  <2>1. /\ Joined(b, i) \in Seq(Block) /\ Len(Joined(b, i)) = Len(b) - 1
        /\ \A j \in 1..Len(Joined(b, i)) :
             Joined(b, i)[j] = IF j < i THEN b[j] ELSE IF j = i THEN long ELSE b[j + 1]
    BY <1>1, JoinedIs
  <2> HIDE DEF long
  <2> QED
    BY <2>1
<1>3. /\ long.addr = b[i].addr /\ long.free = b[i].free
      /\ NEXT_PHYSICAL_BLOCK(long) = NEXT_PHYSICAL_BLOCK(b[i + 1])
  <2>1. b[i] \in Block /\ b[i + 1] \in Block
    BY <1>1
  <2>2. long.addr = b[i].addr /\ long.free = b[i].free
        /\ long.size = b[i].size + BLOCK_HEADER_SIZE + b[i + 1].size
    BY <2>1 DEF Block
  <2>3. b[i + 1].addr = b[i].addr + BLOCK_HEADER_SIZE + b[i].size
    BY DEF Tiled, NEXT_PHYSICAL_BLOCK
  <2>4. b[i].addr \in Nat /\ b[i].size \in Nat /\ b[i + 1].size \in Nat
    BY <2>1 DEF Block
  <2> HIDE DEF long
  <2> QED
    BY <2>2, <2>3, <2>4, HeaderFits DEF NEXT_PHYSICAL_BLOCK
<1> HIDE DEF long
<1>4. c[i] = long /\ i \in 1..Len(c)
  BY <1>1, <1>2
<1>5. ASSUME NEW j \in 1..Len(c)
      PROVE  NEXT_PHYSICAL_BLOCK(c[j]) = IF j = Len(c) THEN memorySize ELSE c[j + 1].addr
  <2>1. CASE j < i
    <3>1. c[j] = b[j] /\ j \in 1..Len(b) /\ j # Len(b) /\ j # Len(c)
      BY <1>1, <1>2, <2>1
    <3>2. c[j + 1].addr = b[j + 1].addr
      <4>1. j + 1 \in 1..Len(c) /\ (j + 1 < i \/ j + 1 = i)
        BY <1>1, <1>2, <2>1
      <4> QED
        BY <1>2, <1>3, <4>1
    <3>3. NEXT_PHYSICAL_BLOCK(b[j]) = b[j + 1].addr
      BY <3>1, TiledEnds
    <3> QED
      BY <3>1, <3>2, <3>3
  <2>2. CASE j >= i
    <3>1. j + 1 \in 1..Len(b) /\ (j = Len(c) <=> j + 1 = Len(b))
      BY <1>1, <1>2, <2>2
    <3>2. NEXT_PHYSICAL_BLOCK(c[j]) = NEXT_PHYSICAL_BLOCK(b[j + 1])
      <4>1. CASE j = i
        BY <1>3, <1>4, <4>1
      <4>2. CASE j # i
        <5>1. c[j] = b[j + 1]
          BY <1>1, <1>2, <2>2, <4>2
        <5> QED
          BY <5>1
      <4> QED
        BY <4>1, <4>2
    <3>3. NEXT_PHYSICAL_BLOCK(b[j + 1]) = IF j + 1 = Len(b) THEN memorySize ELSE b[(j + 1) + 1].addr
      BY <3>1, TiledEnds
    <3>4. j # Len(c) => c[j + 1] = b[(j + 1) + 1]
      <4>1. j # Len(c) => j + 1 \in 1..Len(c) /\ ~(j + 1 < i) /\ j + 1 # i
        <5>1. Len(c) \in Nat
          BY <1>1, <1>2
        <5> QED
          BY <1>1, <2>2, <5>1
      <4> QED
        BY <1>2, <4>1
    <3> QED
      BY <3>1, <3>2, <3>3, <3>4
  <2> QED
    BY <1>1, <1>2, <2>1, <2>2
<1>6. Tiled(c)
  <2>1. c[1].addr = 0
    <3>1. b[1].addr = 0
      BY DEF Tiled
    <3>2. CASE i = 1
      BY <1>3, <1>4, <3>1, <3>2
    <3>3. CASE i # 1
      <4>1. 1 \in 1..Len(c) /\ 1 < i
        BY <1>1, <1>2, <3>3
      <4> QED
        BY <1>2, <3>1, <4>1
    <3> QED
      BY <3>2, <3>3
  <2>2. Len(c) > 0
    BY <1>1, <1>2
  <2> QED
    BY <1>2, <1>5, <2>1, <2>2, TiledIs
<1>7. MergedBut(c, E \ {i})
  <2> SUFFICES ASSUME NEW j \in 1..(Len(c) - 1), j \notin E \ {i}, c[j].free, c[j + 1].free
               PROVE  FALSE
    BY DEF MergedBut
  <2>1. j \in Nat /\ j >= 1 /\ j + 1 <= Len(c) /\ j \in 1..Len(c) /\ j + 1 \in 1..Len(c)
    BY <1>2
  <2>2. CASE j + 1 < i
    <3>1. c[j] = b[j] /\ c[j + 1] = b[j + 1] /\ j \in 1..(Len(b) - 1) /\ j \notin E
      BY <1>1, <1>2, <2>1, <2>2
    <3> QED
      BY <3>1 DEF MergedBut
  <2>3. CASE j + 1 = i
    <3>1. c[j] = b[j] /\ c[j + 1].free = b[j + 1].free /\ j \in 1..(Len(b) - 1) /\ j # i
      <4>1. j < i /\ j # i /\ j \in 1..(Len(b) - 1)
        BY <1>1, <1>2, <2>1, <2>3
      <4>2. c[j] = b[j]
        BY <1>2, <2>1, <4>1
      <4>3. c[j + 1] = long /\ long.free = b[j + 1].free
        BY <1>3, <1>4, <2>3
      <4> QED
        BY <4>1, <4>2, <4>3
    <3> QED
      BY <3>1 DEF MergedBut
  <2>4. CASE j >= i
    <3>1. c[j + 1] = b[(j + 1) + 1] /\ j + 1 \in 1..(Len(b) - 1) /\ j + 1 \notin E
      BY <1>1, <1>2, <2>1, <2>4
    <3>2. b[j + 1].free
      <4>1. CASE j = i
        BY <4>1
      <4>2. CASE j # i
        <5>1. c[j] = b[j + 1]
          BY <1>1, <1>2, <2>1, <2>4, <4>2
        <5> QED
          BY <5>1
      <4> QED
        BY <4>1, <4>2
    <3> QED
      BY <3>1, <3>2 DEF MergedBut
  <2> QED
    BY <1>1, <2>1, <2>2, <2>3, <2>4
<1>8. ASSUME NEW r PROVE r \in FirstFitRegions(c) <=> r \in FirstFitRegions(b)
  <2>1. ASSUME NEW j \in 1..Len(c), ~c[j].free, r = RegionOf(c[j])
        PROVE  \E k \in 1..Len(b) : ~b[k].free /\ r = RegionOf(b[k])
    <3>1. j # i
      BY <1>3, <1>4, <2>1
    <3>2. CASE j < i
      <4>1. c[j] = b[j] /\ j \in 1..Len(b)
        BY <1>1, <1>2, <3>2
      <4> QED
        BY <2>1, <4>1
    <3>3. CASE ~(j < i)
      <4>1. c[j] = b[j + 1] /\ j + 1 \in 1..Len(b)
        BY <1>1, <1>2, <3>1, <3>3
      <4> QED
        BY <2>1, <4>1
    <3> QED
      BY <3>2, <3>3
  <2>2. ASSUME NEW k \in 1..Len(b), ~b[k].free, r = RegionOf(b[k])
        PROVE  \E j \in 1..Len(c) : ~c[j].free /\ r = RegionOf(c[j])
    <3>1. k # i /\ k # i + 1
      BY <2>2
    <3>2. CASE k < i
      <4>1. k \in 1..Len(c) /\ c[k] = b[k]
        BY <1>1, <1>2, <3>2
      <4> QED
        BY <2>2, <4>1
    <3>3. CASE k > i + 1
      <4>1. k - 1 \in 1..Len(c) /\ ~(k - 1 < i) /\ k - 1 # i /\ (k - 1) + 1 = k
        BY <1>1, <1>2, <3>3
      <4>2. c[k - 1] = b[k]
        BY <1>2, <4>1
      <4> QED
        BY <2>2, <4>1, <4>2
    <3> QED
      BY <1>1, <3>1, <3>2, <3>3
  <2> QED
    BY <1>1, <1>2, <2>1, <2>2, RegionsAre
<1>9. \A j \in 1..(i - 1) : c[j] = b[j]
  BY <1>1, <1>2
<1> QED
  BY <1>2, <1>3, <1>4, <1>6, <1>7, <1>8, <1>9

\* A block whose state alone changes
Marked(b, i, f) == [b EXCEPT ![i].free = f]

\* Setting or clearing the flag of one block moves no block and changes no other.
LEMMA MarkKeeps ==
    ASSUME NEW b, Tiled(b), NEW i \in 1..Len(b), NEW f \in BOOLEAN,
           NEW c, c = Marked(b, i, f)
    PROVE  /\ Tiled(c) /\ Len(c) = Len(b)
           /\ c[i].free = f /\ c[i].addr = b[i].addr /\ c[i].size = b[i].size
           /\ \A j \in 1..Len(b) : j # i => c[j] = b[j]
<1>0. PICK x : x = [b[i] EXCEPT !.free = f]
  OBVIOUS
<1>1. b \in Seq(Block) /\ Len(b) \in Nat /\ Len(b) > 0 /\ b[i] \in Block
  BY DEF Tiled
<1>2. /\ x \in Block /\ x.free = f /\ x.addr = b[i].addr /\ x.size = b[i].size
  BY <1>0, <1>1 DEF Block
<1>21. c = [b EXCEPT ![i] = x]
  BY <1>0, <1>1 DEF Marked
<1> HIDE DEF Block
<1>22. /\ c \in Seq(Block) /\ Len(c) = Len(b) /\ c[i] = x
       /\ \A j \in 1..Len(b) : j # i => c[j] = b[j]
  BY <1>1, <1>2, <1>21
<1>3. \A j \in 1..Len(b) : c[j].addr = b[j].addr /\ NEXT_PHYSICAL_BLOCK(c[j]) = NEXT_PHYSICAL_BLOCK(b[j])
  BY <1>1, <1>2, <1>22 DEF NEXT_PHYSICAL_BLOCK
<1>4. ASSUME NEW j \in 1..Len(c)
      PROVE  NEXT_PHYSICAL_BLOCK(c[j]) = IF j = Len(c) THEN memorySize ELSE c[j + 1].addr
  <2>1. NEXT_PHYSICAL_BLOCK(b[j]) = IF j = Len(b) THEN memorySize ELSE b[j + 1].addr
    BY <1>22, TiledEnds
  <2>2. j # Len(b) => j + 1 \in 1..Len(b)
    BY <1>1, <1>22
  <2> QED
    BY <1>22, <1>3, <2>1, <2>2
<1>5. c[1].addr = 0
  <2>1. 1 \in 1..Len(b) /\ b[1].addr = 0
    BY <1>1 DEF Tiled
  <2> QED
    BY <1>3, <2>1
<1>6. Tiled(c)
  BY <1>1, <1>22, <1>4, <1>5, TiledIs
<1> QED
  BY <1>2, <1>22, <1>6

-----------------------------------------------------------------------------
\* The search for the block of an address finds the one block there.
LEMMA AtIs ==
    ASSUME NEW b, Tiled(b), NEW i \in 1..Len(b), NEW ptr, ptr = b[i].addr + BLOCK_HEADER_SIZE
    PROVE  At(b, ptr) = {i} /\ Min(At(b, ptr)) = i
<1>1. b \in Seq(Block) /\ Len(b) \in Nat /\ DOMAIN b = 1..Len(b)
  BY DEF Tiled
<1>2. b[i].addr = ptr - BLOCK_HEADER_SIZE
  <2>1. b[i].addr \in Nat
    BY <1>1, BlockFacts
  <2> QED
    BY <2>1, HeaderFits
<1>3. At(b, ptr) = {i}
  <2>1. \A j \in 1..Len(b) : b[j].addr = b[i].addr => j = i
    BY BlocksApart
  <2> QED
    BY <1>1, <1>2, <2>1 DEF At
<1>4. {i} \subseteq Nat /\ {i} # {}
  BY <1>1
<1>5. Min({i}) \in {i}
  BY <1>4, MinInSet
<1> QED
  BY <1>3, <1>5

\* freeMemory of a block in use: its area goes, no other does, and the pool is again
\* without free neighbours.
LEMMA FreeEffect ==
    ASSUME NEW b, PoolOK(b), NEW r \in FirstFitRegions(b), NEW c, c = FirstFitFree(b, r.ptr)
    PROVE  /\ PoolOK(c)
           /\ FirstFitRegions(c) = {x \in FirstFitRegions(b) : x.ptr # r.ptr}
<1> DEFINE ptr == r.ptr
<1>1. b \in Seq(Block) /\ Len(b) \in Nat /\ Tiled(b) /\ MergedBut(b, {})
  BY DEF PoolOK, Tiled
<1>2. PICK i \in 1..Len(b) : ~b[i].free /\ r = RegionOf(b[i])
  BY <1>1, RegionsAre
<1>3. ptr = b[i].addr + BLOCK_HEADER_SIZE /\ ptr # NULLPTR
  <2>1. r.ptr = b[i].addr + BLOCK_HEADER_SIZE
    BY <1>2 DEF RegionOf
  <2>2. b[i].addr \in Nat
    BY <1>1, BlockFacts
  <2> QED
    BY <2>1, <2>2, HeaderFits DEF NULLPTR
<1> HIDE DEF ptr
<1>4. At(b, ptr) = {i} /\ Min(At(b, ptr)) = i
  BY <1>1, <1>3, AtIs
<1>5. PICK m : m = MarkFree(b, ptr)
  OBVIOUS
<1>6. m = [b EXCEPT ![i].free = TRUE]
  BY <1>4, <1>5 DEF MarkFree
<1>7. /\ Tiled(m) /\ Len(m) = Len(b) /\ m[i].free /\ m[i].addr = b[i].addr
      /\ \A j \in 1..Len(b) : j # i => m[j] = b[j]
  <2>1. PICK f \in BOOLEAN : f = TRUE
    OBVIOUS
  <2>2. m = Marked(b, i, f)
    BY <1>6, <2>1 DEF Marked
  <2>3. /\ Tiled(m) /\ Len(m) = Len(b)
        /\ m[i].free = f /\ m[i].addr = b[i].addr /\ m[i].size = b[i].size
        /\ \A j \in 1..Len(b) : j # i => m[j] = b[j]
    BY <1>1, <2>2, MarkKeeps
  <2> QED
    BY <2>1, <2>3
<1>8. MergedBut(m, {i - 1, i})
  <2> SUFFICES ASSUME NEW j \in 1..(Len(m) - 1), j \notin {i - 1, i} PROVE ~(m[j].free /\ m[j + 1].free)
    BY DEF MergedBut
  <2>1. j \in 1..(Len(b) - 1) /\ j \in 1..Len(b) /\ j + 1 \in 1..Len(b) /\ j # i /\ j + 1 # i
    BY <1>1, <1>7
  <2>2. m[j] = b[j] /\ m[j + 1] = b[j + 1]
    BY <1>7, <2>1
  <2> QED
    BY <1>1, <2>1, <2>2 DEF MergedBut
<1>9. ASSUME NEW x PROVE x \in FirstFitRegions(m) <=> x \in FirstFitRegions(b) /\ x.ptr # ptr
  <2>1. m \in Seq(Block)
    BY <1>7 DEF Tiled
  <2>2. ASSUME NEW j \in 1..Len(b), ~m[j].free, x = RegionOf(m[j])
        PROVE  ~b[j].free /\ x = RegionOf(b[j]) /\ x.ptr # ptr
    <3>1. j # i
      BY <1>7, <2>2
    <3>2. m[j] = b[j]
      BY <1>7, <3>1
    <3>3. b[j].addr # b[i].addr /\ b[j].addr \in Nat /\ b[i].addr \in Nat
      BY <1>1, <3>1, BlocksApart, BlockFacts
    <3>4. x.ptr = b[j].addr + BLOCK_HEADER_SIZE
      BY <2>2, <3>2 DEF RegionOf
    <3> QED
      BY <1>3, <2>2, <3>2, <3>3, <3>4, HeaderFits
  <2>3. ASSUME NEW j \in 1..Len(b), ~b[j].free, x = RegionOf(b[j]), x.ptr # ptr
        PROVE  ~m[j].free /\ x = RegionOf(m[j])
    <3>1. j # i
      BY <1>3, <2>3 DEF RegionOf
    <3> QED
      BY <1>7, <2>3, <3>1
  <2>4. x \in FirstFitRegions(m) <=> \E j \in 1..Len(b) : ~m[j].free /\ x = RegionOf(m[j])
    BY <1>7, <2>1, RegionsAre
  <2>5. x \in FirstFitRegions(b) <=> \E j \in 1..Len(b) : ~b[j].free /\ x = RegionOf(b[j])
    BY <1>1, RegionsAre
  <2> QED
    BY <2>2, <2>3, <2>4, <2>5
<1>10. PICK n : n = JoinNext(m, ptr)
  OBVIOUS
<1>11. n = mergeWithNext(m, i)
  <2>1. ptr = m[i].addr + BLOCK_HEADER_SIZE /\ i \in 1..Len(m)
    BY <1>3, <1>7
  <2>2. Min(At(m, ptr)) = i
    BY <1>7, <2>1, AtIs
  <2> QED
    BY <1>10, <2>2 DEF JoinNext
<1>12. /\ Tiled(n) /\ MergedBut(n, {i - 1}) /\ FirstFitRegions(n) = FirstFitRegions(m)
       /\ i \in 1..Len(n) /\ n[i].free /\ n[i].addr = b[i].addr
  <2>1. CASE i < Len(m) /\ m[i + 1].free /\ Adjacent(m, i)
    <3>1. n = Joined(m, i) /\ i \in 1..(Len(m) - 1) /\ {i - 1, i} \subseteq {i - 1, i}
      BY <1>1, <1>7, <1>11, <2>1 DEF mergeWithNext
    <3>2. PICK E : E = {i - 1, i}
      OBVIOUS
    <3>3. /\ Tiled(n) /\ MergedBut(n, E \ {i}) /\ FirstFitRegions(n) = FirstFitRegions(m)
          /\ Len(n) = Len(m) - 1 /\ n[i].free /\ n[i].addr = m[i].addr
      BY <1>7, <1>8, <2>1, <3>1, <3>2, JoinKeeps
    <3>4. E \ {i} = {i - 1}
      BY <1>1, <3>2
    <3> QED
      BY <1>1, <1>7, <3>1, <3>3, <3>4
  <2>2. CASE ~(i < Len(m) /\ m[i + 1].free /\ Adjacent(m, i))
    <3>1. n = m
      BY <1>11, <2>2 DEF mergeWithNext
    <3>2. i < Len(m) => ~m[i + 1].free
      <4>1. i < Len(m) => i \in 1..(Len(m) - 1)
        BY <1>1, <1>7
      <4>2. i < Len(m) => Adjacent(m, i)
        BY <1>7, <4>1 DEF Tiled, Adjacent
      <4> QED
        BY <2>2, <4>2
    <3>3. MergedBut(m, {i - 1})
      <4> SUFFICES ASSUME NEW j \in 1..(Len(m) - 1), j \notin {i - 1}
                   PROVE  ~(m[j].free /\ m[j + 1].free)
        BY DEF MergedBut
      <4>1. CASE j = i
        BY <1>1, <1>7, <3>2, <4>1
      <4>2. CASE j # i
        BY <1>8, <4>2 DEF MergedBut
      <4> QED
        BY <4>1, <4>2
    <3> QED
      BY <1>7, <3>1, <3>3
  <2> QED
    BY <2>1, <2>2
<1>13. c = mergeWithPrevious(n, i)
  <2>1. c = JoinPrevious(n, ptr)
    <3>1. ~b[Min(At(b, ptr))].free /\ At(b, ptr) # {}
      BY <1>2, <1>4
    <3> QED
      BY <1>3, <1>5, <1>10, <3>1 DEF FirstFitFree, ptr
  <2>2. ptr = n[i].addr + BLOCK_HEADER_SIZE
    BY <1>3, <1>12
  <2>3. Min(At(n, ptr)) = i
    BY <1>12, <2>2, AtIs
  <2> QED
    BY <2>1, <2>3 DEF JoinPrevious
<1>14. Tiled(c) /\ MergedBut(c, {}) /\ FirstFitRegions(c) = FirstFitRegions(n)
  <2>0. Len(n) \in Nat
    BY <1>12 DEF Tiled
  <2>1. CASE i > 1 /\ n[i - 1].free /\ Adjacent(n, i - 1)
    <3>1. PICK k : k = i - 1
      OBVIOUS
    <3>2. k \in 1..(Len(n) - 1) /\ k + 1 = i /\ {k} \subseteq {k - 1, k}
      BY <1>12, <2>0, <2>1, <3>1
    <3>3. c = Joined(n, k) /\ n[k].free /\ n[k + 1].free
      BY <1>12, <1>13, <2>1, <3>1, <3>2 DEF mergeWithPrevious
    <3>4. PICK E : E = {k}
      OBVIOUS
    <3>5. Tiled(c) /\ MergedBut(c, E \ {k}) /\ FirstFitRegions(c) = FirstFitRegions(n)
      BY <1>12, <3>1, <3>2, <3>3, <3>4, JoinKeeps
    <3>6. E \ {k} = {}
      BY <3>4
    <3> QED
      BY <3>5, <3>6
  <2>2. CASE ~(i > 1 /\ n[i - 1].free /\ Adjacent(n, i - 1))
    <3>1. c = n
      BY <1>13, <2>2 DEF mergeWithPrevious
    <3>2. i > 1 => ~n[i - 1].free
      <4>1. i > 1 => i - 1 \in 1..(Len(n) - 1) /\ (i - 1) + 1 = i
        BY <1>12, <2>0
      <4>2. i > 1 => Adjacent(n, i - 1)
        BY <1>12, <4>1 DEF Tiled, Adjacent
      <4> QED
        BY <2>2, <4>2
    <3>3. MergedBut(n, {})
      <4> SUFFICES ASSUME NEW j \in 1..(Len(n) - 1) PROVE ~(n[j].free /\ n[j + 1].free)
        BY DEF MergedBut
      <4>1. CASE j = i - 1
        BY <1>12, <2>0, <3>2, <4>1
      <4>2. CASE j # i - 1
        BY <1>12, <4>2 DEF MergedBut
      <4> QED
        BY <4>1, <4>2
    <3> QED
      BY <1>12, <3>1, <3>3
  <2> QED
    BY <2>1, <2>2
<1>15. FirstFitRegions(c) = {x \in FirstFitRegions(b) : x.ptr # ptr}
  BY <1>9, <1>12, <1>14
<1> QED
  BY <1>14, <1>15 DEF PoolOK, ptr

\* c is a tiled list with the areas in use of b, whose block i is free, at the address
\* of block i of b, and alone may have a free block behind it.
Cut(b, i, size, c) ==
    /\ Tiled(c) /\ MergedBut(c, {i}) /\ FirstFitRegions(c) = FirstFitRegions(b)
    /\ i \in 1..Len(c) /\ c[i].addr = b[i].addr /\ c[i].size = size /\ c[i].free

\* The block splitBlock makes behind the block it cuts is free, and no other area
\* changes but that of the block, which was free.
LEMMA SplitKeeps ==
    ASSUME NEW b, PoolOK(b), NEW i \in 1..Len(b), b[i].free, NEW size \in Nat \ {0},
           b[i].size - size - BLOCK_HEADER_SIZE \in Nat \ {0},
           NEW c, c = splitBlock(b, i, size)
    PROVE  Cut(b, i, size, c)
<1> DEFINE cut == [b[i] EXCEPT !.size = size]
           new == [addr |-> b[i].addr + BLOCK_HEADER_SIZE + size,
                   size |-> b[i].size - size - BLOCK_HEADER_SIZE, free |-> TRUE]
<1>1. b \in Seq(Block) /\ Len(b) \in Nat /\ Tiled(b) /\ MergedBut(b, {}) /\ i >= 1 /\ i <= Len(b)
  BY DEF PoolOK, Tiled
<1>2. /\ c \in Seq(Block) /\ Len(c) = Len(b) + 1
      /\ \A j \in 1..Len(c) : c[j] = IF j < i THEN b[j] ELSE IF j = i THEN cut
                                     ELSE IF j = i + 1 THEN new ELSE b[j - 1]
  <2>1. LET d == splitBlock(b, i, size)
        IN  /\ d \in Seq(Block) /\ Len(d) = Len(b) + 1
            /\ \A j \in 1..Len(d) : d[j] = IF j < i THEN b[j] ELSE IF j = i THEN cut
                                           ELSE IF j = i + 1 THEN new ELSE b[j - 1]
    BY <1>1, SplitIs
  <2> HIDE DEF cut, new
  <2> QED
    BY <2>1
<1>3. /\ cut.addr = b[i].addr /\ cut.size = size /\ cut.free
      /\ NEXT_PHYSICAL_BLOCK(cut) = new.addr
      /\ new.free /\ NEXT_PHYSICAL_BLOCK(new) = NEXT_PHYSICAL_BLOCK(b[i])
  <2>1. b[i] \in Block /\ b[i].addr \in Nat /\ b[i].size \in Nat
    BY <1>1, BlockFacts
  <2>2. cut.addr = b[i].addr /\ cut.size = size /\ cut.free
    BY <2>1 DEF Block
  <2>3. /\ new.addr = b[i].addr + BLOCK_HEADER_SIZE + size
        /\ new.size = b[i].size - size - BLOCK_HEADER_SIZE /\ new.free
    OBVIOUS
  <2> HIDE DEF cut, new
  <2>4. BLOCK_HEADER_SIZE \in Nat
    BY HeaderFits
  <2>5. NEXT_PHYSICAL_BLOCK(cut) = b[i].addr + BLOCK_HEADER_SIZE + size
    BY <2>2 DEF NEXT_PHYSICAL_BLOCK
  <2>6. NEXT_PHYSICAL_BLOCK(new)
          = b[i].addr + BLOCK_HEADER_SIZE + size + BLOCK_HEADER_SIZE
              + (b[i].size - size - BLOCK_HEADER_SIZE)
    BY <2>3 DEF NEXT_PHYSICAL_BLOCK
  <2>7. NEXT_PHYSICAL_BLOCK(b[i]) = b[i].addr + BLOCK_HEADER_SIZE + b[i].size
    BY DEF NEXT_PHYSICAL_BLOCK
  <2>8. NEXT_PHYSICAL_BLOCK(new) = NEXT_PHYSICAL_BLOCK(b[i])
    BY <2>1, <2>4, <2>6, <2>7
  <2> QED
    BY <2>2, <2>3, <2>5, <2>8
<1> HIDE DEF cut, new
<1>4. c[i] = cut /\ c[i + 1] = new /\ i \in 1..Len(c) /\ i + 1 \in 1..Len(c) /\ Len(c) \in Nat
  BY <1>1, <1>2
<1>5. \A j \in 1..Len(c) : j < i => c[j] = b[j] /\ j \in 1..Len(b)
  BY <1>1, <1>2
<1>6. \A j \in 1..Len(c) : j > i + 1 => c[j] = b[j - 1] /\ j - 1 \in 1..Len(b)
  BY <1>1, <1>2
<1>7. ASSUME NEW j \in 1..Len(c)
      PROVE  NEXT_PHYSICAL_BLOCK(c[j]) = IF j = Len(c) THEN memorySize ELSE c[j + 1].addr
  <2>1. CASE j < i
    <3>1. c[j] = b[j] /\ j \in 1..Len(b) /\ j # Len(b) /\ j # Len(c)
      BY <1>1, <1>2, <1>5, <2>1
    <3>2. c[j + 1].addr = b[j + 1].addr
      <4>1. j + 1 \in 1..Len(c) /\ (j + 1 < i \/ j + 1 = i)
        BY <1>1, <1>4, <2>1
      <4> QED
        BY <1>3, <1>4, <1>5, <4>1
    <3> QED
      BY <3>1, <3>2, <1>1, TiledEnds
  <2>2. CASE j = i
    <3>1. j # Len(c)
      BY <1>1, <1>2, <2>2
    <3> QED
      BY <1>3, <1>4, <2>2, <3>1
  <2>3. CASE j >= i + 1
    <3>1. j - 1 \in 1..Len(b) /\ (j = Len(c) <=> j - 1 = Len(b)) /\ (j - 1) + 1 = j
      BY <1>1, <1>2, <2>3
    <3>2. NEXT_PHYSICAL_BLOCK(c[j]) = NEXT_PHYSICAL_BLOCK(b[j - 1])
      <4>1. CASE j = i + 1
        <5>1. j - 1 = i
          BY <1>1, <4>1
        <5> QED
          BY <1>3, <1>4, <4>1, <5>1
      <4>2. CASE j # i + 1
        <5>1. j > i + 1
          BY <1>1, <2>3, <4>2
        <5> QED
          BY <1>6, <5>1
      <4> QED
        BY <4>1, <4>2
    <3>3. NEXT_PHYSICAL_BLOCK(b[j - 1]) = IF j - 1 = Len(b) THEN memorySize ELSE b[(j - 1) + 1].addr
      BY <1>1, <3>1, TiledEnds
    <3>4. j # Len(c) => c[j + 1] = b[j]
      <4>1. j # Len(c) => j + 1 \in 1..Len(c) /\ j + 1 > i + 1 /\ (j + 1) - 1 = j
        BY <1>1, <1>4, <2>3
      <4> QED
        BY <1>6, <4>1
    <3> QED
      BY <3>1, <3>2, <3>3, <3>4
  <2> QED
    BY <1>1, <2>1, <2>2, <2>3
<1>8. Tiled(c)
  <2>1. c[1].addr = 0
    <3>1. b[1].addr = 0
      BY <1>1 DEF Tiled
    <3>2. CASE i = 1
      BY <1>3, <1>4, <3>1, <3>2
    <3>3. CASE i # 1
      <4>1. 1 \in 1..Len(c) /\ 1 < i
        BY <1>1, <1>4, <3>3
      <4> QED
        BY <1>5, <3>1, <4>1
    <3> QED
      BY <3>2, <3>3
  <2>2. Len(c) > 0
    BY <1>1, <1>2
  <2> QED
    BY <1>2, <1>7, <2>1, <2>2, TiledIs
<1>9. MergedBut(c, {i})
  <2> SUFFICES ASSUME NEW j \in 1..(Len(c) - 1), j # i, c[j].free, c[j + 1].free
               PROVE  FALSE
    BY DEF MergedBut
  <2>1. j \in Nat /\ j >= 1 /\ j + 1 <= Len(c) /\ j \in 1..Len(c) /\ j + 1 \in 1..Len(c)
    BY <1>4
  <2>2. CASE j + 1 < i
    <3>1. c[j] = b[j] /\ c[j + 1] = b[j + 1] /\ j \in 1..(Len(b) - 1)
      BY <1>1, <1>5, <2>1, <2>2
    <3> QED
      BY <1>1, <3>1 DEF MergedBut
  <2>3. CASE j + 1 = i
    <3>1. c[j] = b[j] /\ j \in 1..(Len(b) - 1)
      BY <1>1, <1>5, <2>1, <2>3
    <3> QED
      BY <1>1, <2>3, <3>1 DEF MergedBut
  <2>4. CASE j > i
    <3>1. c[j + 1] = b[j] /\ j \in 1..Len(b) /\ j - 1 \in 1..(Len(b) - 1) /\ (j - 1) + 1 = j
      BY <1>1, <1>2, <1>6, <2>1, <2>4
    <3>2. b[j - 1].free
      <4>1. CASE j = i + 1
        <5>1. j - 1 = i
          BY <1>1, <4>1
        <5> QED
          BY <5>1
      <4>2. CASE j # i + 1
        <5>1. j > i + 1
          BY <1>1, <2>1, <2>4, <4>2
        <5> QED
          BY <1>6, <5>1
      <4> QED
        BY <4>1, <4>2
    <3> QED
      BY <1>1, <3>1, <3>2 DEF MergedBut
  <2> QED
    BY <1>1, <2>1, <2>2, <2>3, <2>4
<1>10. ASSUME NEW r PROVE r \in FirstFitRegions(c) <=> r \in FirstFitRegions(b)
  <2>1. ASSUME NEW j \in 1..Len(c), ~c[j].free, r = RegionOf(c[j])
        PROVE  \E k \in 1..Len(b) : ~b[k].free /\ r = RegionOf(b[k])
    <3>1. j # i /\ j # i + 1
      BY <1>3, <1>4, <2>1
    <3>2. j < i \/ j > i + 1
      BY <1>1, <3>1
    <3> QED
      BY <1>5, <1>6, <2>1, <3>2
  <2>2. ASSUME NEW k \in 1..Len(b), ~b[k].free, r = RegionOf(b[k])
        PROVE  \E j \in 1..Len(c) : ~c[j].free /\ r = RegionOf(c[j])
    <3>1. k # i
      BY <2>2
    <3>2. CASE k < i
      <4>1. k \in 1..Len(c) /\ c[k] = b[k]
        BY <1>1, <1>2, <1>5, <3>2
      <4> QED
        BY <2>2, <4>1
    <3>3. CASE k > i
      <4>1. k + 1 \in 1..Len(c) /\ k + 1 > i + 1 /\ (k + 1) - 1 = k
        BY <1>1, <1>2, <3>3
      <4>2. c[k + 1] = b[k]
        BY <1>6, <4>1
      <4> QED
        BY <2>2, <4>1, <4>2
    <3> QED
      BY <1>1, <3>1, <3>2, <3>3
  <2> QED
    BY <1>1, <1>2, <2>1, <2>2, RegionsAre
<1> QED
  BY <1>3, <1>4, <1>8, <1>9, <1>10 DEF Cut

\* A block that is taken adds its area, which overlaps no other.
LEMMA TakeKeeps ==
    ASSUME NEW b, Tiled(b), NEW i \in 1..Len(b), b[i].free, MergedBut(b, {i}),
           NEW f \in BOOLEAN, ~f, NEW c, c = Marked(b, i, f)
    PROVE  /\ PoolOK(c)
           /\ FirstFitRegions(c) = FirstFitRegions(b) \cup {RegionOf(b[i])}
           /\ RegionOf(b[i]).ptr \in Nat \ {0} /\ RegionOf(b[i]).size \in Nat \ {0}
           /\ RegionOf(b[i]).ptr - BLOCK_HEADER_SIZE \in Nat
           /\ RegionOf(b[i]).ptr + RegionOf(b[i]).size <= memorySize
           /\ \A r \in FirstFitRegions(b) :
                /\ r.ptr \in Nat /\ r.size \in Nat \ {0}
                /\ \/ r.ptr + r.size <= RegionOf(b[i]).ptr - BLOCK_HEADER_SIZE
                   \/ RegionOf(b[i]).ptr + RegionOf(b[i]).size <= r.ptr - BLOCK_HEADER_SIZE
<1>1. b \in Seq(Block) /\ Len(b) \in Nat
  BY DEF Tiled
<1>2. /\ Tiled(c) /\ Len(c) = Len(b) /\ ~c[i].free /\ c[i].addr = b[i].addr /\ c[i].size = b[i].size
      /\ \A j \in 1..Len(b) : j # i => c[j] = b[j]
  <2>1. /\ Tiled(c) /\ Len(c) = Len(b)
        /\ c[i].free = f /\ c[i].addr = b[i].addr /\ c[i].size = b[i].size
        /\ \A j \in 1..Len(b) : j # i => c[j] = b[j]
    BY MarkKeeps
  <2> QED
    BY <2>1
<1>3. MergedBut(c, {})
  <2> SUFFICES ASSUME NEW j \in 1..(Len(c) - 1), c[j].free, c[j + 1].free PROVE FALSE
    BY DEF MergedBut
  <2>0. j \in 1..(Len(b) - 1)
    BY <1>2
  <2>01. j # i /\ j + 1 # i
    BY <1>2
  <2>1. j \in 1..(Len(b) - 1) /\ j \in 1..Len(b) /\ j + 1 \in 1..Len(b) /\ j # i /\ j + 1 # i
    BY <1>1, <2>0, <2>01
  <2>2. c[j] = b[j] /\ c[j + 1] = b[j + 1]
    BY <1>2, <2>1
  <2> QED
    BY <2>1, <2>2 DEF MergedBut
<1>4. RegionOf(c[i]) = RegionOf(b[i])
  BY <1>2 DEF RegionOf
<1>5. ASSUME NEW r PROVE r \in FirstFitRegions(c) <=> r \in FirstFitRegions(b) \/ r = RegionOf(b[i])
  <2>1. c \in Seq(Block)
    BY <1>2 DEF Tiled
  <2>2. r \in FirstFitRegions(c) <=> \E j \in 1..Len(b) : ~c[j].free /\ r = RegionOf(c[j])
    <3>1. r \in FirstFitRegions(c) <=> \E j \in 1..Len(c) : ~c[j].free /\ r = RegionOf(c[j])
      BY <2>1, RegionsAre
    <3> QED
      BY <1>2, <3>1
  <2>3. r \in FirstFitRegions(b) <=> \E j \in 1..Len(b) : ~b[j].free /\ r = RegionOf(b[j])
    BY <1>1, RegionsAre
  <2> QED
    BY <1>2, <1>4, <2>2, <2>3
<1>6. ASSUME NEW j \in 1..Len(b)
      PROVE  /\ b[j].addr \in Nat /\ RegionOf(b[j]).ptr \in Nat \ {0}
             /\ RegionOf(b[j]).size \in Nat \ {0}
             /\ RegionOf(b[j]).ptr - BLOCK_HEADER_SIZE = b[j].addr
             /\ RegionOf(b[j]).ptr + RegionOf(b[j]).size = NEXT_PHYSICAL_BLOCK(b[j])
  <2>1. /\ b[j].addr \in Nat /\ b[j].size \in Nat \ {0}
        /\ NEXT_PHYSICAL_BLOCK(b[j]) = b[j].addr + BLOCK_HEADER_SIZE + b[j].size
    BY <1>1, BlockFacts
  <2>2. RegionOf(b[j]).ptr = b[j].addr + BLOCK_HEADER_SIZE /\ RegionOf(b[j]).size = b[j].size
    BY DEF RegionOf
  <2> QED
    BY <2>1, <2>2, HeaderFits
<1>7. ASSUME NEW r \in FirstFitRegions(b)
      PROVE  /\ r.ptr \in Nat /\ r.size \in Nat \ {0}
             /\ \/ r.ptr + r.size <= RegionOf(b[i]).ptr - BLOCK_HEADER_SIZE
                \/ RegionOf(b[i]).ptr + RegionOf(b[i]).size <= r.ptr - BLOCK_HEADER_SIZE
  <2>1. PICK j \in 1..Len(b) : ~b[j].free /\ r = RegionOf(b[j])
    BY <1>1, RegionsAre
  <2>2. j # i
    BY <2>1
  <2>3. NEXT_PHYSICAL_BLOCK(b[i]) <= b[j].addr \/ NEXT_PHYSICAL_BLOCK(b[j]) <= b[i].addr
    BY <2>2, BlocksApart
  <2> QED
    BY <1>6, <2>1, <2>3
<1>8. NEXT_PHYSICAL_BLOCK(b[i]) <= memorySize
  BY BlocksApart
<1> QED
  BY <1>2, <1>3, <1>5, <1>6, <1>7, <1>8 DEF PoolOK

\* The area of n bytes at p is in the pool and shares no byte with the areas in use,
\* headers included.
Granted(p, n, regions) ==
    /\ p \in Nat \ {0} /\ n \in Nat \ {0}
    /\ p - BLOCK_HEADER_SIZE \in Nat /\ p + n <= memorySize
    /\ \A r \in regions :
         /\ r.ptr \in Nat /\ r.size \in Nat \ {0}
         /\ \/ r.ptr + r.size <= p - BLOCK_HEADER_SIZE
            \/ p + n <= r.ptr - BLOCK_HEADER_SIZE

\* allocMemory of the first-fit manager: nothing changes, or one area is added, as
\* large as was asked for and apart from the others.
LEMMA AllocEffect ==
    ASSUME NEW b, PoolOK(b), NEW request \in 1..(WORD - ALIGNMENT),
           NEW a, a = FirstFitAlloc(b, request)
    PROVE  \/ a.ptr = NULLPTR /\ a.blocks = b
           \/ /\ PoolOK(a.blocks)
              /\ \E n \in Nat :
                   /\ n >= request /\ Granted(a.ptr, n, FirstFitRegions(b))
                   /\ FirstFitRegions(a.blocks) =
                        FirstFitRegions(b) \cup {[ptr |-> a.ptr, size |-> n]}
<1>1. PICK size : size = ALIGN(request)
  OBVIOUS
<1>2. size \in Nat \ {0} /\ size >= request /\ request \in Nat \ {0}
  <2>1. ALIGN(request) \in Nat /\ ALIGN(request) >= request
    BY AlignEffect
  <2>2. request \in Nat \ {0}
    BY PoolAssumption
  <2> QED
    BY <1>1, <2>1, <2>2
<1>3. b \in Seq(Block) /\ Len(b) \in Nat /\ Tiled(b) /\ MergedBut(b, {}) /\ DOMAIN b = 1..Len(b)
  BY DEF PoolOK, Tiled
<1>4. CASE Suitable(b, size) = {}
  BY <1>1, <1>4 DEF FirstFitAlloc
<1>5. CASE Suitable(b, size) # {}
  <2>1. PICK i : i = Min(Suitable(b, size))
    OBVIOUS
  <2>2. i \in 1..Len(b) /\ b[i].free /\ b[i].size >= size
    <3>1. Suitable(b, size) \subseteq Nat
      BY <1>3 DEF Suitable
    <3>2. i \in Suitable(b, size)
      BY <1>5, <2>1, <3>1, MinInSet
    <3> QED
      BY <1>3, <3>2 DEF Suitable
  <2>3. PICK cut : cut = IF hasRoomForSplit(b[i], size) THEN splitBlock(b, i, size) ELSE b
    OBVIOUS
  <2>4. /\ a.blocks = [cut EXCEPT ![i].free = FALSE]
        /\ a.ptr = b[i].addr + BLOCK_HEADER_SIZE
    BY <1>1, <1>2, <1>5, <2>1, <2>3 DEF FirstFitAlloc
  <2>5. b[i].addr \in Nat /\ b[i].size \in Nat \ {0}
    BY <1>3, <2>2, BlockFacts
  <2>6. /\ Tiled(cut) /\ MergedBut(cut, {i}) /\ FirstFitRegions(cut) = FirstFitRegions(b)
        /\ i \in 1..Len(cut) /\ cut[i].free /\ cut[i].addr = b[i].addr /\ cut[i].size >= size
    <3>1. CASE hasRoomForSplit(b[i], size)
      <4>1. b[i].size - size - BLOCK_HEADER_SIZE \in Nat \ {0}
        BY <1>2, <2>5, <3>1, HeaderFits, PoolAssumption DEF hasRoomForSplit
      <4>2. cut = splitBlock(b, i, size)
        BY <2>3, <3>1
      <4>3. PoolOK(b) /\ i \in 1..Len(b) /\ b[i].free /\ size \in Nat \ {0}
        BY <1>2, <2>2
      <4>4. Cut(b, i, size, cut)
        BY <4>1, <4>2, <4>3, SplitKeeps
      <4> QED
        BY <1>2, <4>4 DEF Cut
    <3>2. CASE ~hasRoomForSplit(b[i], size)
      <4>1. cut = b
        BY <2>3, <3>2
      <4>2. MergedBut(b, {i})
        BY <1>3 DEF MergedBut
      <4> QED
        BY <1>3, <2>2, <4>1, <4>2
    <3> QED
      BY <3>1, <3>2
  <2>7. PICK c : c = a.blocks
    OBVIOUS
  <2>8. \E f \in BOOLEAN : ~f /\ c = Marked(cut, i, f)
    <3>1. c = Marked(cut, i, FALSE)
      BY <2>4, <2>7 DEF Marked
    <3> QED
      BY <3>1
  <2>9. PICK f \in BOOLEAN : ~f /\ c = Marked(cut, i, f)
    BY <2>8
  <2>10. PICK x : x = RegionOf(cut[i])
    OBVIOUS
  <2>11. /\ PoolOK(c)
         /\ FirstFitRegions(c) = FirstFitRegions(cut) \cup {x}
         /\ x.ptr \in Nat \ {0} /\ x.size \in Nat \ {0}
         /\ x.ptr - BLOCK_HEADER_SIZE \in Nat
         /\ x.ptr + x.size <= memorySize
         /\ \A r \in FirstFitRegions(cut) :
              /\ r.ptr \in Nat /\ r.size \in Nat \ {0}
              /\ \/ r.ptr + r.size <= x.ptr - BLOCK_HEADER_SIZE
                 \/ x.ptr + x.size <= r.ptr - BLOCK_HEADER_SIZE
    BY <2>6, <2>9, <2>10, TakeKeeps
  <2>12. x.ptr = a.ptr /\ x.size >= size /\ x = [ptr |-> a.ptr, size |-> x.size]
    BY <2>4, <2>6, <2>10 DEF RegionOf
  <2>13. Granted(x.ptr, x.size, FirstFitRegions(b))
    BY <2>6, <2>11 DEF Granted
  <2>14. x.size \in Nat /\ x.size >= request
    BY <1>2, <2>11, <2>12
  <2>15. FirstFitRegions(c) = FirstFitRegions(b) \cup {[ptr |-> a.ptr, size |-> x.size]}
    BY <2>6, <2>11, <2>12
  <2> QED
    BY <2>7, <2>11, <2>12, <2>13, <2>14, <2>15
<1> QED
  BY <1>4, <1>5

-----------------------------------------------------------------------------
\* The addresses in use, and how much is at least in use at one
Live(b) == {r.ptr : r \in FirstFitRegions(b)}

AtLeast(b, p, n) == \E r \in FirstFitRegions(b) : r.ptr = p /\ r.size >= n

\* b became c when at least n bytes at p were taken
Took(b, c, p, n) ==
    /\ PoolOK(c) /\ p \in Nat \ {0} /\ p \notin Live(b)
    /\ Live(c) = Live(b) \cup {p} /\ AtLeast(c, p, n)
    /\ \A x, m : AtLeast(b, x, m) => AtLeast(c, x, m)
    /\ \E m \in Nat : /\ Granted(p, m, FirstFitRegions(b))
                     /\ FirstFitRegions(c) = FirstFitRegions(b) \cup {[ptr |-> p, size |-> m]}

\* b became c when the area at each address of P was given back
Gave(b, c, P) ==
    /\ PoolOK(c) /\ Live(c) = Live(b) \ P
    /\ FirstFitRegions(c) \subseteq FirstFitRegions(b)
    /\ \A x, m : AtLeast(b, x, m) /\ x \notin P => AtLeast(c, x, m)

\* An allocMemory that does anything adds one area, of at least the size asked for.
LEMMA TakeEffect ==
    ASSUME NEW b, PoolOK(b), NEW request \in 1..(WORD - ALIGNMENT),
           NEW a, a = FirstFitAlloc(b, request), ~(a.ptr = NULLPTR /\ a.blocks = b)
    PROVE  Took(b, a.blocks, a.ptr, request)
<1>1. PICK c : c = a.blocks
  OBVIOUS
<1>2. PoolOK(c) /\ \E n \in Nat : /\ n >= request /\ Granted(a.ptr, n, FirstFitRegions(b))
                                  /\ FirstFitRegions(c) =
                                       FirstFitRegions(b) \cup {[ptr |-> a.ptr, size |-> n]}
  BY <1>1, AllocEffect
<1>3. PICK n \in Nat : /\ n >= request /\ Granted(a.ptr, n, FirstFitRegions(b))
                       /\ FirstFitRegions(c) = FirstFitRegions(b) \cup {[ptr |-> a.ptr, size |-> n]}
  BY <1>2
<1>30. PICK y : y = [ptr |-> a.ptr, size |-> n]
  OBVIOUS
<1>31. FirstFitRegions(c) = FirstFitRegions(b) \cup {y} /\ y.ptr = a.ptr /\ y.size = n
  BY <1>3, <1>30
<1>4. a.ptr \in Nat \ {0} /\ Live(c) = Live(b) \cup {a.ptr}
  <2>1. a.ptr \in Nat \ {0}
    BY <1>3 DEF Granted
  <2>2. Live(c) = Live(b) \cup {a.ptr}
    BY <1>31 DEF Live
  <2> QED
    BY <2>1, <2>2
<1>5. AtLeast(c, a.ptr, request)
  BY <1>3, <1>31 DEF AtLeast
<1>6. \A x, m : AtLeast(b, x, m) => AtLeast(c, x, m)
  BY <1>31 DEF AtLeast
<1>7. a.ptr \notin Live(b)
  <2> SUFFICES ASSUME NEW r \in FirstFitRegions(b), r.ptr = a.ptr PROVE FALSE
    BY DEF Live
  <2>1. /\ r.ptr \in Nat /\ r.size \in Nat \ {0}
        /\ \/ r.ptr + r.size <= a.ptr - BLOCK_HEADER_SIZE
           \/ a.ptr + n <= r.ptr - BLOCK_HEADER_SIZE
    BY <1>3 DEF Granted
  <2> QED
    BY <2>1, HeaderFits
<1> QED
  BY <1>1, <1>2, <1>3, <1>4, <1>5, <1>6, <1>7 DEF Took

\* freeMemory of an area in use takes away that area and no other.
LEMMA GiveEffect ==
    ASSUME NEW b, PoolOK(b), NEW p \in Live(b)
    PROVE  Gave(b, FirstFitFree(b, p), {p})
<1>1. PICK r \in FirstFitRegions(b) : r.ptr = p
  BY DEF Live
<1>2. PICK c : c = FirstFitFree(b, r.ptr)
  OBVIOUS
<1>3. PoolOK(c) /\ FirstFitRegions(c) = {x \in FirstFitRegions(b) : x.ptr # r.ptr}
  BY <1>1, <1>2, FreeEffect
<1>4. Live(c) = Live(b) \ {p}
  BY <1>1, <1>3 DEF Live
<1>5. \A x, m : AtLeast(b, x, m) /\ x # p => AtLeast(c, x, m)
  BY <1>1, <1>3 DEF AtLeast
<1> QED
  BY <1>1, <1>2, <1>3, <1>4, <1>5 DEF Gave

-----------------------------------------------------------------------------
(***************************************************************************)
(* The linked list of a queue.                                             *)
(***************************************************************************)
Pointer == Nat \ {NIL}

Entries(s) == {s[i] : i \in 1..Len(s)}

Node == [data : Data, tail : Nat]

\* s lists the addresses of the nodes of l from its first to its last
Chain(l, s) ==
    /\ s \in Seq(Pointer)
    /\ \A i, j \in 1..Len(s) : s[i] = s[j] => i = j
    /\ l \in [first : Nat, last : Nat, nodes : [Entries(s) -> Node]]
    /\ l.first = IF Len(s) = 0 THEN NIL ELSE s[1]
    /\ l.last = IF Len(s) = 0 THEN NIL ELSE s[Len(s)]
    /\ \A i \in 1..Len(s) : l.nodes[s[i]].tail = IF i = Len(s) THEN NIL ELSE s[i + 1]

\* A list has as many nodes as its chain has addresses.
LEMMA ChainLength ==
    ASSUME NEW l, NEW s, Chain(l, s)
    PROVE  DOMAIN l.nodes = Entries(s) /\ Cardinality(DOMAIN l.nodes) = Len(s)
<1>1. s \in Seq(Pointer) /\ Len(s) \in Nat /\ \A i, j \in 1..Len(s) : s[i] = s[j] => i = j
  BY DEF Chain
<1>2. DOMAIN l.nodes = Entries(s)
  BY DEF Chain
<1>3. PICK f : f = [i \in 1..Len(s) |-> s[i]]
  OBVIOUS
<1>4. f \in Bijection(1..Len(s), Entries(s))
  <2>1. f \in Injection(1..Len(s), Entries(s))
    <3>1. f \in [1..Len(s) -> Entries(s)]
      BY <1>1, <1>3 DEF Entries
    <3> QED
      BY <1>1, <1>3, <3>1 DEF Injection, IsInjective
  <2>2. f \in Surjection(1..Len(s), Entries(s))
    BY <1>1, <1>3 DEF Surjection, Entries
  <2> QED
    BY <2>1, <2>2 DEF Bijection
<1>5. IsFiniteSet(1..Len(s)) /\ Cardinality(1..Len(s)) = Len(s)
  <2>1. 1 \in Int /\ Len(s) \in Int /\ Len(s) - 1 + 1 = Len(s) /\ (1 > Len(s) <=> Len(s) = 0)
    BY <1>1
  <2>2. /\ IsFiniteSet(1..Len(s))
        /\ Cardinality(1..Len(s)) = IF 1 > Len(s) THEN 0 ELSE Len(s) - 1 + 1
    BY <2>1, FS_Interval
  <2> QED
    BY <2>1, <2>2
<1>6. Cardinality(Entries(s)) = Cardinality(1..Len(s))
  BY <1>4, <1>5, FS_Bijection DEF ExistsBijection
<1> QED
  BY <1>2, <1>5, <1>6

\* The walk along the list goes through its chain.
LEMMA PathIs ==
    ASSUME NEW l, NEW s, Chain(l, s)
    PROVE  Path(l) = s
<1>1. /\ s \in Seq(Pointer) /\ Len(s) \in Nat
      /\ l.first = IF Len(s) = 0 THEN NIL ELSE s[1]
      /\ \A i \in 1..Len(s) : l.nodes[s[i]].tail = IF i = Len(s) THEN NIL ELSE s[i + 1]
  BY DEF Chain
<1> DEFINE n == Cardinality(DOMAIN l.nodes)
<1>2. n \in Nat /\ n = Len(s)
  BY <1>1, ChainLength
<1> DEFINE G(f) == [i \in 1..(n + 1) |->
                      IF i = 1 THEN l.first
                      ELSE IF f[i - 1] = NIL THEN NIL ELSE l.nodes[f[i - 1]].tail]
           step == CHOOSE f : f = G(f)
           walk == [i \in 1..(n + 1) |-> IF i <= n THEN s[i] ELSE NIL]
<1>3. Path(l) = [i \in {j \in DOMAIN step : step[j] # NIL} |-> step[i]]
  BY DEF Path
<1> HIDE DEF n
<1>4. walk = G(walk)
  <2> SUFFICES ASSUME NEW i \in 1..(n + 1)
               PROVE  walk[i] = IF i = 1 THEN l.first
                                ELSE IF walk[i - 1] = NIL THEN NIL ELSE l.nodes[walk[i - 1]].tail
    OBVIOUS
  <2>1. CASE i = 1
    BY <1>1, <1>2, <2>1
  <2>2. CASE i # 1
    <3>1. i - 1 \in 1..n /\ i - 1 \in 1..Len(s) /\ i - 1 \in 1..(n + 1) /\ (i - 1) + 1 = i
      BY <1>2, <2>2
    <3>2. walk[i - 1] = s[i - 1] /\ s[i - 1] \in Pointer /\ s[i - 1] # NIL
      BY <1>1, <3>1 DEF Pointer
    <3>3. l.nodes[s[i - 1]].tail = IF i - 1 = Len(s) THEN NIL ELSE s[i]
      BY <1>1, <3>1
    <3>4. walk[i] = IF i - 1 = Len(s) THEN NIL ELSE s[i]
      BY <1>2, <2>2
    <3> QED
      BY <2>2, <3>2, <3>3, <3>4
  <2> QED
    BY <2>1, <2>2
<1>5. step = G(step)
  BY <1>4
<1> HIDE DEF step, walk
<1>7. ASSUME NEW i \in 1..(n + 1) PROVE step[i] = walk[i]
  <2> DEFINE Bad == {k \in 1..(n + 1) : step[k] # walk[k]}
  <2>1. ASSUME Bad # {} PROVE FALSE
    <3>1. PICK k \in Bad : \A y \in Bad : k <= y
      <4>1. Bad \subseteq Nat
        OBVIOUS
      <4> HIDE DEF Bad
      <4> QED
        BY <2>1, <4>1, MinInSet
    <3>2. k \in 1..(n + 1) /\ step[k] # walk[k]
      BY <3>1
    <3>3. step[k] = G(step)[k] /\ walk[k] = G(walk)[k]
      BY <1>4, <1>5
    <3>4. k # 1
      BY <3>2, <3>3
    <3>5. k - 1 \in 1..(n + 1) /\ ~(k <= k - 1)
      BY <1>2, <3>2, <3>4
    <3>6. step[k - 1] = walk[k - 1]
      BY <3>1, <3>5
    <3> QED
      BY <3>2, <3>3, <3>6
  <2> QED
    BY <2>1
<1>8. DOMAIN step = 1..(n + 1)
  BY <1>5
<1>9. \A i \in 1..n : step[i] = s[i] /\ step[i] # NIL
  <2> SUFFICES ASSUME NEW i \in 1..n PROVE step[i] = s[i] /\ step[i] # NIL
    OBVIOUS
  <2>1. i \in 1..(n + 1) /\ i <= n /\ i \in 1..Len(s)
    BY <1>2
  <2>2. walk[i] = s[i] /\ s[i] \in Pointer
    BY <1>1, <2>1 DEF walk
  <2> QED
    BY <1>7, <2>1, <2>2 DEF Pointer
<1>10. step[n + 1] = NIL
  <2>1. n + 1 \in 1..(n + 1) /\ ~(n + 1 <= n)
    BY <1>2
  <2>2. walk[n + 1] = NIL
    BY <2>1 DEF walk
  <2> QED
    BY <1>7, <2>1, <2>2
<1>11. {j \in DOMAIN step : step[j] # NIL} = 1..n
  <2>1. \A i \in 1..(n + 1) : i \in 1..n \/ i = n + 1
    BY <1>2
  <2>2. \A i \in 1..n : i \in 1..(n + 1)
    BY <1>2
  <2> QED
    BY <1>8, <1>9, <1>10, <2>1, <2>2
<1>12. s = [i \in 1..n |-> s[i]]
  BY <1>1, <1>2
<1> QED
  BY <1>3, <1>9, <1>11, <1>12

\* The elements are the data along the chain.
LEMMA ElementsAre ==
    ASSUME NEW l, NEW s, Chain(l, s)
    PROVE  /\ Elements(l) = [i \in 1..Len(s) |-> l.nodes[s[i]].data]
           /\ Elements(l) \in Seq(Data) /\ Len(Elements(l)) = Len(s)
           /\ \A e : Found(l, e) = {i \in 1..Len(s) : l.nodes[s[i]].data = e}
<1>1. Path(l) = s
  BY PathIs
<1>2. s \in Seq(Pointer) /\ DOMAIN s = 1..Len(s) /\ Len(s) \in Nat
  BY DEF Chain
<1>3. Elements(l) = [i \in 1..Len(s) |-> l.nodes[s[i]].data]
  BY <1>1, <1>2 DEF Elements
<1>4. \A i \in 1..Len(s) : l.nodes[s[i]].data \in Data
  BY DEF Chain, Entries, Node
<1>5. Elements(l) \in Seq(Data) /\ Len(Elements(l)) = Len(s)
  BY <1>2, <1>3, <1>4
<1>6. \A e : Found(l, e) = {i \in 1..Len(s) : l.nodes[s[i]].data = e}
  BY <1>1, <1>2 DEF Found
<1> QED
  BY <1>3, <1>5, <1>6

\* createQueue makes an empty list.
LEMMA NewChain == Chain(newQueue, << >>)
<1>1. << >> \in Seq(Pointer) /\ Len(<< >>) = 0 /\ Entries(<< >>) = {}
  BY DEF Entries
<1>2. << >> \in [{} -> Node]
  OBVIOUS
<1>3. newQueue \in [first : Nat, last : Nat, nodes : [{} -> Node]]
  BY <1>2 DEF newQueue, NIL
<1> QED
  BY <1>1, <1>3 DEF Chain, newQueue

\* What keeps an element at its place: the datum of each node that stays is the same.
SameData(l, k, P) == \A p \in P : k.nodes[p].data = l.nodes[p].data

\* queue appends a node.
LEMMA QueuedChain ==
    ASSUME NEW l, NEW s, Chain(l, s), NEW ptr \in Pointer, ptr \notin DOMAIN l.nodes,
           NEW e \in Data, NEW k, k = Queued(l, ptr, e)
    PROVE  /\ Chain(k, Append(s, ptr)) /\ SameData(l, k, Entries(s))
           /\ k.nodes[ptr].data = e /\ DOMAIN k.nodes = DOMAIN l.nodes \cup {ptr}
<1>1. /\ s \in Seq(Pointer) /\ Len(s) \in Nat /\ \A i, j \in 1..Len(s) : s[i] = s[j] => i = j
      /\ l \in [first : Nat, last : Nat, nodes : [Entries(s) -> Node]]
      /\ l.first = IF Len(s) = 0 THEN NIL ELSE s[1]
      /\ l.last = IF Len(s) = 0 THEN NIL ELSE s[Len(s)]
      /\ \A i \in 1..Len(s) : l.nodes[s[i]].tail = IF i = Len(s) THEN NIL ELSE s[i + 1]
  BY DEF Chain
<1>2. PICK t : t = Append(s, ptr)
  OBVIOUS
<1>3. /\ t \in Seq(Pointer) /\ Len(t) = Len(s) + 1 /\ t[Len(s) + 1] = ptr
      /\ \A i \in 1..Len(s) : t[i] = s[i]
  BY <1>1, <1>2
<1>4. ptr \notin Entries(s) /\ DOMAIN l.nodes = Entries(s)
  BY <1>1
<1>5. Entries(t) = Entries(s) \cup {ptr}
  <2>1. \A i \in 1..Len(t) : i \in 1..Len(s) \/ i = Len(s) + 1
    BY <1>1, <1>3
  <2>2. Len(s) + 1 \in 1..Len(t) /\ \A i \in 1..Len(s) : i \in 1..Len(t)
    BY <1>1, <1>3
  <2>3. \A p \in Entries(t) : p \in Entries(s) \cup {ptr}
    BY <1>3, <2>1 DEF Entries
  <2>4. \A p \in Entries(s) \cup {ptr} : p \in Entries(t)
    BY <1>3, <2>2 DEF Entries
  <2> QED
    BY <2>3, <2>4
<1>6. PICK added : added = With(l.nodes, ptr, [data |-> e, tail |-> NIL])
  OBVIOUS
<1>7. /\ added \in [Entries(t) -> Node]
      /\ added[ptr].data = e /\ added[ptr].tail = NIL
      /\ \A p \in Entries(s) : added[p] = l.nodes[p]
  <2>1. PICK n : n = [data |-> e, tail |-> NIL]
    OBVIOUS
  <2>2. n \in Node /\ n.data = e /\ n.tail = NIL
    BY <2>1 DEF Node, NIL
  <2>3. added = [p \in Entries(t) |-> IF p = ptr THEN n ELSE l.nodes[p]]
    BY <1>4, <1>5, <1>6, <2>1 DEF With
  <2> HIDE DEF Node
  <2> QED
    BY <1>1, <1>4, <1>5, <2>2, <2>3
<1>8. /\ k \in [first : Nat, last : Nat, nodes : [Entries(t) -> Node]]
      /\ k.first = t[1] /\ k.last = ptr
      /\ k.nodes[ptr].data = e /\ k.nodes[ptr].tail = NIL
      /\ \A p \in Entries(s) : /\ k.nodes[p].data = l.nodes[p].data
                               /\ k.nodes[p].tail = IF p = l.last THEN ptr ELSE l.nodes[p].tail
  <2>1. CASE Len(s) = 0
    <3>1. Entries(s) = {} /\ t[1] = ptr
      BY <1>3, <2>1 DEF Entries
    <3>2. k = [first |-> ptr, last |-> ptr, nodes |-> added]
      BY <1>1, <1>6, <2>1 DEF Queued, Pointer
    <3> QED
      BY <1>7, <3>1, <3>2 DEF Pointer
  <2>2. CASE Len(s) # 0
    <3>1. s[1] \in Pointer /\ s[Len(s)] \in Pointer /\ t[1] = s[1] /\ s[Len(s)] \in Entries(s)
      BY <1>1, <1>3, <2>2 DEF Entries
    <3>2. l.first # NIL /\ l.last \in Entries(s) /\ l.first \in Nat /\ l.first = t[1]
      BY <1>1, <2>2, <3>1 DEF Pointer
    <3>3. PICK m : m = [added EXCEPT ![l.last].tail = ptr]
      OBVIOUS
    <3>4. k = [l EXCEPT !.nodes = m, !.last = ptr]
      BY <1>6, <3>2, <3>3 DEF Queued, Pointer
    <3>5. /\ m \in [Entries(t) -> Node] /\ m[ptr] = added[ptr]
          /\ \A p \in Entries(s) : /\ m[p].data = added[p].data
                                   /\ m[p].tail = IF p = l.last THEN ptr ELSE added[p].tail
      <4>1. PICK n : n = [added[l.last] EXCEPT !.tail = ptr]
        OBVIOUS
      <4>2. l.last \in Entries(t) /\ added[l.last] \in Node /\ l.last # ptr
        BY <1>4, <1>5, <1>7, <3>2
      <4>3. n \in Node /\ n.data = added[l.last].data /\ n.tail = ptr
        BY <4>1, <4>2 DEF Node, Pointer
      <4>4. m = [added EXCEPT ![l.last] = n]
        BY <1>7, <3>3, <4>1, <4>2
      <4> HIDE DEF Node
      <4> QED
        BY <1>4, <1>5, <1>7, <4>2, <4>3, <4>4
    <3>6. /\ k \in [first : Nat, last : Nat, nodes : [Entries(t) -> Node]]
          /\ k.first = l.first /\ k.last = ptr /\ k.nodes = m
      <4> HIDE DEF Node
      <4> QED
        BY <1>1, <3>4, <3>5 DEF Pointer
    <3> QED
      BY <1>7, <3>2, <3>5, <3>6
  <2> QED
    BY <2>1, <2>2
<1>9. \A i, j \in 1..Len(t) : t[i] = t[j] => i = j
  <2> SUFFICES ASSUME NEW i \in 1..Len(t), NEW j \in 1..Len(t), t[i] = t[j] PROVE i = j
    OBVIOUS
  <2>1. \A x \in 1..Len(t) : x \in 1..Len(s) \/ x = Len(s) + 1
    BY <1>1, <1>3
  <2>2. \A x \in 1..Len(s) : t[x] # ptr
    BY <1>3, <1>4 DEF Entries
  <2> QED
    BY <1>1, <1>3, <2>1, <2>2
<1>10. ASSUME NEW i \in 1..Len(t)
       PROVE  k.nodes[t[i]].tail = IF i = Len(t) THEN NIL ELSE t[i + 1]
  <2>1. CASE i = Len(s) + 1
    BY <1>3, <1>8, <2>1
  <2>2. CASE i # Len(s) + 1
    <3>1. i \in 1..Len(s) /\ t[i] = s[i] /\ i # Len(t) /\ s[i] \in Entries(s)
      BY <1>1, <1>3, <2>2 DEF Entries
    <3>2. k.nodes[s[i]].tail = IF s[i] = l.last THEN ptr ELSE l.nodes[s[i]].tail
      BY <1>8, <3>1
    <3>3. CASE i = Len(s)
      <4>1. l.last = s[i] /\ t[i + 1] = ptr
        BY <1>1, <1>3, <3>1, <3>3
      <4> QED
        BY <3>1, <3>2, <4>1
    <3>4. CASE i # Len(s)
      <4>1. l.last = s[Len(s)] /\ Len(s) \in 1..Len(s)
        BY <1>1, <3>1
      <4>2. s[i] # l.last
        BY <1>1, <3>1, <3>4, <4>1
      <4>3. i + 1 \in 1..Len(s)
        BY <1>1, <3>1, <3>4
      <4> QED
        BY <1>1, <1>3, <3>1, <3>2, <3>4, <4>2, <4>3
    <3> QED
      BY <3>3, <3>4
  <2> QED
    BY <2>1, <2>2
<1>11. Chain(k, t)
  <2>1. Len(t) # 0 /\ k.last = t[Len(t)]
    BY <1>1, <1>3, <1>8
  <2> QED
    BY <1>3, <1>8, <1>9, <1>10, <2>1 DEF Chain
<1>12. DOMAIN k.nodes = Entries(t)
  BY <1>8
<1> QED
  BY <1>2, <1>4, <1>5, <1>8, <1>11, <1>12 DEF SameData

\* t is s without its entry i.
Dropped(s, i, t) ==
    /\ Len(t) = Len(s) - 1
    /\ \A j \in 1..(Len(s) - 1) : t[j] = IF j < i THEN s[j] ELSE s[j + 1]

\* What RemoveAt leaves of a sequence, index by index.
LEMMA DroppedIs ==
    ASSUME NEW S, NEW s \in Seq(S), NEW i \in 1..Len(s), NEW t, t = RemoveAt(s, i)
    PROVE  t \in Seq(S) /\ Dropped(s, i, t)
<1> DEFINE x == SubSeq(s, 1, i - 1)
           y == SubSeq(s, i + 1, Len(s))
<1>1. Len(s) \in Nat /\ t = x \o y
  BY DEF RemoveAt
<1>2. x \in Seq(S) /\ Len(x) = i - 1 /\ \A j \in 1..(i - 1) : x[j] = s[j]
  BY <1>1
<1>3. y \in Seq(S) /\ Len(y) = Len(s) - i /\ \A j \in 1..(Len(s) - i) : y[j] = s[i + j]
  BY <1>1
<1> HIDE DEF x, y
<1>4. /\ t \in Seq(S) /\ Len(t) = Len(x) + Len(y)
      /\ \A j \in 1..(Len(x) + Len(y)) : t[j] = IF j <= Len(x) THEN x[j] ELSE y[j - Len(x)]
  <2>1. /\ x \o y \in Seq(S) /\ Len(x \o y) = Len(x) + Len(y)
        /\ \A j \in 1..(Len(x) + Len(y)) :
             (x \o y)[j] = IF j <= Len(x) THEN x[j] ELSE y[j - Len(x)]
    BY <1>2, <1>3, EntriesOfConcat
  <2> QED
    BY <1>1, <2>1
<1>5. ASSUME NEW j \in 1..(Len(s) - 1) PROVE t[j] = IF j < i THEN s[j] ELSE s[j + 1]
  <2>0. j \in 1..(Len(x) + Len(y))
    BY <1>1, <1>2, <1>3
  <2>1. CASE j < i
    <3>1. j \in 1..(i - 1) /\ j <= Len(x)
      BY <1>1, <1>2, <2>1
    <3> QED
      BY <1>2, <1>4, <2>0, <2>1, <3>1
  <2>2. CASE ~(j < i)
    <3>1. j - (i - 1) \in 1..(Len(s) - i) /\ ~(j <= Len(x)) /\ i + (j - (i - 1)) = j + 1
      BY <1>1, <1>2, <2>2
    <3>2. t[j] = y[j - Len(x)]
      BY <1>4, <2>0, <3>1
    <3>3. y[j - (i - 1)] = s[j + 1]
      BY <1>3, <3>1
    <3> QED
      BY <1>2, <2>2, <3>2, <3>3
  <2> QED
    BY <2>1, <2>2
<1> QED
  BY <1>1, <1>2, <1>3, <1>4, <1>5 DEF Dropped

\* The list l, of chain s, without its node number i
Unlinked(l, s, i) ==
    LET tail == l.nodes[s[i]].tail
        rest == Without(l.nodes, s[i])
    IN  IF i = 1 THEN [first |-> tail, last |-> IF tail = NIL THEN NIL ELSE l.last, nodes |-> rest]
        ELSE [first |-> l.first, last |-> IF s[i] = l.last THEN s[i - 1] ELSE l.last,
              nodes |-> [rest EXCEPT ![s[i - 1]].tail = tail]]

\* Taking the node i out of the list leaves the others, in their order and with their data.
LEMMA UnlinkedChain ==
    ASSUME NEW l, NEW s, Chain(l, s), NEW i \in 1..Len(s), NEW k, k = Unlinked(l, s, i)
    PROVE  /\ Chain(k, RemoveAt(s, i)) /\ SameData(l, k, Entries(RemoveAt(s, i)))
           /\ DOMAIN k.nodes = DOMAIN l.nodes \ {s[i]}
<1>1. /\ s \in Seq(Pointer) /\ Len(s) \in Nat /\ \A x, y \in 1..Len(s) : s[x] = s[y] => x = y
      /\ l \in [first : Nat, last : Nat, nodes : [Entries(s) -> Node]]
      /\ l.first = IF Len(s) = 0 THEN NIL ELSE s[1]
      /\ l.last = IF Len(s) = 0 THEN NIL ELSE s[Len(s)]
      /\ \A x \in 1..Len(s) : l.nodes[s[x]].tail = IF x = Len(s) THEN NIL ELSE s[x + 1]
  BY DEF Chain
<1>2. PICK t : t = RemoveAt(s, i)
  OBVIOUS
<1>3. /\ t \in Seq(Pointer) /\ Len(t) = Len(s) - 1 /\ Len(t) \in Nat
      /\ \A j \in 1..Len(t) : t[j] = IF j < i THEN s[j] ELSE s[j + 1]
  <2>1. /\ t \in Seq(Pointer) /\ Len(t) = Len(s) - 1
        /\ \A j \in 1..(Len(s) - 1) : t[j] = IF j < i THEN s[j] ELSE s[j + 1]
    <3>1. s \in Seq(Pointer) /\ t = RemoveAt(s, i)
      BY <1>1, <1>2
    <3>2. t \in Seq(Pointer) /\ Dropped(s, i, t)
      BY <3>1, DroppedIs
    <3> QED
      BY <3>2 DEF Dropped
  <2> QED
    BY <1>1, <2>1
<1>4. /\ \A j \in 1..Len(t) : j < i => t[j] = s[j] /\ j \in 1..Len(s) /\ j # i
      /\ \A j \in 1..Len(t) : ~(j < i) => t[j] = s[j + 1] /\ j + 1 \in 1..Len(s) /\ j + 1 # i
      /\ \A j \in 1..Len(s) : j < i => j \in 1..Len(t) /\ s[j] = t[j]
      /\ \A j \in 1..Len(s) : j > i => j - 1 \in 1..Len(t) /\ s[j] = t[j - 1]
  BY <1>1, <1>3
<1>5. Entries(t) = Entries(s) \ {s[i]}
  <2>1. ASSUME NEW j \in 1..Len(t) PROVE t[j] \in Entries(s) \ {s[i]}
    <3>1. PICK x \in 1..Len(s) : x # i /\ t[j] = s[x]
      BY <1>4
    <3>2. s[x] # s[i]
      BY <1>1, <3>1
    <3> QED
      BY <3>1, <3>2 DEF Entries
  <2>2. ASSUME NEW j \in 1..Len(s), s[j] # s[i] PROVE s[j] \in Entries(t)
    <3>1. j < i \/ j > i
      BY <1>1, <2>2
    <3> QED
      BY <1>4, <3>1 DEF Entries
  <2>3. Entries(t) \subseteq Entries(s) \ {s[i]}
    BY <2>1 DEF Entries
  <2>4. Entries(s) \ {s[i]} \subseteq Entries(t)
    BY <2>2 DEF Entries
  <2> QED
    BY <2>3, <2>4
<1>6. PICK tail : tail = l.nodes[s[i]].tail
  OBVIOUS
<1>7. tail = IF i = Len(s) THEN NIL ELSE s[i + 1]
  BY <1>1, <1>6
<1>8. tail \in Nat /\ (i # Len(s) => tail # NIL)
  BY <1>1, <1>7 DEF Pointer, NIL
<1>9. PICK rest : rest = Without(l.nodes, s[i])
  OBVIOUS
<1>10. rest \in [Entries(t) -> Node] /\ \A p \in Entries(t) : rest[p] = l.nodes[p]
  BY <1>1, <1>5, <1>9 DEF Without
<1>11. /\ k \in [first : Nat, last : Nat, nodes : [Entries(t) -> Node]]
       /\ \A p \in Entries(t) :
            /\ k.nodes[p].data = l.nodes[p].data
            /\ k.nodes[p].tail = IF i > 1 /\ p = s[i - 1] THEN tail ELSE l.nodes[p].tail
       /\ k.first = IF i = 1 THEN tail ELSE l.first
       /\ k.last = IF i = 1 THEN IF tail = NIL THEN NIL ELSE l.last
                   ELSE IF s[i] = l.last THEN s[i - 1] ELSE l.last
  <2>1. CASE i = 1
    <3>1. k = [first |-> tail, last |-> IF tail = NIL THEN NIL ELSE l.last, nodes |-> rest]
      BY <1>6, <1>9, <2>1 DEF Unlinked
    <3>2. ~(i > 1)
      BY <2>1
    <3> HIDE DEF Node
    <3> QED
      BY <1>1, <1>8, <1>10, <2>1, <3>1, <3>2
  <2>2. CASE i # 1
    <3>1. i - 1 \in 1..Len(s) /\ i - 1 < i /\ i > 1
      BY <1>1, <2>2
    <3>2. s[i - 1] \in Entries(t) /\ s[i - 1] \in Nat
      <4>1. i - 1 \in 1..Len(t) /\ s[i - 1] = t[i - 1]
        BY <1>4, <3>1
      <4>2. s[i - 1] \in Pointer
        BY <1>1, <3>1
      <4> QED
        BY <4>1, <4>2 DEF Entries, Pointer
    <3>3. PICK m : m = [rest EXCEPT ![s[i - 1]].tail = tail]
      OBVIOUS
    <3>4. /\ m \in [Entries(t) -> Node]
          /\ \A p \in Entries(t) : /\ m[p].data = rest[p].data
                                   /\ m[p].tail = IF p = s[i - 1] THEN tail ELSE rest[p].tail
      <4>1. PICK n : n = [rest[s[i - 1]] EXCEPT !.tail = tail]
        OBVIOUS
      <4>2. rest[s[i - 1]] \in Node
        BY <1>10, <3>2
      <4>3. n \in Node /\ n.data = rest[s[i - 1]].data /\ n.tail = tail
        BY <1>8, <4>1, <4>2 DEF Node
      <4>4. m = [rest EXCEPT ![s[i - 1]] = n]
        BY <1>10, <3>2, <3>3, <4>1
      <4> HIDE DEF Node
      <4> QED
        BY <1>10, <3>2, <4>3, <4>4
    <3>5. k = [first |-> l.first, last |-> IF s[i] = l.last THEN s[i - 1] ELSE l.last, nodes |-> m]
      BY <1>6, <1>9, <2>2, <3>3 DEF Unlinked
    <3> HIDE DEF Node
    <3> QED
      BY <1>1, <1>10, <2>2, <3>1, <3>2, <3>4, <3>5
  <2> QED
    BY <2>1, <2>2
<1>12. \A x, y \in 1..Len(t) : t[x] = t[y] => x = y
  <2> SUFFICES ASSUME NEW x \in 1..Len(t), NEW y \in 1..Len(t), t[x] = t[y] PROVE x = y
    OBVIOUS
  <2>1. CASE x < i /\ y < i
    BY <1>1, <1>4, <2>1
  <2>2. CASE x < i /\ ~(y < i)
    <3>1. x = y + 1
      BY <1>1, <1>4, <2>2
    <3> QED
      BY <1>1, <1>3, <2>2, <3>1
  <2>3. CASE ~(x < i) /\ y < i
    <3>1. x + 1 = y
      BY <1>1, <1>4, <2>3
    <3> QED
      BY <1>1, <1>3, <2>3, <3>1
  <2>4. CASE ~(x < i) /\ ~(y < i)
    <3>1. x + 1 = y + 1
      BY <1>1, <1>4, <2>4
    <3> QED
      BY <1>1, <1>3, <3>1
  <2> QED
    BY <2>1, <2>2, <2>3, <2>4
<1>13. k.first = IF Len(t) = 0 THEN NIL ELSE t[1]
  <2>1. CASE i = 1
    <3>1. CASE Len(s) = 1
      BY <1>3, <1>7, <1>11, <2>1, <3>1
    <3>2. CASE Len(s) # 1
      <4>1. Len(t) # 0 /\ 1 \in 1..Len(t) /\ t[1] = s[2] /\ 1 + 1 = 2
        BY <1>1, <1>3, <2>1, <3>2
      <4> QED
        BY <1>7, <1>11, <2>1, <3>2, <4>1
    <3> QED
      BY <3>1, <3>2
  <2>2. CASE i # 1
    <3>1. 1 \in 1..Len(s) /\ 1 < i
      BY <1>1, <2>2
    <3>2. 1 \in 1..Len(t) /\ t[1] = s[1]
      BY <1>4, <3>1
    <3>3. Len(t) # 0 /\ Len(s) # 0
      BY <1>1, <1>3, <3>1, <3>2
    <3> QED
      BY <1>1, <1>11, <2>2, <3>2, <3>3
  <2> QED
    BY <2>1, <2>2
<1>14. k.last = IF Len(t) = 0 THEN NIL ELSE t[Len(t)]
  <2>0. l.last = s[Len(s)] /\ Len(s) \in 1..Len(s)
    BY <1>1
  <2>1. CASE i = Len(s)
    <3>1. CASE i = 1
      BY <1>3, <1>7, <1>11, <2>1, <3>1
    <3>2. CASE i # 1
      <4>1. i - 1 \in 1..Len(s) /\ i - 1 < i /\ Len(t) = i - 1 /\ Len(t) # 0
        BY <1>1, <1>3, <2>1, <3>2
      <4>2. t[i - 1] = s[i - 1]
        BY <1>4, <4>1
      <4>3. s[i] = l.last
        BY <2>0, <2>1
      <4> QED
        BY <1>11, <3>2, <4>1, <4>2, <4>3
    <3> QED
      BY <3>1, <3>2
  <2>2. CASE i # Len(s)
    <3>1. Len(s) > i /\ Len(t) = Len(s) - 1 /\ Len(t) # 0 /\ Len(s) # i
      BY <1>1, <1>3, <2>2
    <3>2. t[Len(t)] = s[Len(s)]
      BY <1>4, <2>0, <3>1
    <3>3. s[i] # l.last
      BY <1>1, <2>0, <3>1
    <3>4. k.last = l.last
      <4>1. CASE i = 1
        BY <1>8, <1>11, <2>2, <4>1
      <4>2. CASE i # 1
        BY <1>11, <3>3, <4>2
      <4> QED
        BY <4>1, <4>2
    <3> QED
      BY <2>0, <3>1, <3>2, <3>4
  <2> QED
    BY <2>1, <2>2
<1>15. ASSUME NEW j \in 1..Len(t)
       PROVE  k.nodes[t[j]].tail = IF j = Len(t) THEN NIL ELSE t[j + 1]
  <2>0. t[j] \in Entries(t) /\ j \in Nat /\ j >= 1 /\ j <= Len(t)
    BY <1>3 DEF Entries
  <2>1. CASE j < i - 1
    <3>1. /\ j < i /\ j \in 1..Len(s) /\ j # Len(s) /\ j # Len(t)
          /\ j + 1 < i /\ j + 1 \in 1..Len(t) /\ i - 1 \in 1..Len(s) /\ j # i - 1
      BY <1>1, <1>3, <2>0, <2>1
    <3>2. t[j] = s[j] /\ t[j + 1] = s[j + 1] /\ s[j] # s[i - 1]
      BY <1>1, <1>4, <3>1
    <3>3. k.nodes[t[j]].tail = l.nodes[s[j]].tail
      BY <1>11, <2>0, <3>2
    <3> QED
      BY <1>1, <3>1, <3>2, <3>3
  <2>2. CASE j = i - 1
    <3>1. j < i /\ i > 1 /\ (j = Len(t) <=> i = Len(s)) /\ j + 1 = i
      BY <1>1, <1>3, <2>0, <2>2
    <3>2. t[j] = s[i - 1]
      BY <1>4, <2>2, <3>1
    <3>3. k.nodes[t[j]].tail = tail
      BY <1>11, <2>0, <3>1, <3>2
    <3>4. i # Len(s) => t[i] = s[i + 1]
      <4>0. Len(t) = Len(s) - 1 /\ Len(s) \in Nat
        BY <1>1, <1>3
      <4>1. i # Len(s) => i \in 1..Len(t) /\ ~(i < i)
        BY <4>0
      <4> QED
        BY <1>4, <4>1
    <3> QED
      BY <1>7, <3>1, <3>3, <3>4
  <2>3. CASE j >= i
    <3>1. ~(j < i) /\ (j = Len(t) <=> j + 1 = Len(s)) /\ ~(j + 1 < i)
      BY <1>1, <1>3, <2>0, <2>3
    <3>2. t[j] = s[j + 1] /\ j + 1 \in 1..Len(s)
      BY <1>4, <3>1
    <3>3. i > 1 => s[j + 1] # s[i - 1]
      <4>1. i > 1 => i - 1 \in 1..Len(s) /\ j + 1 # i - 1
        BY <1>1, <2>0, <2>3
      <4> QED
        BY <1>1, <3>2, <4>1
    <3>4. k.nodes[t[j]].tail = l.nodes[s[j + 1]].tail
      BY <1>11, <2>0, <3>2, <3>3
    <3>5. l.nodes[s[j + 1]].tail = IF j + 1 = Len(s) THEN NIL ELSE s[j + 1 + 1]
      BY <1>1, <3>2
    <3>6. j # Len(t) => t[j + 1] = s[j + 1 + 1]
      <4>1. j # Len(t) => j + 1 \in 1..Len(t)
        BY <1>3, <2>0
      <4> QED
        BY <1>4, <3>1, <4>1
    <3> QED
      BY <3>1, <3>4, <3>5, <3>6
  <2> QED
    BY <1>1, <2>0, <2>1, <2>2, <2>3
<1>16. Chain(k, t)
  BY <1>3, <1>11, <1>12, <1>13, <1>14, <1>15 DEF Chain
<1>17. DOMAIN k.nodes = Entries(t) /\ DOMAIN l.nodes = Entries(s)
  BY <1>1, <1>11
<1> QED
  BY <1>2, <1>5, <1>11, <1>16, <1>17 DEF SameData

\* Sequences of one length that agree on every index are equal.
LEMMA SameSequence ==
    ASSUME NEW S, NEW x \in Seq(S), NEW y \in Seq(S), Len(x) = Len(y),
           \A i \in 1..Len(x) : x[i] = y[i]
    PROVE  x = y
  OBVIOUS

Linked(l) == \E s : Chain(l, s)

\* queue adds its element behind the others.
LEMMA QueuedEffect ==
    ASSUME NEW l, Linked(l), NEW ptr \in Pointer, ptr \notin DOMAIN l.nodes,
           NEW e \in Data, NEW k, k = Queued(l, ptr, e)
    PROVE  /\ Linked(k) /\ DOMAIN k.nodes = DOMAIN l.nodes \cup {ptr}
           /\ Elements(k) = Append(Elements(l), e)
<1>1. PICK s : Chain(l, s)
  BY DEF Linked
<1>2. PICK t : t = Append(s, ptr)
  OBVIOUS
<1>3. /\ Chain(k, t) /\ SameData(l, k, Entries(s))
      /\ k.nodes[ptr].data = e /\ DOMAIN k.nodes = DOMAIN l.nodes \cup {ptr}
  BY <1>1, <1>2, QueuedChain
<1>4. PICK v : v = Elements(l)
  OBVIOUS
<1>5. PICK w : w = Elements(k)
  OBVIOUS
<1>6. /\ v = [i \in 1..Len(s) |-> l.nodes[s[i]].data] /\ v \in Seq(Data) /\ Len(v) = Len(s)
  BY <1>1, <1>4, ElementsAre
<1>7. /\ w = [i \in 1..Len(t) |-> k.nodes[t[i]].data] /\ w \in Seq(Data) /\ Len(w) = Len(t)
  BY <1>3, <1>5, ElementsAre
<1>8. s \in Seq(Pointer) /\ Len(s) \in Nat
  BY <1>1 DEF Chain
<1>9. Len(t) = Len(s) + 1 /\ t[Len(s) + 1] = ptr /\ \A i \in 1..Len(s) : t[i] = s[i]
  BY <1>2, <1>8
<1>10. PICK u : u = Append(v, e)
  OBVIOUS
<1>11. /\ u \in Seq(Data) /\ Len(u) = Len(s) + 1 /\ u[Len(s) + 1] = e
       /\ \A i \in 1..Len(s) : u[i] = v[i]
  BY <1>6, <1>10
<1>12. ASSUME NEW i \in 1..Len(w) PROVE w[i] = u[i]
  <2>1. CASE i = Len(s) + 1
    BY <1>3, <1>7, <1>9, <1>11, <2>1
  <2>2. CASE i # Len(s) + 1
    <3>1. i \in 1..Len(s) /\ i \in 1..Len(t)
      BY <1>7, <1>8, <1>9, <2>2
    <3>2. w[i] = k.nodes[s[i]].data /\ u[i] = l.nodes[s[i]].data
      BY <1>6, <1>7, <1>9, <1>11, <3>1
    <3>3. s[i] \in Entries(s)
      BY <3>1 DEF Entries
    <3> QED
      BY <1>3, <3>2, <3>3 DEF SameData
  <2> QED
    BY <2>1, <2>2
<1>13. w = u
  BY <1>7, <1>9, <1>11, <1>12, SameSequence
<1> QED
  BY <1>3, <1>4, <1>5, <1>10, <1>13 DEF Linked

\* A list loses the element of the node that is taken out of its chain, and no other.
LEMMA UnlinkedEffect ==
    ASSUME NEW l, NEW s, Chain(l, s), NEW i \in 1..Len(s), NEW k, k = Unlinked(l, s, i)
    PROVE  /\ Linked(k) /\ DOMAIN k.nodes = DOMAIN l.nodes \ {s[i]} /\ s[i] \in DOMAIN l.nodes
           /\ Elements(k) = RemoveAt(Elements(l), i)
<1>1. PICK t : t = RemoveAt(s, i)
  OBVIOUS
<1>2. Chain(k, t) /\ SameData(l, k, Entries(t)) /\ DOMAIN k.nodes = DOMAIN l.nodes \ {s[i]}
  BY <1>1, UnlinkedChain
<1>3. PICK v : v = Elements(l)
  OBVIOUS
<1>4. PICK w : w = Elements(k)
  OBVIOUS
<1>5. /\ v = [j \in 1..Len(s) |-> l.nodes[s[j]].data] /\ v \in Seq(Data) /\ Len(v) = Len(s)
  BY <1>3, ElementsAre
<1>6. /\ w = [j \in 1..Len(t) |-> k.nodes[t[j]].data] /\ w \in Seq(Data) /\ Len(w) = Len(t)
  BY <1>2, <1>4, ElementsAre
<1>7. s \in Seq(Pointer) /\ Len(s) \in Nat
  BY DEF Chain
<1>8. Dropped(s, i, t)
  BY <1>1, <1>7, DroppedIs
<1>9. PICK u : u = RemoveAt(v, i)
  OBVIOUS
<1>10. u \in Seq(Data) /\ Dropped(v, i, u)
  <2>1. v \in Seq(Data) /\ i \in 1..Len(v)
    BY <1>5
  <2> QED
    BY <1>9, <2>1, DroppedIs
<1>11. ASSUME NEW j \in 1..Len(w) PROVE w[j] = u[j]
  <2>1. j \in 1..(Len(s) - 1) /\ j \in 1..Len(t) /\ j \in 1..Len(s) /\ j + 1 \in 1..Len(s)
    BY <1>6, <1>7, <1>8 DEF Dropped
  <2>2. t[j] = IF j < i THEN s[j] ELSE s[j + 1]
    BY <1>8, <2>1 DEF Dropped
  <2>3. u[j] = IF j < i THEN v[j] ELSE v[j + 1]
    BY <1>5, <1>10, <2>1 DEF Dropped
  <2>4. v[j] = l.nodes[s[j]].data /\ v[j + 1] = l.nodes[s[j + 1]].data
    BY <1>5, <2>1
  <2>5. w[j] = k.nodes[t[j]].data
    BY <1>6, <2>1
  <2>6. t[j] \in Entries(t)
    BY <2>1 DEF Entries
  <2>7. k.nodes[t[j]].data = l.nodes[t[j]].data
    BY <1>2, <2>6 DEF SameData
  <2> QED
    BY <2>2, <2>3, <2>4, <2>5, <2>7
<1>12. Len(w) = Len(u)
  BY <1>5, <1>6, <1>8, <1>10 DEF Dropped
<1>13. w = u
  BY <1>6, <1>10, <1>11, <1>12, SameSequence
<1>14. s[i] \in DOMAIN l.nodes
  BY DEF Chain, Entries
<1> QED
  BY <1>2, <1>3, <1>4, <1>9, <1>13, <1>14 DEF Linked

\* dequeue takes the first element.
LEMMA DequeuedEffect ==
    ASSUME NEW l, Linked(l), l.first # NIL, NEW k, k = Dequeued(l)
    PROVE  /\ Linked(k) /\ DOMAIN k.nodes = DOMAIN l.nodes \ {l.first}
           /\ l.first \in DOMAIN l.nodes /\ Elements(k) = Tail(Elements(l))
<1>1. PICK s : Chain(l, s)
  BY DEF Linked
<1>2. 1 \in 1..Len(s) /\ l.first = s[1]
  BY <1>1 DEF Chain
<1>3. PICK i : i = 1
  OBVIOUS
<1>4. k = Unlinked(l, s, i)
  BY <1>2, <1>3 DEF Unlinked, Dequeued
<1>5. /\ Linked(k) /\ DOMAIN k.nodes = DOMAIN l.nodes \ {s[i]} /\ s[i] \in DOMAIN l.nodes
      /\ Elements(k) = RemoveAt(Elements(l), i)
  BY <1>1, <1>2, <1>3, <1>4, UnlinkedEffect
<1>6. PICK v : v = Elements(l)
  OBVIOUS
<1>7. v \in Seq(Data) /\ Len(v) = Len(s)
  BY <1>1, <1>6, ElementsAre
<1>8. RemoveAt(v, 1) = Tail(v)
  <2>1. PICK u : u = RemoveAt(v, 1)
    OBVIOUS
  <2>2. u \in Seq(Data) /\ Dropped(v, 1, u)
    <3>1. v \in Seq(Data) /\ 1 \in 1..Len(v)
      BY <1>2, <1>7
    <3> QED
      BY <2>1, <3>1, DroppedIs
  <2>3. PICK w : w = Tail(v)
    OBVIOUS
  <2>4. v # << >>
    BY <1>2, <1>7
  <2>5. /\ w \in Seq(Data) /\ Len(w) = Len(v) - 1 /\ \A j \in 1..(Len(v) - 1) : w[j] = v[j + 1]
    BY <1>7, <2>3, <2>4
  <2>6. Len(u) = Len(w) /\ \A j \in 1..Len(u) : u[j] = w[j]
    BY <2>2, <2>5 DEF Dropped
  <2>7. u = w
    BY <2>2, <2>5, <2>6, SameSequence
  <2> QED
    BY <2>1, <2>3, <2>7
<1> QED
  BY <1>2, <1>3, <1>5, <1>6, <1>8

\* removeFromQueue takes the first element equal to e.
LEMMA RemovedEffect ==
    ASSUME NEW l, Linked(l), NEW e, Found(l, e) # {}, NEW k, k = Removed(l, e),
           NEW p, p = Path(l)[Min(Found(l, e))]
    PROVE  /\ Linked(k) /\ DOMAIN k.nodes = DOMAIN l.nodes \ {p} /\ p \in DOMAIN l.nodes
           /\ Elements(k) = RemoveAt(Elements(l), Min({i \in DOMAIN Elements(l) : Elements(l)[i] = e}))
<1>1. PICK s : Chain(l, s)
  BY DEF Linked
<1>2. Path(l) = s
  BY <1>1, PathIs
<1>3. PICK v : v = Elements(l)
  OBVIOUS
<1>4. /\ v = [j \in 1..Len(s) |-> l.nodes[s[j]].data]
      /\ Found(l, e) = {i \in 1..Len(s) : l.nodes[s[i]].data = e}
  BY <1>1, <1>3, ElementsAre
<1>5. {i \in DOMAIN v : v[i] = e} = Found(l, e)
  BY <1>4
<1>6. PICK i : i = Min(Found(l, e))
  OBVIOUS
<1>7. i \in 1..Len(s)
  <2>1. Found(l, e) \subseteq Nat
    BY <1>4
  <2>2. i \in Found(l, e)
    BY <1>6, <2>1, MinInSet
  <2> QED
    BY <1>4, <2>2
<1>8. k = Unlinked(l, s, i)
  BY <1>2, <1>6 DEF Removed, Unlinked
<1>9. /\ Linked(k) /\ DOMAIN k.nodes = DOMAIN l.nodes \ {s[i]} /\ s[i] \in DOMAIN l.nodes
      /\ Elements(k) = RemoveAt(Elements(l), i)
  BY <1>1, <1>7, <1>8, UnlinkedEffect
<1> QED
  BY <1>2, <1>3, <1>5, <1>6, <1>9

-----------------------------------------------------------------------------
(***************************************************************************)
(* The heap of a kernel that has the first-fit manager linked.             *)
(***************************************************************************)
LEMMA PoolStarts == PoolOK(OneBlock) /\ FirstFitRegions(OneBlock) = {}
<1>1. PICK x : x = [addr |-> 0, size |-> memorySize - BLOCK_HEADER_SIZE, free |-> TRUE]
  OBVIOUS
<1>2. x \in Block /\ x.addr = 0 /\ x.size = memorySize - BLOCK_HEADER_SIZE /\ x.free
  BY <1>1, HeaderFits DEF Block
<1>3. PICK b : b = OneBlock
  OBVIOUS
<1>4. b \in Seq(Block) /\ Len(b) = 1 /\ b[1] = x
  BY <1>1, <1>2, <1>3 DEF OneBlock
<1>5. NEXT_PHYSICAL_BLOCK(x) = memorySize
  BY <1>2, HeaderFits, PoolAssumption DEF NEXT_PHYSICAL_BLOCK
<1>6. Tiled(b) /\ MergedBut(b, {})
  BY <1>2, <1>4, <1>5 DEF Tiled, MergedBut
<1>7. ASSUME NEW r PROVE r \notin FirstFitRegions(b)
  BY <1>2, <1>4, RegionsAre
<1> QED
  BY <1>3, <1>6, <1>7 DEF PoolOK

\* alloc, with the first-fit manager linked, is its allocMemory.
LEMMA HeapAlloc ==
    ASSUME manager = "naive", PoolOK(blocks), NEW size \in 1..(WORD - ALIGNMENT),
           NEW a, a = alloc(Heap, size)
    PROVE  /\ a.heap.buddy = buddy
           /\ \/ a.ptr = NULLPTR /\ a.heap.blocks = blocks
              \/ Took(blocks, a.heap.blocks, a.ptr, size)
<1>1. PICK x : x = FirstFitAlloc(blocks, size)
  OBVIOUS
<1>2. a = [heap |-> [Heap EXCEPT !.blocks = x.blocks], ptr |-> x.ptr]
  BY <1>1 DEF alloc, Heap
<1>3. a.ptr = x.ptr /\ a.heap.blocks = x.blocks /\ a.heap.buddy = buddy
  BY <1>2 DEF Heap
<1>4. (x.ptr = NULLPTR /\ x.blocks = blocks) \/ Took(blocks, x.blocks, x.ptr, size)
  BY <1>1, TakeEffect
<1> QED
  BY <1>3, <1>4

\* free, with the first-fit manager linked, is its freeMemory.
LEMMA HeapFree ==
    ASSUME manager = "naive", NEW b, NEW d, NEW h, h = [blocks |-> b, buddy |-> d],
           PoolOK(b), NEW p \in Live(b)
    PROVE  /\ free(h, p) = [blocks |-> FirstFitFree(b, p), buddy |-> d]
           /\ Gave(b, FirstFitFree(b, p), {p})
<1>1. free(h, p) = [blocks |-> FirstFitFree(b, p), buddy |-> d]
  BY DEF free
<1> QED
  BY <1>1, GiveEffect

\* A second release after others
LEMMA GaveMore ==
    ASSUME NEW b, NEW c, NEW d, NEW P, NEW Q, Gave(b, c, P), Gave(c, d, Q)
    PROVE  Gave(b, d, P \cup Q)
  BY DEF Gave

\* The loop of freeQueue gives back the areas of the nodes one by one.
LEMMA FreedEffect ==
    ASSUME manager = "naive", NEW b, NEW d, NEW h, h = [blocks |-> b, buddy |-> d], PoolOK(b),
           NEW s \in Seq(Pointer), \A i, j \in 1..Len(s) : s[i] = s[j] => i = j,
           Entries(s) \subseteq Live(b)
    PROVE  \E c : /\ Freed(h, s, Len(s)) = [blocks |-> c, buddy |-> d]
                  /\ Gave(b, c, Entries(s))
<1> DEFINE G(n, f) == [i \in 0..n |-> IF i = 0 THEN h ELSE free(f[i - 1], s[i])]
           At0(i)  == {s[k] : k \in 1..i}
<1>1. Len(s) \in Nat
  OBVIOUS
<1>2. ASSUME NEW n \in 0..Len(s) PROVE \E f : f = G(n, f)
  <2> DEFINE Bad == {k \in 0..Len(s) : ~\E f : f = G(k, f)}
  <2>1. ASSUME Bad # {} PROVE FALSE
    <3>1. PICK k \in Bad : \A y \in Bad : k <= y
      <4>1. Bad \subseteq Nat
        OBVIOUS
      <4> HIDE DEF Bad
      <4> QED
        BY <2>1, <4>1, MinInSet
    <3>2. k \in 0..Len(s) /\ ~\E f : f = G(k, f)
      BY <3>1
    <3>3. k # 0
      <4>1. PICK f : f = [i \in 0..0 |-> h]
        OBVIOUS
      <4>2. f = G(0, f)
        BY <4>1
      <4> QED
        BY <3>2, <4>2
    <3>4. k - 1 \in 0..Len(s) /\ ~(k <= k - 1)
      BY <1>1, <3>2, <3>3
    <3>5. PICK f : f = G(k - 1, f)
      BY <3>1, <3>4
    <3>6. PICK g : g = [i \in 0..k |-> IF i = k THEN free(f[k - 1], s[k]) ELSE f[i]]
      OBVIOUS
    <3>7. ASSUME NEW i \in 0..k PROVE g[i] = IF i = 0 THEN h ELSE free(g[i - 1], s[i])
      <4>1. CASE i = k
        <5>1. g[k] = free(f[k - 1], s[k])
          BY <3>6, <4>1
        <5>2. k - 1 \in 0..k /\ k - 1 # k
          BY <3>2, <3>3
        <5>3. g[k - 1] = f[k - 1]
          BY <3>6, <5>2
        <5> QED
          BY <3>3, <4>1, <5>1, <5>3
      <4>2. CASE i # k
        <5>1. i \in 0..(k - 1)
          BY <3>2, <4>2
        <5>2. g[i] = f[i]
          BY <3>6, <4>2
        <5>3. f[i] = IF i = 0 THEN h ELSE free(f[i - 1], s[i])
          BY <3>5, <5>1
        <5>4. i # 0 => i - 1 \in 0..k /\ i - 1 # k
          BY <3>2, <5>1
        <5>5. i # 0 => g[i - 1] = f[i - 1]
          BY <3>6, <5>4
        <5> QED
          BY <5>2, <5>3, <5>5
      <4> QED
        BY <4>1, <4>2
    <3>8. g = G(k, g)
      BY <3>6, <3>7
    <3> QED
      BY <3>2, <3>8
  <2> QED
    BY <2>1
<1> DEFINE freed == CHOOSE f : f = G(Len(s), f)
<1>3. freed = G(Len(s), freed)
  <2>1. \E f : f = G(Len(s), f)
    BY <1>1, <1>2
  <2> QED
    BY <2>1
<1>4. Freed(h, s, Len(s)) = freed[Len(s)]
  BY DEF Freed
<1> HIDE DEF freed
<1>5. freed[0] = h /\ \A i \in 1..Len(s) : freed[i] = free(freed[i - 1], s[i])
  BY <1>1, <1>3
<1> DEFINE OK(i) == \E c : freed[i] = [blocks |-> c, buddy |-> d] /\ Gave(b, c, At0(i))
<1>6. OK(0)
  <2>1. At0(0) = {}
    OBVIOUS
  <2>2. Gave(b, b, {})
    BY DEF Gave
  <2> QED
    BY <1>5, <2>1, <2>2
<1>7. ASSUME NEW i \in 1..Len(s), OK(i - 1) PROVE OK(i)
  <2>1. PICK c : freed[i - 1] = [blocks |-> c, buddy |-> d] /\ Gave(b, c, At0(i - 1))
    BY <1>7
  <2>2. s[i] \in Live(c)
    <3>1. s[i] \in Live(b)
      BY DEF Entries
    <3>2. s[i] \notin At0(i - 1)
      <4>1. \A k \in 1..(i - 1) : k \in 1..Len(s) /\ k # i
        BY <1>1
      <4> QED
        BY <4>1
    <3> HIDE DEF At0
    <3> QED
      BY <2>1, <3>1, <3>2 DEF Gave
  <2>3. PoolOK(c)
    BY <2>1 DEF Gave
  <2>4. PICK e : e = FirstFitFree(c, s[i])
    OBVIOUS
  <2>5. /\ free(freed[i - 1], s[i]) = [blocks |-> e, buddy |-> d]
        /\ Gave(c, e, {s[i]})
    BY <2>1, <2>2, <2>3, <2>4, HeapFree
  <2>6. Gave(b, e, At0(i - 1) \cup {s[i]})
    <3> HIDE DEF At0
    <3> QED
      BY <2>1, <2>5, GaveMore
  <2>7. At0(i) = At0(i - 1) \cup {s[i]}
    <3>1. 1..i = (1..(i - 1)) \cup {i}
      BY <1>1
    <3> QED
      BY <3>1
  <2>8. freed[i] = [blocks |-> e, buddy |-> d]
    BY <1>5, <2>5
  <2> QED
    BY <2>6, <2>7, <2>8
<1>8. OK(Len(s))
  <2> DEFINE Bad == {k \in 0..Len(s) : ~OK(k)}
  <2>1. ASSUME Bad # {} PROVE FALSE
    <3>1. PICK k \in Bad : \A y \in Bad : k <= y
      <4>1. Bad \subseteq Nat
        OBVIOUS
      <4> HIDE DEF Bad
      <4> QED
        BY <2>1, <4>1, MinInSet
    <3>2. k \in 0..Len(s) /\ ~OK(k)
      BY <3>1
    <3> HIDE DEF OK
    <3>3. k # 0
      BY <1>6, <3>2
    <3>4. k \in 1..Len(s) /\ k - 1 \in 0..Len(s) /\ ~(k <= k - 1)
      BY <1>1, <3>2, <3>3
    <3>5. OK(k - 1)
      BY <3>1, <3>4
    <3> QED
      BY <1>7, <3>2, <3>4, <3>5
  <2>2. Len(s) \in 0..Len(s)
    BY <1>1
  <2> HIDE DEF OK
  <2> QED
    BY <2>1, <2>2
<1>9. At0(Len(s)) = Entries(s)
  BY DEF Entries
<1> QED
  BY <1>4, <1>8, <1>9

-----------------------------------------------------------------------------
(***************************************************************************)
(* Who holds what: r the requests of test_mm, l the list of the queue at   *)
(* x, y the stack.                                                         *)
(***************************************************************************)
Requested(r) == {r[i].ptr : i \in 1..Len(r)}

UsersOK(r, l, x, y) ==
    /\ r \in Seq([ptr : Pointer, size : Nat])
    /\ Linked(l) /\ (x = NIL => l = newQueue)
    /\ x \in Nat /\ y \in Nat

\* No address has two holders.
Apart(r, l, x, y) ==
    /\ \A i, j \in 1..Len(r) : r[i].ptr = r[j].ptr => i = j
    /\ Requested(r) \cap DOMAIN l.nodes = {}
    /\ x \notin Requested(r) \cup DOMAIN l.nodes
    /\ y \notin Requested(r) \cup DOMAIN l.nodes
    /\ x = y => x = NULLPTR

\* What is in use in b is what is held, and as large as was asked for.
Backed(b, r, l, x, y) ==
    /\ Live(b) = Requested(r) \cup DOMAIN l.nodes \cup ({x, y} \ {NULLPTR})
    /\ \A i \in 1..Len(r) : AtLeast(b, r[i].ptr, r[i].size)
    /\ \A p \in DOMAIN l.nodes : AtLeast(b, p, SizeofNode)
    /\ x # NULLPTR => AtLeast(b, x, SizeofQueue)
    /\ y # NULLPTR => AtLeast(b, y, STACK_SIZE)

HoldersOK(b, r, l, x, y) == UsersOK(r, l, x, y) /\ Apart(r, l, x, y) /\ Backed(b, r, l, x, y)

\* u is r and a request of n bytes that got p.
OneMore(r, p, n, u) ==
    /\ u \in Seq([ptr : Pointer, size : Nat]) /\ Requested(u) = Requested(r) \cup {p}
    /\ Len(u) = Len(r) + 1 /\ Len(r) \in Nat
    /\ u[Len(r) + 1].ptr = p /\ u[Len(r) + 1].size = n
    /\ \A i \in 1..Len(r) : u[i] = r[i]

\* test_mm stores the pointer it got behind those it has.
LEMMA RequestedMore ==
    ASSUME NEW r \in Seq([ptr : Pointer, size : Nat]), NEW p \in Pointer, NEW n \in Nat,
           NEW u, u = Append(r, [ptr |-> p, size |-> n])
    PROVE  OneMore(r, p, n, u)
<1>1. PICK z : z = [ptr |-> p, size |-> n]
  OBVIOUS
<1>2. z \in [ptr : Pointer, size : Nat] /\ z.ptr = p /\ z.size = n
  BY <1>1
<1>3. /\ u \in Seq([ptr : Pointer, size : Nat]) /\ Len(u) = Len(r) + 1 /\ Len(r) \in Nat
      /\ u[Len(r) + 1] = z /\ \A i \in 1..Len(r) : u[i] = r[i]
  BY <1>1, <1>2
<1>4. \A i \in 1..Len(u) : i \in 1..Len(r) \/ i = Len(r) + 1
  BY <1>3
<1>5. Len(r) + 1 \in 1..Len(u) /\ \A i \in 1..Len(r) : i \in 1..Len(u)
  BY <1>3
<1>6. Requested(u) \subseteq Requested(r) \cup {p}
  BY <1>2, <1>3, <1>4 DEF Requested
<1>7. Requested(r) \cup {p} \subseteq Requested(u)
  BY <1>2, <1>3, <1>5 DEF Requested
<1> QED
  BY <1>2, <1>3, <1>6, <1>7 DEF OneMore

\* test_mm holds one area more, which nobody held before.
LEMMA TakeRequest ==
    ASSUME NEW b, NEW r, NEW l, NEW x, NEW y, HoldersOK(b, r, l, x, y),
           NEW c, NEW p, NEW n \in Nat, Took(b, c, p, n),
           NEW u, u = Append(r, [ptr |-> p, size |-> n])
    PROVE  HoldersOK(c, u, l, x, y)
<1>1. UsersOK(r, l, x, y) /\ Apart(r, l, x, y) /\ Backed(b, r, l, x, y)
  BY DEF HoldersOK
<1>2. /\ p \in Pointer /\ p \notin Live(b) /\ Live(c) = Live(b) \cup {p} /\ AtLeast(c, p, n)
      /\ \A z, m : AtLeast(b, z, m) => AtLeast(c, z, m)
  BY DEF Took, Pointer, NIL
<1>3. r \in Seq([ptr : Pointer, size : Nat])
  BY <1>1 DEF UsersOK
<1>4. /\ u \in Seq([ptr : Pointer, size : Nat]) /\ Requested(u) = Requested(r) \cup {p}
      /\ Len(u) = Len(r) + 1 /\ Len(r) \in Nat
      /\ u[Len(r) + 1].ptr = p /\ u[Len(r) + 1].size = n
      /\ \A i \in 1..Len(r) : u[i] = r[i]
  <2>1. OneMore(r, p, n, u)
    BY <1>2, <1>3, RequestedMore
  <2> QED
    BY <2>1 DEF OneMore
<1>5. \A i \in 1..Len(u) : i \in 1..Len(r) \/ i = Len(r) + 1
  BY <1>4
<1>6. /\ Live(b) = Requested(r) \cup DOMAIN l.nodes \cup ({x, y} \ {NULLPTR})
      /\ \A i \in 1..Len(r) : AtLeast(b, r[i].ptr, r[i].size)
      /\ \A z \in DOMAIN l.nodes : AtLeast(b, z, SizeofNode)
      /\ x # NULLPTR => AtLeast(b, x, SizeofQueue)
      /\ y # NULLPTR => AtLeast(b, y, STACK_SIZE)
  BY <1>1 DEF Backed
<1>7. p \notin Requested(r) /\ p \notin DOMAIN l.nodes /\ x # p /\ y # p
  BY <1>2, <1>6 DEF Pointer, NIL, NULLPTR
<1>8. UsersOK(u, l, x, y)
  BY <1>1, <1>4 DEF UsersOK
<1>9. Apart(u, l, x, y)
  <2>1. ASSUME NEW i \in 1..Len(u), NEW j \in 1..Len(u), u[i].ptr = u[j].ptr PROVE i = j
    <3>1. \A k \in 1..Len(r) : u[k].ptr # p
      BY <1>4, <1>7 DEF Requested
    <3>2. \A k, m \in 1..Len(r) : r[k].ptr = r[m].ptr => k = m
      BY <1>1 DEF Apart
    <3> QED
      BY <1>4, <1>5, <2>1, <3>1, <3>2
  <2>2. /\ Requested(u) \cap DOMAIN l.nodes = {}
        /\ x \notin Requested(u) \cup DOMAIN l.nodes
        /\ y \notin Requested(u) \cup DOMAIN l.nodes
        /\ x = y => x = NULLPTR
    BY <1>1, <1>4, <1>7 DEF Apart
  <2> QED
    BY <2>1, <2>2 DEF Apart
<1>10. Backed(c, u, l, x, y)
  <2>1. Live(c) = Requested(u) \cup DOMAIN l.nodes \cup ({x, y} \ {NULLPTR})
    BY <1>2, <1>4, <1>6
  <2>2. ASSUME NEW i \in 1..Len(u) PROVE AtLeast(c, u[i].ptr, u[i].size)
    BY <1>2, <1>4, <1>5, <1>6
  <2> QED
    BY <1>2, <1>6, <2>1, <2>2 DEF Backed
<1> QED
  BY <1>8, <1>9, <1>10 DEF HoldersOK

\* queue: the new node is held by the list, and by nothing else.
LEMMA TakeNode ==
    ASSUME NEW b, NEW r, NEW l, NEW x, NEW y, HoldersOK(b, r, l, x, y), x # NIL,
           NEW c, NEW p, Took(b, c, p, SizeofNode),
           NEW k, Linked(k), DOMAIN k.nodes = DOMAIN l.nodes \cup {p}
    PROVE  HoldersOK(c, r, k, x, y)
<1>1. UsersOK(r, l, x, y) /\ Apart(r, l, x, y) /\ Backed(b, r, l, x, y)
  BY DEF HoldersOK
<1>2. /\ p \in Pointer /\ p \notin Live(b) /\ Live(c) = Live(b) \cup {p} /\ AtLeast(c, p, SizeofNode)
      /\ \A z, m : AtLeast(b, z, m) => AtLeast(c, z, m)
  BY DEF Took, Pointer, NIL
<1>3. p \notin Requested(r) /\ p \notin DOMAIN l.nodes /\ x # p /\ y # p
  BY <1>1, <1>2 DEF Backed, Pointer, NIL, NULLPTR
<1>4. UsersOK(r, k, x, y)
  BY <1>1 DEF UsersOK
<1>5. Apart(r, k, x, y)
  BY <1>1, <1>3 DEF Apart
<1>6. Backed(c, r, k, x, y)
  <2>1. Live(c) = Requested(r) \cup DOMAIN k.nodes \cup ({x, y} \ {NULLPTR})
    BY <1>1, <1>2 DEF Backed
  <2> QED
    BY <1>1, <1>2, <2>1 DEF Backed
<1> QED
  BY <1>4, <1>5, <1>6 DEF HoldersOK

\* createQueue: the new queueCDT is held by the queue, and by nothing else.
LEMMA TakeQueue ==
    ASSUME NEW b, NEW r, NEW l, NEW y, HoldersOK(b, r, l, NIL, y),
           NEW c, NEW p, Took(b, c, p, SizeofQueue)
    PROVE  HoldersOK(c, r, newQueue, p, y)
<1>1. UsersOK(r, l, NIL, y) /\ Apart(r, l, NIL, y) /\ Backed(b, r, l, NIL, y)
  BY DEF HoldersOK
<1>2. /\ p \in Pointer /\ p \notin Live(b) /\ Live(c) = Live(b) \cup {p} /\ AtLeast(c, p, SizeofQueue)
      /\ \A z, m : AtLeast(b, z, m) => AtLeast(c, z, m)
  BY DEF Took, Pointer, NIL
<1>3. l = newQueue
  BY <1>1 DEF UsersOK
<1>4. p \notin Requested(r) /\ p \notin DOMAIN l.nodes /\ y # p
  BY <1>1, <1>2 DEF Backed, Pointer, NIL, NULLPTR
<1>5. UsersOK(r, l, p, y)
  BY <1>1, <1>2 DEF UsersOK, Pointer
<1>6. Apart(r, l, p, y)
  BY <1>1, <1>4 DEF Apart
<1>7. Backed(c, r, l, p, y)
  <2>1. Live(c) = Requested(r) \cup DOMAIN l.nodes \cup ({p, y} \ {NULLPTR})
    BY <1>1, <1>2 DEF Backed, Pointer, NIL, NULLPTR
  <2> QED
    BY <1>1, <1>2, <2>1 DEF Backed
<1> QED
  BY <1>3, <1>5, <1>6, <1>7 DEF HoldersOK

\* createProcess: the new stack is held by the process, and by nothing else.
LEMMA TakeStack ==
    ASSUME NEW b, NEW r, NEW l, NEW x, HoldersOK(b, r, l, x, NULLPTR),
           NEW c, NEW p, Took(b, c, p, STACK_SIZE)
    PROVE  HoldersOK(c, r, l, x, p)
<1>1. UsersOK(r, l, x, NULLPTR) /\ Apart(r, l, x, NULLPTR) /\ Backed(b, r, l, x, NULLPTR)
  BY DEF HoldersOK
<1>2. /\ p \in Pointer /\ p \notin Live(b) /\ Live(c) = Live(b) \cup {p} /\ AtLeast(c, p, STACK_SIZE)
      /\ \A z, m : AtLeast(b, z, m) => AtLeast(c, z, m)
  BY DEF Took, Pointer, NIL
<1>3. p \notin Requested(r) /\ p \notin DOMAIN l.nodes /\ x # p
  BY <1>1, <1>2 DEF Backed, Pointer, NIL, NULLPTR
<1>4. UsersOK(r, l, x, p)
  BY <1>1, <1>2 DEF UsersOK, Pointer
<1>5. Apart(r, l, x, p)
  BY <1>1, <1>3 DEF Apart
<1>6. Backed(c, r, l, x, p)
  <2>1. Live(c) = Requested(r) \cup DOMAIN l.nodes \cup ({x, p} \ {NULLPTR})
    BY <1>1, <1>2 DEF Backed, Pointer, NIL, NULLPTR
  <2> QED
    BY <1>1, <1>2, <2>1 DEF Backed
<1> QED
  BY <1>4, <1>5, <1>6 DEF HoldersOK

\* test_mm keeps no null pointer among its requests.
LEMMA RequestedPointers ==
    ASSUME NEW r \in Seq([ptr : Pointer, size : Nat])
    PROVE  \A i \in 1..Len(r) : r[i].ptr \in Pointer
<1> SUFFICES ASSUME NEW i \in 1..Len(r) PROVE r[i].ptr \in Pointer
  OBVIOUS
<1>1. PICK R : R = [ptr : Pointer, size : Nat]
  OBVIOUS
<1>2. r \in Seq(R)
  BY <1>1
<1>3. r[i] \in R
  BY <1>2
<1> QED
  BY <1>1, <1>3

\* u is r without its first request, which got p.
OneLess(r, p, u) ==
    /\ u \in Seq([ptr : Pointer, size : Nat])
    /\ Requested(u) = Requested(r) \ {p} /\ p \in Requested(r)
    /\ \A i \in 1..Len(u) : i + 1 \in 1..Len(r) /\ u[i] = r[i + 1]

\* test_mm forgets the first of its pointers, and no other.
LEMMA RequestedLess ==
    ASSUME NEW r \in Seq([ptr : Pointer, size : Nat]), r # << >>,
           \A i, j \in 1..Len(r) : r[i].ptr = r[j].ptr => i = j,
           NEW u, u = Tail(r)
    PROVE  OneLess(r, Head(r).ptr, u)
<1>1. /\ u \in Seq([ptr : Pointer, size : Nat]) /\ Len(u) = Len(r) - 1 /\ Len(r) \in Nat \ {0}
      /\ \A i \in 1..Len(u) : u[i] = r[i + 1]
  OBVIOUS
<1>2. Head(r) = r[1] /\ 1 \in 1..Len(r)
  BY <1>1
<1>3. \A i \in 1..Len(u) : i + 1 \in 1..Len(r) /\ i + 1 # 1 /\ u[i] = r[i + 1]
  BY <1>1
<1>4. \A i \in 1..Len(r) : i # 1 => i - 1 \in 1..Len(u) /\ (i - 1) + 1 = i
  BY <1>1
<1>5. Requested(u) \subseteq Requested(r) \ {Head(r).ptr}
  <2> SUFFICES ASSUME NEW i \in 1..Len(u) PROVE u[i].ptr \in Requested(r) \ {r[1].ptr}
    BY <1>2 DEF Requested
  <2>1. i + 1 \in 1..Len(r) /\ i + 1 # 1 /\ u[i] = r[i + 1]
    BY <1>3
  <2>2. r[i + 1].ptr # r[1].ptr
    BY <1>2, <2>1
  <2> QED
    BY <2>1, <2>2 DEF Requested
<1>6. Requested(r) \ {Head(r).ptr} \subseteq Requested(u)
  <2> SUFFICES ASSUME NEW i \in 1..Len(r), r[i].ptr # r[1].ptr PROVE r[i].ptr \in Requested(u)
    BY <1>2 DEF Requested
  <2>1. i - 1 \in 1..Len(u) /\ (i - 1) + 1 = i
    BY <1>4
  <2>2. u[i - 1] = r[i]
    BY <1>3, <2>1
  <2> QED
    BY <2>1, <2>2 DEF Requested
<1>7. Head(r).ptr \in Requested(r)
  BY <1>2 DEF Requested
<1> QED
  BY <1>1, <1>3, <1>5, <1>6, <1>7 DEF OneLess

\* test_mm frees its first request: it is neither held nor in use any more.
LEMMA GiveHead ==
    ASSUME NEW b, NEW r, NEW l, NEW x, NEW y, HoldersOK(b, r, l, x, y), r # << >>,
           NEW c, Gave(b, c, {Head(r).ptr}), NEW u, u = Tail(r)
    PROVE  HoldersOK(c, u, l, x, y)
<1>1. UsersOK(r, l, x, y) /\ Apart(r, l, x, y) /\ Backed(b, r, l, x, y)
  BY DEF HoldersOK
<1>2. PICK p : p = Head(r).ptr
  OBVIOUS
<1>3. /\ u \in Seq([ptr : Pointer, size : Nat])
      /\ Requested(u) = Requested(r) \ {p} /\ p \in Requested(r)
      /\ \A i \in 1..Len(u) : i + 1 \in 1..Len(r) /\ u[i] = r[i + 1]
  <2>1. r \in Seq([ptr : Pointer, size : Nat])
    BY <1>1 DEF UsersOK
  <2>2. \A i, j \in 1..Len(r) : r[i].ptr = r[j].ptr => i = j
    BY <1>1 DEF Apart
  <2>3. OneLess(r, p, u)
    BY <1>2, <2>1, <2>2, RequestedLess
  <2> QED
    BY <2>3 DEF OneLess
<1>4. /\ Live(c) = Live(b) \ {p}
      /\ \A z, m : AtLeast(b, z, m) /\ z # p => AtLeast(c, z, m)
  BY <1>2 DEF Gave
<1>5. p \notin DOMAIN l.nodes /\ x # p /\ y # p
  BY <1>1, <1>3 DEF Apart
<1>6. UsersOK(u, l, x, y)
  BY <1>1, <1>3 DEF UsersOK
<1>7. Apart(u, l, x, y)
  <2>1. ASSUME NEW i \in 1..Len(u), NEW j \in 1..Len(u), u[i].ptr = u[j].ptr PROVE i = j
    <3>1. i + 1 \in 1..Len(r) /\ u[i] = r[i + 1] /\ j + 1 \in 1..Len(r) /\ u[j] = r[j + 1]
      BY <1>3
    <3>2. i + 1 = j + 1
      BY <1>1, <2>1, <3>1 DEF Apart
    <3>3. i \in Int /\ j \in Int
      OBVIOUS
    <3> QED
      BY <3>2, <3>3
  <2>2. /\ Requested(u) \cap DOMAIN l.nodes = {}
        /\ x \notin Requested(u) \cup DOMAIN l.nodes
        /\ y \notin Requested(u) \cup DOMAIN l.nodes
        /\ x = y => x = NULLPTR
    BY <1>1, <1>3 DEF Apart
  <2> QED
    BY <2>1, <2>2 DEF Apart
<1>8. Backed(c, u, l, x, y)
  <2>1. Live(c) = Requested(u) \cup DOMAIN l.nodes \cup ({x, y} \ {NULLPTR})
    BY <1>1, <1>3, <1>4, <1>5 DEF Backed
  <2>2. ASSUME NEW i \in 1..Len(u) PROVE AtLeast(c, u[i].ptr, u[i].size)
    <3>1. i + 1 \in 1..Len(r) /\ u[i] = r[i + 1]
      BY <1>3
    <3>2. AtLeast(b, u[i].ptr, u[i].size)
      BY <1>1, <3>1 DEF Backed
    <3>3. u[i].ptr # p
      BY <1>3 DEF Requested
    <3> QED
      BY <1>4, <3>2, <3>3
  <2>3. /\ \A z \in DOMAIN l.nodes : AtLeast(c, z, SizeofNode)
        /\ x # NULLPTR => AtLeast(c, x, SizeofQueue)
        /\ y # NULLPTR => AtLeast(c, y, STACK_SIZE)
    BY <1>1, <1>4, <1>5 DEF Backed
  <2> QED
    BY <2>1, <2>2, <2>3 DEF Backed
<1> QED
  BY <1>6, <1>7, <1>8 DEF HoldersOK

\* dequeue and removeFromQueue free the node they took out of the list.
LEMMA GiveNode ==
    ASSUME NEW b, NEW r, NEW l, NEW x, NEW y, HoldersOK(b, r, l, x, y), x # NIL,
           NEW p \in DOMAIN l.nodes, NEW c, Gave(b, c, {p}),
           NEW k, Linked(k), DOMAIN k.nodes = DOMAIN l.nodes \ {p}
    PROVE  HoldersOK(c, r, k, x, y)
<1>1. UsersOK(r, l, x, y) /\ Apart(r, l, x, y) /\ Backed(b, r, l, x, y)
  BY DEF HoldersOK
<1>2. /\ Live(c) = Live(b) \ {p}
      /\ \A z, m : AtLeast(b, z, m) /\ z # p => AtLeast(c, z, m)
  BY DEF Gave
<1>3. p \notin Requested(r) /\ x # p /\ y # p
  BY <1>1 DEF Apart
<1>4. UsersOK(r, k, x, y)
  BY <1>1 DEF UsersOK
<1>5. Apart(r, k, x, y)
  BY <1>1 DEF Apart
<1>6. Backed(c, r, k, x, y)
  <2>1. Live(c) = Requested(r) \cup DOMAIN k.nodes \cup ({x, y} \ {NULLPTR})
    BY <1>1, <1>2, <1>3 DEF Backed
  <2>2. ASSUME NEW i \in 1..Len(r) PROVE AtLeast(c, r[i].ptr, r[i].size)
    <3>1. AtLeast(b, r[i].ptr, r[i].size) /\ r[i].ptr # p
      BY <1>1, <1>3 DEF Backed, Requested
    <3> QED
      BY <1>2, <3>1
  <2> QED
    BY <1>1, <1>2, <1>3, <2>1, <2>2 DEF Backed
<1> QED
  BY <1>4, <1>5, <1>6 DEF HoldersOK

\* freeQueue frees the nodes and then the queue, and nothing is left of either.
LEMMA GiveQueue ==
    ASSUME NEW b, NEW r, NEW l, NEW x, NEW y, HoldersOK(b, r, l, x, y), x # NIL,
           NEW c, Gave(b, c, DOMAIN l.nodes \cup {x})
    PROVE  HoldersOK(c, r, newQueue, NIL, y)
<1>1. UsersOK(r, l, x, y) /\ Apart(r, l, x, y) /\ Backed(b, r, l, x, y)
  BY DEF HoldersOK
<1>2. PICK k : k = newQueue
  OBVIOUS
<1>3. Linked(k) /\ DOMAIN k.nodes = {}
  <2>1. Linked(k)
    BY <1>2, NewChain DEF Linked
  <2>2. DOMAIN k.nodes = {}
    BY <1>2 DEF newQueue
  <2> QED
    BY <2>1, <2>2
<1>4. /\ Live(c) = Live(b) \ (DOMAIN l.nodes \cup {x})
      /\ \A z, m : AtLeast(b, z, m) /\ z \notin DOMAIN l.nodes \cup {x} => AtLeast(c, z, m)
  BY DEF Gave
<1>5. \A p \in Requested(r) : p \notin DOMAIN l.nodes \cup {x} /\ p # NIL
  <2>1. \A i \in 1..Len(r) : r[i].ptr \in Pointer
    <3>1. r \in Seq([ptr : Pointer, size : Nat])
      BY <1>1 DEF UsersOK
    <3> QED
      BY <3>1, RequestedPointers
  <2> QED
    BY <1>1, <2>1 DEF Apart, Requested, Pointer
<1>6. y # NULLPTR => y \notin DOMAIN l.nodes \cup {x}
  BY <1>1 DEF Apart
<1>7. UsersOK(r, k, NIL, y)
  BY <1>1, <1>2, <1>3 DEF UsersOK, NIL
<1>8. Apart(r, k, NIL, y)
  BY <1>1, <1>3, <1>5 DEF Apart, NIL, NULLPTR
<1>9. Backed(c, r, k, NIL, y)
  <2>1. Live(c) = Requested(r) \cup DOMAIN k.nodes \cup ({NIL, y} \ {NULLPTR})
    BY <1>1, <1>3, <1>4, <1>5, <1>6 DEF Backed, NIL, NULLPTR
  <2>2. ASSUME NEW i \in 1..Len(r) PROVE AtLeast(c, r[i].ptr, r[i].size)
    <3>1. AtLeast(b, r[i].ptr, r[i].size) /\ r[i].ptr \notin DOMAIN l.nodes \cup {x}
      BY <1>1, <1>5 DEF Backed, Requested
    <3> QED
      BY <1>4, <3>1
  <2>3. y # NULLPTR => AtLeast(c, y, STACK_SIZE)
    BY <1>1, <1>4, <1>6 DEF Backed
  <2> QED
    BY <1>3, <2>1, <2>2, <2>3 DEF Backed, NIL, NULLPTR
<1> QED
  BY <1>2, <1>7, <1>8, <1>9 DEF HoldersOK

\* kill frees the stack of the process.
LEMMA GiveStack ==
    ASSUME NEW b, NEW r, NEW l, NEW x, NEW y, HoldersOK(b, r, l, x, y), y # NULLPTR,
           NEW c, Gave(b, c, {y})
    PROVE  HoldersOK(c, r, l, x, NULLPTR)
<1>1. UsersOK(r, l, x, y) /\ Apart(r, l, x, y) /\ Backed(b, r, l, x, y)
  BY DEF HoldersOK
<1>2. /\ Live(c) = Live(b) \ {y}
      /\ \A z, m : AtLeast(b, z, m) /\ z # y => AtLeast(c, z, m)
  BY DEF Gave
<1>3. y \notin Requested(r) /\ y \notin DOMAIN l.nodes /\ x # y
  BY <1>1 DEF Apart
<1>4. NULLPTR \notin Requested(r) /\ NULLPTR \notin DOMAIN l.nodes
  <2>1. \A i \in 1..Len(r) : r[i].ptr \in Pointer
    <3>1. r \in Seq([ptr : Pointer, size : Nat])
      BY <1>1 DEF UsersOK
    <3> QED
      BY <3>1, RequestedPointers
  <2>2. DOMAIN l.nodes \subseteq Pointer
    <3>1. PICK s : Chain(l, s)
      BY <1>1 DEF UsersOK, Linked
    <3> QED
      BY <3>1 DEF Chain, Entries
  <2> QED
    BY <2>1, <2>2 DEF Requested, Pointer, NIL, NULLPTR
<1>5. UsersOK(r, l, x, NULLPTR)
  BY <1>1 DEF UsersOK, NULLPTR
<1>6. Apart(r, l, x, NULLPTR)
  BY <1>1, <1>4 DEF Apart
<1>7. Backed(c, r, l, x, NULLPTR)
  <2>1. Live(c) = Requested(r) \cup DOMAIN l.nodes \cup ({x, NULLPTR} \ {NULLPTR})
    BY <1>1, <1>2, <1>3 DEF Backed
  <2>2. ASSUME NEW i \in 1..Len(r) PROVE AtLeast(c, r[i].ptr, r[i].size)
    <3>1. AtLeast(b, r[i].ptr, r[i].size) /\ r[i].ptr # y
      BY <1>1, <1>3 DEF Backed, Requested
    <3> QED
      BY <1>2, <3>1
  <2> QED
    BY <1>1, <1>2, <1>3, <2>1, <2>2 DEF Backed
<1> QED
  BY <1>5, <1>6, <1>7 DEF HoldersOK

-----------------------------------------------------------------------------
(***************************************************************************)
(* The inductive invariant, and what each action does to the pool.         *)
(***************************************************************************)
HeapInv ==
    /\ manager = "naive" /\ exiting = NotExiting /\ buddy = createBuddy
    /\ PoolOK(blocks)
    /\ phase = "free" => rqs # << >>
    /\ HoldersOK(blocks, rqs, list, q, stack)

PoolStep == \/ blocks' = blocks
            \/ \E p, n : Took(blocks, blocks', p, n)
            \/ \E P : Gave(blocks, blocks', P)

\* A step keeps the invariant when holders and areas in use change together.
LEMMA StepKeeps ==
    ASSUME HeapInv, manager' = manager, exiting' = exiting, buddy' = buddy,
           phase' = "free" => rqs' # << >>,
           HoldersOK(blocks', rqs', list', q', stack'), PoolStep
    PROVE  HeapInv' /\ PoolStep
<1>1. PoolOK(blocks')
  BY DEF HeapInv, PoolStep, Took, Gave
<1> QED
  BY <1>1 DEF HeapInv

\* createMemory leaves one free block, and nobody holds anything.
LEMMA HeapStarts == HeapInit /\ manager = "naive" => HeapInv
<1> SUFFICES ASSUME HeapInit, manager = "naive" PROVE HeapInv
  OBVIOUS
<1>1. /\ blocks = OneBlock /\ buddy = createBuddy /\ rqs = << >> /\ phase = "request"
      /\ q = NIL /\ list = newQueue /\ stack = NULLPTR /\ exiting = NotExiting
  BY DEF HeapInit
<1>2. PoolOK(blocks) /\ FirstFitRegions(blocks) = {}
  BY <1>1, PoolStarts
<1>3. Linked(list) /\ DOMAIN list.nodes = {}
  <2>1. Linked(list)
    BY <1>1, NewChain DEF Linked
  <2>2. DOMAIN list.nodes = {}
    BY <1>1 DEF newQueue
  <2> QED
    BY <2>1, <2>2
<1>4. rqs \in Seq([ptr : Pointer, size : Nat]) /\ Len(rqs) = 0 /\ Requested(rqs) = {}
  BY <1>1 DEF Requested
<1>5. UsersOK(rqs, list, q, stack)
  BY <1>1, <1>3, <1>4 DEF UsersOK, NIL, NULLPTR
<1>6. Apart(rqs, list, q, stack)
  BY <1>1, <1>3, <1>4 DEF Apart, NIL, NULLPTR
<1>7. Backed(blocks, rqs, list, q, stack)
  <2>1. Live(blocks) = {}
    BY <1>2 DEF Live
  <2> QED
    BY <1>1, <1>3, <1>4, <2>1 DEF Backed, NIL, NULLPTR
<1> QED
  BY <1>1, <1>2, <1>5, <1>6, <1>7 DEF HeapInv, HoldersOK

\* A request of test_mm: the pointer and its area appear together, or neither does.
LEMMA RequestKeeps == HeapInv /\ Request => HeapInv' /\ PoolStep
<1> SUFFICES ASSUME HeapInv, Request PROVE HeapInv' /\ PoolStep
  OBVIOUS
<1>1. PICK size \in Requests :
        LET a == alloc(Heap, size)
        IN  /\ SetHeap(a.heap)
            /\ rqs' = IF a.ptr = NULLPTR THEN rqs ELSE Append(rqs, [ptr |-> a.ptr, size |-> size])
  BY DEF Request
<1>2. PICK a : a = alloc(Heap, size)
  OBVIOUS
<1>3. /\ blocks' = a.heap.blocks /\ buddy' = a.heap.buddy /\ manager' = manager
      /\ rqs' = IF a.ptr = NULLPTR THEN rqs ELSE Append(rqs, [ptr |-> a.ptr, size |-> size])
  BY <1>1, <1>2 DEF SetHeap
<1>4. /\ phase' = phase /\ q' = q /\ list' = list /\ stack' = stack /\ exiting' = exiting
      /\ phase = "request"
  BY DEF Request
<1>5. manager = "naive" /\ PoolOK(blocks) /\ HoldersOK(blocks, rqs, list, q, stack)
  BY DEF HeapInv
<1>6. size \in 1..(WORD - ALIGNMENT) /\ size \in Nat
  BY <1>1, HeapAssumption
<1>7. /\ a.heap.buddy = buddy
      /\ \/ a.ptr = NULLPTR /\ a.heap.blocks = blocks
         \/ Took(blocks, a.heap.blocks, a.ptr, size)
  BY <1>2, <1>5, <1>6, HeapAlloc
<1>8. CASE a.ptr = NULLPTR /\ a.heap.blocks = blocks
  <2>1. HoldersOK(blocks', rqs', list', q', stack') /\ PoolStep
    BY <1>3, <1>4, <1>5, <1>8 DEF PoolStep
  <2> QED
    BY <1>3, <1>4, <1>7, <2>1, StepKeeps
<1>9. CASE Took(blocks, a.heap.blocks, a.ptr, size)
  <2>1. rqs' = Append(rqs, [ptr |-> a.ptr, size |-> size])
    BY <1>3, <1>9 DEF Took, NULLPTR
  <2>2. HoldersOK(blocks', rqs', list, q, stack)
    BY <1>3, <1>5, <1>6, <1>9, <2>1, TakeRequest
  <2>3. HoldersOK(blocks', rqs', list', q', stack')
    BY <1>4, <2>2
  <2>4. PoolStep
    BY <1>3, <1>9 DEF PoolStep
  <2> QED
    BY <1>3, <1>4, <1>7, <2>3, <2>4, StepKeeps
<1> QED
  BY <1>7, <1>8, <1>9

\* The end of the request phase of test_mm touches no block.
LEMMA SetAndCheckKeeps == HeapInv /\ SetAndCheck => HeapInv' /\ PoolStep
<1> SUFFICES ASSUME HeapInv, SetAndCheck PROVE HeapInv' /\ PoolStep
  OBVIOUS
<1>1. /\ manager' = manager /\ blocks' = blocks /\ buddy' = buddy /\ rqs' = rqs /\ q' = q
      /\ list' = list /\ stack' = stack /\ exiting' = exiting
      /\ phase' = "free" => rqs' # << >>
  BY DEF SetAndCheck, heapVars
<1>2. HoldersOK(blocks', rqs', list', q', stack') /\ PoolStep
  BY <1>1 DEF HeapInv, PoolStep
<1> QED
  BY <1>1, <1>2, StepKeeps

\* Giving back the area at one address, as an action sees it
LEMMA FreeOne ==
    ASSUME HeapInv, NEW p \in Live(blocks), SetHeap(free(Heap, p))
    PROVE  /\ manager' = manager /\ buddy' = buddy /\ Gave(blocks, blocks', {p}) /\ PoolStep
<1>1. manager = "naive" /\ PoolOK(blocks) /\ Heap = [blocks |-> blocks, buddy |-> buddy]
  BY DEF HeapInv, Heap
<1>2. PICK h : h = Heap
  OBVIOUS
<1>3. /\ free(h, p) = [blocks |-> FirstFitFree(blocks, p), buddy |-> buddy]
      /\ Gave(blocks, FirstFitFree(blocks, p), {p})
  BY <1>1, <1>2, HeapFree
<1>4. blocks' = FirstFitFree(blocks, p) /\ buddy' = buddy /\ manager' = manager
  BY <1>2, <1>3 DEF SetHeap
<1> QED
  BY <1>3, <1>4 DEF PoolStep

\* Of two or more requests, one at least is left.
LEMMA TailNotEmpty ==
    ASSUME NEW S, NEW s \in Seq(S), s # << >>, Len(s) # 1
    PROVE  Tail(s) # << >>
<1>1. PICK t : t = Tail(s)
  OBVIOUS
<1>2. Len(t) = Len(s) - 1 /\ Len(s) \in Nat /\ Len(s) # 0
  BY <1>1
<1>3. Len(t) # 0 /\ Len(<< >>) = 0
  BY <1>2
<1>4. t # << >>
  <2> SUFFICES ASSUME t = << >> PROVE FALSE
    OBVIOUS
  <2> QED
    BY <1>3
<1> QED
  BY <1>1, <1>4

\* The free phase of test_mm: pointer and area go together.
LEMMA FreeNextKeeps == HeapInv /\ FreeNext => HeapInv' /\ PoolStep
<1> SUFFICES ASSUME HeapInv, FreeNext PROVE HeapInv' /\ PoolStep
  OBVIOUS
<1>1. /\ SetHeap(free(Heap, Head(rqs).ptr)) /\ rqs' = Tail(rqs)
      /\ q' = q /\ list' = list /\ stack' = stack /\ exiting' = exiting
      /\ phase = "free" /\ phase' = IF Len(rqs) = 1 THEN "request" ELSE "free"
  BY DEF FreeNext
<1>2. HoldersOK(blocks, rqs, list, q, stack) /\ rqs # << >>
  BY <1>1 DEF HeapInv
<1>3. rqs \in Seq([ptr : Pointer, size : Nat]) /\ Head(rqs).ptr \in Live(blocks)
  <2>1. rqs \in Seq([ptr : Pointer, size : Nat])
    BY <1>2 DEF HoldersOK, UsersOK
  <2>2. 1 \in 1..Len(rqs) /\ Head(rqs) = rqs[1]
    BY <1>2, <2>1
  <2> QED
    BY <1>2, <2>1, <2>2 DEF HoldersOK, Backed, Requested
<1>4. manager' = manager /\ buddy' = buddy /\ Gave(blocks, blocks', {Head(rqs).ptr}) /\ PoolStep
  BY <1>1, <1>3, FreeOne
<1>5. HoldersOK(blocks', rqs', list, q, stack)
  BY <1>1, <1>2, <1>4, GiveHead
<1>6. HoldersOK(blocks', rqs', list', q', stack')
  BY <1>1, <1>5
<1>7. phase' = "free" => rqs' # << >>
  <2>1. Len(rqs) # 1 => Tail(rqs) # << >>
    BY <1>2, <1>3, TailNotEmpty
  <2> QED
    BY <1>1, <2>1
<1> QED
  BY <1>1, <1>4, <1>6, <1>7, StepKeeps

\* createQueue: the queue and its area appear together.
LEMMA NewQueueKeeps == HeapInv /\ NewQueue => HeapInv' /\ PoolStep
<1> SUFFICES ASSUME HeapInv, NewQueue PROVE HeapInv' /\ PoolStep
  OBVIOUS
<1>1. PICK a : a = alloc(Heap, SizeofQueue)
  OBVIOUS
<1>2. /\ blocks' = a.heap.blocks /\ buddy' = a.heap.buddy /\ manager' = manager
      /\ q = NIL /\ q' = a.ptr /\ list' = newQueue
      /\ rqs' = rqs /\ phase' = phase /\ stack' = stack /\ exiting' = exiting
  BY <1>1 DEF NewQueue, SetHeap
<1>3. manager = "naive" /\ PoolOK(blocks) /\ HoldersOK(blocks, rqs, list, q, stack)
      /\ (phase = "free" => rqs # << >>)
  BY DEF HeapInv
<1>4. /\ a.heap.buddy = buddy
      /\ \/ a.ptr = NULLPTR /\ a.heap.blocks = blocks
         \/ Took(blocks, a.heap.blocks, a.ptr, SizeofQueue)
  BY <1>1, <1>3, HeapAlloc, HeapAssumption
<1>5. CASE a.ptr = NULLPTR /\ a.heap.blocks = blocks
  <2>1. list = newQueue
    BY <1>2, <1>3 DEF HoldersOK, UsersOK
  <2>2. q' = q /\ list' = list /\ blocks' = blocks
    BY <1>2, <1>5, <2>1 DEF NIL, NULLPTR
  <2>3. HoldersOK(blocks', rqs', list', q', stack') /\ PoolStep
    BY <1>2, <1>3, <2>2 DEF PoolStep
  <2> QED
    BY <1>2, <1>3, <1>4, <2>3, StepKeeps
<1>6. CASE Took(blocks, a.heap.blocks, a.ptr, SizeofQueue)
  <2>1. HoldersOK(blocks, rqs, list, NIL, stack)
    BY <1>2, <1>3
  <2>2. Took(blocks, blocks', a.ptr, SizeofQueue)
    BY <1>2, <1>6
  <2>3. HoldersOK(blocks', rqs, newQueue, a.ptr, stack)
    BY <2>1, <2>2, TakeQueue
  <2>4. HoldersOK(blocks', rqs', list', q', stack')
    BY <1>2, <2>3
  <2>5. PoolStep
    BY <2>2 DEF PoolStep
  <2> QED
    BY <1>2, <1>3, <1>4, <2>4, <2>5, StepKeeps
<1> QED
  BY <1>4, <1>5, <1>6

\* What queue does to the list, or not when no block is left
LEMMA QueueKeeps ==
    ASSUME HeapInv, NEW e \in Data, Queue(e)
    PROVE  /\ HeapInv' /\ PoolStep
           /\ \/ Elements(list') = Append(Elements(list), e)
              \/ Elements(list') = Elements(list) /\ alloc(Heap, SizeofNode).ptr = NULLPTR
<1>1. PICK a : a = alloc(Heap, SizeofNode)
  OBVIOUS
<1>2. /\ blocks' = a.heap.blocks /\ buddy' = a.heap.buddy /\ manager' = manager
      /\ q # NIL /\ list' = Queued(list, a.ptr, e)
      /\ rqs' = rqs /\ phase' = phase /\ q' = q /\ stack' = stack /\ exiting' = exiting
  BY <1>1 DEF Queue, SetHeap
<1>3. manager = "naive" /\ PoolOK(blocks) /\ HoldersOK(blocks, rqs, list, q, stack)
      /\ (phase = "free" => rqs # << >>)
  BY DEF HeapInv
<1>4. /\ a.heap.buddy = buddy
      /\ \/ a.ptr = NULLPTR /\ a.heap.blocks = blocks
         \/ Took(blocks, a.heap.blocks, a.ptr, SizeofNode)
  BY <1>1, <1>3, HeapAlloc, HeapAssumption
<1>5. CASE a.ptr = NULLPTR /\ a.heap.blocks = blocks
  <2>1. list' = list /\ blocks' = blocks
    BY <1>2, <1>5 DEF Queued, NIL, NULLPTR
  <2>2. HoldersOK(blocks', rqs', list', q', stack') /\ PoolStep
    BY <1>2, <1>3, <2>1 DEF PoolStep
  <2>3. HeapInv' /\ PoolStep
    BY <1>2, <1>3, <1>4, <2>2, StepKeeps
  <2> QED
    BY <1>1, <1>5, <2>1, <2>3
<1>6. CASE Took(blocks, a.heap.blocks, a.ptr, SizeofNode)
  <2>1. Took(blocks, blocks', a.ptr, SizeofNode)
    BY <1>2, <1>6
  <2>2. Linked(list) /\ a.ptr \in Pointer /\ a.ptr \notin DOMAIN list.nodes
    BY <1>3, <1>6 DEF HoldersOK, UsersOK, Backed, Took, Pointer, NIL
  <2>3. PICK k : k = Queued(list, a.ptr, e)
    OBVIOUS
  <2>4. /\ Linked(k) /\ DOMAIN k.nodes = DOMAIN list.nodes \cup {a.ptr}
        /\ Elements(k) = Append(Elements(list), e)
    BY <2>2, <2>3, QueuedEffect
  <2>5. HoldersOK(blocks', rqs, k, q, stack)
    BY <1>2, <1>3, <2>1, <2>4, TakeNode
  <2>6. HoldersOK(blocks', rqs', list', q', stack')
    BY <1>2, <2>3, <2>5
  <2>7. PoolStep
    BY <2>1 DEF PoolStep
  <2>8. HeapInv' /\ PoolStep
    BY <1>2, <1>3, <1>4, <2>6, <2>7, StepKeeps
  <2> QED
    BY <1>2, <2>3, <2>4, <2>8
<1> QED
  BY <1>4, <1>5, <1>6

\* dequeue returns the first element, and its node is freed.
LEMMA DequeueKeeps ==
    ASSUME HeapInv, Dequeue
    PROVE  HeapInv' /\ PoolStep /\ Elements(list') = Tail(Elements(list))
<1>1. /\ q # NIL /\ list.first # NIL /\ SetHeap(free(Heap, list.first)) /\ list' = Dequeued(list)
      /\ rqs' = rqs /\ phase' = phase /\ q' = q /\ stack' = stack /\ exiting' = exiting
  BY DEF Dequeue
<1>2. HoldersOK(blocks, rqs, list, q, stack) /\ Linked(list) /\ (phase = "free" => rqs # << >>)
  BY DEF HeapInv, HoldersOK, UsersOK
<1>3. PICK p : p = list.first
  OBVIOUS
<1>4. PICK k : k = Dequeued(list)
  OBVIOUS
<1>5. /\ Linked(k) /\ DOMAIN k.nodes = DOMAIN list.nodes \ {p}
      /\ p \in DOMAIN list.nodes /\ Elements(k) = Tail(Elements(list))
  BY <1>1, <1>2, <1>3, <1>4, DequeuedEffect
<1>6. p \in Live(blocks)
  BY <1>2, <1>5 DEF HoldersOK, Backed
<1>7. manager' = manager /\ buddy' = buddy /\ Gave(blocks, blocks', {p}) /\ PoolStep
  BY <1>1, <1>3, <1>6, FreeOne
<1>8. HoldersOK(blocks', rqs, k, q, stack)
  BY <1>1, <1>2, <1>5, <1>7, GiveNode
<1>9. HoldersOK(blocks', rqs', list', q', stack')
  BY <1>1, <1>4, <1>8
<1>10. HeapInv' /\ PoolStep
  BY <1>1, <1>2, <1>7, <1>9, StepKeeps
<1> QED
  BY <1>1, <1>4, <1>5, <1>10

\* removeFromQueue takes out the first occurrence, and its node is freed.
LEMMA RemoveKeeps ==
    ASSUME HeapInv, NEW e \in Data, RemoveFromQueue(e)
    PROVE  HeapInv' /\ PoolStep /\ Elements(list') = Removal(Elements(list), e)
<1>1. PICK p : p = Path(list)[Min(Found(list, e))]
  OBVIOUS
<1>2. /\ q # NIL /\ Found(list, e) # {} /\ SetHeap(free(Heap, p)) /\ list' = Removed(list, e)
      /\ rqs' = rqs /\ phase' = phase /\ q' = q /\ stack' = stack /\ exiting' = exiting
  BY <1>1 DEF RemoveFromQueue
<1>3. HoldersOK(blocks, rqs, list, q, stack) /\ Linked(list) /\ (phase = "free" => rqs # << >>)
  BY DEF HeapInv, HoldersOK, UsersOK
<1>4. PICK k : k = Removed(list, e)
  OBVIOUS
<1>5. /\ Linked(k) /\ DOMAIN k.nodes = DOMAIN list.nodes \ {p} /\ p \in DOMAIN list.nodes
      /\ Elements(k) = RemoveAt(Elements(list),
                               Min({i \in DOMAIN Elements(list) : Elements(list)[i] = e}))
  BY <1>1, <1>2, <1>3, <1>4, RemovedEffect
<1>6. p \in Live(blocks)
  BY <1>3, <1>5 DEF HoldersOK, Backed
<1>7. manager' = manager /\ buddy' = buddy /\ Gave(blocks, blocks', {p}) /\ PoolStep
  BY <1>2, <1>6, FreeOne
<1>8. HoldersOK(blocks', rqs, k, q, stack)
  BY <1>2, <1>3, <1>5, <1>7, GiveNode
<1>9. HoldersOK(blocks', rqs', list', q', stack')
  BY <1>2, <1>4, <1>8
<1>10. HeapInv' /\ PoolStep
  BY <1>2, <1>3, <1>7, <1>9, StepKeeps
<1> QED
  BY <1>2, <1>4, <1>5, <1>10 DEF Removal

\* freeQueue frees every node and the queue, each once.
LEMMA FreeQueueKeeps == HeapInv /\ FreeQueue => HeapInv' /\ PoolStep
<1> SUFFICES ASSUME HeapInv, FreeQueue PROVE HeapInv' /\ PoolStep
  OBVIOUS
<1>1. /\ manager = "naive" /\ PoolOK(blocks) /\ HoldersOK(blocks, rqs, list, q, stack)
      /\ Linked(list) /\ (phase = "free" => rqs # << >>)
  BY DEF HeapInv, HoldersOK, UsersOK
<1>2. PICK s : Chain(list, s)
  BY <1>1 DEF Linked
<1>3. PICK h : h = Freed(Heap, s, Len(s))
  OBVIOUS
<1>4. /\ q # NIL /\ SetHeap(free(h, q)) /\ q' = NIL /\ list' = newQueue
      /\ rqs' = rqs /\ phase' = phase /\ stack' = stack /\ exiting' = exiting
  <2>1. Path(list) = s
    BY <1>2, PathIs
  <2> QED
    BY <1>3, <2>1 DEF FreeQueue
<1>5. /\ s \in Seq(Pointer) /\ (\A i, j \in 1..Len(s) : s[i] = s[j] => i = j)
      /\ DOMAIN list.nodes = Entries(s)
  BY <1>2 DEF Chain
<1>6. Entries(s) \subseteq Live(blocks) /\ q \in Live(blocks) /\ q \notin Entries(s)
  BY <1>1, <1>4, <1>5 DEF HoldersOK, UsersOK, Apart, Backed, NIL, NULLPTR
<1>7. PICK g : g = Heap
  OBVIOUS
<1>8. g = [blocks |-> blocks, buddy |-> buddy]
  BY <1>7 DEF Heap
<1>9. PICK c : h = [blocks |-> c, buddy |-> buddy] /\ Gave(blocks, c, Entries(s))
  <2>1. \E c : /\ Freed(g, s, Len(s)) = [blocks |-> c, buddy |-> buddy]
               /\ Gave(blocks, c, Entries(s))
    BY <1>1, <1>5, <1>6, <1>8, FreedEffect
  <2> QED
    BY <1>3, <1>7, <2>1
<1>10. PoolOK(c) /\ q \in Live(c)
  BY <1>6, <1>9 DEF Gave
<1>11. PICK d : d = FirstFitFree(c, q)
  OBVIOUS
<1>12. free(h, q) = [blocks |-> d, buddy |-> buddy] /\ Gave(c, d, {q})
  BY <1>1, <1>9, <1>10, <1>11, HeapFree
<1>13. blocks' = d /\ buddy' = buddy /\ manager' = manager
  BY <1>4, <1>12 DEF SetHeap
<1>14. Gave(blocks, blocks', DOMAIN list.nodes \cup {q})
  BY <1>5, <1>9, <1>12, <1>13, GaveMore
<1>15. HoldersOK(blocks', rqs, newQueue, NIL, stack)
  BY <1>1, <1>4, <1>14, GiveQueue
<1>16. HoldersOK(blocks', rqs', list', q', stack')
  BY <1>4, <1>15
<1>17. PoolStep
  BY <1>14 DEF PoolStep
<1> QED
  BY <1>1, <1>4, <1>13, <1>16, <1>17, StepKeeps

\* createProcess: the stack and its area appear together.
LEMMA CreateStackKeeps == HeapInv /\ CreateStack => HeapInv' /\ PoolStep
<1> SUFFICES ASSUME HeapInv, CreateStack PROVE HeapInv' /\ PoolStep
  OBVIOUS
<1>1. PICK a : a = alloc(Heap, STACK_SIZE)
  OBVIOUS
<1>2. /\ blocks' = a.heap.blocks /\ buddy' = a.heap.buddy /\ manager' = manager
      /\ stack = NULLPTR /\ stack' = a.ptr
      /\ rqs' = rqs /\ phase' = phase /\ q' = q /\ list' = list /\ exiting' = exiting
  BY <1>1 DEF CreateStack, SetHeap
<1>3. manager = "naive" /\ PoolOK(blocks) /\ HoldersOK(blocks, rqs, list, q, stack)
      /\ (phase = "free" => rqs # << >>)
  BY DEF HeapInv
<1>4. /\ a.heap.buddy = buddy
      /\ \/ a.ptr = NULLPTR /\ a.heap.blocks = blocks
         \/ Took(blocks, a.heap.blocks, a.ptr, STACK_SIZE)
  BY <1>1, <1>3, HeapAlloc, HeapAssumption
<1>5. CASE a.ptr = NULLPTR /\ a.heap.blocks = blocks
  <2>1. HoldersOK(blocks', rqs', list', q', stack') /\ PoolStep
    BY <1>2, <1>3, <1>5 DEF PoolStep
  <2> QED
    BY <1>2, <1>3, <1>4, <2>1, StepKeeps
<1>6. CASE Took(blocks, a.heap.blocks, a.ptr, STACK_SIZE)
  <2>1. HoldersOK(blocks, rqs, list, q, NULLPTR)
    BY <1>2, <1>3
  <2>2. Took(blocks, blocks', a.ptr, STACK_SIZE)
    BY <1>2, <1>6
  <2>3. HoldersOK(blocks', rqs, list, q, a.ptr)
    BY <2>1, <2>2, TakeStack
  <2>4. HoldersOK(blocks', rqs', list', q', stack')
    BY <1>2, <2>3
  <2>5. PoolStep
    BY <2>2 DEF PoolStep
  <2> QED
    BY <1>2, <1>3, <1>4, <2>4, <2>5, StepKeeps
<1> QED
  BY <1>4, <1>5, <1>6

\* kill: the stack and its area go together.
LEMMA KillStackKeeps == HeapInv /\ KillStack => HeapInv' /\ PoolStep
<1> SUFFICES ASSUME HeapInv, KillStack PROVE HeapInv' /\ PoolStep
  OBVIOUS
<1>1. /\ stack # NULLPTR /\ SetHeap(free(Heap, stack)) /\ stack' = NULLPTR
      /\ rqs' = rqs /\ phase' = phase /\ q' = q /\ list' = list /\ exiting' = exiting
  BY DEF KillStack
<1>2. HoldersOK(blocks, rqs, list, q, stack) /\ (phase = "free" => rqs # << >>)
  BY DEF HeapInv
<1>3. stack \in Live(blocks)
  BY <1>1, <1>2 DEF HoldersOK, Backed
<1>4. manager' = manager /\ buddy' = buddy /\ Gave(blocks, blocks', {stack}) /\ PoolStep
  BY <1>1, <1>3, FreeOne
<1>5. HoldersOK(blocks', rqs, list, q, NULLPTR)
  BY <1>1, <1>2, <1>4, GiveStack
<1>6. HoldersOK(blocks', rqs', list', q', stack')
  BY <1>1, <1>5
<1> QED
  BY <1>1, <1>2, <1>4, <1>6, StepKeeps

\* Every step of the heap's users keeps the invariant and grants or frees as it should.
LEMMA HeapKeeps == HeapInv /\ [HeapNext]_vars => HeapInv' /\ PoolStep
<1> SUFFICES ASSUME HeapInv, [HeapNext]_vars PROVE HeapInv' /\ PoolStep
  OBVIOUS
<1>1. CASE Request    BY <1>1, RequestKeeps
<1>2. CASE SetAndCheck BY <1>2, SetAndCheckKeeps
<1>3. CASE FreeNext   BY <1>3, FreeNextKeeps
<1>4. CASE NewQueue   BY <1>4, NewQueueKeeps
<1>5. CASE Dequeue    BY <1>5, DequeueKeeps
<1>6. CASE FreeQueue  BY <1>6, FreeQueueKeeps
<1>7. ASSUME NEW e \in Data, Queue(e) PROVE HeapInv' /\ PoolStep
  BY <1>7, QueueKeeps
<1>8. ASSUME NEW e \in Data, RemoveFromQueue(e) PROVE HeapInv' /\ PoolStep
  BY <1>8, RemoveKeeps
<1>9. CASE CreateStack BY <1>9, CreateStackKeeps
<1>10. CASE KillStack  BY <1>10, KillStackKeeps
<1>11. CASE UNCHANGED vars
  <2>1. /\ manager' = manager /\ blocks' = blocks /\ buddy' = buddy /\ rqs' = rqs /\ phase' = phase
        /\ q' = q /\ list' = list /\ stack' = stack /\ exiting' = exiting
    BY <1>11 DEF vars, heapVars
  <2> QED
    BY <2>1 DEF HeapInv, PoolStep
<1> QED
  BY <1>1, <1>2, <1>3, <1>4, <1>5, <1>6, <1>7, <1>8, <1>9, <1>10, <1>11 DEF HeapNext

-----------------------------------------------------------------------------
(***************************************************************************)
(* The theorems, of a kernel that has the first-fit manager linked.        *)
(***************************************************************************)
LEMMA HeapInvariant == HeapSpec /\ manager = "naive" => []HeapInv
<1>1. HeapInit /\ manager = "naive" => HeapInv
  BY HeapStarts
<1>2. HeapInv /\ [HeapNext]_vars => HeapInv'
  BY HeapKeeps
<1> QED
  BY <1>1, <1>2, PTL DEF HeapSpec

\* With the first-fit manager linked, the areas in use are those of its blocks.
LEMMA RegionsNow == HeapInv => Regions = FirstFitRegions(blocks) /\ HeaderOf = BLOCK_HEADER_SIZE
  BY DEF HeapInv, Regions, HeaderOf

\* The regions in use are those the users hold, each at least as large as was asked
\* for: no sequence of calls of allocMemory (naiveManager.c), with its splits, and of
\* freeMemory, with its merges, leaks a block or loses one.
THEOREM NothingLeaks == HeapSpec /\ manager = "naive" => []HeldIsLive
<1>1. HeapInv => HeldIsLive
  <2> SUFFICES ASSUME HeapInv PROVE HeldIsLive
    OBVIOUS
  <2> DEFINE held == {h \in Held : h.ptr # NULLPTR}
  <2>1. /\ UsersOK(rqs, list, q, stack) /\ Apart(rqs, list, q, stack)
        /\ Backed(blocks, rqs, list, q, stack) /\ exiting = NotExiting
    BY DEF HeapInv, HoldersOK
  <2>2. rqs \in Seq([ptr : Pointer, size : Nat]) /\ \A i \in 1..Len(rqs) : rqs[i].ptr \in Pointer
    BY <2>1, RequestedPointers DEF UsersOK
  <2>3. Range(rqs) = {rqs[i] : i \in 1..Len(rqs)}
    BY <2>2 DEF Range
  <2>4. DOMAIN list.nodes \subseteq Pointer
    <3>1. PICK s : Chain(list, s)
      BY <2>1 DEF UsersOK, Linked
    <3> QED
      BY <3>1 DEF Chain, Entries
  <2>5. Held = {rqs[i] : i \in 1..Len(rqs)}
               \cup {[ptr |-> p, size |-> SizeofNode] : p \in DOMAIN list.nodes}
               \cup {[ptr |-> q, size |-> SizeofQueue]} \cup {[ptr |-> stack, size |-> STACK_SIZE]}
    BY <2>1, <2>3 DEF Held
  <2>6. ASSUME NEW h \in Held, h.ptr # NULLPTR
        PROVE  AtLeast(blocks, h.ptr, h.size)
    <3>1. CASE \E i \in 1..Len(rqs) : h = rqs[i]
      BY <2>1, <3>1 DEF Backed
    <3>2. CASE \E p \in DOMAIN list.nodes : h = [ptr |-> p, size |-> SizeofNode]
      BY <2>1, <3>2 DEF Backed
    <3>3. CASE h = [ptr |-> q, size |-> SizeofQueue]
      BY <2>1, <2>6, <3>3 DEF Backed
    <3>4. CASE h = [ptr |-> stack, size |-> STACK_SIZE]
      BY <2>1, <2>6, <3>4 DEF Backed
    <3> QED
      BY <2>5, <3>1, <3>2, <3>3, <3>4
  <2>7. ASSUME NEW p \in Live(blocks)
        PROVE  \E h \in Held : h.ptr = p /\ h.ptr # NULLPTR
    <3>1. CASE p \in Requested(rqs)
      <4>1. PICK i \in 1..Len(rqs) : p = rqs[i].ptr
        BY <3>1 DEF Requested
      <4> QED
        BY <2>2, <2>5, <4>1 DEF Pointer, NIL, NULLPTR
    <3>2. CASE p \in DOMAIN list.nodes
      <4>1. PICK h : h = [ptr |-> p, size |-> SizeofNode]
        OBVIOUS
      <4>2. h \in Held /\ h.ptr = p
        BY <2>5, <3>2, <4>1
      <4> QED
        BY <2>4, <3>2, <4>2 DEF Pointer, NIL, NULLPTR
    <3>3. CASE p = q /\ p # NULLPTR
      <4>1. PICK h : h = [ptr |-> q, size |-> SizeofQueue]
        OBVIOUS
      <4>2. h \in Held /\ h.ptr = q
        BY <2>5, <4>1
      <4> QED
        BY <3>3, <4>2
    <3>4. CASE p = stack /\ p # NULLPTR
      <4>1. PICK h : h = [ptr |-> stack, size |-> STACK_SIZE]
        OBVIOUS
      <4>2. h \in Held /\ h.ptr = stack
        BY <2>5, <4>1
      <4> QED
        BY <3>4, <4>2
    <3> QED
      BY <2>1, <3>1, <3>2, <3>3, <3>4 DEF Backed
  <2>8. \A h \in Held : h.ptr # NULLPTR =>
           \E r \in FirstFitRegions(blocks) : r.ptr = h.ptr /\ r.size >= h.size
    BY <2>6 DEF AtLeast
  <2>9. {r.ptr : r \in FirstFitRegions(blocks)} = {h.ptr : h \in held}
    <3>1. ASSUME NEW h \in Held, h.ptr # NULLPTR PROVE h.ptr \in Live(blocks)
      BY <2>8, <3>1 DEF Live
    <3> QED
      BY <2>7, <3>1 DEF Live
  <2>10. Regions = FirstFitRegions(blocks)
    BY RegionsNow
  <2> QED
    BY <2>8, <2>9, <2>10 DEF HeldIsLive
<1> QED
  BY <1>1, HeapInvariant, PTL

\* freeMemory merges: no two neighbours are free between the calls, and a pool in which
\* everything was given back is one block.
THEOREM AlwaysFullyMerged == HeapSpec /\ manager = "naive" => []FullyMerged
<1>1. HeapInv => FullyMerged
  <2> SUFFICES ASSUME HeapInv PROVE FullyMerged
    OBVIOUS
  <2>1. \A i \in 1..(Len(blocks) - 1) : ~(blocks[i].free /\ blocks[i + 1].free)
    BY DEF HeapInv, PoolOK, MergedBut
  <2>2. \A n \in Nodes : buddy.nodes[n] # "SPLIT"
    <3>1. buddy.nodes = AllFree
      BY DEF HeapInv, createBuddy
    <3> QED
      BY <3>1 DEF AllFree
  <2> QED
    BY <2>1, <2>2 DEF FullyMerged
<1> QED
  BY <1>1, HeapInvariant, PTL

\* queue, dequeue and removeFromQueue of queueADT.c, whose nodes come from the heap, are
\* those of a FIFO: nothing is lost, repeated or out of order.
THEOREM QueueIsFifo == HeapSpec /\ manager = "naive" => QueueKeepsOrder
<1>1. ASSUME HeapInv, [HeapNext]_vars
      PROVE  [LET s == Elements(list)
              IN  /\ \A e \in Data : Queue(e) =>
                       \/ Elements(list') = Append(s, e)
                       \/ Elements(list') = s /\ alloc(Heap, SizeofNode).ptr = NULLPTR
                  /\ Dequeue => Elements(list') = Tail(s)
                  /\ \A e \in Data : RemoveFromQueue(e) =>
                       Elements(list') = Removal(s, e) \/ (Dequeue /\ Elements(list') = Tail(s))]_vars
  BY <1>1, QueueKeeps, DequeueKeeps, RemoveKeeps
<1> QED
  BY <1>1, HeapInvariant, PTL DEF HeapSpec, QueueKeepsOrder

\* The areas of a set of regions, headers included
Area(r) == [from |-> r.ptr - BLOCK_HEADER_SIZE, to |-> r.ptr + r.size - 1]

Areas(S) == {Area(r) : r \in S}

\* A new area lies in the pool and shares no byte with the others, headers included.
LEMMA GrantsAnArea ==
    ASSUME NEW b, NEW c, NEW p, NEW n, Took(b, c, p, n)
    PROVE  \E a \in Areas(FirstFitRegions(c)) :
              /\ 0 <= a.from /\ a.from < a.to /\ a.to < memorySize
              /\ \A x \in Areas(FirstFitRegions(b)) : a.to < x.from \/ x.to < a.from
              /\ Areas(FirstFitRegions(c)) = Areas(FirstFitRegions(b)) \cup {a}
<1>1. PICK m \in Nat : /\ Granted(p, m, FirstFitRegions(b))
                       /\ FirstFitRegions(c) = FirstFitRegions(b) \cup {[ptr |-> p, size |-> m]}
  BY DEF Took
<1>2. PICK r : r = [ptr |-> p, size |-> m]
  OBVIOUS
<1>3. PICK a : a = Area(r)
  OBVIOUS
<1>4. /\ r.ptr = p /\ r.size = m /\ FirstFitRegions(c) = FirstFitRegions(b) \cup {r}
  BY <1>1, <1>2
<1>5. a.from = p - BLOCK_HEADER_SIZE /\ a.to = p + m - 1
  BY <1>3, <1>4 DEF Area
<1>6. /\ p \in Nat \ {0} /\ m \in Nat \ {0}
      /\ p - BLOCK_HEADER_SIZE \in Nat /\ p + m <= memorySize /\ memorySize \in Nat
      /\ \A x \in FirstFitRegions(b) :
           /\ x.ptr \in Nat /\ x.size \in Nat \ {0}
           /\ \/ x.ptr + x.size <= p - BLOCK_HEADER_SIZE
              \/ p + m <= x.ptr - BLOCK_HEADER_SIZE
  BY <1>1, PoolAssumption DEF Granted
<1>7. 0 <= a.from /\ a.from < a.to /\ a.to < memorySize
  <2>1. /\ p \in Nat \ {0} /\ m \in Nat \ {0}
        /\ p - BLOCK_HEADER_SIZE \in Nat /\ p + m <= memorySize /\ memorySize \in Nat
    BY <1>6
  <2> QED
    BY <1>5, <2>1, HeaderFits
<1>8. ASSUME NEW x \in FirstFitRegions(b) PROVE a.to < Area(x).from \/ Area(x).to < a.from
  <2>1. Area(x).from = x.ptr - BLOCK_HEADER_SIZE /\ Area(x).to = x.ptr + x.size - 1
    BY DEF Area
  <2>2. /\ x.ptr \in Nat /\ x.size \in Nat \ {0} /\ p \in Nat /\ m \in Nat
        /\ \/ x.ptr + x.size <= p - BLOCK_HEADER_SIZE
           \/ p + m <= x.ptr - BLOCK_HEADER_SIZE
    BY <1>6
  <2> QED
    BY <1>5, <2>1, <2>2, HeaderFits
<1>9. Areas(FirstFitRegions(c)) = Areas(FirstFitRegions(b)) \cup {a}
  BY <1>3, <1>4 DEF Areas
<1> QED
  BY <1>7, <1>8, <1>9 DEF Areas

\* A freeMemory adds no area.
LEMMA ReleasesAreas ==
    ASSUME NEW b, NEW c, NEW P, Gave(b, c, P)
    PROVE  Areas(FirstFitRegions(c)) \subseteq Areas(FirstFitRegions(b))
  BY DEF Gave, Areas

\* The areas the refinement mapping of Heap.tla shows are those of the blocks.
LEMMA AreasNow ==
    HeapInv => {[from |-> r.ptr - HeaderOf, to |-> r.ptr + r.size - 1] : r \in Regions}
               = Areas(FirstFitRegions(blocks))
  BY RegionsNow DEF Areas, Area

\* What allocMemory grants lies in the pool and shares no byte with an area in use, its
\* header included, and nothing else ever changes what is in use but a release.
THEOREM FirstFitImplements == HeapSpec /\ manager = "naive" => ImplementsAllocator
<1> DEFINE areas == {[from |-> r.ptr - HeaderOf, to |-> r.ptr + r.size - 1] : r \in Regions}
<1>1. HeapInit /\ HeapInv => areas = {}
  <2> SUFFICES ASSUME HeapInit, HeapInv PROVE areas = {}
    OBVIOUS
  <2>1. areas = Areas(FirstFitRegions(blocks))
    BY AreasNow
  <2>2. FirstFitRegions(blocks) = {}
    BY PoolStarts DEF HeapInit
  <2> HIDE DEF areas
  <2> QED
    BY <2>1, <2>2 DEF Areas
<1>2. HeapInv /\ HeapInv' /\ [HeapNext]_vars => [A!Grant \/ A!Release]_areas
  <2> SUFFICES ASSUME HeapInv, HeapInv', [HeapNext]_vars
               PROVE  A!Grant \/ A!Release \/ areas' = areas
    OBVIOUS
  <2>1. areas = Areas(FirstFitRegions(blocks))
    BY AreasNow
  <2>2. areas' = Areas(FirstFitRegions(blocks'))
    <3>1. (HeapInv => areas = Areas(FirstFitRegions(blocks)))'
      BY AreasNow, PTL
    <3> QED
      BY <3>1
  <2>3. PoolStep
    BY HeapKeeps
  <2>4. CASE blocks' = blocks
    <3> HIDE DEF areas
    <3> QED
      BY <2>1, <2>2, <2>4
  <2>5. CASE \E p, n : Took(blocks, blocks', p, n)
    <3>1. PICK p, n : Took(blocks, blocks', p, n)
      BY <2>5
    <3>2. \E a \in areas' :
             /\ 0 <= a.from /\ a.from < a.to /\ a.to < memorySize
             /\ \A x \in areas : a.to < x.from \/ x.to < a.from
             /\ areas' = areas \cup {a}
      <4> HIDE DEF areas
      <4> QED
        BY <2>1, <2>2, <3>1, GrantsAnArea
    <3>3. A!Grant
      BY <3>2 DEF A!Grant, A!Disjoint
    <3> QED
      BY <3>3
  <2>6. CASE \E P : Gave(blocks, blocks', P)
    <3>1. PICK P : Gave(blocks, blocks', P)
      BY <2>6
    <3>2. areas' \subseteq areas
      <4> HIDE DEF areas
      <4> QED
        BY <2>1, <2>2, <3>1, ReleasesAreas
    <3>3. A!Release
      BY <3>2 DEF A!Release
    <3> QED
      BY <3>3
  <2> QED
    BY <2>3, <2>4, <2>5, <2>6 DEF PoolStep
<1> QED
  BY <1>1, <1>2, HeapInvariant, PTL DEF HeapSpec, ImplementsAllocator, A!AllocatorSpec

-----------------------------------------------------------------------------
\* The sums of getMemoryStatus over the blocks of a list exist, and follow the list.
SumsUp(b, isFree, sum) ==
    /\ sum[0] = 0
    /\ \A i \in 1..Len(b) :
         sum[i] = IF b[i].free = isFree THEN sum[i - 1] + b[i].size ELSE sum[i - 1]

\* The sums getMemoryStatus computes are those of its loop over the blocks.
LEMMA SizesIs ==
    ASSUME NEW b \in Seq(Block), NEW isFree
    PROVE  \E sum : Sizes(b, isFree) = sum[Len(b)] /\ SumsUp(b, isFree, sum)
<1> DEFINE G(n, f) == [i \in 0..n |->
                         IF i = 0 THEN 0
                         ELSE IF b[i].free = isFree THEN f[i - 1] + b[i].size ELSE f[i - 1]]
<1>1. Len(b) \in Nat
  OBVIOUS
<1>2. ASSUME NEW n \in 0..Len(b) PROVE \E f : f = G(n, f)
  <2> DEFINE Bad == {k \in 0..Len(b) : ~\E f : f = G(k, f)}
  <2>1. ASSUME Bad # {} PROVE FALSE
    <3>1. PICK k \in Bad : \A y \in Bad : k <= y
      <4>1. Bad \subseteq Nat
        OBVIOUS
      <4> HIDE DEF Bad
      <4> QED
        BY <2>1, <4>1, MinInSet
    <3>2. k \in 0..Len(b) /\ ~\E f : f = G(k, f)
      BY <3>1
    <3>3. k # 0
      <4>1. PICK f : f = [i \in 0..0 |-> 0]
        OBVIOUS
      <4>2. f = G(0, f)
        BY <4>1
      <4> QED
        BY <3>2, <4>2
    <3>4. k - 1 \in 0..Len(b) /\ ~(k <= k - 1)
      BY <1>1, <3>2, <3>3
    <3>5. PICK f : f = G(k - 1, f)
      BY <3>1, <3>4
    <3>6. PICK z : z = IF b[k].free = isFree THEN f[k - 1] + b[k].size ELSE f[k - 1]
      OBVIOUS
    <3>7. PICK g : g = [i \in 0..k |-> IF i = k THEN z ELSE f[i]]
      OBVIOUS
    <3>8. ASSUME NEW i \in 0..k
          PROVE  g[i] = IF i = 0 THEN 0
                        ELSE IF b[i].free = isFree THEN g[i - 1] + b[i].size ELSE g[i - 1]
      <4>1. CASE i = k
        <5>1. g[k] = z
          BY <3>7, <4>1
        <5>2. k - 1 \in 0..k /\ k - 1 # k
          BY <3>2, <3>3
        <5>3. g[k - 1] = f[k - 1]
          BY <3>7, <5>2
        <5> QED
          BY <3>3, <3>6, <4>1, <5>1, <5>3
      <4>2. CASE i # k
        <5>1. i \in 0..(k - 1)
          BY <3>2, <4>2
        <5>2. g[i] = f[i]
          BY <3>7, <4>2
        <5>3. f[i] = IF i = 0 THEN 0
                     ELSE IF b[i].free = isFree THEN f[i - 1] + b[i].size ELSE f[i - 1]
          BY <3>5, <5>1
        <5>4. i # 0 => i - 1 \in 0..k /\ i - 1 # k
          BY <3>2, <5>1
        <5>5. i # 0 => g[i - 1] = f[i - 1]
          BY <3>7, <5>4
        <5> QED
          BY <5>2, <5>3, <5>5
      <4> QED
        BY <4>1, <4>2
    <3>9. g = G(k, g)
      BY <3>7, <3>8
    <3> QED
      BY <3>2, <3>9
  <2> QED
    BY <2>1
<1> DEFINE sum == CHOOSE f : f = G(Len(b), f)
<1>3. sum = G(Len(b), sum)
  <2>1. \E f : f = G(Len(b), f)
    BY <1>1, <1>2
  <2> QED
    BY <2>1
<1>4. Sizes(b, isFree) = sum[Len(b)]
  BY DEF Sizes
<1> HIDE DEF sum
<1>5. SumsUp(b, isFree, sum)
  <2>1. sum[0] = 0
    <3>1. 0 \in 0..Len(b)
      BY <1>1
    <3> QED
      BY <1>3, <3>1
  <2>2. ASSUME NEW i \in 1..Len(b)
        PROVE  sum[i] = IF b[i].free = isFree THEN sum[i - 1] + b[i].size ELSE sum[i - 1]
    <3>1. i \in 0..Len(b) /\ i # 0
      BY <1>1
    <3>2. sum[i] = IF i = 0 THEN 0
                   ELSE IF b[i].free = isFree THEN sum[i - 1] + b[i].size ELSE sum[i - 1]
      BY <1>3, <3>1
    <3> QED
      BY <3>1, <3>2
  <2> QED
    BY <2>1, <2>2 DEF SumsUp
<1> QED
  BY <1>4, <1>5

\* What is used, what is free and the headers make up the pool.
LEMMA StatusIs ==
    ASSUME NEW b, Tiled(b)
    PROVE  Sizes(b, FALSE) + Sizes(b, TRUE) + Len(b) * BLOCK_HEADER_SIZE = memorySize
<1>1. b \in Seq(Block) /\ Len(b) \in Nat \ {0} /\ NEXT_PHYSICAL_BLOCK(b[Len(b)]) = memorySize
  BY DEF Tiled
<1>2. PICK u : Sizes(b, FALSE) = u[Len(b)] /\ SumsUp(b, FALSE, u)
  BY <1>1, SizesIs
<1>3. PICK f : Sizes(b, TRUE) = f[Len(b)] /\ SumsUp(b, TRUE, f)
  BY <1>1, SizesIs
<1>4. u[0] = 0 /\ \A i \in 1..Len(b) : u[i] = IF ~b[i].free THEN u[i - 1] + b[i].size ELSE u[i - 1]
  <2>1. \A i \in 1..Len(b) : b[i].free \in BOOLEAN
    BY <1>1, BlockFacts
  <2> QED
    BY <1>2, <2>1 DEF SumsUp
<1>5. f[0] = 0 /\ \A i \in 1..Len(b) : f[i] = IF b[i].free THEN f[i - 1] + b[i].size ELSE f[i - 1]
  <2>1. \A i \in 1..Len(b) : b[i].free \in BOOLEAN
    BY <1>1, BlockFacts
  <2> QED
    BY <1>3, <2>1 DEF SumsUp
<1> DEFINE End(i) == IF i = 0 THEN 0 ELSE NEXT_PHYSICAL_BLOCK(b[i])
           OK(i)  == u[i] \in Nat /\ f[i] \in Nat /\ u[i] + f[i] + i * BLOCK_HEADER_SIZE = End(i)
<1>6. OK(0)
  BY <1>4, <1>5, HeaderFits
<1>7. ASSUME NEW i \in 1..Len(b), OK(i - 1) PROVE OK(i)
  <2>1. /\ b[i].addr \in Nat /\ b[i].size \in Nat
        /\ NEXT_PHYSICAL_BLOCK(b[i]) = b[i].addr + BLOCK_HEADER_SIZE + b[i].size
    BY <1>1, BlockFacts
  <2>2. b[i].addr = End(i - 1)
    <3>1. CASE i = 1
      BY <3>1 DEF Tiled
    <3>2. CASE i # 1
      <4>1. i - 1 \in 1..(Len(b) - 1) /\ (i - 1) + 1 = i /\ i - 1 # 0
        BY <1>1, <3>2
      <4> QED
        BY <4>1 DEF Tiled
    <3> QED
      BY <3>1, <3>2
  <2>3. /\ u[i - 1] \in Nat /\ f[i - 1] \in Nat
        /\ u[i - 1] + f[i - 1] + (i - 1) * BLOCK_HEADER_SIZE = b[i].addr
    BY <1>7, <2>2
  <2>4. /\ u[i] \in Nat /\ f[i] \in Nat
        /\ u[i] + f[i] = u[i - 1] + f[i - 1] + b[i].size
    <3>1. CASE b[i].free
      <4>1. u[i] = u[i - 1] /\ f[i] = f[i - 1] + b[i].size
        BY <1>4, <1>5, <3>1
      <4> QED
        BY <2>1, <2>3, <4>1
    <3>2. CASE ~b[i].free
      <4>1. u[i] = u[i - 1] + b[i].size /\ f[i] = f[i - 1]
        BY <1>4, <1>5, <3>2
      <4> QED
        BY <2>1, <2>3, <4>1
    <3> QED
      BY <3>1, <3>2
  <2>5. PICK w : w = i * BLOCK_HEADER_SIZE
    OBVIOUS
  <2>6. w \in Nat /\ (i - 1) * BLOCK_HEADER_SIZE = w - BLOCK_HEADER_SIZE
    <3>1. i \in Nat /\ BLOCK_HEADER_SIZE \in Nat
      BY HeaderFits
    <3> QED
      BY <2>5, <3>1
  <2>7. End(i) = b[i].addr + BLOCK_HEADER_SIZE + b[i].size
    <3>1. i # 0
      OBVIOUS
    <3> QED
      BY <2>1, <3>1
  <2>8. u[i] + f[i] + w = End(i)
    <3>1. PICK v : v = (i - 1) * BLOCK_HEADER_SIZE
      OBVIOUS
    <3>2. v = w - BLOCK_HEADER_SIZE /\ u[i - 1] + f[i - 1] + v = b[i].addr
      BY <2>3, <2>6, <3>1
    <3>3. BLOCK_HEADER_SIZE \in Nat
      BY HeaderFits
    <3>4. u[i - 1] \in Nat /\ f[i - 1] \in Nat
      BY <2>3
    <3>5. w \in Nat
      BY <2>6
    <3>6. u[i] + f[i] + w = b[i].addr + BLOCK_HEADER_SIZE + b[i].size
      <4>1. PICK u1 \in Nat, f1 \in Nat : u1 = u[i - 1] /\ f1 = f[i - 1]
        BY <3>4
      <4>2. PICK a \in Nat, n \in Nat : a = b[i].addr /\ n = b[i].size
        BY <2>1
      <4>3. PICK s \in Nat : s = u[i] + f[i]
        BY <2>4
      <4>4. s = u1 + f1 + n
        BY <2>4, <4>1, <4>2, <4>3
      <4>5. u1 + f1 + (w - BLOCK_HEADER_SIZE) = a
        BY <3>2, <4>1, <4>2
      <4>6. s + w = a + BLOCK_HEADER_SIZE + n
        <5>1. /\ u1 \in Nat /\ f1 \in Nat /\ a \in Nat /\ n \in Nat
              /\ w \in Nat /\ BLOCK_HEADER_SIZE \in Nat
          BY <3>3, <3>5, <4>1, <4>2
        <5> QED
          BY <5>1, <4>4, <4>5
      <4> QED
        BY <4>2, <4>3, <4>6
    <3> HIDE DEF End
    <3> QED
      BY <2>7, <3>6
  <2> HIDE DEF End
  <2> QED
    BY <2>4, <2>5, <2>8
<1>8. OK(Len(b))
  <2> DEFINE Bad == {k \in 0..Len(b) : ~OK(k)}
  <2>1. ASSUME Bad # {} PROVE FALSE
    <3>1. PICK k \in Bad : \A y \in Bad : k <= y
      <4>1. Bad \subseteq Nat
        OBVIOUS
      <4> HIDE DEF Bad
      <4> QED
        BY <2>1, <4>1, MinInSet
    <3>2. k \in 0..Len(b) /\ ~OK(k)
      BY <3>1
    <3> HIDE DEF OK
    <3>3. k # 0
      BY <1>6, <3>2
    <3>4. k \in 1..Len(b) /\ k - 1 \in 0..Len(b) /\ ~(k <= k - 1)
      BY <1>1, <3>2, <3>3
    <3>5. OK(k - 1)
      BY <3>1, <3>4
    <3> QED
      BY <1>7, <3>2, <3>4, <3>5
  <2>2. Len(b) \in 0..Len(b)
    BY <1>1
  <2> HIDE DEF OK
  <2> QED
    BY <2>1, <2>2
<1>9. End(Len(b)) = memorySize
  BY <1>1
<1> QED
  BY <1>2, <1>3, <1>8, <1>9

\* The bytes that getMemoryStatus reports as used and as free are, with the headers, the
\* whole pool.
THEOREM StatusAlwaysAddsUp == HeapSpec /\ manager = "naive" => []StatusAddsUp
<1>1. HeapInv => StatusAddsUp
  <2> SUFFICES ASSUME HeapInv PROVE StatusAddsUp
    OBVIOUS
  <2>1. Sizes(blocks, FALSE) + Sizes(blocks, TRUE) + Len(blocks) * BLOCK_HEADER_SIZE = memorySize
    BY StatusIs DEF HeapInv, PoolOK
  <2>2. FirstFitAddsUp
    BY <2>1 DEF FirstFitAddsUp, FirstFitStatus
  <2> QED
    BY <2>2 DEF HeapInv, StatusAddsUp
<1> QED
  BY <1>1, HeapInvariant, PTL
=============================================================================

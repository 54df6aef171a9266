------------------------------ MODULE FirstFit ------------------------------
(***************************************************************************)
(* The first-fit memory manager of Kernel/memory/naiveManager.c.  The list *)
(* of blocks is a sequence in list order, next and prev are neighbours in  *)
(* it, and an address is an offset into the pool.                          *)
(***************************************************************************)
EXTENDS Integers, Sequences, SequencesExt, FiniteSetsExt

CONSTANTS
    memorySize,         \* bytes of the pool
    ALIGNMENT,
    SizeofBlock,        \* bytes of a Block header, before alignment
    WORD                \* uint32_t counts modulo this

ASSUME PoolAssumption == /\ memorySize \in Nat /\ ALIGNMENT \in Nat \ {0}
                         /\ SizeofBlock \in Nat \ {0}
                         /\ WORD \in Nat /\ WORD > memorySize + SizeofBlock + ALIGNMENT

NULLPTR == 0            \* no data starts at the base of the pool: a header does

ALIGN(sz) == LET up == (sz + ALIGNMENT - 1) % WORD IN up - (up % ALIGNMENT)

BLOCK_HEADER_SIZE == ALIGN(SizeofBlock)

\* createMemoryManager makes no pool of less
ASSUME RoomAssumption == memorySize > BLOCK_HEADER_SIZE

OneBlock == <<[addr |-> 0, size |-> memorySize - BLOCK_HEADER_SIZE, free |-> TRUE]>>

NEXT_PHYSICAL_BLOCK(b) == b.addr + BLOCK_HEADER_SIZE + b.size

hasRoomForSplit(b, size) == b.size >= size + BLOCK_HEADER_SIZE + ALIGNMENT

Suitable(blocks, size) == {i \in DOMAIN blocks : blocks[i].free /\ blocks[i].size >= size}

\* Mutant: the header of the second block is not subtracted from its size
splitBlockNoHeader(blocks, i, size) ==
    LET b == blocks[i]
    IN  InsertAt(ReplaceAt(blocks, i, [b EXCEPT !.size = size]), i + 1,
                 [addr |-> b.addr + BLOCK_HEADER_SIZE + size,
                  size |-> b.size - size, free |-> TRUE])

splitBlock(blocks, i, size) ==
    LET b == blocks[i]
    IN  InsertAt(ReplaceAt(blocks, i, [b EXCEPT !.size = size]), i + 1,
                 [addr |-> b.addr + BLOCK_HEADER_SIZE + size,
                  size |-> b.size - size - BLOCK_HEADER_SIZE, free |-> TRUE])

\* allocMemory: the first free block that is large enough, cut to size
FirstFitAlloc(blocks, request) ==
    LET size == ALIGN(request)
        i    == Min(Suitable(blocks, size))
        cut  == IF hasRoomForSplit(blocks[i], size) THEN splitBlock(blocks, i, size) ELSE blocks
    IN  IF request = 0 \/ Suitable(blocks, size) = {}
        THEN [blocks |-> blocks, ptr |-> NULLPTR]
        ELSE [blocks |-> [cut EXCEPT ![i].free = FALSE],
              ptr    |-> blocks[i].addr + BLOCK_HEADER_SIZE]

\* The blocks i and i + 1 become one
Joined(blocks, i) ==
    RemoveAt([blocks EXCEPT ![i].size = @ + BLOCK_HEADER_SIZE + blocks[i + 1].size], i + 1)

Adjacent(blocks, i) == blocks[i + 1].addr = NEXT_PHYSICAL_BLOCK(blocks[i])

\* mergeWithNext tests the next block only, mergeWithPrevious the previous one only
mergeWithNext(blocks, i) ==
    IF i < Len(blocks) /\ blocks[i + 1].free /\ Adjacent(blocks, i) THEN Joined(blocks, i) ELSE blocks

\* Mutant: a block is not merged with the one before it
mergeWithPreviousNot(blocks, i) == blocks

mergeWithPrevious(blocks, i) ==
    IF i > 1 /\ blocks[i - 1].free /\ Adjacent(blocks, i - 1) THEN Joined(blocks, i - 1) ELSE blocks

At(blocks, ptr) == {i \in DOMAIN blocks : blocks[i].addr = ptr - BLOCK_HEADER_SIZE}

(***************************************************************************)
(* freeMemory of a block that is in use, in the three steps that an        *)
(* interrupt may separate: it is marked free, merged with the next one,    *)
(* merged with the previous one.                                           *)
(***************************************************************************)
MarkFree(blocks, ptr) == [blocks EXCEPT ![Min(At(blocks, ptr))].free = TRUE]

JoinNext(blocks, ptr) == mergeWithNext(blocks, Min(At(blocks, ptr)))

JoinPrevious(blocks, ptr) == mergeWithPrevious(blocks, Min(At(blocks, ptr)))

FirstFitFree(blocks, ptr) ==
    IF ptr = NULLPTR \/ At(blocks, ptr) = {} \/ blocks[Min(At(blocks, ptr))].free THEN blocks
    ELSE JoinPrevious(JoinNext(MarkFree(blocks, ptr), ptr), ptr)

\* What getMemoryStatus adds up over the first i blocks
Sizes(blocks, isFree) ==
    LET sum[i \in 0..Len(blocks)] ==
          IF i = 0 THEN 0
          ELSE IF blocks[i].free = isFree THEN sum[i - 1] + blocks[i].size ELSE sum[i - 1]
    IN  sum[Len(blocks)]

FirstFitStatus(blocks) == [used |-> Sizes(blocks, FALSE), free |-> Sizes(blocks, TRUE)]

\* The data areas in use
FirstFitRegions(blocks) ==
    {[ptr |-> b.addr + BLOCK_HEADER_SIZE, size |-> b.size] : b \in {x \in Range(blocks) : ~x.free}}
=============================================================================

-------------------------------- MODULE Heap --------------------------------
(***************************************************************************)
(* The kernel's heap and three of its users: the test of test_mm.c, a      *)
(* queue of queueADT.c and the stack of a process.  The build links one of *)
(* the two memory managers.  System calls run with interrupts masked; the  *)
(* exit of a process runs with interrupts enabled: it frees a node of a    *)
(* queue and its stack, and adds a node for who waited for it.             *)
(***************************************************************************)
EXTENDS Buddy, QueueADT

CONSTANTS
    Managers,           \* "naive", "buddy"
    Requests,           \* sizes test_mm asks for
    MAX_BLOCKS, max_memory,
    SizeofNode, SizeofQueue, STACK_SIZE,
    Data                \* what is queued

ASSUME HeapAssumption == /\ Managers \subseteq {"naive", "buddy"}
                         /\ \A r \in Requests \cup {SizeofNode, SizeofQueue, STACK_SIZE} :
                               r \in 1..(WORD - ALIGNMENT)
                         /\ MAX_BLOCKS \in Nat /\ max_memory \in Nat

VARIABLES manager,      \* the one that was linked
          blocks,       \* state of the first-fit manager
          buddy,        \* state of the buddy manager
          rqs,          \* mm_rqs of test_mm: [ptr, size]
          phase,        \* test_mm: "request" or "free"
          q, list,      \* a queue: its queueCDT and the list in it
          stack,        \* the stack of a process
          exiting       \* how far the exit is with freeing what it frees

heapVars == <<manager, blocks, buddy>>
vars     == <<heapVars, rqs, phase, q, list, stack, exiting>>

NotExiting == [step |-> "no", ptr |-> NULLPTR]

-----------------------------------------------------------------------------
Heap == [blocks |-> blocks, buddy |-> buddy]

alloc(h, size) ==
    IF manager = "naive"
    THEN LET a == FirstFitAlloc(h.blocks, size)
         IN  [heap |-> [h EXCEPT !.blocks = a.blocks], ptr |-> a.ptr]
    ELSE LET a == BuddyAlloc(h.buddy, size)
         IN  [heap |-> [h EXCEPT !.buddy = a.buddy], ptr |-> a.ptr]

free(h, ptr) ==
    IF manager = "naive" THEN [h EXCEPT !.blocks = FirstFitFree(@, ptr)]
                         ELSE [h EXCEPT !.buddy = BuddyFree(@, ptr)]

\* What allocMemory does for this size is defined by the code.  In a pool as large as
\* the limit, as in the kernel (kernel.c:35), it is not for 8 bytes or less: the buddy
\* manager then writes beyond nodeState.  What follows is claimed of the other requests.
Defined(size) == manager = "buddy" => BuddyDefined(size)

SetHeap(h) == blocks' = h.blocks /\ buddy' = h.buddy /\ UNCHANGED manager

-----------------------------------------------------------------------------
\* test_mm: a round of requests, then everything is freed in order
Total == FoldSeq(LAMBDA r, sum : sum + r.size, 0, rqs)

More == Len(rqs) < MAX_BLOCKS /\ Total < max_memory

Request ==
    /\ phase = "request" /\ More
    /\ \E size \in Requests :
         LET a == alloc(Heap, size)
         IN  /\ size <= max_memory - Total /\ Defined(size)
             /\ SetHeap(a.heap)
             /\ rqs' = IF a.ptr = NULLPTR THEN rqs
                       ELSE Append(rqs, [ptr |-> a.ptr, size |-> size])
    /\ UNCHANGED <<phase, q, list, stack, exiting>>

\* What memset writes memcheck finds: see ImplementsAllocator
SetAndCheck ==
    /\ phase = "request" /\ ~More
    /\ phase' = IF rqs = << >> THEN "request" ELSE "free"
    /\ UNCHANGED <<heapVars, rqs, q, list, stack, exiting>>

FreeNext ==
    /\ phase = "free"
    /\ SetHeap(free(Heap, Head(rqs).ptr))
    /\ rqs' = Tail(rqs)
    /\ phase' = IF Len(rqs) = 1 THEN "request" ELSE "free"
    /\ UNCHANGED <<q, list, stack, exiting>>

-----------------------------------------------------------------------------
NewQueue ==
    LET a == alloc(Heap, SizeofQueue)
    IN  /\ q = NIL /\ Defined(SizeofQueue)
        /\ SetHeap(a.heap)
        /\ q' = a.ptr
        /\ list' = newQueue
        /\ UNCHANGED <<rqs, phase, stack, exiting>>

Queue(element) ==
    LET a == alloc(Heap, SizeofNode)
    IN  /\ q # NIL /\ Defined(SizeofNode)
        /\ SetHeap(a.heap)
        /\ list' = Queued(list, a.ptr, element)
        /\ UNCHANGED <<rqs, phase, q, stack, exiting>>

Dequeue ==
    /\ q # NIL /\ list.first # NIL
    /\ SetHeap(free(Heap, list.first))
    /\ list' = Dequeued(list)
    /\ UNCHANGED <<rqs, phase, q, stack, exiting>>

RemoveFromQueue(element) ==
    /\ q # NIL /\ Found(list, element) # {}
    /\ SetHeap(free(Heap, Path(list)[Min(Found(list, element))]))
    /\ list' = Removed(list, element)
    /\ UNCHANGED <<rqs, phase, q, stack, exiting>>

\* The heap h after the nodes at the first n of these addresses were freed
Freed(h, path, n) ==
    LET freed[i \in 0..n] == IF i = 0 THEN h ELSE free(freed[i - 1], path[i])
    IN  freed[n]

FreeQueue ==
    /\ q # NIL
    /\ SetHeap(free(Freed(Heap, Path(list), Len(Path(list))), q))
    /\ q' = NIL
    /\ list' = newQueue
    /\ UNCHANGED <<rqs, phase, stack, exiting>>

-----------------------------------------------------------------------------
\* createProcess allocates a stack and kill, in a system call, frees it
CreateStack ==
    LET a == alloc(Heap, STACK_SIZE)
    IN  /\ stack = NULLPTR /\ Defined(STACK_SIZE)
        /\ SetHeap(a.heap)
        /\ stack' = a.ptr
        /\ UNCHANGED <<rqs, phase, q, list, exiting>>

KillStack ==
    /\ stack # NULLPTR /\ exiting = NotExiting
    /\ SetHeap(free(Heap, stack))
    /\ stack' = NULLPTR
    /\ UNCHANGED <<rqs, phase, q, list, exiting>>

(***************************************************************************)
(* The exit of a process with the first-fit manager, where a tick may fall *)
(* between the steps of the calls.  removeFromQueue and the free of the    *)
(* stack go on after it, for the process is still RUNNING.  A split, a     *)
(* merge and a removal from the list are one step each.  Modelled as long  *)
(* as nobody else merged away the block that is being freed, and but for a *)
(* kill of the process in the middle of its exit.                          *)
(***************************************************************************)
ExitUnlink(element) ==
    /\ manager = "naive" /\ exiting = NotExiting
    /\ q # NIL /\ Found(list, element) # {}
    /\ exiting' = [step |-> "to free", ptr |-> Path(list)[Min(Found(list, element))]]
    /\ list' = Removed(list, element)
    /\ UNCHANGED <<heapVars, rqs, phase, q, stack>>

ExitStack ==
    /\ manager = "naive" /\ exiting = NotExiting /\ stack # NULLPTR
    /\ exiting' = [step |-> "to free", ptr |-> stack]
    /\ UNCHANGED <<heapVars, rqs, phase, q, list, stack>>

ExitStep(from, to, next) ==
    /\ exiting.step = from
    /\ exiting' = IF to = "no" THEN NotExiting ELSE [exiting EXCEPT !.step = to]
    /\ blocks' = next
    /\ stack' = IF to = "no" /\ stack = exiting.ptr THEN NULLPTR ELSE stack
    /\ UNCHANGED <<manager, buddy, rqs, phase, q, list>>

ExitFree ==
    /\ At(blocks, exiting.ptr) # {}
    /\ \/ ExitStep("to free", "marked", MarkFree(blocks, exiting.ptr))
       \/ ExitStep("marked", "joined", JoinNext(blocks, exiting.ptr))
       \/ ExitStep("joined", "no", JoinPrevious(blocks, exiting.ptr))

\* The node for who waited: the process is EXITED, so a tick ends its allocMemory
\* where it is, after the block was split or after it was marked
ExitQueue ==
    LET size == ALIGN(SizeofNode)
        i    == Min(Suitable(blocks, size))
    IN  /\ manager = "naive" /\ q # NIL /\ exiting = NotExiting
        /\ Suitable(blocks, size) # {}
        /\ \/ hasRoomForSplit(blocks[i], size) /\ blocks' = splitBlock(blocks, i, size)
           \/ blocks' = FirstFitAlloc(blocks, SizeofNode).blocks
        /\ UNCHANGED <<manager, buddy, rqs, phase, q, list, stack, exiting>>

-----------------------------------------------------------------------------
HeapInit ==
    /\ manager \in Managers
    /\ blocks = OneBlock
    /\ buddy = createBuddy
    /\ rqs = << >> /\ phase = "request"
    /\ q = NIL /\ list = newQueue
    /\ stack = NULLPTR /\ exiting = NotExiting

HeapNext == \/ Request \/ SetAndCheck \/ FreeNext
            \/ NewQueue \/ Dequeue \/ FreeQueue
            \/ \E e \in Data : Queue(e) \/ RemoveFromQueue(e)
            \/ CreateStack \/ KillStack

HeapSpec == HeapInit /\ [][HeapNext]_vars

\* ... and with a process that ends by returning
ExitNext == HeapNext \/ ExitStack \/ ExitFree \/ ExitQueue \/ \E e \in Data : ExitUnlink(e)

HeapExitSpec == HeapInit /\ [][ExitNext]_vars

-----------------------------------------------------------------------------
HeaderOf == IF manager = "naive" THEN BLOCK_HEADER_SIZE ELSE HDR_SIZE
Regions  == IF manager = "naive" THEN FirstFitRegions(blocks) ELSE BuddyRegions(buddy)

A == INSTANCE Allocator WITH
       PoolSize <- memorySize,
       live     <- {[from |-> r.ptr - HeaderOf, to |-> r.ptr + r.size - 1] : r \in Regions}

\* memoryManager.h: each manager grants areas of the pool that share no byte with an
\* area in use, headers included, whatever was split, merged and freed before.
ImplementsAllocator == A!AllocatorSpec

\* What the users of the heap hold: pointers and the sizes they asked for
Held == Range(rqs) \cup {[ptr |-> p, size |-> SizeofNode] : p \in DOMAIN list.nodes}
        \cup {[ptr |-> q, size |-> SizeofQueue]}
        \cup IF exiting # NotExiting /\ exiting.ptr = stack THEN {}
             ELSE {[ptr |-> stack, size |-> STACK_SIZE]}

\* Nothing leaks and nothing is lost: the areas in use are those somebody holds, and
\* each is as large as was asked for.
HeldIsLive ==
    LET held == {h \in Held : h.ptr # NULLPTR}
    IN  /\ {r.ptr : r \in Regions} = {h.ptr : h \in held}
        /\ \A h \in held : \E r \in Regions : r.ptr = h.ptr /\ r.size >= h.size

\* Freed memory can be used again: neighbours that are both free are always merged,
\* so that a pool in which everything was freed is one block again.
FullyMerged ==
    /\ \A i \in 1..(Len(blocks) - 1) : ~(blocks[i].free /\ blocks[i + 1].free)
    /\ \A n \in Nodes : buddy.nodes[n] = "SPLIT" => ~BothFree(buddy.nodes, n)

FirstFitAddsUp ==
    LET s == FirstFitStatus(blocks)
    IN  s.used + s.free + Len(blocks) * BLOCK_HEADER_SIZE = memorySize

BuddyAddsUp ==
    LET s == BuddyStatus(buddy)
    IN  /\ s.used + s.free + Cardinality(Regions) * HDR_SIZE = poolSize
        /\ s.used = FoldSet(LAMBDA r, sum : sum + r.size, 0, Regions)

\* naiveManager.c:210 and the mem command: the bytes that getMemoryStatus reports as
\* used and as free are, with the headers, the whole pool.
StatusAddsUp == IF manager = "naive" THEN FirstFitAddsUp ELSE BuddyAddsUp

Removal(s, e) == RemoveAt(s, Min({i \in DOMAIN s : s[i] = e}))

\* The list is a FIFO queue with removal of a first occurrence: no call loses,
\* duplicates or reorders an element, except that an element is dropped when no
\* block is left for its node (queueADT.c:36).
QueueKeepsOrder ==
    [][LET s == Elements(list)
       IN  /\ \A e \in Data : Queue(e) =>
                \/ Elements(list') = Append(s, e)
                \/ Elements(list') = s /\ alloc(Heap, SizeofNode).ptr = NULLPTR
           /\ Dequeue => Elements(list') = Tail(s)
           /\ \A e \in Data : RemoveFromQueue(e) => Elements(list') = Removal(s, e)
                                                    \/ (Dequeue /\ Elements(list') = Tail(s))]_vars

\* naiveManager.c:150, two blocks are merged "si ambos están libres y son adyacentes":
\* a block that somebody holds stays as it is until its holder frees it.
MergesFreeBlocks ==
    [][\A b \in Range(blocks) :
         ~b.free /\ (\E h \in Held' : h.ptr = b.addr + BLOCK_HEADER_SIZE)
           => b \in Range(blocks')]_vars
=============================================================================

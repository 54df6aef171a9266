------------------------------- MODULE Buddy -------------------------------
(***************************************************************************)
(* The buddy memory manager of Kernel/memory/buddyManager.c: a binary tree *)
(* of block states in an array, node i over nodes 2i+1 and 2i+2, the root  *)
(* of order maxOrder.                                                      *)
(***************************************************************************)
EXTENDS FirstFit

CONSTANTS
    HDR_SIZE,           \* bytes of an AllocHdr
    MAX_ORDER_ALLOWED

ASSUME BuddyAssumption == /\ HDR_SIZE \in Nat \ {0}
                          /\ MAX_ORDER_ALLOWED \in Nat /\ MAX_ORDER_ALLOWED >= 5

MIN_BLOCK_SIZE == ALIGN(HDR_SIZE + ALIGNMENT)

order_size(order) == 2 ^ order

Orders == 0..MAX_ORDER_ALLOWED

\* createMemoryManager: round_down_pow2 of the memory it is given, up to a limit
maxOrder == Max({o \in Orders : order_size(o) <= memorySize})
poolSize == order_size(maxOrder)

\* nodeState has room for the orders from 5 up of a pool as large as the limit
\* allows, and for one order more of each pool half as large
Nodes == 0..(2 ^ (MAX_ORDER_ALLOWED - 5 + 1) - 2)

NodeStates == [Nodes -> {"FREE", "SPLIT", "FULL"}]

AllFree == [i \in Nodes |-> "FREE"]

\* Mutant: the first node of a level is taken for the second
idx_to_offset_late(idx, order) == (idx - 2 ^ (maxOrder - order)) * order_size(order)

idx_to_offset(idx, order) == (idx - (2 ^ (maxOrder - order) - 1)) * order_size(order)

Need(size) == (ALIGN(size) + HDR_SIZE) % WORD

\* Mutant: the header is forgotten when the block is chosen
size_to_order_bare(size) ==
    LET ord == Min({o \in 0..(MAX_ORDER_ALLOWED + 1) : order_size(o) >= ALIGN(size)
                                                       \/ o = MAX_ORDER_ALLOWED + 1})
    IN  IF order_size(ord) < MIN_BLOCK_SIZE THEN 5 ELSE ord

\* An order beyond the limit stands for all of them: allocMemory refuses it
size_to_order(size) ==
    LET ord == Min({o \in 0..(MAX_ORDER_ALLOWED + 1) : order_size(o) >= Need(size)
                                                       \/ o = MAX_ORDER_ALLOWED + 1})
    IN  IF order_size(ord) < MIN_BLOCK_SIZE THEN 5 ELSE ord

\* The loop of size_to_order ends: a power of 2 that is a uint32_t reaches the need
OrderExists(size) == Need(size) <= WORD \div 2

\* The nodes of an order lie in nodeState; allocMemory looks at those of the order
\* wanted and above, and writes beyond the array if that order has none
HasNodes(order) == 2 ^ (maxOrder - order + 1) - 2 \in Nodes

Left(idx)  == 2 * idx + 1
Right(idx) == 2 * idx + 2

BothFree(ns, idx) == ns[Left(idx)] = "FREE" /\ ns[Right(idx)] = "FREE"

\* The states after the search below idx, and the node it took, -1 if none
alloc_rec(nodes, want) ==
    LET rec[ns \in NodeStates, idx \in Nodes, order \in Orders] ==
          IF ns[idx] = "FULL" \/ (order = want /\ ns[idx] # "FREE") THEN [nodes |-> ns, idx |-> -1]
          ELSE IF order = want THEN [nodes |-> [ns EXCEPT ![idx] = "FULL"], idx |-> idx]
          ELSE LET split == [ns EXCEPT ![idx] = "SPLIT"]
                   left  == rec[split, Left(idx), order - 1]
                   right == rec[left.nodes, Right(idx), order - 1]
               IN  IF left.idx # -1 THEN left
                   ELSE IF right.idx # -1 THEN right
                   ELSE IF BothFree(right.nodes, idx)
                        THEN [nodes |-> [right.nodes EXCEPT ![idx] = "FREE"], idx |-> -1]
                        ELSE right
    IN  rec[nodes, 0, maxOrder]

\* What free_rec leaves in the parent of the half it went into
parent(ns, idx) == [ns EXCEPT ![idx] = IF BothFree(ns, idx) THEN "FREE" ELSE "SPLIT"]

free_rec(nodes, from, blockOrder) ==
    LET rec[idx \in Nodes, order \in Orders, offset \in 0..poolSize] ==
          IF order < blockOrder THEN nodes
          ELSE IF order = blockOrder THEN [nodes EXCEPT ![idx] = "FREE"]
          ELSE LET half == order_size(order - 1)
               IN  parent(IF (offset \div half) % 2 = 1
                          THEN rec[Right(idx), order - 1, offset - half]
                          ELSE rec[Left(idx), order - 1, offset], idx)
    IN  rec[0, maxOrder, from]

-----------------------------------------------------------------------------
(***************************************************************************)
(* The manager's state: the tree, the order in the header of each block,   *)
(* and the two counters.                                                   *)
(***************************************************************************)
createBuddy == [nodes |-> AllFree, order |-> << >>, used |-> 0, free |-> poolSize]

\* The call ends, and reads and writes no more than its array
BuddyDefined(size) ==
    OrderExists(size) /\ (size_to_order(size) <= maxOrder => HasNodes(size_to_order(size)))

BuddyAlloc(b, size) ==
    LET want == size_to_order(size)
        got  == alloc_rec(b.nodes, want)
        off  == idx_to_offset(got.idx, want)
    IN  IF size = 0 \/ want > maxOrder THEN [buddy |-> b, ptr |-> NULLPTR]
        ELSE IF got.idx = -1 THEN [buddy |-> [b EXCEPT !.nodes = got.nodes], ptr |-> NULLPTR]
        ELSE [buddy |-> [b EXCEPT !.nodes = got.nodes,
                                  !.order = [o \in DOMAIN @ \cup {off} |->
                                               IF o = off THEN want ELSE @[o]],
                                  !.used  = @ + order_size(want) - HDR_SIZE,
                                  !.free  = @ - order_size(want)],
              ptr |-> off + HDR_SIZE]

\* The header of a freed block is of no more use
BuddyFree(b, ptr) ==
    LET off   == ptr - HDR_SIZE
        order == b.order[off]
    IN  IF ptr = NULLPTR THEN b
        ELSE [b EXCEPT !.nodes = free_rec(@, off, order),
                       !.order = [o \in DOMAIN @ \ {off} |-> @[o]],
                       !.used  = @ - (order_size(order) - HDR_SIZE),
                       !.free  = @ + order_size(order)]

BuddyStatus(b) == [used |-> b.used, free |-> b.free]

\* The data areas in use
OrderOf(idx) == maxOrder - Max({d \in 0..maxOrder : 2 ^ d <= idx + 1})

BuddyRegions(b) ==
    {[ptr  |-> idx_to_offset(i, OrderOf(i)) + HDR_SIZE,
      size |-> order_size(OrderOf(i)) - HDR_SIZE] : i \in {n \in Nodes : b.nodes[n] = "FULL"}}
=============================================================================

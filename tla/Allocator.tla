----------------------------- MODULE Allocator -----------------------------
(***************************************************************************)
(* What memoryManager.h promises of allocMemory and freeMemory, whichever  *)
(* manager is linked: an area that is granted lies in the pool and shares  *)
(* no byte, its header included, with an area that is still in use.        *)
(***************************************************************************)
EXTENDS Integers

CONSTANT PoolSize

VARIABLE live           \* areas in use: [from, to], header and data

Disjoint(a, b) == a.to < b.from \/ b.to < a.from

Grant ==
    \E a \in live' :
       /\ 0 <= a.from /\ a.from < a.to /\ a.to < PoolSize
       /\ \A b \in live : Disjoint(a, b)
       /\ live' = live \cup {a}

Release == live' \subseteq live

AllocatorSpec == live = {} /\ [][Grant \/ Release]_live
=============================================================================

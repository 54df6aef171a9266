------------------------------ MODULE QueueADT ------------------------------
(***************************************************************************)
(* The queues of Kernel/queueADT.c, linked lists whose nodes come from the *)
(* memory manager.  A list is a record: the fields of its queueCDT and the *)
(* nodes by address.  Sequences, as the other modules use them for these   *)
(* queues, are what Elements computes from it.                             *)
(***************************************************************************)
EXTENDS Integers, Sequences, SequencesExt, FiniteSets, FiniteSetsExt

NIL == 0

newQueue == [first |-> NIL, last |-> NIL, nodes |-> << >>]

With(nodes, ptr, n) == [p \in DOMAIN nodes \cup {ptr} |-> IF p = ptr THEN n ELSE nodes[p]]
Without(nodes, ptr) == [p \in DOMAIN nodes \ {ptr} |-> nodes[p]]

\* queue: ptr is what allocMemory returned for the new node
Queued(q, ptr, element) ==
    LET added == With(q.nodes, ptr, [data |-> element, tail |-> NIL])
    IN  IF ptr = NIL THEN q
        ELSE IF q.first = NIL THEN [first |-> ptr, last |-> ptr, nodes |-> added]
        ELSE [q EXCEPT !.nodes = [added EXCEPT ![q.last].tail = ptr], !.last = ptr]

\* dequeue of a queue that is not empty; its first node is freed
Dequeued(q) ==
    LET next == q.nodes[q.first].tail
    IN  [first |-> next, last |-> IF next = NIL THEN NIL ELSE q.last,
         nodes |-> Without(q.nodes, q.first)]

\* The addresses that the search of removeFromQueue goes through
Path(q) ==
    LET step[i \in 1..(Cardinality(DOMAIN q.nodes) + 1)] ==
          IF i = 1 THEN q.first
          ELSE IF step[i - 1] = NIL THEN NIL ELSE q.nodes[step[i - 1]].tail
    IN  [i \in {j \in DOMAIN step : step[j] # NIL} |-> step[i]]

Elements(q) == [i \in DOMAIN Path(q) |-> q.nodes[Path(q)[i]].data]

Found(q, element) == {i \in DOMAIN Path(q) : q.nodes[Path(q)[i]].data = element}

\* Mutant: last still points to the node that was removed
RemovedKeepsLast(q, element) ==
    LET i       == Min(Found(q, element))
        current == Path(q)[i]
        tail    == q.nodes[current].tail
        rest    == Without(q.nodes, current)
    IN  IF i = 1 THEN [first |-> tail, last |-> IF tail = NIL THEN NIL ELSE q.last, nodes |-> rest]
        ELSE [q EXCEPT !.nodes = [rest EXCEPT ![Path(q)[i - 1]].tail = tail]]

\* removeFromQueue of an element that is there; the node found is freed
Removed(q, element) ==
    LET i       == Min(Found(q, element))
        current == Path(q)[i]
        tail    == q.nodes[current].tail
        rest    == Without(q.nodes, current)
    IN  IF i = 1 THEN [first |-> tail, last |-> IF tail = NIL THEN NIL ELSE q.last, nodes |-> rest]
        ELSE [first |-> q.first,
              last  |-> IF current = q.last THEN Path(q)[i - 1] ELSE q.last,
              nodes |-> [rest EXCEPT ![Path(q)[i - 1]].tail = tail]]
=============================================================================

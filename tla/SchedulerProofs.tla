-------------------------- MODULE SchedulerProofs --------------------------
(***************************************************************************)
(* Type correctness of Scheduler, and that no READY process is forgotten,  *)
(* that the CPU has one owner and that init can always run, for any number *)
(* of processes and any parameters of the ageing.                          *)
(***************************************************************************)
EXTENDS Scheduler, QueueLemmas, FiniteSetTheorems

USE ProcessesAssumption, PriorityAssumption, QuantumAssumption DEF INITPID, NULL, NONPID

\* What the pure operators work on
Kernel == [procs : [PIDs -> PCB], queues : [Levels -> Seq(PIDs)]]

-----------------------------------------------------------------------------
\* The entries at the positions in I are a queue of exactly these entries: the
\* rank of a position among I is a bijection of I and 1..Cardinality(I).
LEMMA EntriesEffect ==
    ASSUME NEW T, NEW q \in Seq(T), NEW I, I \subseteq DOMAIN q
    PROVE  /\ Entries(q, I) \in Seq(T)
           /\ Range(Entries(q, I)) = {q[i] : i \in I}
<1> DEFINE below(i) == {j \in I : j <= i}
           N        == Cardinality(I)
           rank     == [i \in I |-> Cardinality(below(i))]
<1>1. Len(q) \in Nat /\ DOMAIN q = 1..Len(q)
  OBVIOUS
<1>2. IsFiniteSet(I) /\ N \in Nat
  <2>1. IsFiniteSet(1..Len(q))
    BY <1>1, FS_Interval
  <2> QED
    BY <1>1, <2>1, FS_Subset, FS_CardinalityType
<1>3. I \subseteq Nat
  BY <1>1
<1>4. ASSUME NEW i \in I
      PROVE  IsFiniteSet(below(i)) /\ Cardinality(below(i)) \in 1..N
  <2>1. below(i) \in SUBSET I /\ i \in below(i)
    BY <1>3
  <2>2. IsFiniteSet(below(i)) /\ Cardinality(below(i)) <= N /\ Cardinality(below(i)) \in Nat
    BY <1>2, <2>1, FS_Subset, FS_CardinalityType
  <2>3. Cardinality(below(i)) # 0
    BY <2>1, <2>2, FS_EmptySet
  <2> QED
    BY <1>2, <2>2, <2>3
<1>5. ASSUME NEW i \in I, NEW k \in I, i < k
      PROVE  Cardinality(below(i)) # Cardinality(below(k))
  <2>1. below(i) \in SUBSET below(k) /\ k \in below(k) /\ k \notin below(i)
    BY <1>3, <1>5
  <2> QED
    BY <1>4, <2>1, FS_Subset
<1>6. rank \in [I -> 1..N]
  BY <1>4
<1>7. \A i, k \in I : rank[i] = rank[k] => i = k
  <2> SUFFICES ASSUME NEW i \in I, NEW k \in I, rank[i] = rank[k] PROVE i = k
    OBVIOUS
  <2>1. Cardinality(below(i)) = Cardinality(below(k))
    OBVIOUS
  <2>2. ~ (i < k) /\ ~ (k < i)
    BY <1>5, <2>1
  <2> QED
    BY <1>3, <2>2
<1>8. rank \in Injection(I, 1..N)
  BY <1>6, <1>7 DEF Injection, IsInjective
<1>9. rank \in Surjection(I, 1..N)
  <2>1. IsFiniteSet(1..N) /\ Cardinality(1..N) = N
    BY <1>2, FS_Interval
  <2> HIDE DEF rank
  <2> QED
    BY <1>8, <2>1, FS_Injection
<1>10. \A k \in 1..N : \E i \in I : rank[i] = k
  BY <1>9 DEF Surjection
<1> DEFINE nth(k) == CHOOSE i \in I : Cardinality({j \in I : j <= i}) = k
<1>11. \A k \in 1..N : nth(k) \in I
  BY <1>10
<1>12. \A i \in I : Cardinality(below(i)) \in 1..N /\ nth(Cardinality(below(i))) = i
  BY <1>4, <1>7
<1>13. Entries(q, I) = [k \in 1..N |-> q[nth(k)]]
  BY DEF Entries
<1> HIDE DEF nth, N
<1>14. \A i \in I : q[i] \in T
  BY <1>1
<1>15. Entries(q, I) \in [1..N -> T]
  BY <1>11, <1>13, <1>14
<1>16. Entries(q, I) \in Seq(T)
  BY <1>2, <1>15
<1>17. Range(Entries(q, I)) = {q[nth(k)] : k \in 1..N}
  BY <1>13 DEF Range
<1> QED
  BY <1>11, <1>12, <1>16, <1>17

-----------------------------------------------------------------------------
(***************************************************************************)
(* A process that was created once has priorities that name a queue.  An   *)
(* entry of another one would be dropped by schedule, so all the proofs    *)
(* carry along that whatever is queued is Ranked.                          *)
(***************************************************************************)
Ranked(procs, p) == procs[p].priority \in Levels /\ procs[p].originalPriority \in Levels

\* The boost that ageing gave p is within its bounds
Boosted(procs, p) ==
    /\ procs[p].originalPriority <= procs[p].priority
    /\ procs[p].priority <= procs[p].originalPriority + MAX_AGING_BOOST
    /\ p \in {INITPID, SHELLPID} => procs[p].priority = procs[p].originalPriority

\* The priorities of p in table new are as good as those in table old
Kept(old, new, p) == /\ Ranked(old, p) => Ranked(new, p)
                     /\ Boosted(old, p) => Boosted(new, p)

\* t differs from r at most in priorities, counters and the order of the queues
Alike(r, t) ==
    \A p \in PIDs : /\ t.procs[p].state = r.procs[p].state
                    /\ t.procs[p].waitPid = r.procs[p].waitPid
                    /\ Kept(r.procs, t.procs, p)

QueuedRanked(r) == \A p \in Queued(r.queues) : Ranked(r.procs, p)

\* Whatever is queued is a process.
LEMMA QueuedArePIDs ==
    ASSUME NEW queues \in [Levels -> Seq(PIDs)]
    PROVE  /\ Queued(queues) \subseteq PIDs
           /\ \A p : p \in Queued(queues) <=> \E i \in Levels : p \in Range(queues[i])
<1>1. \A p : p \in Queued(queues) <=> \E i \in Levels : p \in Range(queues[i])
  BY DEF Queued
<1>2. \A i \in Levels : Range(queues[i]) \subseteq PIDs
  <2> SUFFICES ASSUME NEW i \in Levels PROVE Range(queues[i]) \subseteq PIDs
    OBVIOUS
  <2>1. queues[i] \in Seq(PIDs)
    OBVIOUS
  <2>2. \A n \in DOMAIN queues[i] : queues[i][n] \in PIDs
    BY <2>1
  <2> QED
    BY <2>2 DEF Range
<1> QED
  BY <1>1, <1>2

\* schedule: one more entry, in the queue of the process's priority.
LEMMA ScheduleEffect ==
    ASSUME NEW r \in Kernel, NEW p \in PIDs
    PROVE  /\ Schedule(r, p) \in Kernel
           /\ Schedule(r, p).procs = r.procs
           /\ Queued(r.queues) \subseteq Queued(Schedule(r, p).queues)
           /\ Queued(Schedule(r, p).queues) \subseteq Queued(r.queues) \cup {p}
           /\ r.procs[p].priority \in Levels => p \in Queued(Schedule(r, p).queues)
<1>1. CASE r.procs[p].priority \notin Levels
  BY <1>1 DEF Schedule
<1>2. CASE r.procs[p].priority \in Levels
  <2> DEFINE l == r.procs[p].priority
             Q == [r.queues EXCEPT ![l] = Append(r.queues[l], p)]
  <2>1. Schedule(r, p) = [r EXCEPT !.queues = Q]
    BY <1>2 DEF Schedule, Kernel
  <2>2. r.queues \in [Levels -> Seq(PIDs)] /\ r.queues[l] \in Seq(PIDs) /\ l \in Levels
    BY <1>2 DEF Kernel
  <2> HIDE DEF l
  <2>3. Append(r.queues[l], p) \in Seq(PIDs) /\ Range(Append(r.queues[l], p)) = Range(r.queues[l]) \cup {p}
    BY <2>2, RangeOfAppend
  <2>4. Q \in [Levels -> Seq(PIDs)] /\ Q[l] = Append(r.queues[l], p)
        /\ \A i \in Levels : i # l => Q[i] = r.queues[i]
    BY <2>2, <2>3
  <2> HIDE DEF Q
  <2>5. Queued(Q) = Queued(r.queues) \cup {p}
    BY <2>2, <2>3, <2>4, QueuedArePIDs
  <2>6. [r EXCEPT !.queues = Q] \in Kernel
        /\ [r EXCEPT !.queues = Q].procs = r.procs /\ [r EXCEPT !.queues = Q].queues = Q
    BY <2>4 DEF Kernel
  <2> QED
    BY <2>1, <2>5, <2>6
<1> QED
  BY <1>1, <1>2

\* unscheduleProcess: only entries of p leave the queues.
LEMMA UnscheduleEffect ==
    ASSUME NEW r \in Kernel, NEW p \in PIDs
    PROVE  /\ UnscheduleProcess(r, p) \in Kernel
           /\ UnscheduleProcess(r, p).procs = r.procs
           /\ Queued(UnscheduleProcess(r, p).queues) \subseteq Queued(r.queues)
           /\ Queued(r.queues) \subseteq Queued(UnscheduleProcess(r, p).queues) \cup {p}
<1> DEFINE Q == [i \in Levels |-> RemoveFirst(r.queues[i], p)]
<1>1. r.queues \in [Levels -> Seq(PIDs)]
  BY DEF Kernel
<1>2. \A i \in Levels : /\ Q[i] \in Seq(PIDs)
                        /\ Range(Q[i]) \subseteq Range(r.queues[i])
                        /\ Range(r.queues[i]) \subseteq Range(Q[i]) \cup {p}
  BY <1>1, RemoveFirstEffect
<1>3. Q \in [Levels -> Seq(PIDs)]
  BY <1>2
<1>4. UnscheduleProcess(r, p) = [r EXCEPT !.queues = Q]
  BY DEF UnscheduleProcess
<1> HIDE DEF Q
<1>5. [r EXCEPT !.queues = Q] \in Kernel
      /\ [r EXCEPT !.queues = Q].procs = r.procs /\ [r EXCEPT !.queues = Q].queues = Q
  BY <1>3 DEF Kernel
<1> QED
  BY <1>1, <1>2, <1>3, <1>4, <1>5, QueuedArePIDs

\* removeFromQueue: only an entry of p leaves the queue.
LEMMA RemoveFromQueueEffect ==
    ASSUME NEW r \in Kernel, NEW i \in Levels, NEW p \in PIDs
    PROVE  /\ RemoveFromQueue(r, i, p) \in Kernel
           /\ RemoveFromQueue(r, i, p).procs = r.procs
           /\ Queued(RemoveFromQueue(r, i, p).queues) \subseteq Queued(r.queues)
           /\ Queued(r.queues) \subseteq Queued(RemoveFromQueue(r, i, p).queues) \cup {p}
<1> DEFINE Q == [r.queues EXCEPT ![i] = RemoveFirst(r.queues[i], p)]
<1>1. r.queues \in [Levels -> Seq(PIDs)]
  BY DEF Kernel
<1>2. /\ RemoveFirst(r.queues[i], p) \in Seq(PIDs)
      /\ Range(RemoveFirst(r.queues[i], p)) \subseteq Range(r.queues[i])
      /\ Range(r.queues[i]) \subseteq Range(RemoveFirst(r.queues[i], p)) \cup {p}
  BY <1>1, RemoveFirstEffect
<1>3. Q \in [Levels -> Seq(PIDs)]
  BY <1>1, <1>2
<1>4. \A j \in Levels : /\ Range(Q[j]) \subseteq Range(r.queues[j])
                        /\ Range(r.queues[j]) \subseteq Range(Q[j]) \cup {p}
  BY <1>1, <1>2
<1>5. RemoveFromQueue(r, i, p) = [r EXCEPT !.queues = Q]
  BY <1>1 DEF RemoveFromQueue, Kernel
<1> HIDE DEF Q
<1>6. [r EXCEPT !.queues = Q] \in Kernel
      /\ [r EXCEPT !.queues = Q].procs = r.procs /\ [r EXCEPT !.queues = Q].queues = Q
  BY <1>3 DEF Kernel
<1> QED
  BY <1>1, <1>3, <1>4, <1>5, <1>6, QueuedArePIDs

\* An ageing step changes the counter and the priority only, and the priority
\* stays one of a queue.
LEMMA AgedPCBEffect ==
    ASSUME NEW pcb \in PCB, NEW n \in Nat
    PROVE  /\ AgedPCB(pcb, n) \in PCB
           /\ AgedPCB(pcb, n).state = pcb.state
           /\ AgedPCB(pcb, n).waitPid = pcb.waitPid
           /\ AgedPCB(pcb, n).originalPriority = pcb.originalPriority
           /\ pcb.priority \in Levels /\ pcb.originalPriority \in Levels
                => AgedPCB(pcb, n).priority \in Levels
           /\ pcb.priority \in pcb.originalPriority..(pcb.originalPriority + MAX_AGING_BOOST)
                => AgedPCB(pcb, n).priority
                     \in pcb.originalPriority..(pcb.originalPriority + MAX_AGING_BOOST)
<1> DEFINE counter == Smaller(pcb.agingCounter + n, AgingCap)
           boost   == Smaller(counter \div AGING_THRESHOLD, MAX_AGING_BOOST)
           raised  == Smaller(pcb.originalPriority + boost, MAX_PRIORITY)
           prio    == IF counter >= AGING_THRESHOLD /\ pcb.priority < MAX_PRIORITY
                      THEN raised ELSE pcb.priority
<1>1. AgedPCB(pcb, n) = [pcb EXCEPT !.agingCounter = counter, !.priority = prio]
  BY DEF AgedPCB, PCB
<1>2. counter \in Nat
  <2>1. AGING_THRESHOLD * MAX_AGING_BOOST \in Nat
    BY AgingAssumption
  <2> QED
    BY <2>1 DEF Smaller, AgingCap, PCB
<1>3. boost \in 0..MAX_AGING_BOOST
  <2> HIDE DEF counter
  <2>1. counter \div AGING_THRESHOLD \in Nat
    BY <1>2, AgingAssumption
  <2> QED
    BY <2>1, AgingAssumption DEF Smaller
<1> HIDE DEF boost, counter
<1>4. /\ raised \in 0..MAX_PRIORITY
      /\ pcb.originalPriority \in Levels => raised \in Levels
      /\ raised \in pcb.originalPriority..(pcb.originalPriority + MAX_AGING_BOOST)
  BY <1>3, AgingAssumption DEF Smaller, PCB, Levels
<1> HIDE DEF raised
<1>5. prio \in 0..MAX_PRIORITY
      /\ (pcb.priority \in Levels /\ pcb.originalPriority \in Levels => prio \in Levels)
      /\ (pcb.priority \in pcb.originalPriority..(pcb.originalPriority + MAX_AGING_BOOST)
            => prio \in pcb.originalPriority..(pcb.originalPriority + MAX_AGING_BOOST))
  BY <1>4 DEF PCB
<1> HIDE DEF prio
<1> QED
  BY <1>1, <1>2, <1>5 DEF PCB

\* One turn of applyAging's loop: who is found in queue i may be aged, and all its
\* entries there go to the queue of its priority; the other entries stay.
LEMMA AgeQueueMoves ==
    ASSUME NEW r \in Kernel, NEW i \in Nat
    PROVE  /\ AgeQueue(r, i) \in Kernel
           /\ \A p \in PIDs :
                \/ AgeQueue(r, i).procs[p] = r.procs[p]
                \/ /\ i \in Levels /\ p \in Range(r.queues[i]) /\ p \notin {INITPID, SHELLPID}
                   /\ \E n \in Nat : AgeQueue(r, i).procs[p] = AgedPCB(r.procs[p], n)
           /\ \A j \in Levels, p \in PIDs :
                p \in Range(AgeQueue(r, i).queues[j]) <=>
                  \/ j # i /\ p \in Range(r.queues[j])
                  \/ /\ i \in Levels /\ p \in Range(r.queues[i])
                     /\ AgeQueue(r, i).procs[p].priority = j
<1>0. r.queues \in [Levels -> Seq(PIDs)] /\ r.procs \in [PIDs -> PCB]
  BY DEF Kernel
<1>1. CASE i \notin Levels \/ r.queues[i] = << >>
  <2>1. AgeQueue(r, i) = r
    BY <1>1 DEF AgeQueue
  <2>2. i \in Levels => Range(r.queues[i]) = {}
    BY <1>1 DEF Range
  <2> QED
    BY <2>1, <2>2
<1>2. CASE i \in Levels /\ r.queues[i] # << >>
  <2> DEFINE q         == r.queues[i]
             times(p)  == Cardinality({n \in DOMAIN q : q[n] = p})
             procs     == AgedTable(r.procs, q)
             others(j) == IF j = i THEN << >> ELSE r.queues[j]
             at(j)     == {n \in DOMAIN q : procs[q[n]].priority = j}
             moved(j)  == Entries(q, at(j))
             queues    == Requeued(r.queues, i, procs)
             t         == [procs |-> procs, queues |-> queues]
  <2>1. AgeQueue(r, i) = t
    <3>1. \A old, new : Updated(old, new) = new
      BY DEF Updated
    <3> QED
      BY <1>2, <3>1 DEF AgeQueue
  <2>2. procs = [p \in PIDs |-> IF p \in Range(q) \ {INITPID, SHELLPID}
                               THEN AgedPCB(r.procs[p], times(p)) ELSE r.procs[p]]
    BY DEF AgedTable
  <2>3. queues = [j \in Levels |-> others(j) \o moved(j)]
    BY DEF Requeued
  <2>4. q \in Seq(PIDs) /\ DOMAIN q = 1..Len(q) /\ Len(q) \in Nat
    BY <1>0, <1>2
  <2>5. \A p : times(p) \in Nat
    <3> TAKE p
    <3>1. IsFiniteSet(DOMAIN q)
      BY <2>4, FS_Interval
    <3>2. {n \in DOMAIN q : q[n] = p} \in SUBSET DOMAIN q
      OBVIOUS
    <3> QED
      BY <3>1, <3>2, FS_Subset, FS_CardinalityType
  <2> HIDE DEF times, procs
  <2>6. \A p \in PIDs : \/ procs[p] = r.procs[p]
                        \/ /\ p \in Range(q) /\ p \notin {INITPID, SHELLPID}
                           /\ \E n \in Nat : procs[p] = AgedPCB(r.procs[p], n)
    BY <2>2, <2>5
  <2>7. procs \in [PIDs -> PCB]
    <3>1. \A p \in PIDs : procs[p] \in PCB
      BY <1>0, <2>6, AgedPCBEffect
    <3> QED
      BY <2>2, <3>1
  <2> HIDE DEF queues
  <2>8. ASSUME NEW j \in Levels
        PROVE  /\ queues[j] \in Seq(PIDs)
               /\ Range(queues[j]) = Range(others(j)) \cup {q[n] : n \in at(j)}
    <3>1. others(j) \in Seq(PIDs)
      BY <1>0
    <3>2. moved(j) \in Seq(PIDs) /\ Range(moved(j)) = {q[n] : n \in at(j)}
      <4> HIDE DEF q
      <4>1. at(j) \subseteq DOMAIN q
        BY Zenon
      <4> HIDE DEF at
      <4> QED BY <2>4, <4>1, EntriesEffect
    <3>3. queues[j] = others(j) \o moved(j)
      BY <2>3
    <3> HIDE DEF others, moved
    <3> QED
      BY <3>1, <3>2, <3>3, RangeOfConcat
  <2>9. queues \in [Levels -> Seq(PIDs)]
    <3>1. \A j \in Levels : queues[j] \in Seq(PIDs)
      BY <2>8
    <3>2. queues = [j \in Levels |-> queues[j]]
      BY <2>3
    <3> QED
      BY <3>1, <3>2
  <2>10. ASSUME NEW j \in Levels, NEW p \in PIDs
         PROVE  p \in Range(queues[j]) <=> \/ j # i /\ p \in Range(r.queues[j])
                                           \/ p \in Range(q) /\ procs[p].priority = j
    <3>1. p \in Range(others(j)) <=> j # i /\ p \in Range(r.queues[j])
      <4>1. CASE j = i
        BY <4>1 DEF Range
      <4>2. CASE j # i
        BY <4>2
      <4> QED
        BY <4>1, <4>2
    <3>2. p \in {q[n] : n \in at(j)} <=> p \in Range(q) /\ procs[p].priority = j
      BY DEF Range
    <3> HIDE DEF others, at
    <3> QED
      BY <2>8, <3>1, <3>2
  <2>11. t \in Kernel /\ t.procs = procs /\ t.queues = queues
    BY <2>7, <2>9 DEF Kernel
  <2> QED
    BY <1>2, <2>1, <2>6, <2>10, <2>11
<1> QED
  BY <1>1, <1>2

\* One turn of applyAging's loop loses no process and adds none: whoever is in
\* some queue before is in some queue after it.
LEMMA AgeQueueEffect ==
    ASSUME NEW r \in Kernel, NEW i \in Nat, QueuedRanked(r)
    PROVE  /\ AgeQueue(r, i) \in Kernel
           /\ Alike(r, AgeQueue(r, i))
           /\ Queued(AgeQueue(r, i).queues) = Queued(r.queues)
           /\ QueuedRanked(AgeQueue(r, i))
<1> DEFINE t == AgeQueue(r, i)
<1>0. r.queues \in [Levels -> Seq(PIDs)] /\ r.procs \in [PIDs -> PCB]
  BY DEF Kernel
<1>1. /\ t \in Kernel
      /\ \A p \in PIDs : \/ t.procs[p] = r.procs[p]
                         \/ /\ i \in Levels /\ p \in Range(r.queues[i])
                            /\ p \notin {INITPID, SHELLPID}
                            /\ \E n \in Nat : t.procs[p] = AgedPCB(r.procs[p], n)
      /\ \A j \in Levels, p \in PIDs :
           p \in Range(t.queues[j]) <=>
             \/ j # i /\ p \in Range(r.queues[j])
             \/ i \in Levels /\ p \in Range(r.queues[i]) /\ t.procs[p].priority = j
  BY AgeQueueMoves
<1> HIDE DEF t
<1>2. t.queues \in [Levels -> Seq(PIDs)]
  BY <1>1 DEF Kernel
<1>3. ASSUME NEW p \in PIDs
      PROVE  /\ t.procs[p].state = r.procs[p].state /\ t.procs[p].waitPid = r.procs[p].waitPid
             /\ Kept(r.procs, t.procs, p)
  <2>1. r.procs[p] \in PCB
    BY <1>0
  <2>2. CASE t.procs[p] = r.procs[p]
    BY <2>2 DEF Kept, Ranked, Boosted
  <2>3. ASSUME NEW n \in Nat, t.procs[p] = AgedPCB(r.procs[p], n), p \notin {INITPID, SHELLPID}
        PROVE  /\ t.procs[p].state = r.procs[p].state /\ t.procs[p].waitPid = r.procs[p].waitPid
               /\ Kept(r.procs, t.procs, p)
    <3>1. /\ t.procs[p].state = r.procs[p].state /\ t.procs[p].waitPid = r.procs[p].waitPid
          /\ t.procs[p].originalPriority = r.procs[p].originalPriority
          /\ Ranked(r.procs, p) => Ranked(t.procs, p)
      BY <2>1, <2>3, AgedPCBEffect DEF Ranked
    <3>2. Boosted(r.procs, p) => Boosted(t.procs, p)
      <4>1. r.procs[p].priority \in Int /\ r.procs[p].originalPriority \in Int
            /\ MAX_AGING_BOOST \in Nat
        BY <2>1, AgingAssumption DEF PCB
      <4>2. r.procs[p].priority \in
              r.procs[p].originalPriority..(r.procs[p].originalPriority + MAX_AGING_BOOST)
            => t.procs[p].priority \in
              r.procs[p].originalPriority..(r.procs[p].originalPriority + MAX_AGING_BOOST)
        BY <2>1, <2>3, AgedPCBEffect
      <4> QED
        BY <2>3, <3>1, <4>1, <4>2 DEF Boosted
    <3> QED
      BY <3>1, <3>2 DEF Kept
  <2> QED
    BY <1>1, <2>2, <2>3
<1>4. ASSUME NEW p \in PIDs
      PROVE  p \in Queued(t.queues) <=> p \in Queued(r.queues)
  <2>1. ASSUME NEW j \in Levels, p \in Range(t.queues[j]) PROVE p \in Queued(r.queues)
    BY <1>0, <1>1, <2>1, QueuedArePIDs
  <2>2. ASSUME NEW j \in Levels, p \in Range(r.queues[j]) PROVE p \in Queued(t.queues)
    <3>1. CASE j # i
      <4>1. p \in Range(t.queues[j])
        BY <1>1, <2>2, <3>1
      <4> QED
        BY <1>2, <4>1, QueuedArePIDs
    <3>2. CASE j = i
      <4>1. Ranked(r.procs, p)
        BY <1>0, <2>2, QueuedArePIDs DEF QueuedRanked
      <4>2. PICK l \in Levels : l = t.procs[p].priority
        BY <1>3, <4>1 DEF Kept, Ranked
      <4>3. p \in Range(t.queues[l])
        BY <1>1, <2>2, <3>2, <4>2
      <4> QED
        BY <1>2, <4>3, QueuedArePIDs
    <3> QED
      BY <3>1, <3>2
  <2> QED
    BY <1>0, <1>2, <2>1, <2>2, QueuedArePIDs
<1>5. Queued(t.queues) = Queued(r.queues) /\ Queued(r.queues) \subseteq PIDs
  <2>1. Queued(t.queues) \subseteq PIDs /\ Queued(r.queues) \subseteq PIDs
    BY <1>0, <1>2, QueuedArePIDs
  <2> QED
    BY <1>4, <2>1
<1>6. Alike(r, t)
  BY <1>3 DEF Alike
<1>7. QueuedRanked(t)
  BY <1>3, <1>5 DEF QueuedRanked, Kept
<1> QED
  BY <1>1, <1>5, <1>6, <1>7 DEF t

\* The whole ageing pass loses no process and adds none.
LEMMA ApplyAgingEffect ==
    ASSUME NEW r \in Kernel, QueuedRanked(r)
    PROVE  /\ ApplyAging(r) \in Kernel
           /\ Alike(r, ApplyAging(r))
           /\ Queued(ApplyAging(r).queues) = Queued(r.queues)
           /\ QueuedRanked(ApplyAging(r))
<1> DEFINE a == AgeQueue(r, 1)
           b == AgeQueue(a, 2)
           c == AgeQueue(b, 3)
           d == AgeQueue(c, 4)
           e == AgeQueue(d, 5)
<1>1. a \in Kernel /\ Alike(r, a) /\ Queued(a.queues) = Queued(r.queues) /\ QueuedRanked(a)
  BY AgeQueueEffect
<1> HIDE DEF a
<1>2. b \in Kernel /\ Alike(a, b) /\ Queued(b.queues) = Queued(a.queues) /\ QueuedRanked(b)
  BY <1>1, AgeQueueEffect
<1> HIDE DEF b
<1>3. c \in Kernel /\ Alike(b, c) /\ Queued(c.queues) = Queued(b.queues) /\ QueuedRanked(c)
  BY <1>2, AgeQueueEffect
<1> HIDE DEF c
<1>4. d \in Kernel /\ Alike(c, d) /\ Queued(d.queues) = Queued(c.queues) /\ QueuedRanked(d)
  BY <1>3, AgeQueueEffect
<1> HIDE DEF d
<1>5. e \in Kernel /\ Alike(d, e) /\ Queued(e.queues) = Queued(d.queues) /\ QueuedRanked(e)
  BY <1>4, AgeQueueEffect
<1> HIDE DEF e
<1>6. Alike(r, e)
  BY <1>1, <1>2, <1>3, <1>4, <1>5 DEF Alike, Kept
<1>7. ApplyAging(r) = e
  BY DEF ApplyAging, a, b, c, d, e
<1> QED
  BY <1>1, <1>2, <1>3, <1>4, <1>5, <1>6, <1>7

-----------------------------------------------------------------------------
Types(procs, queues, c, left) ==
    /\ procs \in [PIDs -> PCB]
    /\ queues \in [Levels -> Seq(PIDs)]
    /\ c \in PIDs \cup {NULL}
    /\ left \in 0..DEFAULT_QUANTUM

\* The dispatch loop throws away only entries that cannot run and the one it
\* picks, and it finds a process to run if there is one.
LEMMA DispatchEffect ==
    ASSUME NEW r \in Kernel, quantumsLeft \in 0..DEFAULT_QUANTUM, Dispatch(r)
    PROVE  /\ Types(processes', priorityQueues', currentProcess', quantumsLeft')
           /\ \A p \in PIDs :
                /\ processes'[p].state = IF p = currentProcess' THEN "RUNNING" ELSE r.procs[p].state
                /\ processes'[p].waitPid = r.procs[p].waitPid
                /\ Kept(r.procs, processes', p)
           /\ Queued(priorityQueues') \subseteq Queued(r.queues)
           /\ currentProcess' # NULL =>
                /\ currentProcess' \in Queued(r.queues)
                /\ r.procs[currentProcess'].state \notin {"BLOCKED", "EXITED"}
           /\ \A p \in Queued(r.queues) :
                r.procs[p].state \notin {"BLOCKED", "EXITED"} =>
                   /\ currentProcess' # NULL
                   /\ p = currentProcess' \/ p \in Queued(priorityQueues')
<1> DEFINE levels == {i \in Levels : Runnable(r, i) # {}}
           top    == Max(levels)
           first  == Min(Runnable(r, top))
           next   == r.queues[top][first]
<1>1. r.queues \in [Levels -> Seq(PIDs)] /\ r.procs \in [PIDs -> PCB]
  BY DEF Kernel
<1>2. ASSUME NEW i \in Levels
      PROVE  /\ r.queues[i] \in Seq(PIDs) /\ DOMAIN r.queues[i] = 1..Len(r.queues[i])
             /\ Len(r.queues[i]) \in Nat
             /\ Runnable(r, i) \subseteq 1..Len(r.queues[i])
             /\ \A n \in 1..Len(r.queues[i]) :
                  r.queues[i][n] \in PIDs /\ r.queues[i][n] \in Range(r.queues[i])
  BY <1>1 DEF Runnable, Range
<1>3. CASE levels = {}
  <2>1. /\ currentProcess' = NULL /\ processes' = r.procs /\ quantumsLeft' = quantumsLeft
        /\ priorityQueues' = [i \in Levels |-> << >>]
    BY <1>3 DEF Dispatch
  <2>2. priorityQueues' \in [Levels -> Seq(PIDs)] /\ \A i \in Levels : Range(priorityQueues'[i]) = {}
    BY <2>1 DEF Range
  <2>3. Queued(priorityQueues') = {}
    BY <2>2, QueuedArePIDs
  <2>4. ASSUME NEW p \in Queued(r.queues), r.procs[p].state \notin {"BLOCKED", "EXITED"}
        PROVE  FALSE
    <3>1. PICK i \in Levels : p \in Range(r.queues[i])
      BY <1>1, QueuedArePIDs
    <3>2. PICK n \in DOMAIN r.queues[i] : r.queues[i][n] = p
      BY <3>1 DEF Range
    <3>3. n \in Runnable(r, i)
      BY <2>4, <3>2 DEF Runnable
    <3> QED
      BY <1>3, <3>3
  <2>5. Types(processes', priorityQueues', currentProcess', quantumsLeft')
    BY <1>1, <2>1, <2>2 DEF Types
  <2>6. \A p \in PIDs : p # NULL
    BY DEF PIDs
  <2>7. \A p \in PIDs : Kept(r.procs, processes', p)
    BY <2>1 DEF Kept
  <2> QED
    BY <2>1, <2>3, <2>4, <2>5, <2>6, <2>7
<1>4. CASE levels # {}
  <2>1. top \in Levels /\ Runnable(r, top) # {} /\ \A i \in levels : i <= top
    <3>1. levels \subseteq 1..MAX_PRIORITY /\ MAX_PRIORITY \in Nat
      BY DEF Levels
    <3>2. top \in levels /\ \A i \in levels : i <= top
      <4> HIDE DEF levels
      <4> QED BY <1>4, <3>1, MaxInSet
    <3> QED
      BY <3>2
  <2>2. /\ currentProcess' = next
        /\ priorityQueues' = [i \in Levels |->
              IF i > top THEN << >>
              ELSE IF i = top THEN SubSeq(r.queues[i], first + 1, Len(r.queues[i]))
              ELSE r.queues[i]]
        /\ processes' = [r.procs EXCEPT ![next].state = "RUNNING", ![next].agingCounter = 0]
        /\ quantumsLeft' = DEFAULT_QUANTUM
    BY <1>4 DEF Dispatch
  <2> HIDE DEF levels, top
  <2>3. first \in Runnable(r, top) /\ \A n \in Runnable(r, top) : first <= n
    <3>1. Runnable(r, top) \subseteq Nat
      BY <1>2, <2>1
    <3> QED
      BY <2>1, <3>1, MinInSet
  <2> HIDE DEF first
  <2>4. /\ first \in 1..Len(r.queues[top]) /\ next \in PIDs /\ next \in Range(r.queues[top])
        /\ r.procs[next].state \notin {"BLOCKED", "EXITED"}
    BY <1>2, <2>1, <2>3 DEF Runnable
  <2>5. /\ SubSeq(r.queues[top], first + 1, Len(r.queues[top])) \in Seq(PIDs)
        /\ Range(SubSeq(r.queues[top], first + 1, Len(r.queues[top])))
              = {r.queues[top][n] : n \in (first + 1)..Len(r.queues[top])}
    <3>1. r.queues[top] \in Seq(PIDs) /\ first \in 0..Len(r.queues[top])
      BY <1>2, <2>1, <2>4
    <3> QED
      BY <3>1, RangeOfSuffix
  <2>6. ASSUME NEW i \in Levels
        PROVE  /\ i > top => priorityQueues'[i] = << >>
               /\ i = top => priorityQueues'[i] = SubSeq(r.queues[top], first + 1, Len(r.queues[top]))
               /\ i < top => priorityQueues'[i] = r.queues[i]
    <3>1. i \in Int /\ top \in Int
      BY <2>1 DEF Levels
    <3>2. priorityQueues'[i] = IF i > top THEN << >>
                               ELSE IF i = top THEN SubSeq(r.queues[i], first + 1, Len(r.queues[i]))
                               ELSE r.queues[i]
      BY <2>2
    <3>3. CASE i > top
      BY <3>1, <3>2, <3>3
    <3>4. CASE i = top
      <4>1. ~ (i > top) /\ ~ (i < top)
        BY <3>1, <3>4
      <4>2. priorityQueues'[i] = SubSeq(r.queues[i], first + 1, Len(r.queues[i]))
        BY <3>2, <3>4, <4>1
      <4> QED
        BY <3>4, <4>1, <4>2
    <3>5. CASE i < top
      BY <3>1, <3>2, <3>5
    <3> QED
      BY <3>1, <3>3, <3>4, <3>5
  <2>7. ASSUME NEW i \in Levels
        PROVE  priorityQueues'[i] \in Seq(PIDs) /\ Range(priorityQueues'[i]) \subseteq Range(r.queues[i])
    <3>1. i > top \/ i = top \/ i < top
      BY <2>1 DEF Levels
    <3>2. CASE i > top
      <4>1. priorityQueues'[i] = << >>
        BY <2>6, <3>2
      <4>2. << >> \in Seq(PIDs) /\ Range(<< >>) = {}
        BY DEF Range
      <4> QED
        BY <4>1, <4>2
    <3>3. CASE i = top
      <4>1. \A n \in (first + 1)..Len(r.queues[top]) : n \in 1..Len(r.queues[top])
        BY <1>2, <2>1, <2>4
      <4>2. priorityQueues'[i] = SubSeq(r.queues[top], first + 1, Len(r.queues[top]))
        BY <2>6, <3>3
      <4> QED
        BY <1>2, <2>1, <2>5, <3>3, <4>1, <4>2
    <3>4. CASE i < top
      BY <1>2, <2>6, <3>4
    <3> QED
      BY <3>1, <3>2, <3>3, <3>4
  <2>8. priorityQueues' \in [Levels -> Seq(PIDs)]
    <3>1. priorityQueues' = [i \in Levels |-> priorityQueues'[i]]
      BY <2>2
    <3>2. \A i \in Levels : priorityQueues'[i] \in Seq(PIDs)
      BY <2>7
    <3> QED
      BY <3>1, <3>2
  <2>9. Queued(priorityQueues') \subseteq Queued(r.queues)
    BY <1>1, <2>7, <2>8, QueuedArePIDs
  <2> HIDE DEF next
  <2>10. /\ processes' \in [PIDs -> PCB]
         /\ \A p \in PIDs : p # next => processes'[p] = r.procs[p]
         /\ processes'[next].state = "RUNNING"
         /\ processes'[next].waitPid = r.procs[next].waitPid
         /\ processes'[next].priority = r.procs[next].priority
         /\ processes'[next].originalPriority = r.procs[next].originalPriority
    <3>1. r.procs[next] \in PCB
      BY <1>1, <2>4
    <3>2. [r.procs[next] EXCEPT !.state = "RUNNING", !.agingCounter = 0] \in PCB
      BY <3>1 DEF PCB, States
    <3> QED
      BY <1>1, <2>2, <2>4, <3>1, <3>2 DEF PCB
  <2>11. next \in Queued(r.queues)
    BY <1>1, <2>1, <2>4, QueuedArePIDs
  <2>12. ASSUME NEW p \in Queued(r.queues), r.procs[p].state \notin {"BLOCKED", "EXITED"}, p # next
         PROVE  p \in Queued(priorityQueues')
    <3>1. PICK i \in Levels : p \in Range(r.queues[i])
      BY <1>1, QueuedArePIDs
    <3>2. PICK n \in DOMAIN r.queues[i] : r.queues[i][n] = p
      BY <3>1 DEF Range
    <3>3. n \in Runnable(r, i)
      BY <2>12, <3>2 DEF Runnable
    <3>4. i <= top
      BY <2>1, <3>3 DEF levels
    <3>5. CASE i = top
      <4>1. first <= n /\ n # first /\ n \in 1..Len(r.queues[top])
        BY <1>2, <2>3, <2>12, <3>2, <3>3, <3>5 DEF next
      <4>2. n \in (first + 1)..Len(r.queues[top])
        BY <1>2, <2>1, <2>4, <4>1
      <4>3. priorityQueues'[top] = SubSeq(r.queues[top], first + 1, Len(r.queues[top]))
        BY <2>1, <2>6
      <4>4. p \in Range(priorityQueues'[top])
        BY <2>5, <3>2, <3>5, <4>2, <4>3
      <4> QED
        BY <2>1, <2>8, <4>4, QueuedArePIDs
    <3>6. CASE i # top
      <4>1. i < top
        BY <2>1, <3>4, <3>6 DEF Levels
      <4>2. p \in Range(priorityQueues'[i])
        BY <2>6, <3>1, <4>1
      <4> QED
        BY <2>8, <4>2, QueuedArePIDs
    <3> QED
      BY <3>5, <3>6
  <2>13. Types(processes', priorityQueues', currentProcess', quantumsLeft')
    <3>1. quantumsLeft' \in 0..DEFAULT_QUANTUM
      BY <2>2
    <3> QED
      BY <2>2, <2>4, <2>8, <2>10, <3>1 DEF Types
  <2>14. next # NULL
    BY <2>4 DEF PIDs
  <2>15. \A p \in PIDs : /\ processes'[p].state = IF p = next THEN "RUNNING" ELSE r.procs[p].state
                         /\ processes'[p].waitPid = r.procs[p].waitPid
                         /\ Kept(r.procs, processes', p)
    BY <2>10 DEF Kept, Ranked, Boosted
  <2> QED
    BY <2>2, <2>4, <2>9, <2>11, <2>12, <2>13, <2>14, <2>15
<1> QED
  BY <1>3, <1>4

-----------------------------------------------------------------------------
\* What switchContext relies on, and what it leaves behind
Switchable(r) ==
    /\ r \in Kernel /\ QueuedRanked(r)
    /\ currentProcess \in PIDs \cup {NULL} /\ quantumsLeft \in 0..DEFAULT_QUANTUM
    /\ currentProcess # NULL => Ranked(r.procs, currentProcess)
    /\ \A p \in PIDs : r.procs[p].state = "RUNNING" => p = currentProcess

SwitchedProcess(r, p) ==
    /\ processes'[p].state = "EXITED" <=> r.procs[p].state = "EXITED"
    /\ processes'[p].state = "BLOCKED" <=> r.procs[p].state = "BLOCKED"
    /\ processes'[p].waitPid = r.procs[p].waitPid
    /\ Kept(r.procs, processes', p)
    /\ processes'[p].state = "RUNNING" => p = currentProcess'
    /\ processes'[p].state = "READY" =>
         \/ p \in Queued(priorityQueues')
         \/ r.procs[p].state = "READY" /\ p \notin Queued(r.queues)

CanRun(r, p) == \/ r.procs[p].state = "RUNNING"
                \/ r.procs[p].state = "READY" /\ p \in Queued(r.queues)

Switched(r) ==
    /\ Types(processes', priorityQueues', currentProcess', quantumsLeft')
    /\ \A p \in PIDs : SwitchedProcess(r, p)
    /\ \A p \in Queued(priorityQueues') : Ranked(processes', p)
    /\ currentProcess' # NULL => /\ processes'[currentProcess'].state = "RUNNING"
                                 /\ Ranked(processes', currentProcess')
    /\ (\E p \in PIDs : CanRun(r, p)) => currentProcess' # NULL

\* The dispatch of a kernel in which nobody runs is a switch.
LEMMA DispatchSwitches ==
    ASSUME NEW r \in Kernel, QueuedRanked(r), quantumsLeft \in 0..DEFAULT_QUANTUM,
           \A p \in PIDs : r.procs[p].state # "RUNNING", Dispatch(r)
    PROVE  Switched(r)
<1>1. r.queues \in [Levels -> Seq(PIDs)] /\ r.procs \in [PIDs -> PCB]
  BY DEF Kernel
<1>2. Queued(r.queues) \subseteq PIDs
  BY <1>1, QueuedArePIDs
<1>3. /\ Types(processes', priorityQueues', currentProcess', quantumsLeft')
      /\ \A p \in PIDs :
           /\ processes'[p].state = IF p = currentProcess' THEN "RUNNING" ELSE r.procs[p].state
           /\ processes'[p].waitPid = r.procs[p].waitPid
           /\ Kept(r.procs, processes', p)
      /\ Queued(priorityQueues') \subseteq Queued(r.queues)
      /\ currentProcess' # NULL =>
           /\ currentProcess' \in Queued(r.queues)
           /\ r.procs[currentProcess'].state \notin {"BLOCKED", "EXITED"}
      /\ \A p \in Queued(r.queues) :
           r.procs[p].state \notin {"BLOCKED", "EXITED"} =>
              /\ currentProcess' # NULL
              /\ p = currentProcess' \/ p \in Queued(priorityQueues')
  BY DispatchEffect
<1>4. \A p \in PIDs : p # NULL
  BY DEF PIDs
<1>5. ASSUME NEW p \in PIDs PROVE SwitchedProcess(r, p)
  <2>1. CASE p = currentProcess'
    BY <1>3, <1>4, <2>1 DEF SwitchedProcess
  <2>2. CASE p # currentProcess'
    BY <1>3, <2>2 DEF SwitchedProcess
  <2> QED
    BY <2>1, <2>2
<1>6. \A p \in Queued(priorityQueues') : Ranked(processes', p)
  BY <1>2, <1>3 DEF QueuedRanked, Kept
<1>7. currentProcess' # NULL => /\ processes'[currentProcess'].state = "RUNNING"
                               /\ Ranked(processes', currentProcess')
  BY <1>2, <1>3 DEF QueuedRanked, Kept
<1>8. (\E p \in PIDs : CanRun(r, p)) => currentProcess' # NULL
  BY <1>3 DEF CanRun
<1> QED
  BY <1>3, <1>5, <1>6, <1>7, <1>8 DEF Switched

\* The running process put back into its queue is READY and queued.
LEMMA PreemptedEffect ==
    ASSUME NEW r \in Kernel, QueuedRanked(r), NEW c \in PIDs, Ranked(r.procs, c)
    PROVE  /\ Preempted(r, c) \in Kernel /\ QueuedRanked(Preempted(r, c))
           /\ \A p \in PIDs :
                /\ Preempted(r, c).procs[p].state = IF p = c THEN "READY" ELSE r.procs[p].state
                /\ Preempted(r, c).procs[p].waitPid = r.procs[p].waitPid
                /\ Kept(r.procs, Preempted(r, c).procs, p)
           /\ Queued(Preempted(r, c).queues) = Queued(r.queues) \cup {c}
<1> DEFINE P == [r.procs EXCEPT ![c].state = "READY", ![c].priority = r.procs[c].originalPriority]
           s == [r EXCEPT !.procs = P]
<1>1. r.queues \in [Levels -> Seq(PIDs)] /\ r.procs \in [PIDs -> PCB] /\ r.procs[c] \in PCB
  BY DEF Kernel
<1>2. [r.procs[c] EXCEPT !.state = "READY", !.priority = r.procs[c].originalPriority] \in PCB
  BY <1>1 DEF PCB, States
<1>3. /\ P \in [PIDs -> PCB]
      /\ \A p \in PIDs : p # c => P[p] = r.procs[p]
      /\ P[c].state = "READY" /\ P[c].waitPid = r.procs[c].waitPid
      /\ P[c].priority = r.procs[c].originalPriority
      /\ P[c].originalPriority = r.procs[c].originalPriority
  BY <1>1, <1>2 DEF PCB
<1>4. Preempted(r, c) = Schedule(s, c)
  BY <1>1 DEF Preempted, Kernel
<1> HIDE DEF P
<1>5. s \in Kernel /\ s.procs = P /\ s.queues = r.queues
  BY <1>1, <1>3 DEF Kernel
<1>6. \A p \in PIDs : Kept(r.procs, P, p)
  <2> SUFFICES ASSUME NEW p \in PIDs PROVE Kept(r.procs, P, p)
    OBVIOUS
  <2>1. CASE p # c
    BY <1>3, <2>1 DEF Kept, Ranked, Boosted
  <2>2. CASE p = c
    <3>1. r.procs[c].originalPriority \in Nat /\ MAX_AGING_BOOST \in Nat
      BY <1>1, AgingAssumption DEF PCB
    <3> QED
      BY <1>3, <2>2, <3>1 DEF Kept, Ranked, Boosted
  <2> QED
    BY <2>1, <2>2
<1>7. P[c].priority \in Levels
  BY <1>3 DEF Ranked
<1> HIDE DEF s
<1>8. /\ Schedule(s, c) \in Kernel /\ Schedule(s, c).procs = P
      /\ Queued(Schedule(s, c).queues) = Queued(r.queues) \cup {c}
  <2>1. /\ Schedule(s, c) \in Kernel
        /\ Schedule(s, c).procs = s.procs
        /\ Queued(s.queues) \subseteq Queued(Schedule(s, c).queues)
        /\ Queued(Schedule(s, c).queues) \subseteq Queued(s.queues) \cup {c}
        /\ s.procs[c].priority \in Levels => c \in Queued(Schedule(s, c).queues)
    BY <1>5, ScheduleEffect
  <2> QED
    BY <1>5, <1>7, <2>1
<1>9. QueuedRanked(Schedule(s, c))
  <2>1. Queued(r.queues) \subseteq PIDs
    BY <1>1, QueuedArePIDs
  <2> QED
    BY <1>6, <1>8, <2>1 DEF QueuedRanked, Kept
<1> QED
  BY <1>3, <1>4, <1>6, <1>8, <1>9

\* switchContext forgets no process, leaves at most one RUNNING, and finds one to
\* run if any can.
LEMMA SwitchContextEffect ==
    ASSUME NEW r, NEW yielded \in BOOLEAN, Switchable(r), SwitchContext(r, yielded)
    PROVE  Switched(r)
<1>1. /\ r \in Kernel /\ QueuedRanked(r) /\ quantumsLeft \in 0..DEFAULT_QUANTUM
      /\ r.queues \in [Levels -> Seq(PIDs)] /\ r.procs \in [PIDs -> PCB]
      /\ currentProcess # NULL => currentProcess \in PIDs /\ Ranked(r.procs, currentProcess)
      /\ \A p \in PIDs : r.procs[p].state = "RUNNING" => p = currentProcess
      /\ \A p \in PIDs : p # NULL
      /\ Queued(r.queues) \subseteq PIDs
  <2>1. r.queues \in [Levels -> Seq(PIDs)] /\ r.procs \in [PIDs -> PCB]
    BY DEF Switchable, Kernel
  <2> QED
    BY <2>1, QueuedArePIDs DEF Switchable, PIDs
<1>2. CASE currentProcess = NULL
  <2>1. Dispatch(r)
    BY <1>2 DEF SwitchContext
  <2>2. \A p \in PIDs : r.procs[p].state # "RUNNING"
    BY <1>1, <1>2
  <2> QED
    BY <1>1, <2>1, <2>2, DispatchSwitches
<1>3. CASE currentProcess # NULL /\ r.procs[currentProcess].state = "RUNNING"
           /\ quantumsLeft > 0 /\ ~yielded
  <2>1. /\ processes' = r.procs /\ priorityQueues' = r.queues
        /\ quantumsLeft' = quantumsLeft - 1 /\ currentProcess' = currentProcess
    BY <1>3 DEF SwitchContext
  <2>2. Types(processes', priorityQueues', currentProcess', quantumsLeft')
    BY <1>1, <1>3, <2>1 DEF Types
  <2>3. /\ currentProcess' # NULL
        /\ processes'[currentProcess'].state = "RUNNING" /\ Ranked(processes', currentProcess')
        /\ \A p \in Queued(priorityQueues') : Ranked(processes', p)
    BY <1>1, <1>3, <2>1 DEF QueuedRanked
  <2>4. \A p \in PIDs : SwitchedProcess(r, p)
    BY <1>1, <2>1 DEF SwitchedProcess, Kept
  <2> QED
    BY <2>2, <2>3, <2>4 DEF Switched
<1>4. CASE /\ currentProcess # NULL
           /\ ~(r.procs[currentProcess].state = "RUNNING" /\ quantumsLeft > 0 /\ ~yielded)
  <2> DEFINE c == currentProcess
             s == IF r.procs[c].state = "RUNNING" THEN Preempted(r, c) ELSE r
             t == ApplyAging(s)
  <2>1. Dispatch(t)
    BY <1>4 DEF SwitchContext
  <2>2. /\ s \in Kernel /\ QueuedRanked(s)
        /\ \A p \in PIDs :
             /\ s.procs[p].state = IF p = c /\ r.procs[c].state = "RUNNING"
                                   THEN "READY" ELSE r.procs[p].state
             /\ s.procs[p].waitPid = r.procs[p].waitPid
             /\ Kept(r.procs, s.procs, p)
        /\ Queued(s.queues) = IF r.procs[c].state = "RUNNING"
                              THEN Queued(r.queues) \cup {c} ELSE Queued(r.queues)
    <3>1. CASE r.procs[c].state = "RUNNING"
      <4>1. s = Preempted(r, c)
        BY <3>1
      <4> HIDE DEF s
      <4> QED
        BY <1>1, <1>4, <3>1, <4>1, PreemptedEffect
    <3>2. CASE r.procs[c].state # "RUNNING"
      <4>1. s = r
        BY <3>2
      <4> HIDE DEF s
      <4> QED
        BY <1>1, <3>2, <4>1 DEF Kept
    <3> QED
      BY <3>1, <3>2
  <2> HIDE DEF s
  <2>3. t \in Kernel /\ Alike(s, t) /\ Queued(t.queues) = Queued(s.queues) /\ QueuedRanked(t)
    BY <2>2, ApplyAgingEffect
  <2> HIDE DEF t
  <2>4. \A p \in PIDs :
          /\ t.procs[p].state = IF p = c /\ r.procs[c].state = "RUNNING"
                                THEN "READY" ELSE r.procs[p].state
          /\ t.procs[p].waitPid = r.procs[p].waitPid
          /\ Kept(r.procs, t.procs, p)
    BY <2>2, <2>3 DEF Alike, Kept
  <2>5. \A p \in PIDs : t.procs[p].state # "RUNNING"
    BY <1>1, <2>4
  <2>6. Switched(t)
    BY <1>1, <2>1, <2>3, <2>5, DispatchSwitches
  <2>7. ASSUME NEW p \in PIDs PROVE SwitchedProcess(r, p)
    <3>1. SwitchedProcess(t, p)
      BY <2>6 DEF Switched
    <3>2. t.procs[p].state = "READY" /\ p \notin Queued(t.queues)
            => r.procs[p].state = "READY" /\ p \notin Queued(r.queues)
      BY <2>2, <2>3, <2>4
    <3> QED
      BY <2>4, <3>1, <3>2 DEF SwitchedProcess, Kept
  <2>8. ASSUME NEW p \in PIDs, CanRun(r, p) PROVE currentProcess' # NULL
    <3>1. CanRun(t, p)
      BY <1>1, <2>2, <2>3, <2>4, <2>8 DEF CanRun
    <3> QED
      BY <2>6, <3>1 DEF Switched
  <2>9. /\ Types(processes', priorityQueues', currentProcess', quantumsLeft')
        /\ \A p \in Queued(priorityQueues') : Ranked(processes', p)
        /\ currentProcess' # NULL => /\ processes'[currentProcess'].state = "RUNNING"
                                     /\ Ranked(processes', currentProcess')
    BY <2>6 DEF Switched
  <2> QED
    BY <2>7, <2>8, <2>9 DEF Switched
<1> QED
  BY <1>2, <1>3, <1>4

-----------------------------------------------------------------------------
(***************************************************************************)
(* The inductive invariant.  Most of it is about the kernel state r that a *)
(* handler works on, with the frames f and the stranded processes S that   *)
(* go with it: it is carried from one call inside the handler to the next, *)
(* up to its return or its switch.  up says that init was created.  Beyond *)
(* the properties it needs that whoever can come to be queued is Ranked,   *)
(* the PID a wake-up goes to included, and that an exit past its last      *)
(* write to its own state stays EXITED.                                    *)
(***************************************************************************)
Gone == {"exited", "waking", "woken"}

SoundProcess(r, f, S, p) ==
    /\ r.procs[p].state = "READY" => p \in Queued(r.queues) \cup S
    /\ r.procs[p].state = "RUNNING" => p = currentProcess
    /\ r.procs[p].state # "EXITED" => Ranked(r.procs, p)
    /\ f[p] \in Gone => r.procs[p].state = "EXITED"
    /\ f[p] = "waking" => r.procs[p].waitPid \in PIDs
    /\ r.procs[p].waitPid # NONPID => Ranked(r.procs, r.procs[p].waitPid)

Sound(r, f, S, up) ==
    /\ r \in Kernel /\ QueuedRanked(r) /\ f \in [PIDs -> Frames] /\ S \subseteq PIDs
    /\ currentProcess # NULL => currentProcess \in PIDs /\ Ranked(r.procs, currentProcess)
    /\ f[INITPID] = "user"
    /\ up => r.procs[INITPID].state \in {"READY", "RUNNING"}
    /\ \A p \in PIDs : SoundProcess(r, f, S, p)

Owner(procs, c, f) ==
    c # NULL => \/ procs[c].state = "RUNNING"
                \/ procs[c].state = "EXITED" /\ f[c] \in Gone

\* How far main got: init and the shell take the first two slots
BootInv ==
    /\ boot # "queueInit" => INITPID \notin stranded
    /\ boot \in {"init", "queueInit"} => currentProcess = NULL /\ Queued(priorityQueues) = {}
    /\ boot = "done" => currentProcess # NULL
    /\ currentProcess = NULL =>
          /\ boot = "init" => processes[INITPID].state = "EXITED"
          /\ boot \in {"init", "queueInit", "shell"}
               => \A p \in PIDs \ {INITPID} : processes[p].state = "EXITED"
          /\ boot = "queueShell"
               => Ranked(processes, SHELLPID) /\ processes[SHELLPID].state = "READY"

SchedInv ==
    /\ currentProcess \in PIDs \cup {NULL} /\ quantumsLeft \in 0..DEFAULT_QUANTUM
    /\ boot \in BootSteps
    /\ waitTarget \in [PIDs -> PIDs \cup {NONPID}] /\ awaited \in [PIDs -> WaitStates]
    /\ Sound(Now, frame, stranded, boot # "init")
    /\ Owner(processes, currentProcess, frame)
    /\ BootInv

\* A handler that rewrites one PCB keeps the kernel sound if the new PCB is.
LEMMA SoundWrite ==
    ASSUME NEW r, NEW f, NEW S, NEW up \in BOOLEAN, NEW p \in PIDs, NEW pcb \in PCB,
           Sound(r, f, S, up),
           pcb.state = "READY" => p \in Queued(r.queues) \cup S,
           pcb.state = "RUNNING" => p = currentProcess,
           pcb.state # "EXITED" \/ Ranked(r.procs, p)
             => pcb.priority \in Levels /\ pcb.originalPriority \in Levels,
           f[p] \in Gone => pcb.state = "EXITED",
           f[p] = "waking" => pcb.waitPid \in PIDs,
           pcb.waitPid # NONPID => Ranked(r.procs, pcb.waitPid),
           up /\ p = INITPID => pcb.state \in {"READY", "RUNNING"}
    PROVE  Sound([r EXCEPT !.procs[p] = pcb], f, S, up)
<1> DEFINE P == [r.procs EXCEPT ![p] = pcb]
           t == [r EXCEPT !.procs[p] = pcb]
<1>1. r \in Kernel /\ r.queues \in [Levels -> Seq(PIDs)] /\ r.procs \in [PIDs -> PCB]
  BY DEF Sound, Kernel
<1>2. t = [r EXCEPT !.procs = P]
  BY <1>1 DEF Kernel
<1>3. P \in [PIDs -> PCB] /\ P[p] = pcb /\ \A q \in PIDs : q # p => P[q] = r.procs[q]
  BY <1>1
<1> HIDE DEF P, t
<1>4. t \in Kernel /\ t.procs = P /\ t.queues = r.queues
  BY <1>1, <1>2, <1>3 DEF Kernel
<1>5. \A q \in PIDs : Ranked(r.procs, q) => Ranked(t.procs, q)
  BY <1>3, <1>4 DEF Ranked
<1>6. Queued(r.queues) \subseteq PIDs
  BY <1>1, QueuedArePIDs
<1>7. QueuedRanked(t)
  BY <1>4, <1>5, <1>6 DEF QueuedRanked, Sound
<1>8. \A q \in PIDs : P[q].waitPid # NONPID => P[q].waitPid \in PIDs
  <2>1. \A q \in PIDs : P[q] \in PCB
    BY <1>3
  <2> QED
    BY <2>1 DEF PCB
<1>9. ASSUME NEW q \in PIDs PROVE SoundProcess(t, f, S, q)
  <2>1. CASE q = p
    BY <1>3, <1>4, <1>5, <1>8, <2>1 DEF SoundProcess, Ranked
  <2>2. CASE q # p
    <3>1. SoundProcess(r, f, S, q) /\ t.procs[q] = r.procs[q]
      BY <1>3, <1>4, <2>2 DEF Sound
    <3>2. r.procs[q].waitPid # NONPID => r.procs[q].waitPid \in PIDs
      BY <1>3, <1>8, <2>2
    <3> QED
      BY <1>4, <1>5, <3>1, <3>2 DEF SoundProcess
  <2> QED
    BY <2>1, <2>2
<1>10. INITPID \in PIDs
  BY DEF PIDs
<1>11. up => t.procs[INITPID].state \in {"READY", "RUNNING"}
  BY <1>3, <1>4, <1>10 DEF Sound
<1>12. currentProcess # NULL => currentProcess \in PIDs /\ Ranked(t.procs, currentProcess)
  BY <1>5 DEF Sound
<1>13. Sound(t, f, S, up)
  BY <1>4, <1>7, <1>9, <1>11, <1>12 DEF Sound
<1> QED
  BY <1>13 DEF t

\* Moving one process to another point of its code.
LEMMA SoundMove ==
    ASSUME NEW r, NEW f, NEW S, NEW up \in BOOLEAN, NEW p \in PIDs, NEW x \in Frames,
           Sound(r, f, S, up),
           x \in Gone => r.procs[p].state = "EXITED",
           x = "waking" => r.procs[p].waitPid \in PIDs,
           p = INITPID => x = "user"
    PROVE  Sound(r, [f EXCEPT ![p] = x], S, up)
<1> DEFINE g == [f EXCEPT ![p] = x]
<1>1. g \in [PIDs -> Frames] /\ g[p] = x /\ \A q \in PIDs : q # p => g[q] = f[q]
  BY DEF Sound
<1>2. INITPID \in PIDs
  BY DEF PIDs
<1> HIDE DEF g
<1>3. g[INITPID] = "user"
  BY <1>1, <1>2 DEF Sound
<1>4. ASSUME NEW q \in PIDs PROVE SoundProcess(r, g, S, q)
  <2>1. SoundProcess(r, f, S, q)
    BY DEF Sound
  <2> QED
    BY <1>1, <2>1 DEF SoundProcess
<1> QED
  BY <1>1, <1>3, <1>4 DEF Sound, g

\* Processes that are queued or not READY need not be excused.
LEMMA SoundExcuse ==
    ASSUME NEW r, NEW f, NEW S, NEW T, T \subseteq PIDs, NEW up \in BOOLEAN,
           Sound(r, f, S, up),
           \A p \in S \ T : p \in Queued(r.queues) \/ r.procs[p].state # "READY"
    PROVE  Sound(r, f, T, up)
<1>1. ASSUME NEW q \in PIDs PROVE SoundProcess(r, f, T, q)
  <2>1. SoundProcess(r, f, S, q)
    BY DEF Sound
  <2> QED
    BY <2>1 DEF SoundProcess
<1> QED
  BY <1>1 DEF Sound

\* schedule keeps the kernel sound and makes up for a READY process not queued.
LEMMA SoundSchedule ==
    ASSUME NEW r, NEW f, NEW S, NEW up \in BOOLEAN, NEW p \in PIDs,
           Sound(r, f, S, up), Ranked(r.procs, p)
    PROVE  /\ Sound(Schedule(r, p), f, S \ {p}, up)
           /\ Schedule(r, p).procs = r.procs
           /\ p \in Queued(Schedule(r, p).queues)
<1> DEFINE t == Schedule(r, p)
<1>1. r \in Kernel
  BY DEF Sound
<1>2. /\ t \in Kernel /\ t.procs = r.procs
      /\ Queued(r.queues) \subseteq Queued(t.queues)
      /\ Queued(t.queues) \subseteq Queued(r.queues) \cup {p}
      /\ r.procs[p].priority \in Levels => p \in Queued(t.queues)
  BY <1>1, ScheduleEffect
<1> HIDE DEF t
<1>3. p \in Queued(t.queues)
  BY <1>2 DEF Ranked
<1>4. ASSUME NEW q \in PIDs PROVE SoundProcess(t, f, S \ {p}, q)
  <2>1. SoundProcess(r, f, S, q)
    BY DEF Sound
  <2> QED
    BY <1>2, <1>3, <2>1 DEF SoundProcess
<1>5. QueuedRanked(t)
  BY <1>2 DEF QueuedRanked, Sound
<1>6. Sound(t, f, S \ {p}, up)
  BY <1>2, <1>4, <1>5 DEF Sound
<1> QED
  BY <1>2, <1>3, <1>6 DEF t

\* Taking entries of p out of the queues can only leave p itself without one.
LEMMA SoundRemoved ==
    ASSUME NEW r, NEW f, NEW S, NEW up \in BOOLEAN, NEW p \in PIDs, Sound(r, f, S, up),
           NEW t \in Kernel, t.procs = r.procs,
           Queued(t.queues) \subseteq Queued(r.queues),
           Queued(r.queues) \subseteq Queued(t.queues) \cup {p}
    PROVE  Sound(t, f, S \cup {p}, up)
<1>1. ASSUME NEW q \in PIDs PROVE SoundProcess(t, f, S \cup {p}, q)
  <2>1. SoundProcess(r, f, S, q)
    BY DEF Sound
  <2> QED
    BY <2>1 DEF SoundProcess
<1>2. QueuedRanked(t)
  BY DEF QueuedRanked, Sound
<1> QED
  BY <1>1, <1>2 DEF Sound

\* unscheduleProcess can only leave p itself without an entry.
LEMMA SoundUnschedule ==
    ASSUME NEW r, NEW f, NEW S, NEW up \in BOOLEAN, NEW p \in PIDs, Sound(r, f, S, up)
    PROVE  /\ Sound(UnscheduleProcess(r, p), f, S \cup {p}, up)
           /\ UnscheduleProcess(r, p).procs = r.procs
<1>1. r \in Kernel
  BY DEF Sound
<1> QED
  BY <1>1, UnscheduleEffect, SoundRemoved

\* What is left for the end of a handler: its own variables have their types.
Rest ==
    /\ boot \in BootSteps
    /\ waitTarget \in [PIDs -> PIDs \cup {NONPID}]
    /\ awaited \in [PIDs -> WaitStates]

\* A handler that leaves a sound kernel and returns keeps the invariant.
LEMMA SoundReturn ==
    ASSUME NEW r, NEW S, Sound(r, frame', S, boot' # "init"), Return(r), Rest',
           currentProcess \in PIDs \cup {NULL}, quantumsLeft \in 0..DEFAULT_QUANTUM,
           S \ Queued(priorityQueues') \subseteq stranded', stranded' \subseteq S,
           Owner(r.procs, currentProcess, frame'),
           currentProcess # NULL => INITPID \notin S /\ boot' \notin {"init", "queueInit"},
           currentProcess = NULL => BootInv'
    PROVE  SchedInv'
<1>1. /\ processes' = r.procs /\ priorityQueues' = r.queues
      /\ currentProcess' = currentProcess /\ quantumsLeft' = quantumsLeft
  BY DEF Return
<1>2. r \in Kernel
  BY DEF Sound
<1>3. Now' = r
  BY <1>1, <1>2 DEF Now, Kernel
<1>4. Sound(r, frame', stranded', boot' # "init")
  <2>1. \A p \in S \ stranded' : p \in Queued(r.queues)
    BY <1>1
  <2>2. stranded' \subseteq PIDs
    BY DEF Sound
  <2> QED
    BY <2>1, <2>2, SoundExcuse
<1>5. ASSUME NEW p \in PIDs PROVE SoundProcess(Now, frame, stranded, p)'
  <2>1. SoundProcess(r, frame', stranded', p)
    BY <1>4 DEF Sound
  <2> QED
    BY <1>1, <1>3, <2>1 DEF SoundProcess, Ranked
<1>6. Sound(Now, frame, stranded, boot # "init")'
  BY <1>1, <1>3, <1>4, <1>5 DEF Sound, QueuedRanked, Ranked
<1>7. Owner(processes, currentProcess, frame)'
  BY <1>1 DEF Owner
<1>8. BootInv'
  <2>1. CASE currentProcess = NULL
    BY <2>1
  <2>2. CASE currentProcess # NULL
    <3>1. currentProcess' # NULL /\ boot' # "init" /\ boot' # "queueInit" /\ INITPID \notin stranded'
      BY <1>1, <2>2
    <3> QED
      BY <3>1 DEF BootInv
  <2> QED
    BY <2>1, <2>2
<1> QED
  BY <1>1, <1>6, <1>7, <1>8 DEF SchedInv, Rest

\* A handler that leaves a sound kernel and switches keeps the invariant: since
\* init can run, the switch finds a process.
LEMMA SoundSwitch ==
    ASSUME NEW r, NEW S, NEW yielded \in BOOLEAN,
           Sound(r, frame', S, boot' # "init"), SwitchContext(r, yielded), Rest',
           quantumsLeft \in 0..DEFAULT_QUANTUM, currentProcess \in PIDs \cup {NULL},
           INITPID \notin S, S \ Queued(priorityQueues') \subseteq stranded', stranded' \subseteq S,
           boot' \notin {"init", "queueInit"}
    PROVE  SchedInv'
<1>1. Switchable(r)
  BY DEF Switchable, Sound, SoundProcess
<1>2. Switched(r)
  BY <1>1, SwitchContextEffect
<1>3. Types(processes', priorityQueues', currentProcess', quantumsLeft')
  BY <1>2 DEF Switched
<1>4. Now' \in Kernel /\ Now'.procs = processes' /\ Now'.queues = priorityQueues'
  BY <1>3 DEF Now, Kernel, Types
<1>5. INITPID \in PIDs /\ stranded' \subseteq PIDs
  BY DEF PIDs, Sound
<1>6. \A p \in PIDs : r.procs[p].waitPid # NONPID => r.procs[p].waitPid \in PIDs
  <2>1. \A p \in PIDs : r.procs[p] \in PCB
    BY DEF Sound, Kernel
  <2> QED
    BY <2>1 DEF PCB
<1>7. ASSUME NEW p \in PIDs PROVE SoundProcess(Now, frame, stranded, p)'
  <2>1. SoundProcess(r, frame', S, p) /\ SwitchedProcess(r, p)
    BY <1>2 DEF Switched, Sound
  <2>2. processes'[p].state = "READY" => p \in Queued(priorityQueues') \cup stranded'
    BY <2>1 DEF SoundProcess, SwitchedProcess
  <2>3. processes'[p].state # "EXITED" => Ranked(processes', p)
    BY <2>1 DEF SoundProcess, SwitchedProcess, Kept
  <2>4. processes'[p].waitPid # NONPID => Ranked(processes', processes'[p].waitPid)
    <3> SUFFICES ASSUME processes'[p].waitPid # NONPID PROVE Ranked(processes', processes'[p].waitPid)
      OBVIOUS
    <3>1. PICK w \in PIDs : w = processes'[p].waitPid /\ Ranked(r.procs, w)
      BY <1>6, <2>1 DEF SoundProcess, SwitchedProcess
    <3>2. SwitchedProcess(r, w)
      BY <1>2 DEF Switched
    <3> QED
      BY <3>1, <3>2 DEF SwitchedProcess, Kept
  <2>5. /\ processes'[p].state = "RUNNING" => p = currentProcess'
        /\ frame'[p] \in Gone => processes'[p].state = "EXITED"
        /\ frame'[p] = "waking" => processes'[p].waitPid \in PIDs
    BY <2>1 DEF SoundProcess, SwitchedProcess
  <2> QED
    BY <1>4, <2>2, <2>3, <2>4, <2>5 DEF SoundProcess, Ranked
<1>8. boot' # "init" => processes'[INITPID].state \in {"READY", "RUNNING"}
  <2>1. SwitchedProcess(r, INITPID)
    BY <1>2, <1>5 DEF Switched
  <2>2. processes'[INITPID].state \in States
    BY <1>3, <1>5 DEF Types, PCB
  <2> QED
    BY <2>1, <2>2 DEF SwitchedProcess, Sound, States
<1>9. Sound(Now, frame, stranded, boot # "init")'
  <2>1. \A p \in Queued(priorityQueues') : Ranked(processes', p)
    BY <1>2 DEF Switched
  <2>2. currentProcess' # NULL => currentProcess' \in PIDs /\ Ranked(processes', currentProcess')
    BY <1>2, <1>3 DEF Switched, Types
  <2>3. frame' \in [PIDs -> Frames] /\ frame'[INITPID] = "user"
    BY DEF Sound
  <2> QED
    BY <1>4, <1>5, <1>7, <1>8, <2>1, <2>2, <2>3 DEF Sound, QueuedRanked, Ranked
<1>10. Owner(processes, currentProcess, frame)'
  BY <1>2 DEF Owner, Switched
<1>11. BootInv'
  <2>1. CanRun(r, INITPID)
    BY <1>5 DEF CanRun, Sound, SoundProcess
  <2>2. currentProcess' # NULL
    BY <1>2, <1>5, <2>1 DEF Switched
  <2> QED
    BY <2>2 DEF BootInv
<1> QED
  BY <1>3, <1>9, <1>10, <1>11 DEF SchedInv, Rest, Types

-----------------------------------------------------------------------------
\* unblockProcess keeps the kernel sound and changes a BLOCKED process at most.
LEMMA SoundUnblock ==
    ASSUME NEW r, NEW f, NEW S, NEW up \in BOOLEAN, NEW w \in PIDs \cup {NONPID},
           Sound(r, f, S, up)
    PROVE  /\ Sound(UnblockProcess(r, w), f, S, up)
           /\ \A p \in PIDs : r.procs[p].state # "BLOCKED"
                                => UnblockProcess(r, w).procs[p] = r.procs[p]
           /\ \A p \in PIDs :
                /\ UnblockProcess(r, w).procs[p].state =
                     IF p = w /\ r.procs[p].state = "BLOCKED" THEN "READY" ELSE r.procs[p].state
                /\ UnblockProcess(r, w).procs[p].waitPid = r.procs[p].waitPid
                /\ Kept(r.procs, UnblockProcess(r, w).procs, p)
<1>1. CASE w \in PIDs /\ r.procs[w].state = "BLOCKED"
  <2> DEFINE pcb == [r.procs[w] EXCEPT !.state = "READY"]
             t   == [r EXCEPT !.procs[w] = pcb]
  <2>1. r \in Kernel /\ r.procs \in [PIDs -> PCB] /\ r.procs[w] \in PCB
    BY <1>1 DEF Sound, Kernel
  <2>2. pcb \in PCB
    BY <2>1 DEF PCB, States
  <2>3. UnblockProcess(r, w) = Schedule(t, w)
    BY <1>1, <2>1 DEF UnblockProcess, Kernel
  <2>4. t.procs[w] = pcb /\ \A p \in PIDs : p # w => t.procs[p] = r.procs[p]
    BY <1>1, <2>1 DEF Kernel
  <2>5. /\ pcb.state = "READY" /\ pcb.waitPid = r.procs[w].waitPid
        /\ pcb.priority = r.procs[w].priority
        /\ pcb.originalPriority = r.procs[w].originalPriority
    BY <2>1 DEF PCB
  <2>6. S \cup {w} \subseteq PIDs /\ SoundProcess(r, f, S, w) /\ Ranked(r.procs, w)
    BY <1>1 DEF Sound, SoundProcess
  <2>7. Sound(r, f, S \cup {w}, up)
    BY <2>6, SoundExcuse
  <2> HIDE DEF pcb, t
  <2>8. Sound(t, f, S \cup {w}, up)
    <3>1. /\ pcb.state = "READY" => w \in Queued(r.queues) \cup (S \cup {w})
          /\ pcb.state = "RUNNING" => w = currentProcess
          /\ pcb.priority \in Levels /\ pcb.originalPriority \in Levels
          /\ f[w] \in Gone => pcb.state = "EXITED"
          /\ f[w] = "waking" => pcb.waitPid \in PIDs
          /\ pcb.waitPid # NONPID => Ranked(r.procs, pcb.waitPid)
          /\ up /\ w = INITPID => pcb.state \in {"READY", "RUNNING"}
      BY <1>1, <2>5, <2>6 DEF SoundProcess, Ranked
    <3>2. Sound([r EXCEPT !.procs[w] = pcb], f, S \cup {w}, up)
      BY <1>1, <2>2, <2>7, <3>1, SoundWrite
    <3> QED
      BY <3>2 DEF t
  <2>9. Ranked(t.procs, w)
    BY <2>4, <2>5, <2>6 DEF Ranked
  <2>10. /\ Sound(Schedule(t, w), f, (S \cup {w}) \ {w}, up)
         /\ Schedule(t, w).procs = t.procs /\ w \in Queued(Schedule(t, w).queues)
    BY <1>1, <2>8, <2>9, SoundSchedule
  <2>11. Sound(Schedule(t, w), f, S, up)
    <3>1. S \subseteq PIDs /\ (S \cup {w}) \ {w} \subseteq S
      BY <2>6
    <3> QED
      BY <2>10, <3>1, SoundExcuse
  <2>12. \A p \in PIDs : r.procs[p].state # "BLOCKED" => Schedule(t, w).procs[p] = r.procs[p]
    BY <1>1, <2>4, <2>10
  <2>13. \A p \in PIDs :
           /\ Schedule(t, w).procs[p].state =
                IF p = w /\ r.procs[p].state = "BLOCKED" THEN "READY" ELSE r.procs[p].state
           /\ Schedule(t, w).procs[p].waitPid = r.procs[p].waitPid
           /\ Kept(r.procs, Schedule(t, w).procs, p)
    BY <1>1, <2>4, <2>5, <2>10 DEF Kept, Ranked, Boosted
  <2> QED
    BY <2>3, <2>11, <2>12, <2>13
<1>2. CASE ~ (w \in PIDs /\ r.procs[w].state = "BLOCKED")
  BY <1>2 DEF UnblockProcess, Kept
<1> QED
  BY <1>1, <1>2

\* The table old becomes new when p ends: its waiter, if it is BLOCKED, is READY,
\* and no other process is touched.
KilledTable(old, new, p) ==
    \A q \in PIDs :
       /\ new[q].state = IF q = p THEN "EXITED"
                         ELSE IF q = old[p].waitPid /\ old[q].state = "BLOCKED" THEN "READY"
                         ELSE old[q].state
       /\ new[q].waitPid = IF q = p THEN NONPID ELSE old[q].waitPid
       /\ Kept(old, new, q)

\* kill, up to its switch, keeps the kernel sound.
LEMMA SoundKilled ==
    ASSUME NEW r, NEW f, NEW S, NEW up \in BOOLEAN, NEW p \in PIDs,
           Sound(r, f, S, up), p # INITPID, f[p] = "user", NEW t, t = Killed(r, p)
    PROVE  Sound(t, f, S, up) /\ KilledTable(r.procs, t.procs, p)
<1> DEFINE u    == UnscheduleProcess(r, p)
           pcb  == [u.procs[p] EXCEPT !.stack = FALSE, !.state = "EXITED"]
           gone == [u EXCEPT !.procs[p] = pcb]
           w    == gone.procs[p].waitPid
           b    == UnblockProcess(gone, w)
           last == [b.procs[p] EXCEPT !.waitPid = NONPID]
           k    == [b EXCEPT !.procs[p] = last]
<1>1. Sound(u, f, S \cup {p}, up) /\ u.procs = r.procs
  BY SoundUnschedule
<1> HIDE DEF u
<1>2. u \in Kernel /\ u.procs \in [PIDs -> PCB] /\ u.procs[p] \in PCB
      /\ SoundProcess(u, f, S \cup {p}, p) /\ S \subseteq PIDs
  BY <1>1 DEF Sound, Kernel
<1>3. /\ pcb \in PCB /\ pcb.state = "EXITED" /\ pcb.waitPid = u.procs[p].waitPid
      /\ pcb.priority = u.procs[p].priority /\ pcb.originalPriority = u.procs[p].originalPriority
  BY <1>2 DEF PCB, States
<1>4. gone.procs[p] = pcb /\ \A q \in PIDs : q # p => gone.procs[q] = u.procs[q]
  BY <1>2 DEF Kernel
<1>5. [u EXCEPT !.procs[p].stack = FALSE, !.procs[p].state = "EXITED"] = gone
  BY <1>2 DEF Kernel, PCB
<1> HIDE DEF pcb
<1>6. Sound(gone, f, S, up)
  <2>1. Sound(gone, f, S \cup {p}, up)
    <3>1. Gone \cap {"user"} = {}
      BY DEF Gone
    <3>2. /\ pcb.state # "EXITED" \/ Ranked(u.procs, p)
               => pcb.priority \in Levels /\ pcb.originalPriority \in Levels
          /\ f[p] = "waking" => pcb.waitPid \in PIDs
          /\ pcb.waitPid # NONPID => Ranked(u.procs, pcb.waitPid)
      BY <1>2, <1>3 DEF SoundProcess, Ranked
    <3> QED
      BY <1>1, <1>3, <3>1, <3>2, SoundWrite
  <2> HIDE DEF gone
  <2> QED
    BY <1>2, <1>3, <1>4, <2>1, SoundExcuse
<1> HIDE DEF gone
<1>7. w \in PIDs \cup {NONPID}
  BY <1>3, <1>4 DEF PCB
<1> HIDE DEF w
<1>8. /\ Sound(b, f, S, up)
      /\ \A q \in PIDs : gone.procs[q].state # "BLOCKED" => b.procs[q] = gone.procs[q]
      /\ \A q \in PIDs :
           /\ b.procs[q].state = IF q = w /\ gone.procs[q].state = "BLOCKED"
                                 THEN "READY" ELSE gone.procs[q].state
           /\ b.procs[q].waitPid = gone.procs[q].waitPid
           /\ Kept(gone.procs, b.procs, q)
  BY <1>6, <1>7, SoundUnblock
<1> HIDE DEF b
<1>9. b \in Kernel /\ b.procs \in [PIDs -> PCB] /\ b.procs[p] \in PCB /\ SoundProcess(b, f, S, p)
  BY <1>8 DEF Sound, Kernel
<1>10. /\ last \in PCB /\ last.state = b.procs[p].state /\ last.waitPid = NONPID
       /\ last.priority = b.procs[p].priority /\ last.originalPriority = b.procs[p].originalPriority
  BY <1>9 DEF PCB
<1>11. k.procs[p] = last /\ \A q \in PIDs : q # p => k.procs[q] = b.procs[q]
  BY <1>9 DEF Kernel
<1>12. Killed(r, p) = k
  <2>1. [b EXCEPT !.procs[p].waitPid = NONPID] = k
    BY <1>9 DEF Kernel
  <2>2. [UnscheduleProcess(r, p) EXCEPT !.procs[p].stack = FALSE, !.procs[p].state = "EXITED"] = gone
    BY <1>5 DEF u
  <2>3. UnblockProcess(gone, gone.procs[p].waitPid) = b
    BY DEF b, w
  <2>4. Killed(r, p) = [UnblockProcess(gone, gone.procs[p].waitPid) EXCEPT !.procs[p].waitPid = NONPID]
    BY <2>2, Zenon DEF Killed
  <2> HIDE DEF k
  <2> QED
    BY <2>1, <2>3, <2>4
<1> HIDE DEF last
<1>13. Sound(k, f, S, up)
  <2>1. /\ last.state = "READY" => p \in Queued(b.queues) \cup S
        /\ last.state = "RUNNING" => p = currentProcess
        /\ last.state # "EXITED" \/ Ranked(b.procs, p)
             => last.priority \in Levels /\ last.originalPriority \in Levels
        /\ f[p] \in Gone => last.state = "EXITED"
        /\ f[p] = "waking" => last.waitPid \in PIDs
        /\ last.waitPid # NONPID => Ranked(b.procs, last.waitPid)
        /\ up /\ p = INITPID => last.state \in {"READY", "RUNNING"}
    BY <1>9, <1>10 DEF SoundProcess, Ranked
  <2> QED
    BY <1>8, <1>10, <2>1, SoundWrite
<1> HIDE DEF k
<1>14. ASSUME NEW q \in PIDs
       PROVE  /\ k.procs[q].state =
                   IF q = p THEN "EXITED"
                   ELSE IF q = r.procs[p].waitPid /\ r.procs[q].state = "BLOCKED" THEN "READY"
                   ELSE r.procs[q].state
              /\ k.procs[q].waitPid = IF q = p THEN NONPID ELSE r.procs[q].waitPid
              /\ Kept(r.procs, k.procs, q)
  <2>1. w = r.procs[p].waitPid
    BY <1>1, <1>3, <1>4 DEF w
  <2>2. CASE q = p
    BY <1>1, <1>3, <1>4, <1>8, <1>10, <1>11, <2>2 DEF Kept, Ranked, Boosted
  <2>3. CASE q # p
    BY <1>1, <1>4, <1>8, <1>11, <2>1, <2>3 DEF Kept, Ranked, Boosted
  <2> QED
    BY <2>2, <2>3
<1> QED
  BY <1>12, <1>13, <1>14 DEF KilledTable

-----------------------------------------------------------------------------
\* The facts every action starts from.
LEMMA Facts ==
    ASSUME SchedInv
    PROVE  /\ Sound(Now, frame, stranded, boot # "init")
           /\ Now \in Kernel /\ Now.procs = processes /\ Now.queues = priorityQueues
           /\ processes \in [PIDs -> PCB] /\ frame \in [PIDs -> Frames] /\ stranded \subseteq PIDs
           /\ INITPID \in PIDs /\ frame[INITPID] = "user"
           /\ boot # "queueInit" => INITPID \notin stranded
           /\ \A p \in PIDs : SoundProcess(Now, frame, stranded, p)
           /\ currentProcess \in PIDs \cup {NULL} /\ quantumsLeft \in 0..DEFAULT_QUANTUM
           /\ currentProcess # NULL =>
                /\ currentProcess \in PIDs /\ boot # "init" /\ boot # "queueInit"
                /\ INITPID \notin stranded
                /\ processes[INITPID].state \in {"READY", "RUNNING"}
                /\ frame[currentProcess] \notin Gone => processes[currentProcess].state = "RUNNING"
                /\ frame[currentProcess] \in Gone => processes[currentProcess].state = "EXITED"
           /\ \A p \in PIDs : p # NULL
<1>1. Now \in Kernel /\ Now.procs = processes /\ Now.queues = priorityQueues
  BY DEF SchedInv, Sound, Now
<1>2. processes \in [PIDs -> PCB]
  BY <1>1 DEF Kernel
<1>3. INITPID \in PIDs /\ \A p \in PIDs : p # NULL
  BY DEF PIDs
<1>4. /\ Sound(Now, frame, stranded, boot # "init")
      /\ frame \in [PIDs -> Frames] /\ stranded \subseteq PIDs
      /\ frame[INITPID] = "user" /\ (boot # "queueInit" => INITPID \notin stranded)
      /\ \A p \in PIDs : SoundProcess(Now, frame, stranded, p)
      /\ currentProcess \in PIDs \cup {NULL} /\ quantumsLeft \in 0..DEFAULT_QUANTUM
  BY DEF SchedInv, Sound, BootInv
<1>5. currentProcess # NULL => /\ boot # "init" /\ boot # "queueInit" /\ INITPID \notin stranded
                               /\ processes[INITPID].state \in {"READY", "RUNNING"}
  BY <1>1 DEF SchedInv, Sound, BootInv
<1>6. currentProcess # NULL =>
        /\ frame[currentProcess] \notin Gone => processes[currentProcess].state = "RUNNING"
        /\ frame[currentProcess] \in Gone => processes[currentProcess].state = "EXITED"
  BY <1>1, <1>4 DEF SchedInv, Owner, SoundProcess
<1> QED
  BY <1>1, <1>2, <1>3, <1>4, <1>5, <1>6

\* The points of unscheduleProcess's loop are before the writes that end a process.
LEMMA UnschedulePointsAre ==
    ASSUME NEW i \in Levels
    PROVE  /\ UnschedulePoints[i] \in Frames \ Gone
           /\ UnschedulePoints[i] \notin {"user", "wait"}
           /\ i # MAX_PRIORITY => UnschedulePoints[i + 1] \in Frames \ Gone
           /\ i # MAX_PRIORITY => UnschedulePoints[i + 1] \notin {"user", "wait"}
           /\ "unscheduled" \in Frames \ Gone
<1>1. ASSUME NEW j \in 1..5
      PROVE  /\ UnschedulePoints[j] \in {"returned", "cleared1", "cleared2", "cleared3", "cleared4"}
             /\ UnschedulePoints[j] \in Range(UnschedulePoints)
  <2>1. DOMAIN UnschedulePoints = 1..5
    BY DEF UnschedulePoints
  <2>2. UnschedulePoints[j] \in Range(UnschedulePoints)
    BY <2>1 DEF Range
  <2>3. UnschedulePoints[j] \in {"returned", "cleared1", "cleared2", "cleared3", "cleared4"}
    BY DEF UnschedulePoints
  <2> QED
    BY <2>2, <2>3
<1>2. i \in 1..5 /\ (i # MAX_PRIORITY => i + 1 \in 1..5)
  BY PriorityAssumption DEF Levels
<1>3. UnschedulePoints[i] \in Frames \ Gone /\ UnschedulePoints[i] \notin {"user", "wait"}
  BY <1>1, <1>2 DEF Frames, ExitFrames, Gone
<1>4. i # MAX_PRIORITY => /\ UnschedulePoints[i + 1] \in Frames \ Gone
                         /\ UnschedulePoints[i + 1] \notin {"user", "wait"}
  BY <1>1, <1>2 DEF Frames, ExitFrames, Gone
<1>5. "unscheduled" \in Frames \ Gone
  BY DEF Frames, ExitFrames, Gone
<1> QED
  BY <1>3, <1>4, <1>5

\* After initProcesses and initScheduler every slot is EXITED and every queue empty.
LEMMA InitSchedInv == Init => SchedInv
<1> SUFFICES ASSUME Init PROVE SchedInv
  OBVIOUS
<1>1. /\ processes = [p \in PIDs |->
                      [state |-> "EXITED", priority |-> 0, originalPriority |-> 0,
                       agingCounter |-> 0, foreground |-> FALSE, stack |-> FALSE,
                       waitPid |-> NONPID, waitReturnValue |-> 0]]
      /\ priorityQueues = [i \in Levels |-> << >>] /\ currentProcess = NULL
      /\ frame = [p \in PIDs |-> "user"] /\ boot = "init" /\ stranded = {}
  BY DEF Init
<1>2. processes \in [PIDs -> PCB]
  <2>1. [state |-> "EXITED", priority |-> 0, originalPriority |-> 0,
         agingCounter |-> 0, foreground |-> FALSE, stack |-> FALSE,
         waitPid |-> NONPID, waitReturnValue |-> 0] \in PCB
    BY DEF PCB, States
  <2> QED
    BY <1>1, <2>1
<1>3. priorityQueues \in [Levels -> Seq(PIDs)]
  BY <1>1
<1>4. Now \in Kernel /\ Now.procs = processes /\ Now.queues = priorityQueues
  BY <1>2, <1>3 DEF Now, Kernel
<1>5. Queued(priorityQueues) = {}
  <2>1. \A i \in Levels : Range(priorityQueues[i]) = {}
    BY <1>1 DEF Range
  <2> QED
    BY <1>3, <2>1, QueuedArePIDs
<1>6. \A p \in PIDs : processes[p].state = "EXITED" /\ processes[p].waitPid = NONPID /\ frame[p] = "user"
  BY <1>1
<1>7. \A p \in PIDs : SoundProcess(Now, frame, stranded, p)
  BY <1>4, <1>6 DEF SoundProcess, Gone
<1>8. frame \in [PIDs -> Frames] /\ frame[INITPID] = "user"
  BY <1>1 DEF Frames, PIDs
<1>9. Sound(Now, frame, stranded, boot # "init")
  BY <1>1, <1>4, <1>5, <1>7, <1>8 DEF Sound, QueuedRanked
<1>10. /\ quantumsLeft \in 0..DEFAULT_QUANTUM /\ awaited \in [PIDs -> WaitStates]
       /\ waitTarget \in [PIDs -> PIDs \cup {NONPID}]
  BY DEF Init, WaitStates
<1>11. BootInv
  BY <1>1, <1>5, <1>6 DEF BootInv, PIDs
<1> QED
  BY <1>1, <1>9, <1>10, <1>11 DEF SchedInv, Owner, BootSteps

\* Until main has queued init a tick finds nobody to dispatch.
LEMMA EarlyTick ==
    ASSUME SchedInv, TimerTick, boot \in {"init", "queueInit"}
    PROVE  UNCHANGED vars
<1>1. /\ currentProcess = NULL /\ Queued(priorityQueues) = {}
      /\ priorityQueues \in [Levels -> Seq(PIDs)]
      /\ Now.procs = processes /\ Now.queues = priorityQueues
  BY Facts DEF SchedInv, BootInv, Kernel
<1>2. \A i \in Levels : priorityQueues[i] = << >>
  <2>1. SUFFICES ASSUME NEW i \in Levels PROVE priorityQueues[i] = << >>
    OBVIOUS
  <2>2. PICK q \in Seq(PIDs) : q = priorityQueues[i]
    BY <1>1
  <2>3. Range(q) = {}
    BY <1>1, <2>2 DEF Queued
  <2>4. Len(q) = 0
    <3>1. Len(q) # 0 => 1 \in DOMAIN q
      BY <2>2
    <3> QED
      BY <2>3, <3>1 DEF Range
  <2> QED
    BY <2>2, <2>4
<1>3. \A i \in Levels : Runnable(Now, i) = {}
  BY <1>1, <1>2 DEF Runnable
<1>4. Dispatch(Now)
  BY <1>1 DEF TimerTick, SwitchContext
<1>5. {i \in Levels : Runnable(Now, i) # {}} = {}
  BY <1>3
<1>6. /\ currentProcess' = NULL /\ priorityQueues' = [i \in Levels |-> << >>]
      /\ processes' = Now.procs /\ quantumsLeft' = quantumsLeft
  BY <1>4, <1>5 DEF Dispatch
<1>7. priorityQueues' = priorityQueues
  BY <1>1, <1>2, <1>6
<1> QED
  BY <1>1, <1>6, <1>7 DEF TimerTick, vars

\* A step that changes nothing keeps the invariant.
LEMMA StutterKeeps == ASSUME SchedInv, UNCHANGED vars PROVE SchedInv'
<1>1. Now' = Now /\ processes' = processes /\ currentProcess' = currentProcess /\ frame' = frame
      /\ stranded' = stranded /\ boot' = boot /\ priorityQueues' = priorityQueues
  BY DEF vars, Now
<1>2. Sound(Now, frame, stranded, boot # "init")'
  <2>1. \A p \in PIDs : SoundProcess(Now, frame, stranded, p)'
    BY <1>1, Facts DEF SoundProcess, Ranked
  <2> QED
    BY <1>1, <2>1, Facts DEF Sound, QueuedRanked, Ranked
<1>3. Owner(processes, currentProcess, frame)'
  BY <1>1 DEF SchedInv, Owner
<1>4. BootInv'
  BY <1>1 DEF SchedInv, BootInv, Ranked, Queued
<1> QED
  BY <1>2, <1>3, <1>4 DEF vars, SchedInv

\* The timer only switches, to init at least once main has queued it.
LEMMA TimerTickKeeps == ASSUME SchedInv, TimerTick PROVE SchedInv'
<1>0. CASE boot \in {"init", "queueInit"}
  BY <1>0, EarlyTick, StutterKeeps
<1> SUFFICES ASSUME boot \notin {"init", "queueInit"} PROVE SchedInv'
  BY <1>0
<1>1. SwitchContext(Now, FALSE)
  BY DEF TimerTick
<1>2. frame' = frame /\ stranded' = stranded /\ boot' = boot /\ Rest'
  BY DEF TimerTick, SchedInv, Rest
<1>3. Sound(Now, frame', stranded', boot' # "init")
  BY <1>2, Facts
<1> QED
  BY <1>1, <1>2, <1>3, Facts, SoundSwitch

\* The switch at the end of main finds init or the shell.
LEMMA BootSwitchKeeps == ASSUME SchedInv, BootSwitch PROVE SchedInv'
<1>1. SwitchContext(Now, FALSE)
  BY DEF BootSwitch, BootAt
<1>2. frame' = frame /\ stranded' = stranded /\ boot = "start" /\ boot' = "done" /\ Rest'
  BY DEF BootSwitch, BootAt, SchedInv, Rest, BootSteps
<1>3. Sound(Now, frame', stranded', boot' # "init")
  BY <1>2, Facts
<1> QED
  BY <1>1, <1>2, <1>3, Facts, SoundSwitch

\* yield only switches.
LEMMA YieldKeeps == ASSUME SchedInv, Yield PROVE SchedInv'
<1>1. SwitchContext(Now, TRUE)
  BY DEF Yield
<1>2. frame' = frame /\ stranded' = stranded /\ boot' = boot /\ Rest' /\ currentProcess # NULL
  BY DEF Yield, SchedInv, Rest, Calling
<1>3. Sound(Now, frame', stranded', boot' # "init") /\ boot' # "init"
  BY <1>2, Facts
<1> QED
  BY <1>1, <1>2, <1>3, Facts, SoundSwitch

\* The switch at the end of an exit leaves the EXITED process behind.
LEMMA ExitSwitchKeeps == ASSUME SchedInv, ExitSwitch PROVE SchedInv'
<1>1. SwitchContext(Now, FALSE)
  BY DEF ExitSwitch
<1>2. frame' = frame /\ stranded' = stranded /\ boot' = boot /\ Rest' /\ currentProcess # NULL
  BY DEF ExitSwitch, SchedInv, Rest, At
<1>3. Sound(Now, frame', stranded', boot' # "init") /\ boot' # "init"
  BY <1>2, Facts
<1> QED
  BY <1>1, <1>2, <1>3, Facts, SoundSwitch

\* waitProcess coming back leaves the kernel and uses up a quantum.
LEMMA WaitReturnKeeps == ASSUME SchedInv, WaitReturn PROVE SchedInv'
<1>1. SwitchContext(Now, FALSE) /\ currentProcess # NULL /\ frame[currentProcess] = "wait"
  BY DEF WaitReturn
<1>2. /\ frame' = [frame EXCEPT ![currentProcess] = "user"]
      /\ stranded' = stranded /\ boot' = boot
  BY DEF WaitReturn, InOwnCode
<1>3. Rest'
  BY DEF WaitReturn, InOwnCode, SchedInv, Rest, WaitStates
<1>4. Sound(Now, frame', stranded', boot' # "init") /\ boot' # "init"
  <2>1. "user" \in Frames /\ "user" \notin Gone
    BY DEF Frames, Gone
  <2>2. Sound(Now, [frame EXCEPT ![currentProcess] = "user"], stranded, boot # "init")
    BY <1>1, <2>1, Facts, SoundMove
  <2> QED
    BY <1>1, <1>2, <2>2, Facts
<1> QED
  BY <1>1, <1>2, <1>3, <1>4, Facts, SoundSwitch

\* What the kernel r that a handler made of the table and the queues has in
\* common with them: the priorities are as good as before.
KeptAll(r) == \A q \in PIDs : Kept(processes, r.procs, q)

\* What blockProcess makes of the kernel r
BlockedIn(r, p) == [r EXCEPT !.procs[p].state = "BLOCKED"]

\* blockProcess, up to its switch: one state changes, nothing else.
LEMMA SoundBlocked ==
    ASSUME SchedInv, NEW p \in PIDs, p # INITPID, processes[p].state # "EXITED",
           NEW r, r = BlockedIn(Now, p)
    PROVE  /\ Sound(r, frame, stranded, boot # "init") /\ KeptAll(r)
           /\ \A q \in PIDs :
                /\ r.procs[q].state = IF q = p THEN "BLOCKED" ELSE processes[q].state
                /\ r.procs[q].waitPid = processes[q].waitPid
<1> DEFINE pcb == [processes[p] EXCEPT !.state = "BLOCKED"]
<1>1. /\ pcb \in PCB /\ pcb.state = "BLOCKED" /\ pcb.waitPid = processes[p].waitPid
      /\ pcb.priority = processes[p].priority /\ pcb.originalPriority = processes[p].originalPriority
  <2>1. processes[p] \in PCB
    BY Facts
  <2> QED
    BY <2>1 DEF PCB, States
<1>2. r = [Now EXCEPT !.procs[p] = pcb]
  BY Facts DEF Kernel, BlockedIn
<1>3. r.procs[p] = pcb /\ \A q \in PIDs : q # p => r.procs[q] = processes[q]
  BY <1>2, Facts DEF Kernel
<1> HIDE DEF pcb
<1>4. Sound([Now EXCEPT !.procs[p] = pcb], frame, stranded, boot # "init")
  <2>1. SoundProcess(Now, frame, stranded, p) /\ Now.procs = processes
    BY Facts
  <2>2. /\ pcb.priority \in Levels /\ pcb.originalPriority \in Levels
        /\ frame[p] \in Gone => pcb.state = "EXITED"
        /\ frame[p] = "waking" => pcb.waitPid \in PIDs
        /\ pcb.waitPid # NONPID => Ranked(Now.procs, pcb.waitPid)
    BY <1>1, <2>1 DEF SoundProcess, Ranked
  <2> QED
    BY <1>1, <2>2, Facts, SoundWrite
<1>5. KeptAll(r)
  BY <1>1, <1>3 DEF KeptAll, Kept, Ranked, Boosted
<1> QED
  BY <1>1, <1>2, <1>3, <1>4, <1>5

\* blockProcess: a process that blocks itself gives up the CPU at once.
LEMMA BlockKeeps == ASSUME SchedInv, Block PROVE SchedInv'
<1>1. PICK p \in PIDs :
        /\ p # INITPID /\ processes[p].state # "EXITED"
        /\ IF p = currentProcess THEN SwitchContext(BlockedIn(Now, p), TRUE)
                                 ELSE Return(BlockedIn(Now, p))
  BY DEF Block, BlockedIn
<1>2. /\ frame' = frame /\ stranded' = stranded /\ boot' = boot /\ Rest'
      /\ currentProcess # NULL /\ frame[currentProcess] \notin Gone /\ boot' # "init"
  BY Facts DEF Block, SchedInv, Rest, Calling, Gone
<1> DEFINE r == BlockedIn(Now, p)
<1>3. /\ Sound(r, frame, stranded, boot # "init")
      /\ \A q \in PIDs : r.procs[q].state = IF q = p THEN "BLOCKED" ELSE processes[q].state
  BY <1>1, SoundBlocked
<1> HIDE DEF r
<1>4. Sound(r, frame', stranded', boot' # "init")
  BY <1>2, <1>3
<1>5. CASE p = currentProcess
  BY <1>1, <1>2, <1>4, <1>5, Facts, SoundSwitch DEF r
<1>6. CASE p # currentProcess
  <2>1. Owner(r.procs, currentProcess, frame')
    BY <1>2, <1>3, <1>6, Facts DEF Owner
  <2> QED
    BY <1>1, <1>2, <1>4, <1>6, <2>1, Facts, SoundReturn DEF r
<1> QED
  BY <1>5, <1>6

\* changeProccessPriority: the queues stay as they are, and so does who is in them.
LEMMA SoundReprioritized ==
    ASSUME SchedInv, NEW p \in PIDs, NEW prio \in Priorities, processes[p].state # "EXITED",
           boot # "init", NEW r, r = Reprioritized(Now, p, prio)
    PROVE  /\ Sound(r, frame, stranded, boot # "init") /\ KeptAll(r)
           /\ \A q \in PIDs : /\ r.procs[q].state = processes[q].state
                              /\ r.procs[q].waitPid = processes[q].waitPid
<1> DEFINE pcb == [processes[p] EXCEPT !.priority = prio, !.originalPriority = prio,
                                       !.agingCounter = 0]
<1>1. prio \in Levels /\ prio \in 0..MAX_PRIORITY
  BY InputsAssumption DEF Levels
<1>2. /\ pcb \in PCB /\ pcb.state = processes[p].state /\ pcb.waitPid = processes[p].waitPid
      /\ pcb.priority = prio /\ pcb.originalPriority = prio
  <2>1. processes[p] \in PCB
    BY Facts
  <2> QED
    BY <1>1, <2>1 DEF PCB
<1>3. r = [Now EXCEPT !.procs[p] = pcb]
  BY Facts DEF Reprioritized, Kernel
<1>4. r.procs[p] = pcb /\ \A q \in PIDs : q # p => r.procs[q] = processes[q]
  BY <1>3, Facts DEF Kernel
<1> HIDE DEF pcb
<1>5. Sound([Now EXCEPT !.procs[p] = pcb], frame, stranded, boot # "init")
  <2>1. SoundProcess(Now, frame, stranded, p) /\ Now.procs = processes /\ Now.queues = priorityQueues
    BY Facts
  <2>2. /\ pcb.state = "READY" => p \in Queued(Now.queues) \cup stranded
        /\ pcb.state = "RUNNING" => p = currentProcess
        /\ frame[p] \in Gone => pcb.state = "EXITED"
        /\ frame[p] = "waking" => pcb.waitPid \in PIDs
        /\ pcb.waitPid # NONPID => Ranked(Now.procs, pcb.waitPid)
    BY <1>2, <2>1 DEF SoundProcess
  <2>3. p = INITPID => pcb.state \in {"READY", "RUNNING"}
    BY <1>2, <2>1, Facts DEF Sound
  <2> QED
    BY <1>1, <1>2, <2>2, <2>3, Facts, SoundWrite
<1>6. KeptAll(r)
  <2>1. MAX_AGING_BOOST \in Nat /\ prio \in Nat
    BY <1>1, AgingAssumption
  <2> QED
    BY <1>1, <1>2, <1>4, <2>1 DEF KeptAll, Kept, Ranked, Boosted
<1> QED
  BY <1>2, <1>3, <1>4, <1>5, <1>6

\* nice: only a process that changes its own priority gives up the CPU.
LEMMA NiceKeeps == ASSUME SchedInv, Nice PROVE SchedInv'
<1>1. PICK p \in PIDs, prio \in Priorities :
        /\ processes[p].state # "EXITED"
        /\ IF p = currentProcess
           THEN SwitchContext(Reprioritized(Now, p, prio), TRUE)
           ELSE Return(Reprioritized(Now, p, prio))
  BY DEF Nice
<1>2. /\ frame' = frame /\ stranded' = stranded /\ boot' = boot /\ Rest'
      /\ currentProcess # NULL /\ frame[currentProcess] \notin Gone /\ boot' # "init"
  BY Facts DEF Nice, SchedInv, Rest, Calling, Gone
<1> DEFINE r == Reprioritized(Now, p, prio)
<1>3. /\ Sound(r, frame, stranded, boot # "init")
      /\ \A q \in PIDs : r.procs[q].state = processes[q].state
  BY <1>1, <1>2, SoundReprioritized
<1> HIDE DEF r
<1>4. Sound(r, frame', stranded', boot' # "init")
  BY <1>2, <1>3
<1>5. CASE p = currentProcess
  BY <1>1, <1>2, <1>4, <1>5, Facts, SoundSwitch DEF r
<1>6. CASE p # currentProcess
  <2>1. Owner(r.procs, currentProcess, frame')
    BY <1>2, <1>3, Facts DEF Owner
  <2> QED
    BY <1>1, <1>2, <1>4, <1>6, <2>1, Facts, SoundReturn DEF r
<1> QED
  BY <1>5, <1>6

\* sys_unblock queues the process it makes READY.
LEMMA UnblockKeeps == ASSUME SchedInv, Unblock PROVE SchedInv'
<1>1. PICK p \in PIDs : Return(UnblockProcess(Now, p))
  BY DEF Unblock
<1>2. /\ frame' = frame /\ stranded' = stranded \ Queued(priorityQueues') /\ boot' = boot /\ Rest'
      /\ currentProcess # NULL /\ frame[currentProcess] \notin Gone /\ boot' # "init"
  BY Facts DEF Unblock, NoteQueued, SchedInv, Rest, Calling, Gone
<1> DEFINE r == UnblockProcess(Now, p)
<1>3. /\ Sound(r, frame, stranded, boot # "init")
      /\ \A q \in PIDs : processes[q].state # "BLOCKED" => r.procs[q] = processes[q]
  <2>1. Sound(Now, frame, stranded, boot # "init") /\ Now.procs = processes
    BY Facts
  <2>2. (boot # "init") \in BOOLEAN /\ p \in PIDs \cup {NONPID}
    OBVIOUS
  <2> QED
    BY <2>1, <2>2, SoundUnblock
<1> HIDE DEF r
<1>4. Owner(r.procs, currentProcess, frame')
  BY <1>2, <1>3, Facts DEF Owner
<1>5. Sound(r, frame', stranded, boot' # "init")
  BY <1>2, <1>3
<1> QED
  BY <1>1, <1>2, <1>4, <1>5, Facts, SoundReturn DEF r

\* waitProcess up to its first switch, also when a process waits for itself.
LEMMA SoundRegistered ==
    ASSUME SchedInv, NEW t \in PIDs, NEW c \in PIDs, c = currentProcess, c # INITPID,
           NEW f, f = [frame EXCEPT ![c] = "wait"], NEW r, r = Registered(Now, t, c)
    PROVE  /\ Sound(r, f, stranded, boot # "init") /\ KeptAll(r)
           /\ \A q \in PIDs :
                /\ r.procs[q].state = IF q = c THEN "BLOCKED" ELSE processes[q].state
                /\ r.procs[q].waitPid = IF q = t THEN c ELSE processes[q].waitPid
<1>1. boot # "init"
  BY Facts
<1>2. f[c] = "wait" /\ "wait" \notin Gone
  BY Facts DEF Gone
<1>3. Sound(Now, f, stranded, boot # "init")
  <2>1. "wait" \in Frames /\ "wait" \notin Gone
    BY DEF Frames, Gone
  <2> QED
    BY <2>1, Facts, SoundMove
<1> DEFINE pcb == [processes[t] EXCEPT !.waitPid = c]
           s   == [Now EXCEPT !.procs[t] = pcb]
           own == [s.procs[c] EXCEPT !.state = "BLOCKED"]
           k   == [s EXCEPT !.procs[c] = own]
<1>4. /\ pcb \in PCB /\ pcb.state = processes[t].state /\ pcb.waitPid = c
      /\ pcb.priority = processes[t].priority /\ pcb.originalPriority = processes[t].originalPriority
  <2>1. processes[t] \in PCB
    BY Facts
  <2> QED
    BY <2>1 DEF PCB
<1>5. r = k
  <2>1. processes[t] \in PCB /\ processes[c] \in PCB
    BY Facts
  <2> QED
    BY <2>1, Facts DEF Registered, Kernel, PCB
<1>6. s.procs[t] = pcb /\ \A q \in PIDs : q # t => s.procs[q] = processes[q]
  BY Facts DEF Kernel
<1> HIDE DEF pcb
<1>7. Sound(s, f, stranded, boot # "init")
  <2>1. SoundProcess(Now, f, stranded, t) /\ Now.procs = processes /\ Now.queues = priorityQueues
    BY <1>3, Facts DEF Sound
  <2>2. /\ pcb.state = "READY" => t \in Queued(Now.queues) \cup stranded
        /\ pcb.state = "RUNNING" => t = currentProcess
        /\ pcb.state # "EXITED" \/ Ranked(Now.procs, t)
             => pcb.priority \in Levels /\ pcb.originalPriority \in Levels
        /\ f[t] \in Gone => pcb.state = "EXITED"
        /\ f[t] = "waking" => pcb.waitPid \in PIDs
    BY <1>4, <2>1 DEF SoundProcess, Ranked
  <2>3. Ranked(Now.procs, pcb.waitPid)
    BY <1>3, <1>4, Facts DEF Sound
  <2>4. t = INITPID => pcb.state \in {"READY", "RUNNING"}
    BY <1>1, <1>4, Facts
  <2> QED
    BY <1>3, <1>4, <2>2, <2>3, <2>4, SoundWrite
<1> HIDE DEF s
<1>8. s \in Kernel /\ s.procs \in [PIDs -> PCB] /\ s.procs[c] \in PCB
      /\ SoundProcess(s, f, stranded, c) /\ Ranked(s.procs, c)
  BY <1>7, Facts DEF Sound, Kernel
<1>9. /\ own \in PCB /\ own.state = "BLOCKED" /\ own.waitPid = s.procs[c].waitPid
      /\ own.priority = s.procs[c].priority /\ own.originalPriority = s.procs[c].originalPriority
  BY <1>8 DEF PCB, States
<1>10. k.procs[c] = own /\ \A q \in PIDs : q # c => k.procs[q] = s.procs[q]
  BY <1>8 DEF Kernel
<1> HIDE DEF own
<1>11. Sound(k, f, stranded, boot # "init")
  <2>1. /\ own.priority \in Levels /\ own.originalPriority \in Levels
        /\ own.waitPid # NONPID => Ranked(s.procs, own.waitPid)
    BY <1>8, <1>9 DEF SoundProcess, Ranked
  <2> QED
    BY <1>2, <1>7, <1>9, <2>1, SoundWrite
<1> HIDE DEF k
<1>12. \A q \in PIDs :
         /\ r.procs[q].state = IF q = c THEN "BLOCKED" ELSE processes[q].state
         /\ r.procs[q].waitPid = IF q = t THEN c ELSE processes[q].waitPid
         /\ r.procs[q].priority = processes[q].priority
         /\ r.procs[q].originalPriority = processes[q].originalPriority
  BY <1>4, <1>5, <1>6, <1>9, <1>10
<1>13. KeptAll(r)
  BY <1>12 DEF KeptAll, Kept, Ranked, Boosted
<1> QED
  BY <1>5, <1>11, <1>12, <1>13

\* waitProcess gives up the CPU BLOCKED.
LEMMA WaitKeeps == ASSUME SchedInv, Wait PROVE SchedInv'
<1> DEFINE c == currentProcess
<1>1. PICK t \in PIDs :
        /\ SwitchContext(Registered(Now, t, c), TRUE)
        /\ waitTarget' = [waitTarget EXCEPT ![c] = t]
        /\ frame' = [frame EXCEPT ![c] = "wait"]
        /\ NoteWait(t, c)
  BY DEF Wait
<1>2. stranded' = stranded /\ boot' = boot /\ c \in PIDs /\ c # INITPID /\ boot' # "init"
  BY Facts DEF Wait, Calling
<1>3. Rest'
  BY <1>1, <1>2 DEF SchedInv, Rest, NoteWait, WaitStates
<1>4. Sound(Registered(Now, t, c), frame', stranded', boot' # "init")
  BY <1>1, <1>2, SoundRegistered
<1> QED
  BY <1>1, <1>2, <1>3, <1>4, Facts, SoundSwitch

\* kill of p, up to its switch: p ends and its waiter, if it is BLOCKED, is READY.
LEMMA KillEffect ==
    ASSUME SchedInv, NEW p \in PIDs, p # INITPID, boot # "init",
           NEW f, f = [frame EXCEPT ![p] = "user"], NEW r, r = Killed(Now, p)
    PROVE  Sound(r, f, stranded, boot # "init") /\ KilledTable(processes, r.procs, p)
<1>1. Sound(Now, f, stranded, boot # "init") /\ f[p] = "user"
  <2>1. "user" \in Frames /\ "user" \notin Gone
    BY DEF Frames, Gone
  <2> QED
    BY <2>1, Facts, SoundMove
<1>2. (boot # "init") = TRUE
  OBVIOUS
<1>3. Sound(Now, f, stranded, TRUE)
  BY <1>1, <1>2
<1>4. Sound(r, f, stranded, TRUE) /\ KilledTable(Now.procs, r.procs, p)
  BY <1>1, <1>3, SoundKilled
<1>5. Now.procs = processes
  BY Facts
<1> QED
  BY <1>2, <1>4, <1>5

\* kill by another process, by the process itself or by Ctrl-C.
LEMMA KillKeeps ==
    ASSUME SchedInv, NEW p \in PIDs, KillProcess(p), currentProcess # NULL
    PROVE  SchedInv'
<1> DEFINE r == Killed(Now, p)
<1>1. /\ p # INITPID /\ processes[p].state # "EXITED"
      /\ IF p = currentProcess THEN SwitchContext(r, FALSE) ELSE Return(r)
      /\ frame' = [frame EXCEPT ![p] = "user"]
      /\ waitTarget' = [waitTarget EXCEPT ![p] = NONPID]
      /\ stranded' = stranded \ Queued(priorityQueues')
      /\ boot' = boot
  BY DEF KillProcess, InOwnCode, NoteQueued
<1>2. awaited' \in [PIDs -> WaitStates]
  BY DEF KillProcess, NoteEnd, SchedInv, WaitStates
<1>3. Rest' /\ boot' # "init"
  BY <1>1, <1>2, Facts DEF SchedInv, Rest
<1>4. boot # "init" /\ (p # currentProcess => frame'[currentProcess] = frame[currentProcess])
  BY <1>1, Facts
<1>5. Sound(r, frame', stranded, boot # "init") /\ KilledTable(processes, r.procs, p)
  BY <1>1, <1>4, KillEffect
<1> HIDE DEF r
<1>6. Sound(r, frame', stranded, boot' # "init")
  BY <1>1, <1>5
<1>7. CASE p = currentProcess
  <2>1. SwitchContext(r, FALSE)
    BY <1>1, <1>7
  <2> QED
    BY <1>1, <1>3, <1>6, <2>1, Facts, SoundSwitch
<1>8. CASE p # currentProcess
  <2>1. Return(r)
    BY <1>1, <1>8
  <2>2. Owner(r.procs, currentProcess, frame')
    BY <1>4, <1>5, <1>8, Facts DEF Owner, KilledTable
  <2> QED
    BY <1>1, <1>3, <1>6, <2>1, <2>2, Facts, SoundReturn
<1> QED
  BY <1>7, <1>8

\* Kernel state t and frames f once createProcess wrote the PCB of p
Written(p, f, t) ==
    /\ p \in PIDs /\ processes[p].state = "EXITED"
    /\ Sound(t, f, stranded \cup {p}, TRUE) /\ Ranked(t.procs, p)
    /\ t.procs[p].state = "READY"
    /\ Owner(t.procs, currentProcess, f)
    /\ boot = "init" => p = INITPID
    /\ boot # "init" => p # INITPID
    /\ t.queues = priorityQueues

\* The PCB createProcess writes, for a process or for main: the slot it takes was
\* EXITED, and the first slot of all, that of init, when nothing was created before.
LEMMA CreateEffect ==
    ASSUME SchedInv, NEW prio \in Levels, NEW fg \in BOOLEAN, FreeSlots # {},
           currentProcess # NULL => frame[currentProcess] \notin Gone,
           NEW p, p = Min(FreeSlots), NEW f, f = [frame EXCEPT ![p] = "user"],
           NEW t, t = [Now EXCEPT !.procs[p] = NewPCB(p, prio, fg)]
    PROVE  Written(p, f, t)
<1> DEFINE pcb == NewPCB(p, prio, fg)
<1>1. /\ p \in PIDs /\ processes[p].state = "EXITED"
      /\ boot = "init" => p = INITPID
  <2>1. FreeSlots \subseteq Nat
    BY DEF FreeSlots, PIDs
  <2>2. p \in FreeSlots /\ \A q \in FreeSlots : p <= q
    BY <2>1, MinInSet
  <2>3. p \in PIDs /\ processes[p].state = "EXITED"
    BY <2>2 DEF FreeSlots
  <2>4. boot = "init" => INITPID \in FreeSlots
    BY Facts DEF SchedInv, BootInv, FreeSlots
  <2>5. boot = "init" => p = INITPID
    BY <2>2, <2>3, <2>4 DEF PIDs
  <2> QED
    BY <2>3, <2>5
<1>2. p # currentProcess /\ (boot # "init" => p # INITPID)
  <2>1. boot # "init" => processes[INITPID].state \in {"READY", "RUNNING"}
    BY Facts DEF Sound
  <2> QED
    BY <1>1, <2>1, Facts
<1>3. Sound(Now, f, stranded, boot # "init")
  <2>1. "user" \in Frames /\ "user" \notin Gone
    BY DEF Frames, Gone
  <2> QED
    BY <1>1, <2>1, Facts, SoundMove
<1>4. f[p] = "user" /\ \A q \in PIDs : q # p => f[q] = frame[q]
  BY <1>1, Facts
<1>5. Sound(Now, f, stranded \cup {p}, boot # "init")
  <2>1. stranded \cup {p} \subseteq PIDs
    BY <1>1, Facts
  <2> QED
    BY <1>3, <2>1, SoundExcuse
<1>6. /\ pcb \in PCB /\ pcb.state = "READY" /\ pcb.waitPid = NONPID
      /\ pcb.priority = prio /\ pcb.originalPriority = prio
  <2>1. processes[p] \in PCB /\ prio \in 0..MAX_PRIORITY
    BY <1>1, Facts DEF Levels
  <2> QED
    BY <2>1 DEF PCB, States, NewPCB
<1>7. /\ t.procs[p] = pcb /\ \A q \in PIDs : q # p => t.procs[q] = processes[q]
      /\ t.queues = priorityQueues
  BY <1>1, Facts DEF Kernel
<1> HIDE DEF pcb
<1>8. Sound(t, f, stranded \cup {p}, boot # "init")
  <2>1. f[p] \notin Gone /\ f[p] # "waking"
    BY <1>4 DEF Gone
  <2> QED
    BY <1>1, <1>5, <1>6, <2>1, SoundWrite DEF pcb
<1>9. Sound(t, f, stranded \cup {p}, TRUE)
  <2>1. t.procs[INITPID].state \in {"READY", "RUNNING"}
    BY <1>1, <1>6, <1>7, <1>8 DEF Sound
  <2> QED
    BY <1>8, <2>1 DEF Sound
<1>10. Ranked(t.procs, p)
  BY <1>6, <1>7 DEF Ranked
<1>11. Owner(t.procs, currentProcess, f)
  BY <1>2, <1>4, <1>7, Facts DEF Owner
<1> QED
  BY <1>1, <1>2, <1>6, <1>7, <1>9, <1>10, <1>11 DEF Written

\* createProcess as a system call.
LEMMA CreateKeeps ==
    ASSUME SchedInv, NEW prio \in Levels, NEW fg \in BOOLEAN, CreateProcess(prio, fg),
           currentProcess # NULL, frame[currentProcess] \notin Gone, boot' = boot
    PROVE  SchedInv'
<1>1. PICK p : p = Min(FreeSlots)
  OBVIOUS
<1>2. PICK t : t = [Now EXCEPT !.procs[p] = NewPCB(p, prio, fg)]
  OBVIOUS
<1>3. /\ FreeSlots # {} /\ Return(Schedule(t, p))
      /\ frame' = [frame EXCEPT ![p] = "user"]
      /\ waitTarget' = [waitTarget EXCEPT ![p] = NONPID]
      /\ awaited' = [awaited EXCEPT ![p] = "none"]
      /\ stranded' = stranded \ Queued(priorityQueues')
  BY <1>1, <1>2 DEF CreateProcess, InOwnCode, NoteQueued
<1>4. /\ p \in PIDs /\ Sound(t, frame', stranded \cup {p}, TRUE) /\ Ranked(t.procs, p)
      /\ Owner(t.procs, currentProcess, frame')
  <2>1. Written(p, frame', t)
    BY <1>1, <1>2, <1>3, CreateEffect
  <2> QED
    BY <2>1 DEF Written
<1>5. Rest' /\ boot' # "init" /\ boot' # "queueInit"
  BY <1>3, <1>4, Facts DEF SchedInv, Rest, WaitStates
<1>6. PICK r : r = Schedule(t, p)
  OBVIOUS
<1>7. /\ Sound(r, frame', (stranded \cup {p}) \ {p}, TRUE)
      /\ r.procs = t.procs /\ p \in Queued(r.queues)
  BY <1>4, <1>6, SoundSchedule
<1>8. (boot' # "init") = TRUE
  BY <1>5
<1>9. Sound(r, frame', (stranded \cup {p}) \ {p}, boot' # "init")
  BY <1>7, <1>8
<1>10. Return(r) /\ priorityQueues' = r.queues
  BY <1>3, <1>6 DEF Return
<1>11. /\ INITPID \notin (stranded \cup {p}) \ {p}
       /\ ((stranded \cup {p}) \ {p}) \ Queued(priorityQueues') \subseteq stranded'
       /\ stranded' \subseteq (stranded \cup {p}) \ {p}
  BY <1>3, <1>7, <1>10, Facts
<1>12. Owner(r.procs, currentProcess, frame')
  BY <1>4, <1>7
<1> QED
  BY <1>5, <1>9, <1>10, <1>11, <1>12, Facts, SoundReturn

\* createProcess of main, up to schedule: the process is READY in no queue.
LEMMA BootCreateKeeps ==
    ASSUME SchedInv, NEW prio \in Levels, NEW fg \in BOOLEAN, BootCreate(prio, fg),
           currentProcess = NULL,
           \/ boot = "init" /\ boot' = "queueInit"
           \/ boot = "shell" /\ boot' = "queueShell"
    PROVE  SchedInv'
<1>1. PICK p : p = Min(FreeSlots)
  OBVIOUS
<1>2. PICK t : t = [Now EXCEPT !.procs[p] = NewPCB(p, prio, fg)]
  OBVIOUS
<1>3. /\ FreeSlots # {} /\ Return(t)
      /\ frame' = [frame EXCEPT ![p] = "user"]
      /\ waitTarget' = [waitTarget EXCEPT ![p] = NONPID]
      /\ awaited' = awaited /\ stranded' = stranded \cup {p}
  BY <1>1, <1>2 DEF BootCreate, InOwnCode
<1>4. /\ p \in PIDs /\ Sound(t, frame', stranded \cup {p}, TRUE) /\ Ranked(t.procs, p)
      /\ Owner(t.procs, currentProcess, frame') /\ t.procs[p].state = "READY"
      /\ boot = "init" => p = INITPID
      /\ boot # "init" => p # INITPID
      /\ t.queues = priorityQueues
  <2>1. currentProcess # NULL => frame[currentProcess] \notin Gone
    OBVIOUS
  <2>2. PICK f : f = [frame EXCEPT ![p] = "user"]
    OBVIOUS
  <2>3. FreeSlots # {} /\ frame' = f
    BY <1>3, <2>2
  <2>4. Written(p, f, t)
    BY <1>1, <1>2, <2>1, <2>2, <2>3, CreateEffect
  <2> QED
    BY <2>3, <2>4 DEF Written
<1>5. Rest' /\ boot' # "init" /\ boot' # "done"
  BY <1>3, <1>4 DEF SchedInv, Rest, BootSteps
<1>6. (boot' # "init") = TRUE
  BY <1>5
<1>7. Sound(t, frame', stranded \cup {p}, boot' # "init")
  BY <1>4, <1>6
<1>8. BootInv'
  <2>1. /\ currentProcess' = NULL /\ processes' = t.procs
        /\ Queued(priorityQueues)' = Queued(priorityQueues)
    BY <1>3, <1>4 DEF Return, Queued
  <2>2. \A q \in PIDs : q # p => processes'[q] = processes[q]
    BY <1>2, <1>4, <2>1, Facts DEF Kernel
  <2>3. CASE boot = "init" /\ boot' = "queueInit"
    BY <1>4, <2>1, <2>2, <2>3 DEF SchedInv, BootInv
  <2>4. CASE boot = "shell" /\ boot' = "queueShell"
    <3>1. SHELLPID \in FreeSlots /\ FreeSlots \subseteq PIDs /\ PIDs \subseteq Nat
      BY <2>4, ProcessesAssumption DEF SchedInv, BootInv, FreeSlots, PIDs, SHELLPID
    <3>2. p <= SHELLPID
      BY <1>1, <3>1, MinInSet
    <3>3. p = SHELLPID
      BY <1>4, <2>4, <3>2 DEF PIDs, SHELLPID
    <3>4. Ranked(processes', SHELLPID) /\ processes'[SHELLPID].state = "READY"
      BY <1>4, <2>1, <3>3 DEF Ranked
    <3>5. INITPID \notin stranded'
      BY <1>3, <1>4, <2>4, Facts
    <3> QED
      BY <2>1, <2>4, <3>4, <3>5 DEF BootInv, Ranked
  <2> QED
    BY <2>3, <2>4
<1> QED
  BY <1>3, <1>4, <1>5, <1>7, <1>8, Facts, SoundReturn

\* schedule, called by main's createProcess for the process just made READY.
LEMMA BootScheduleKeeps ==
    ASSUME SchedInv, NEW p \in PIDs, BootSchedule(p), currentProcess = NULL,
           \/ boot = "queueInit" /\ boot' = "shell" /\ p = INITPID
           \/ boot = "queueShell" /\ boot' = "start" /\ p = SHELLPID
    PROVE  SchedInv'
<1>1. PICK r : r = Schedule(Now, p)
  OBVIOUS
<1>2. Return(r) /\ stranded' = stranded \ Queued(priorityQueues') /\ frame' = frame
  BY <1>1 DEF BootSchedule, NoteQueued
<1>3. Rest' /\ boot' # "init" /\ boot' # "queueInit" /\ boot' # "done"
  BY DEF BootSchedule, SchedInv, Rest, BootSteps
<1>4. /\ Sound(r, frame, stranded \ {p}, boot # "init")
      /\ r.procs = Now.procs /\ p \in Queued(r.queues)
  <2>1. boot = "queueInit" => Ranked(processes, p)
    <3>1. SoundProcess(Now, frame, stranded, INITPID) /\ Now.procs = processes
      BY Facts
    <3>2. boot # "init" => processes[INITPID].state # "EXITED"
      BY <3>1, Facts DEF Sound
    <3> QED
      BY <3>1, <3>2 DEF SoundProcess
  <2>2. boot = "queueShell" => Ranked(processes, p)
    BY DEF SchedInv, BootInv
  <2>3. Ranked(Now.procs, p) /\ Sound(Now, frame, stranded, boot # "init")
    BY <2>1, <2>2, Facts
  <2> QED
    BY <1>1, <2>3, SoundSchedule
<1>5. Sound(r, frame', stranded \ {p}, boot' # "init")
  BY <1>2, <1>4
<1>6. priorityQueues' = r.queues
  BY <1>2 DEF Return
<1>7. /\ INITPID \notin stranded \ {p}
      /\ (stranded \ {p}) \ Queued(priorityQueues') \subseteq stranded'
      /\ stranded' \subseteq stranded \ {p}
  BY <1>2, <1>4, <1>6, Facts
<1>8. Owner(r.procs, currentProcess, frame')
  BY DEF Owner
<1>9. BootInv'
  <2>1. currentProcess' = NULL /\ processes' = processes
    BY <1>2, <1>4, Facts DEF Return
  <2>2. boot' = "shell" => \A q \in PIDs \ {INITPID} : processes[q].state = "EXITED"
    BY DEF SchedInv, BootInv
  <2>3. INITPID \notin stranded'
    BY <1>7
  <2> QED
    BY <1>3, <2>1, <2>2, <2>3 DEF BootInv
<1> QED
  BY <1>2, <1>3, <1>5, <1>7, <1>8, <1>9, Facts, SoundReturn

\* A step of an exit that rewrites the PCB of the exiting process and moves on:
\* what ReturnFromEntry, ExitFree and ExitMark have in common.
LEMMA OwnWriteKeeps ==
    ASSUME SchedInv, NEW pcb \in PCB, NEW x \in Frames, currentProcess # NULL,
           currentProcess # INITPID, frame[currentProcess] \notin Gone,
           Return([Now EXCEPT !.procs[currentProcess] = pcb]), Advance(x), Rest',
           boot' = boot, stranded' = stranded,
           pcb.waitPid = processes[currentProcess].waitPid,
           pcb.priority = processes[currentProcess].priority,
           pcb.originalPriority = processes[currentProcess].originalPriority,
           x # "waking",
           \/ pcb.state = "RUNNING" /\ x \notin Gone
           \/ pcb.state = "EXITED" /\ x \in Gone
    PROVE  SchedInv'
<1> DEFINE c == currentProcess
           r == [Now EXCEPT !.procs[c] = pcb]
<1>1. c \in PIDs /\ boot' # "init" /\ frame' = [frame EXCEPT ![c] = x]
  BY Facts DEF Advance
<1>2. r.procs[c] = pcb
  BY <1>1, Facts DEF Kernel
<1>3. Sound(r, frame, stranded, boot # "init")
  <2>1. SoundProcess(Now, frame, stranded, c) /\ Now.procs = processes /\ Ranked(Now.procs, c)
    BY <1>1, Facts DEF Sound
  <2>2. /\ pcb.priority \in Levels /\ pcb.originalPriority \in Levels
        /\ frame[c] = "waking" => pcb.waitPid \in PIDs
        /\ pcb.waitPid # NONPID => Ranked(Now.procs, pcb.waitPid)
    BY <2>1 DEF SoundProcess, Ranked
  <2> QED
    BY <1>1, <2>2, Facts, SoundWrite
<1> HIDE DEF r
<1>4. Sound(r, [frame EXCEPT ![c] = x], stranded, boot # "init")
  BY <1>1, <1>2, <1>3, SoundMove
<1>5. Sound(r, frame', stranded', boot' # "init")
  BY <1>1, <1>4
<1>6. frame'[c] = x
  BY <1>1, Facts
<1>7. Owner(r.procs, currentProcess, frame')
  BY <1>2, <1>6 DEF Owner
<1> QED
  BY <1>1, <1>5, <1>7, Facts, SoundReturn DEF r

\* processLoader stores the exit code.
LEMMA ReturnFromEntryKeeps == ASSUME SchedInv, ReturnFromEntry PROVE SchedInv'
<1> DEFINE c == currentProcess
<1>1. /\ c # NULL /\ c # INITPID /\ frame[c] = "user" /\ Advance("returned")
      /\ Rest' /\ boot' = boot /\ stranded' = stranded
  BY DEF ReturnFromEntry, Calling, SchedInv, Rest
<1>2. PICK v \in ExitCodes : Return([Now EXCEPT !.procs[c].waitReturnValue = v])
  BY DEF ReturnFromEntry
<1> DEFINE pcb == [processes[c] EXCEPT !.waitReturnValue = v]
<1>3. c \in PIDs /\ processes[c] \in PCB /\ processes[c].state = "RUNNING" /\ v \in Int
  BY <1>1, Facts, InputsAssumption DEF Gone
<1>4. /\ pcb \in PCB /\ pcb.state = "RUNNING" /\ pcb.waitPid = processes[c].waitPid
      /\ pcb.priority = processes[c].priority /\ pcb.originalPriority = processes[c].originalPriority
  BY <1>3 DEF PCB
<1>5. [Now EXCEPT !.procs[c].waitReturnValue = v] = [Now EXCEPT !.procs[c] = pcb]
  BY <1>3, Facts DEF Kernel
<1> HIDE DEF pcb
<1>6. "returned" \in Frames /\ "returned" \notin Gone /\ "user" \notin Gone
  <2>1. 1 \in Levels /\ UnschedulePoints[1] = "returned"
    BY PriorityAssumption DEF Levels, UnschedulePoints
  <2> QED
    BY <2>1, UnschedulePointsAre DEF Gone
<1> QED
  BY <1>1, <1>2, <1>4, <1>5, <1>6, OwnWriteKeeps

\* The exit frees its stack and stays RUNNING.
LEMMA ExitFreeKeeps == ASSUME SchedInv, ExitFree PROVE SchedInv'
<1> DEFINE c   == currentProcess
           pcb == [processes[c] EXCEPT !.stack = FALSE]
<1>1. /\ c # NULL /\ frame[c] = "unscheduled" /\ Advance("freed")
      /\ Rest' /\ boot' = boot /\ stranded' = stranded
      /\ Return([Now EXCEPT !.procs[c].stack = FALSE])
  BY DEF ExitFree, At, SchedInv, Rest
<1>2. /\ c \in PIDs /\ c # INITPID /\ processes[c] \in PCB
      /\ processes[c].state = "RUNNING"
  BY <1>1, Facts DEF Gone
<1>3. /\ pcb \in PCB /\ pcb.state = "RUNNING" /\ pcb.waitPid = processes[c].waitPid
      /\ pcb.priority = processes[c].priority /\ pcb.originalPriority = processes[c].originalPriority
  BY <1>2 DEF PCB
<1>4. [Now EXCEPT !.procs[c].stack = FALSE] = [Now EXCEPT !.procs[c] = pcb]
  BY <1>2, Facts DEF Kernel
<1> HIDE DEF pcb
<1>5. "freed" \in Frames /\ "freed" \notin Gone /\ "unscheduled" \notin Gone
  BY DEF Frames, ExitFrames, Gone
<1> QED
  BY <1>1, <1>2, <1>3, <1>4, <1>5, OwnWriteKeeps

\* The exit marks itself EXITED.
LEMMA ExitMarkKeeps == ASSUME SchedInv, ExitMark PROVE SchedInv'
<1> DEFINE c   == currentProcess
           pcb == [processes[c] EXCEPT !.state = "EXITED"]
<1>1. /\ c # NULL /\ frame[c] = "freed" /\ Advance("exited")
      /\ boot' = boot /\ stranded' = stranded /\ waitTarget' = waitTarget
      /\ Return([Now EXCEPT !.procs[c].state = "EXITED"])
      /\ awaited' \in [PIDs -> WaitStates]
  BY DEF ExitMark, At, NoteEnd, SchedInv, WaitStates
<1>2. Rest'
  BY <1>1 DEF SchedInv, Rest
<1>3. /\ c \in PIDs /\ c # INITPID /\ processes[c] \in PCB
  BY <1>1, Facts
<1>4. /\ pcb \in PCB /\ pcb.state = "EXITED" /\ pcb.waitPid = processes[c].waitPid
      /\ pcb.priority = processes[c].priority /\ pcb.originalPriority = processes[c].originalPriority
  BY <1>3 DEF PCB, States
<1>5. [Now EXCEPT !.procs[c].state = "EXITED"] = [Now EXCEPT !.procs[c] = pcb]
  BY <1>3, Facts DEF Kernel
<1> HIDE DEF pcb
<1>6. "exited" \in Frames /\ "exited" \in Gone /\ "freed" \notin Gone
  BY DEF Frames, ExitFrames, Gone
<1> QED
  BY <1>1, <1>2, <1>3, <1>4, <1>5, <1>6, OwnWriteKeeps

\* The exit leaves one queue; it is RUNNING, so it needs no entry.
LEMMA ExitUnscheduleKeeps == ASSUME SchedInv, ExitUnschedule PROVE SchedInv'
<1> DEFINE c == currentProcess
<1>1. PICK i \in Levels :
        /\ At(UnschedulePoints[i]) /\ Return(RemoveFromQueue(Now, i, c))
        /\ Advance(IF i = MAX_PRIORITY THEN "unscheduled" ELSE UnschedulePoints[i + 1])
  BY DEF ExitUnschedule
<1>2. PICK x \in Frames : frame' = [frame EXCEPT ![c] = x] /\ x \notin Gone
  BY <1>1, UnschedulePointsAre DEF Advance
<1>3. PICK r : r = RemoveFromQueue(Now, i, c)
  OBVIOUS
<1>4. Rest' /\ boot' = boot /\ stranded' = stranded /\ Return(r)
  BY <1>1, <1>3 DEF ExitUnschedule, SchedInv, Rest
<1>5. c # NULL /\ frame[c] \notin Gone /\ frame[c] # "user"
  BY <1>1, UnschedulePointsAre DEF At
<1>6. c \in PIDs /\ c # INITPID /\ processes[c].state = "RUNNING" /\ boot # "init"
  BY <1>5, Facts
<1>7. /\ r \in Kernel /\ r.procs = Now.procs
      /\ Queued(r.queues) \subseteq Queued(Now.queues)
      /\ Queued(Now.queues) \subseteq Queued(r.queues) \cup {c}
  <2>1. Now \in Kernel
    BY Facts
  <2> QED
    BY <1>3, <1>6, <2>1, RemoveFromQueueEffect
<1>8. Sound(r, frame, stranded \cup {c}, boot # "init")
  BY <1>6, <1>7, Facts, SoundRemoved
<1>9. Sound(r, frame, stranded, boot # "init") /\ r.procs[c].state = "RUNNING"
  <2>1. r.procs = processes /\ stranded \subseteq PIDs
    BY <1>7, Facts
  <2> QED
    BY <1>6, <1>8, <2>1, SoundExcuse
<1>10. Sound(r, [frame EXCEPT ![c] = x], stranded, boot # "init")
  <2>1. x # "waking"
    BY <1>2 DEF Gone
  <2> QED
    BY <1>2, <1>6, <1>9, <2>1, SoundMove
<1>11. Sound(r, frame', stranded', boot' # "init")
  BY <1>2, <1>4, <1>10
<1>12. Owner(r.procs, currentProcess, frame')
  BY <1>9 DEF Owner
<1> QED
  BY <1>4, <1>5, <1>11, <1>12, Facts, SoundReturn

\* The exit sets its waiter READY, unqueued: the waiter is stranded from here on.
LEMMA ExitWakeKeeps == ASSUME SchedInv, ExitWake PROVE SchedInv'
<1> DEFINE c == currentProcess
           w == processes[c].waitPid
<1>1. /\ c # NULL /\ frame[c] = "exited" /\ Rest' /\ boot' = boot
      /\ IF w # NONPID /\ processes[w].state = "BLOCKED"
         THEN /\ Return([Now EXCEPT !.procs[w].state = "READY"])
              /\ frame' = [frame EXCEPT ![c] = "waking"]
              /\ stranded' = stranded \cup {w}
         ELSE /\ Return([Now EXCEPT !.procs[c].waitPid = NONPID])
              /\ frame' = [frame EXCEPT ![c] = "woken"]
              /\ stranded' = stranded
  BY DEF ExitWake, At, Advance, SchedInv, Rest
<1>2. /\ c \in PIDs /\ c # INITPID /\ processes[c] \in PCB /\ processes[c].state = "EXITED"
      /\ boot # "init" /\ SoundProcess(Now, frame, stranded, c)
  BY <1>1, Facts DEF Gone
<1>3. {"waking", "woken"} \subseteq Frames /\ {"waking", "woken"} \subseteq Gone
  BY DEF Frames, ExitFrames, Gone
<1>4. CASE w # NONPID /\ processes[w].state = "BLOCKED"
  <2>1. w \in PIDs /\ w # c /\ w # INITPID /\ processes[w] \in PCB
    <3>1. w \in PIDs
      BY <1>2, <1>4 DEF PCB
    <3> QED
      BY <1>1, <1>2, <1>4, <3>1, Facts
  <2> DEFINE pcb == [processes[w] EXCEPT !.state = "READY"]
             r   == [Now EXCEPT !.procs[w] = pcb]
  <2>2. /\ pcb \in PCB /\ pcb.state = "READY" /\ pcb.waitPid = processes[w].waitPid
        /\ pcb.priority = processes[w].priority /\ pcb.originalPriority = processes[w].originalPriority
    BY <2>1 DEF PCB, States
  <2>3. [Now EXCEPT !.procs[w].state = "READY"] = r
    BY <2>1, Facts DEF Kernel
  <2>4. \A q \in PIDs : q # w => r.procs[q] = processes[q]
    BY <2>1, Facts DEF Kernel
  <2> HIDE DEF pcb, w
  <2>5. stranded \cup {w} \subseteq PIDs /\ INITPID \notin stranded \cup {w}
    BY <1>1, <2>1, Facts
  <2>6. Sound(Now, frame, stranded \cup {w}, boot # "init")
    BY <2>5, Facts, SoundExcuse
  <2>7. Sound(r, frame, stranded \cup {w}, boot # "init")
    <3>1. SoundProcess(Now, frame, stranded, w) /\ Now.procs = processes
      BY <2>1, Facts
    <3>2. /\ pcb.priority \in Levels /\ pcb.originalPriority \in Levels
          /\ frame[w] \in Gone => pcb.state = "EXITED"
          /\ frame[w] = "waking" => pcb.waitPid \in PIDs
          /\ pcb.waitPid # NONPID => Ranked(Now.procs, pcb.waitPid)
      BY <1>4, <2>2, <3>1 DEF SoundProcess, Ranked
    <3> QED
      BY <2>1, <2>2, <2>6, <3>2, SoundWrite
  <2> HIDE DEF r
  <2>8. r.procs[c].state = "EXITED" /\ r.procs[c].waitPid \in PIDs
    BY <1>2, <2>1, <2>4 DEF w
  <2>9. Sound(r, [frame EXCEPT ![c] = "waking"], stranded \cup {w}, boot # "init")
    BY <1>2, <1>3, <2>7, <2>8, SoundMove
  <2>10. frame' = [frame EXCEPT ![c] = "waking"] /\ stranded' = stranded \cup {w} /\ Return(r)
    BY <1>1, <1>4, <2>3
  <2>11. Sound(r, frame', stranded', boot' # "init")
    BY <1>1, <2>9, <2>10
  <2>12. frame'[c] \in Gone
    BY <1>2, <1>3, <2>10, Facts
  <2>13. Owner(r.procs, currentProcess, frame')
    BY <2>8, <2>12 DEF Owner
  <2> QED
    BY <1>1, <1>2, <2>5, <2>10, <2>11, <2>13, Facts, SoundReturn
<1>5. CASE ~ (w # NONPID /\ processes[w].state = "BLOCKED")
  <2> DEFINE pcb == [processes[c] EXCEPT !.waitPid = NONPID]
             r   == [Now EXCEPT !.procs[c] = pcb]
  <2>1. /\ pcb \in PCB /\ pcb.state = "EXITED" /\ pcb.waitPid = NONPID
        /\ pcb.priority = processes[c].priority /\ pcb.originalPriority = processes[c].originalPriority
    BY <1>2 DEF PCB
  <2>2. [Now EXCEPT !.procs[c].waitPid = NONPID] = r
    BY <1>2, Facts DEF Kernel
  <2>3. r.procs[c] = pcb
    BY <1>2, Facts DEF Kernel
  <2> HIDE DEF pcb
  <2>4. Sound(r, frame, stranded, boot # "init")
    <3>1. Now.procs = processes
      BY Facts
    <3>2. Ranked(Now.procs, c) => pcb.priority \in Levels /\ pcb.originalPriority \in Levels
      BY <2>1, <3>1 DEF Ranked
    <3>3. frame[c] # "waking"
      BY <1>1
    <3> QED
      BY <1>2, <2>1, <3>2, <3>3, Facts, SoundWrite
  <2> HIDE DEF r
  <2>5. Sound(r, [frame EXCEPT ![c] = "woken"], stranded, boot # "init")
    BY <1>2, <1>3, <2>1, <2>3, <2>4, SoundMove
  <2>6. frame' = [frame EXCEPT ![c] = "woken"] /\ stranded' = stranded /\ Return(r)
    BY <1>1, <1>5, <2>2
  <2>7. Sound(r, frame', stranded', boot' # "init")
    BY <1>1, <2>5, <2>6
  <2>8. frame'[c] \in Gone
    BY <1>2, <1>3, <2>6, Facts
  <2>9. Owner(r.procs, currentProcess, frame')
    BY <2>1, <2>3, <2>8 DEF Owner
  <2> QED
    BY <1>1, <1>2, <2>6, <2>7, <2>9, Facts, SoundReturn
<1> QED
  BY <1>4, <1>5

\* The exit queues its waiter.
LEMMA ExitScheduleKeeps == ASSUME SchedInv, ExitSchedule PROVE SchedInv'
<1> DEFINE c   == currentProcess
           w   == processes[c].waitPid
           pcb == [processes[c] EXCEPT !.waitPid = NONPID]
           t   == [Now EXCEPT !.procs[c] = pcb]
           r   == Schedule(t, w)
<1>1. /\ c # NULL /\ frame[c] = "waking" /\ Rest' /\ boot' = boot
      /\ Return(Schedule([Now EXCEPT !.procs[c].waitPid = NONPID], w))
      /\ frame' = [frame EXCEPT ![c] = "woken"]
      /\ stranded' = stranded \ Queued(priorityQueues')
  BY DEF ExitSchedule, At, Advance, NoteQueued, SchedInv, Rest
<1>2. /\ c \in PIDs /\ c # INITPID /\ processes[c] \in PCB /\ processes[c].state = "EXITED"
      /\ boot # "init" /\ SoundProcess(Now, frame, stranded, c) /\ Now.procs = processes
  BY <1>1, Facts DEF Gone
<1>3. w \in PIDs /\ Ranked(processes, w)
  <2>1. \A q \in PIDs : q # NONPID
    BY DEF PIDs
  <2> QED
    BY <1>1, <1>2, <2>1 DEF SoundProcess
<1>4. "woken" \in Frames /\ "woken" \in Gone
  BY DEF Frames, ExitFrames, Gone
<1>5. Sound(Now, frame', stranded, boot # "init")
  BY <1>1, <1>2, <1>4, Facts, SoundMove
<1>6. frame'[c] = "woken"
  BY <1>1, <1>2, Facts
<1>7. /\ pcb \in PCB /\ pcb.state = "EXITED" /\ pcb.waitPid = NONPID
      /\ pcb.priority = processes[c].priority /\ pcb.originalPriority = processes[c].originalPriority
  BY <1>2 DEF PCB
<1>8. [Now EXCEPT !.procs[c].waitPid = NONPID] = t
  BY <1>2, Facts DEF Kernel
<1>9. t.procs[c] = pcb /\ \A q \in PIDs : q # c => t.procs[q] = processes[q]
  BY <1>2, Facts DEF Kernel
<1> HIDE DEF pcb, w
<1>10. Sound(t, frame', stranded, boot # "init")
  <2>1. Ranked(Now.procs, c) => pcb.priority \in Levels /\ pcb.originalPriority \in Levels
    BY <1>2, <1>7 DEF Ranked
  <2> QED
    BY <1>2, <1>5, <1>6, <1>7, <2>1, SoundWrite
<1> HIDE DEF t
<1>11. Ranked(t.procs, w)
  BY <1>3, <1>7, <1>9 DEF Ranked
<1>12. /\ Sound(r, frame', stranded \ {w}, boot # "init")
       /\ r.procs = t.procs /\ w \in Queued(r.queues)
  BY <1>3, <1>10, <1>11, SoundSchedule
<1> HIDE DEF r
<1>13. Return(r)
  BY <1>1, <1>8 DEF r
<1>14. priorityQueues' = r.queues
  BY <1>13 DEF Return
<1>15. Owner(r.procs, currentProcess, frame')
  BY <1>4, <1>6, <1>7, <1>9, <1>12 DEF Owner
<1>16. Sound(r, frame', stranded \ {w}, boot' # "init")
  BY <1>1, <1>12
<1>17. /\ INITPID \notin stranded \ {w}
       /\ (stranded \ {w}) \ Queued(priorityQueues') \subseteq stranded'
       /\ stranded' \subseteq stranded \ {w}
  BY <1>1, <1>12, <1>14, Facts
<1> QED
  BY <1>1, <1>2, <1>13, <1>15, <1>16, <1>17, Facts, SoundReturn

-----------------------------------------------------------------------------
\* Every step of the kernel keeps the invariant.
LEMMA NextSchedInv == SchedInv /\ [Next]_vars => SchedInv'
<1> SUFFICES ASSUME SchedInv, [Next]_vars PROVE SchedInv'
  OBVIOUS
<1>1. CASE BootInit \/ BootShell
  <2>1. 1 \in Levels /\ MAX_PRIORITY \in Levels
    BY PriorityAssumption DEF Levels
  <2> QED
    BY <1>1, <2>1, BootCreateKeeps DEF BootInit, BootShell, BootAt
<1>2. CASE BootQueueInit \/ BootQueueShell
  <2>1. INITPID \in PIDs /\ SHELLPID \in PIDs
    BY ProcessesAssumption DEF PIDs, INITPID, SHELLPID
  <2> QED
    BY <1>2, <2>1, BootScheduleKeeps DEF BootQueueInit, BootQueueShell, BootAt
<1>3. CASE BootSwitch
  BY <1>3, BootSwitchKeeps
<1>4. CASE TimerTick
  BY <1>4, TimerTickKeeps
<1>5. CASE CtrlC
  <2>1. Foreground \subseteq Nat /\ Foreground \subseteq PIDs
    BY DEF Foreground, PIDs
  <2>2. Min(Foreground) \in PIDs
    BY <1>5, <2>1, MinInSet DEF CtrlC
  <2> QED
    BY <1>5, <2>2, KillKeeps DEF CtrlC
<1>6. CASE Create
  <2>1. PICK prio \in Priorities, fg \in Modes : CreateProcess(prio, fg)
    BY <1>6 DEF Create
  <2>2. prio \in Levels /\ fg \in BOOLEAN
    BY InputsAssumption
  <2>3. currentProcess # NULL /\ frame[currentProcess] \notin Gone /\ boot' = boot
    BY <1>6 DEF Create, Calling, Gone
  <2> QED
    BY <2>1, <2>2, <2>3, CreateKeeps
<1>7. CASE Kill
  BY <1>7, KillKeeps DEF Kill, Calling
<1>8. CASE Block
  BY <1>8, BlockKeeps
<1>9. CASE Unblock
  BY <1>9, UnblockKeeps
<1>10. CASE Yield
  BY <1>10, YieldKeeps
<1>11. CASE Nice
  BY <1>11, NiceKeeps
<1>12. CASE Wait
  BY <1>12, WaitKeeps
<1>13. CASE WaitReturn
  BY <1>13, WaitReturnKeeps
<1>14. CASE ReturnFromEntry
  BY <1>14, ReturnFromEntryKeeps
<1>15. CASE ExitStep
  BY <1>15, ExitUnscheduleKeeps, ExitFreeKeeps, ExitMarkKeeps, ExitWakeKeeps,
     ExitScheduleKeeps, ExitSwitchKeeps DEF ExitStep
<1>16. CASE UNCHANGED vars
  BY <1>16, StutterKeeps
<1> QED
  BY <1>1, <1>2, <1>3, <1>4, <1>5, <1>6, <1>7, <1>8, <1>9, <1>10, <1>11, <1>12,
     <1>13, <1>14, <1>15, <1>16 DEF Next, Boot, SystemCall

\* The invariant gives the properties.
LEMMA SchedInvImplies ==
    SchedInv => TypeOK /\ ReadyIsQueued /\ RunningIsCurrent /\ InitAlwaysRunnable
<1> SUFFICES ASSUME SchedInv PROVE TypeOK /\ ReadyIsQueued /\ RunningIsCurrent /\ InitAlwaysRunnable
  OBVIOUS
<1>1. priorityQueues \in [Levels -> Seq(PIDs)]
  BY Facts DEF Kernel
<1>2. TypeOK
  BY <1>1, Facts DEF SchedInv, TypeOK
<1>3. \A p \in PIDs : SoundProcess(Now, frame, stranded, p)
  BY Facts
<1>4. ReadyIsQueued
  BY <1>3, Facts DEF ReadyIsQueued, SoundProcess
<1>5. RunningIsCurrent
  BY <1>3, Facts DEF RunningIsCurrent, SoundProcess, SchedInv, Owner, Gone
<1>6. InitAlwaysRunnable
  BY Facts DEF InitAlwaysRunnable, SchedInv, BootInv, Sound
<1> QED
  BY <1>2, <1>4, <1>5, <1>6

\* The invariant holds throughout.
LEMMA SchedInvHolds == Spec => []SchedInv
  BY InitSchedInv, NextSchedInv, PTL DEF Spec

\* Every variable of the scheduler and of the process table keeps its type, for
\* any number of processes and levels: no index leaves the queues or the table.
THEOREM TypeCorrect == Spec => []TypeOK
  BY SchedInvHolds, SchedInvImplies, PTL

\* No READY process is ever forgotten by the queues, but one that an exit or main,
\* both open to interrupts, set READY and did not get to queue.
THEOREM ReadyAlwaysQueued == Spec => []ReadyIsQueued
  BY SchedInvHolds, SchedInvImplies, PTL

\* At most one process is RUNNING, and it is the one that owns the CPU.
THEOREM OneRunning == Spec => []RunningIsCurrent
  BY SchedInvHolds, SchedInvImplies, PTL

\* Init can always run, so switchContext never runs out of processes.
THEOREM InitRunnable == Spec => []InitAlwaysRunnable
  BY SchedInvHolds, SchedInvImplies, PTL
=============================================================================

--------------------------- MODULE ConsoleProofs ---------------------------
(***************************************************************************)
(* The keyboard and the shell for any ring size, tab size, keys and number *)
(* of processes: the ring implements InputQueue, the keyboard has one      *)
(* reader, and nothing typed ahead gets into a command line.               *)
(***************************************************************************)
EXTENDS Console, SemaphoresProofs

USE TablesAssumption, KeyboardAssumption DEF INITPID, NULL, NoSem

-----------------------------------------------------------------------------
(***************************************************************************)
(* Positions of the ring                                                   *)
(***************************************************************************)

\* A position that runs past the end of the ring starts again at its first cell.
LEMMA Wraps ==
    ASSUME NEW a \in 0..(2 * BUFFER_SIZE - 1)
    PROVE  a % BUFFER_SIZE = IF a < BUFFER_SIZE THEN a ELSE a - BUFFER_SIZE
<1>1. CASE a < BUFFER_SIZE
  <2>1. a = BUFFER_SIZE * 0 + a
    OBVIOUS
  <2> QED
    BY <1>1, <2>1, RemainderIs
<1>2. CASE a >= BUFFER_SIZE
  <2>1. a = BUFFER_SIZE * 1 + (a - BUFFER_SIZE)
    OBVIOUS
  <2> QED
    BY <1>2, <2>1, RemainderIs
<1> QED
  BY <1>1, <1>2

\* The characters that a reader has still to take
Size(k) == SUB_MOD(k.to_write, k.to_read)

\* The fields of a ring
LEMMA RingFields ==
    ASSUME NEW k \in Ring
    PROVE  /\ k.buffer \in [Cells -> Cell]
           /\ k.to_write \in Cells /\ k.to_read \in Cells
           /\ k.modify \in BOOLEAN /\ k.control \in BOOLEAN
           /\ Size(k) \in 0..(BUFFER_SIZE - 1)
           /\ Empty(k) <=> Size(k) = 0
  BY DEF Ring, Cells, Size, SUB_MOD, Empty

\* The unread part of a ring is a sequence of characters, read from the cells.
LEMMA UnreadIs ==
    ASSUME NEW k \in Ring
    PROVE  /\ Unread(k) \in Seq(Characters)
           /\ Len(Unread(k)) = Size(k)
           /\ \A i \in 1..Size(k) :
                /\ (k.to_read + i - 1) % BUFFER_SIZE \in Cells
                /\ Unread(k)[i] = k.buffer[(k.to_read + i - 1) % BUFFER_SIZE].char
<1>1. /\ Size(k) \in 0..(BUFFER_SIZE - 1)
      /\ k.buffer \in [Cells -> Cell]
      /\ k.to_read \in Cells
  BY RingFields
<1>2. ASSUME NEW i \in 1..Size(k)
      PROVE  /\ (k.to_read + i - 1) % BUFFER_SIZE \in Cells
             /\ k.buffer[(k.to_read + i - 1) % BUFFER_SIZE].char \in Characters
  <2>1. k.to_read + i - 1 \in 0..(2 * BUFFER_SIZE - 1)
    BY <1>1 DEF Cells
  <2>2. (k.to_read + i - 1) % BUFFER_SIZE \in Cells
    BY <2>1, Wraps DEF Cells
  <2> QED
    BY <1>1, <2>2 DEF Cell
<1>3. Unread(k) = [i \in 1..Size(k) |-> k.buffer[(k.to_read + i - 1) % BUFFER_SIZE].char]
  BY DEF Unread, Size
<1>4. Unread(k) \in [1..Size(k) -> Characters]
  BY <1>2, <1>3
<1> QED
  BY <1>1, <1>2, <1>3, <1>4

\* Two rings with the same unread characters have the same queue.
LEMMA SameUnread ==
    ASSUME NEW k \in Ring, NEW s \in Seq(Characters), Len(s) = Size(k),
           \A i \in 1..Size(k) : s[i] = k.buffer[(k.to_read + i - 1) % BUFFER_SIZE].char
    PROVE  Unread(k) = s
  BY UnreadIs


-----------------------------------------------------------------------------
(***************************************************************************)
(* Entering characters                                                     *)
(***************************************************************************)

\* What InputQueue keeps of a queue that has grown
KeptOf(s) == SubSeq(s, BUFFER_SIZE * (Len(s) \div BUFFER_SIZE) + 1, Len(s))

Copies(c, n) == [j \in 1..n |-> c]

\* l is k with n characters c entered
Filled(k, l, c, n) ==
    /\ l.to_read = k.to_read
    /\ l.to_write = (k.to_write + n) % BUFFER_SIZE
    /\ \A i \in Cells : l.buffer[i].char = IF SUB_MOD(i, k.to_write) < n THEN c
                                           ELSE k.buffer[i].char

\* The last x entries of a sequence.
LEMMA SuffixIs ==
    ASSUME NEW T, NEW s \in Seq(T), NEW b \in Nat, NEW x \in Nat, Len(s) = b + x
    PROVE  /\ SubSeq(s, b + 1, b + x) \in Seq(T)
           /\ Len(SubSeq(s, b + 1, b + x)) = x
           /\ \A i \in 1..x : SubSeq(s, b + 1, b + x)[i] = s[b + i]
<1>1. SubSeq(s, b + 1, b + x) = [i \in 1..x |-> s[b + i]]
  OBVIOUS
<1>2. \A i \in 1..x : s[b + i] \in T
  OBVIOUS
<1> QED
  BY <1>1, <1>2

\* How far a position to be read is behind the one written next
LEMMA OffsetOf ==
    ASSUME NEW w \in Cells, NEW r \in Cells, NEW i \in 1..(BUFFER_SIZE - 1)
    PROVE  /\ (r + i - 1) % BUFFER_SIZE \in Cells
           /\ SUB_MOD((r + i - 1) % BUFFER_SIZE, w) =
                IF i > SUB_MOD(w, r) THEN i - 1 - SUB_MOD(w, r)
                                     ELSE BUFFER_SIZE + i - 1 - SUB_MOD(w, r)
<1> DEFINE a == r + i - 1
<1>1. a \in 0..(2 * BUFFER_SIZE - 1)
  BY DEF Cells
<1>2. a % BUFFER_SIZE = IF a < BUFFER_SIZE THEN a ELSE a - BUFFER_SIZE
  <2> HIDE DEF a
  <2> QED BY <1>1, Wraps
<1>3. CASE a < BUFFER_SIZE
  BY <1>2, <1>3 DEF SUB_MOD, Cells
<1>4. CASE a >= BUFFER_SIZE
  BY <1>2, <1>4 DEF SUB_MOD, Cells
<1> QED
  BY <1>1, <1>3, <1>4

\* The number of unread characters after n more were entered, once the write
\* position has passed the read position q times
Grown(w, r, n, y) ==
    \E q \in Nat : /\ SUB_MOD(w, r) + n = (BUFFER_SIZE * q) + SUB_MOD(y, r)
                   /\ (SUB_MOD(w, r) + n) \div BUFFER_SIZE = q

\* What is unread grows by the characters entered, modulo the size of the ring.
LEMMA SizeGrows ==
    ASSUME NEW w \in Cells, NEW r \in Cells, NEW n \in Nat, NEW y, y = (w + n) % BUFFER_SIZE
    PROVE  Grown(w, r, n, y)
<1> DEFINE m == SUB_MOD(w, r)
           x == SUB_MOD(y, r)
<1>1. w + n \in Nat
  BY DEF Cells
<1>2. PICK p \in Nat : w + n = (BUFFER_SIZE * p) + y /\ y \in Cells
  BY <1>1, Division DEF Cells
<1>3. m \in 0..(BUFFER_SIZE - 1) /\ (m = w - r \/ m = w - r + BUFFER_SIZE)
  BY DEF SUB_MOD, Cells
<1>4. x \in 0..(BUFFER_SIZE - 1) /\ (x = y - r \/ x = y - r + BUFFER_SIZE)
  BY <1>2 DEF SUB_MOD, Cells
<1> HIDE DEF m, x
<1>5. PICK b \in Nat : b = BUFFER_SIZE * p
  OBVIOUS
<1>6. /\ BUFFER_SIZE * (p + 1) = b + BUFFER_SIZE
      /\ BUFFER_SIZE * (p - 1) = b - BUFFER_SIZE
  BY <1>5
<1>7. m + n = b + x \/ m + n = b + BUFFER_SIZE + x \/ m + n = b - BUFFER_SIZE + x
  BY <1>2, <1>3, <1>4, <1>5 DEF Cells
<1>8. \E q \in Int : m + n = (BUFFER_SIZE * q) + x
  <2>1. CASE m + n = b + x
    <3> WITNESS p \in Int
    <3> QED BY <1>5, <2>1
  <2>2. CASE m + n = b + BUFFER_SIZE + x
    <3> WITNESS p + 1 \in Int
    <3> QED BY <1>6, <2>2
  <2>3. CASE m + n = b - BUFFER_SIZE + x
    <3> WITNESS p - 1 \in Int
    <3> QED BY <1>6, <2>3
  <2> QED
    BY <1>7, <2>1, <2>2, <2>3
<1>9. PICK q \in Int : m + n = (BUFFER_SIZE * q) + x
  BY <1>8
<1>10. (m + n) \div BUFFER_SIZE = q
  BY <1>4, <1>9, RemainderIs
<1>11. m + n \in Nat
  BY <1>3
<1>12. (m + n) \div BUFFER_SIZE \in Nat
  BY <1>11, Division
<1> QED
  BY <1>9, <1>10, <1>12 DEF m, x, Grown

\* Entering n characters in the ring is entering them in the queue: where the write
\* position passes the read position, the queue loses as many as the ring holds.
LEMMA FilledKeeps ==
    ASSUME NEW k \in Ring, NEW l \in Ring, NEW c \in Characters, NEW n \in Nat,
           Filled(k, l, c, n)
    PROVE  Unread(l) = KeptOf(Unread(k) \o Copies(c, n))
<1> DEFINE u == Unread(k)
           s == u \o Copies(c, n)
           m == Size(k)
           x == Size(l)
<1>1. /\ m \in 0..(BUFFER_SIZE - 1) /\ x \in 0..(BUFFER_SIZE - 1)
      /\ l.to_read = k.to_read /\ k.to_read \in Cells
  BY RingFields DEF Filled
<1>2. /\ u \in Seq(Characters) /\ Len(u) = m
      /\ \A i \in 1..m : u[i] = k.buffer[(k.to_read + i - 1) % BUFFER_SIZE].char
  BY UnreadIs
<1>3. Copies(c, n) \in Seq(Characters) /\ Len(Copies(c, n)) = n
  BY DEF Copies
<1>4. /\ s \in Seq(Characters) /\ Len(s) = m + n
      /\ \A i \in 1..m : s[i] = u[i]
      /\ \A i \in (m + 1)..(m + n) : s[i] = c
  <2> DEFINE t == Copies(c, n)
  <2>1. \A i \in 1..n : t[i] = c
    BY DEF Copies
  <2> HIDE DEF u, t
  <2>2. /\ s \in Seq(Characters) /\ Len(s) = Len(u) + Len(t)
        /\ \A i \in 1..(Len(u) + Len(t)) : s[i] = IF i <= Len(u) THEN u[i] ELSE t[i - Len(u)]
    BY <1>2, <1>3, EntriesOfConcat DEF t
  <2> HIDE DEF s, m
  <2> QED
    BY <1>1, <1>2, <1>3, <2>1, <2>2 DEF t
<1>5. PICK q \in Nat : m + n = (BUFFER_SIZE * q) + x /\ (m + n) \div BUFFER_SIZE = q
  <2>1. k.to_write \in Cells /\ k.to_read \in Cells
    BY RingFields
  <2>2. l.to_write = (k.to_write + n) % BUFFER_SIZE
    BY DEF Filled
  <2>3. Grown(k.to_write, k.to_read, n, l.to_write)
    BY <2>1, <2>2, SizeGrows
  <2> QED
    BY <1>1, <2>3, Zenon DEF Size, Grown
<1>6. PICK b \in Nat : b = BUFFER_SIZE * q /\ (q = 0 => b = 0) /\ (q # 0 => b >= BUFFER_SIZE)
  OBVIOUS
<1> HIDE DEF u, s, m, x
<1>7. KeptOf(s) = SubSeq(s, b + 1, m + n)
  BY <1>4, <1>5, <1>6 DEF KeptOf
<1>8. /\ KeptOf(s) \in Seq(Characters) /\ Len(KeptOf(s)) = x
      /\ \A i \in 1..x : KeptOf(s)[i] = s[b + i]
  <2>1. b + x = m + n /\ Len(s) = b + x /\ b \in 0..Len(s)
    BY <1>1, <1>4, <1>5, <1>6
  <2>2. KeptOf(s) = SubSeq(s, b + 1, b + x)
    BY <1>7, <2>1
  <2>3. s \in Seq(Characters) /\ x \in Nat
    BY <1>1, <1>4
  <2> QED
    BY <2>1, <2>2, <2>3, SuffixIs
<1>9. ASSUME NEW i \in 1..x
      PROVE  s[b + i] = l.buffer[(l.to_read + i - 1) % BUFFER_SIZE].char
  <2> DEFINE at == (k.to_read + i - 1) % BUFFER_SIZE
  <2>1. /\ at \in Cells
        /\ SUB_MOD(at, k.to_write) = IF i > m THEN i - 1 - m ELSE BUFFER_SIZE + i - 1 - m
    <3>1. k.to_write \in Cells /\ k.to_read \in Cells /\ i \in 1..(BUFFER_SIZE - 1)
      BY <1>1, RingFields
    <3> QED
      BY <3>1, OffsetOf, Zenon DEF m, Size
  <2>2. l.buffer[at].char = IF SUB_MOD(at, k.to_write) < n THEN c ELSE k.buffer[at].char
    BY <2>1 DEF Filled
  <2>3. i \in 1..m => u[i] = k.buffer[at].char
    BY <1>2
  <2> HIDE DEF at
  <2>4. CASE q = 0 /\ i \in 1..m
    <3>1. ~(SUB_MOD(at, k.to_write) < n)
      BY <1>1, <1>5, <1>6, <2>1, <2>4
    <3> QED
      BY <1>1, <1>4, <1>6, <2>2, <2>3, <2>4, <3>1 DEF at
  <2>5. CASE q # 0 \/ i > m
    <3>1. SUB_MOD(at, k.to_write) < n
      BY <1>1, <1>5, <1>6, <2>1, <2>5
    <3>2. b + i \in (m + 1)..(m + n)
      BY <1>1, <1>5, <1>6, <2>5
    <3> QED
      BY <1>1, <1>4, <2>2, <3>1, <3>2 DEF at
  <2> QED
    BY <1>1, <2>4, <2>5
<1> QED
  BY <1>8, <1>9, SameUnread DEF s, u, x


-----------------------------------------------------------------------------
(***************************************************************************)
(* Each operation on the ring is one on the queue                          *)
(***************************************************************************)

\* A step of InputQueue from u to v, or none
QueueStep(u, v) ==
    \/ \E t \in BoundedSeq(Characters, Burst) : v = KeptOf(u \o t)
    \/ u # << >> /\ v = Front(u)
    \/ u # << >> /\ v = Tail(u)
    \/ v = << >>
    \/ v = u

\* Up to Burst copies of a character can be entered at once.
LEMMA CopiesBounded ==
    ASSUME NEW c \in Characters, NEW n \in 0..Burst
    PROVE  Copies(c, n) \in BoundedSeq(Characters, Burst)
<1>1. Copies(c, n) \in [1..n -> Characters]
  BY DEF Copies
<1>2. BoundedSeq(Characters, Burst) = UNION {[1..m -> Characters] : m \in 0..Burst}
  BY DEF BoundedSeq, SeqOf
<1> QED
  BY <1>1, <1>2

\* A burst holds the two characters of Ctrl-D and the spaces of a TAB.
LEMMA BurstType == Burst \in Nat /\ Burst >= 2 /\ Burst >= TAB_SIZE
  BY DEF Burst

\* addCharToBuffer writes the cell at the write position and moves on.
LEMMA AddEffect ==
    ASSUME NEW k \in Ring, NEW c \in Characters, NEW ahead \in BOOLEAN,
           NEW l, l = addCharToBuffer(k, c, ahead)
    PROVE  /\ l \in Ring
           /\ Filled(k, l, c, 1)
           /\ l.modify = k.modify
           /\ \A i \in Cells : l.buffer[i] = IF i = k.to_write
                                             THEN [char |-> c, typedAhead |-> ahead]
                                             ELSE k.buffer[i]
<1>1. /\ k.buffer \in [Cells -> Cell] /\ k.to_write \in Cells /\ k.to_read \in Cells
      /\ k.modify \in BOOLEAN /\ k.control \in BOOLEAN
  BY RingFields
<1>2. k = [buffer |-> k.buffer, to_write |-> k.to_write, to_read |-> k.to_read,
           modify |-> k.modify, control |-> k.control]
  BY DEF Ring
<1> DEFINE b == [k.buffer EXCEPT ![k.to_write] = [char |-> c, typedAhead |-> ahead]]
<1>3. l = [buffer |-> b, to_write |-> INC_MOD(k.to_write), to_read |-> k.to_read,
           modify |-> k.modify, control |-> k.control]
  BY <1>2 DEF addCharToBuffer
<1>4. b \in [Cells -> Cell]
  <2>1. [char |-> c, typedAhead |-> ahead] \in Cell
    BY DEF Cell
  <2> QED
    BY <1>1, <2>1
<1>5. /\ INC_MOD(k.to_write) \in Cells
      /\ INC_MOD(k.to_write) = (k.to_write + 1) % BUFFER_SIZE
  <2>1. k.to_write + 1 \in 0..(2 * BUFFER_SIZE - 1)
    BY <1>1 DEF Cells
  <2> QED
    BY <2>1, Wraps DEF INC_MOD, Cells
<1>6. l \in Ring
  BY <1>1, <1>3, <1>4, <1>5 DEF Ring
<1>7. \A i \in Cells : b[i] = IF i = k.to_write THEN [char |-> c, typedAhead |-> ahead]
                              ELSE k.buffer[i]
  BY <1>1
<1>8. \A i \in Cells : SUB_MOD(i, k.to_write) < 1 <=> i = k.to_write
  BY <1>1 DEF SUB_MOD, Cells
<1> HIDE DEF b
<1>9. /\ l.buffer = b /\ l.to_read = k.to_read /\ l.modify = k.modify
      /\ l.to_write = (k.to_write + 1) % BUFFER_SIZE
  BY <1>3, <1>5
<1>10. \A i \in Cells : b[i].char = IF SUB_MOD(i, k.to_write) < 1 THEN c ELSE k.buffer[i].char
  BY <1>7, <1>8
<1> QED
  BY <1>6, <1>7, <1>9, <1>10 DEF Filled

\* A TAB writes n spaces.
LEMMA SpacedEffect ==
    ASSUME NEW k \in Ring, NEW n \in Nat, NEW ahead \in BOOLEAN,
           NEW l, l = Spaced(k, n, ahead)
    PROVE  /\ l \in Ring
           /\ Filled(k, l, SPACE, n)
           /\ \A i \in Cells : l.buffer[i] = IF SUB_MOD(i, k.to_write) < n
                                             THEN [char |-> SPACE, typedAhead |-> ahead]
                                             ELSE k.buffer[i]
<1>1. /\ k.buffer \in [Cells -> Cell] /\ k.to_write \in Cells /\ k.to_read \in Cells
      /\ k.modify \in BOOLEAN /\ k.control \in BOOLEAN
  BY RingFields
<1>2. k = [buffer |-> k.buffer, to_write |-> k.to_write, to_read |-> k.to_read,
           modify |-> k.modify, control |-> k.control]
  BY DEF Ring
<1> DEFINE b == [i \in Cells |-> IF SUB_MOD(i, k.to_write) < n
                                 THEN [char |-> SPACE, typedAhead |-> ahead]
                                 ELSE k.buffer[i]]
<1>3. l = [buffer |-> b, to_write |-> (k.to_write + n) % BUFFER_SIZE, to_read |-> k.to_read,
           modify |-> k.modify, control |-> k.control]
  BY <1>2 DEF Spaced
<1>4. b \in [Cells -> Cell]
  <2>1. [char |-> SPACE, typedAhead |-> ahead] \in Cell
    BY DEF Cell, Characters
  <2> QED
    BY <1>1, <2>1
<1>5. (k.to_write + n) % BUFFER_SIZE \in Cells
  <2>1. k.to_write + n \in Nat
    BY <1>1 DEF Cells
  <2> QED
    BY <2>1, Division DEF Cells
<1>6. l \in Ring
  BY <1>1, <1>3, <1>4, <1>5 DEF Ring
<1>7. \A i \in Cells : b[i] = IF SUB_MOD(i, k.to_write) < n
                              THEN [char |-> SPACE, typedAhead |-> ahead] ELSE k.buffer[i]
  OBVIOUS
<1> HIDE DEF b
<1>8. /\ l.buffer = b /\ l.to_read = k.to_read
      /\ l.to_write = (k.to_write + n) % BUFFER_SIZE
  BY <1>3
<1>9. \A i \in Cells : b[i].char = IF SUB_MOD(i, k.to_write) < n THEN SPACE ELSE k.buffer[i].char
  BY <1>7
<1> QED
  BY <1>6, <1>7, <1>8, <1>9 DEF Filled

\* Any key that enters characters is a step of the queue.
LEMMA FilledStep ==
    ASSUME NEW k \in Ring, NEW l \in Ring, NEW c \in Characters, NEW n \in 0..Burst,
           Filled(k, l, c, n)
    PROVE  QueueStep(Unread(k), Unread(l))
<1>1. n \in Nat
  BY BurstType
<1>2. Unread(l) = KeptOf(Unread(k) \o Copies(c, n))
  BY <1>1, FilledKeeps
<1> QED
  BY <1>2, CopiesBounded DEF QueueStep


\* What the ring has room for is kept.
LEMMA KeptShort ==
    ASSUME NEW s \in Seq(Characters), Len(s) < BUFFER_SIZE
    PROVE  KeptOf(s) = s
<1>1. Len(s) \div BUFFER_SIZE = 0
  <2>1. Len(s) = (BUFFER_SIZE * 0) + Len(s) /\ Len(s) \in 0..(BUFFER_SIZE - 1)
    OBVIOUS
  <2> QED
    BY <2>1, RemainderIs
<1>2. BUFFER_SIZE * 0 = 0
  OBVIOUS
<1>3. KeptOf(s) = SubSeq(s, 1, Len(s))
  BY <1>1, <1>2 DEF KeptOf
<1> QED
  BY <1>3

\* Of a queue that is as long as the ring, or up to one character longer, only
\* what is too much is kept.
LEMMA KeptLong ==
    ASSUME NEW s \in Seq(Characters), NEW x \in 0..1, Len(s) = BUFFER_SIZE + x
    PROVE  KeptOf(s) = IF x = 0 THEN << >> ELSE <<s[BUFFER_SIZE + 1]>>
<1>1. Len(s) \div BUFFER_SIZE = 1
  <2>1. Len(s) = (BUFFER_SIZE * 1) + x /\ x \in 0..(BUFFER_SIZE - 1)
    OBVIOUS
  <2> QED
    BY <2>1, RemainderIs
<1>2. BUFFER_SIZE * 1 = BUFFER_SIZE
  OBVIOUS
<1>3. KeptOf(s) = SubSeq(s, BUFFER_SIZE + 1, BUFFER_SIZE + x)
  BY <1>1, <1>2 DEF KeptOf
<1> QED
  BY <1>3

\* Two characters one after the other, as Ctrl-D enters them, are two at once.
LEMMA KeptTwice ==
    ASSUME NEW u \in Seq(Characters), Len(u) < BUFFER_SIZE,
           NEW c \in Characters, NEW d \in Characters
    PROVE  KeptOf(KeptOf(u \o Copies(c, 1)) \o Copies(d, 1)) = KeptOf(u \o <<c, d>>)
<1> DEFINE s == u \o <<c>>
           t == u \o <<c, d>>
<1>1. Copies(c, 1) = <<c>> /\ Copies(d, 1) = <<d>>
  BY DEF Copies
<1>2. s \in Seq(Characters) /\ Len(s) = Len(u) + 1
  OBVIOUS
<1>3. /\ t \in Seq(Characters) /\ Len(t) = Len(u) + 2
      /\ \A i \in 1..(Len(u) + 2) : t[i] = IF i <= Len(u) THEN u[i] ELSE <<c, d>>[i - Len(u)]
  <2>1. <<c, d>> \in Seq(Characters) /\ Len(<<c, d>>) = 2
    OBVIOUS
  <2> QED
    BY <2>1, EntriesOfConcat
<1>4. /\ s \o <<d>> \in Seq(Characters) /\ Len(s \o <<d>>) = Len(u) + 2
      /\ \A i \in 1..(Len(u) + 2) : (s \o <<d>>)[i] = t[i]
  <2>1. \A i \in 1..(Len(u) + 1) : s[i] = IF i <= Len(u) THEN u[i] ELSE c
    OBVIOUS
  <2>2. \A i \in 1..2 : <<c, d>>[i] = IF i = 1 THEN c ELSE d
    OBVIOUS
  <2> HIDE DEF s, t
  <2>3. /\ s \o <<d>> \in Seq(Characters) /\ Len(s \o <<d>>) = Len(u) + 2
        /\ \A i \in 1..(Len(u) + 2) : (s \o <<d>>)[i] = IF i <= Len(u) + 1 THEN s[i] ELSE d
    BY <1>2
  <2>4. ASSUME NEW i \in 1..(Len(u) + 2) PROVE (s \o <<d>>)[i] = t[i]
    <3>1. CASE i <= Len(u)
      BY <1>3, <2>1, <2>3, <3>1
    <3>2. CASE ~(i <= Len(u))
      <4>1. i - Len(u) \in 1..2 /\ (i - Len(u) = 1 <=> i <= Len(u) + 1)
        BY <3>2
      <4>2. t[i] = IF i - Len(u) = 1 THEN c ELSE d
        BY <1>3, <2>2, <3>2, <4>1
      <4> QED
        BY <2>1, <2>3, <3>2, <4>1, <4>2
    <3> QED
      BY <3>1, <3>2
  <2> QED
    BY <2>3, <2>4
<1>5. t = s \o <<d>> /\ t[Len(u) + 2] = d
  <2> HIDE DEF s, t
  <2>1. t = s \o <<d>>
    BY <1>3, <1>4
  <2> QED
    BY <1>2, <2>1
<1> HIDE DEF s, t
<1>6. CASE Len(s) < BUFFER_SIZE
  BY <1>1, <1>2, <1>5, <1>6, KeptShort DEF s, t
<1>7. CASE Len(s) = BUFFER_SIZE
  <2>1. KeptOf(s) = << >>
    BY <1>2, <1>7, KeptLong
  <2>2. KeptOf(<<d>>) = <<d>>
    <3>1. <<d>> \in Seq(Characters) /\ Len(<<d>>) < BUFFER_SIZE
      OBVIOUS
    <3> QED
      BY <3>1, KeptShort
  <2>3. << >> \o <<d>> = <<d>>
    OBVIOUS
  <2>4. KeptOf(t) = <<d>>
    <3>1. Len(u) + 2 = BUFFER_SIZE + 1
      BY <1>2, <1>7
    <3>2. Len(t) = BUFFER_SIZE + 1 /\ t[BUFFER_SIZE + 1] = d
      BY <1>3, <1>5, <3>1
    <3> QED
      BY <1>3, <3>2, KeptLong
  <2> QED
    BY <1>1, <2>1, <2>2, <2>3, <2>4 DEF s, t
<1> QED
  BY <1>2, <1>6, <1>7

\* Ctrl-D after other characters is a step of the queue.
LEMMA PairStep ==
    ASSUME NEW k \in Ring, NEW j \in Ring, NEW l \in Ring,
           NEW c \in Characters, NEW d \in Characters, Filled(k, j, c, 1), Filled(j, l, d, 1)
    PROVE  QueueStep(Unread(k), Unread(l))
<1>1. Unread(k) \in Seq(Characters) /\ Len(Unread(k)) < BUFFER_SIZE
  BY UnreadIs, RingFields
<1>2. Unread(l) = KeptOf(KeptOf(Unread(k) \o Copies(c, 1)) \o Copies(d, 1))
  BY FilledKeeps
<1>3. Unread(l) = KeptOf(Unread(k) \o <<c, d>>)
  BY <1>1, <1>2, KeptTwice
<1>4. <<c, d>> \in BoundedSeq(Characters, Burst)
  <2>1. <<c, d>> \in [1..2 -> Characters] /\ 2 \in 0..Burst
    BY BurstType
  <2>2. BoundedSeq(Characters, Burst) = UNION {[1..m -> Characters] : m \in 0..Burst}
    BY DEF BoundedSeq, SeqOf
  <2> QED
    BY <2>1, <2>2
<1> QED
  BY <1>3, <1>4 DEF QueueStep

\* A character taken is the first of the queue.
LEMMA TakeStep ==
    ASSUME NEW k \in Ring, NEW l \in Ring, ~Empty(k), l.buffer = k.buffer,
           l.to_write = k.to_write, l.to_read = INC_MOD(k.to_read)
    PROVE  QueueStep(Unread(k), Unread(l))
<1>1. /\ Size(k) \in 1..(BUFFER_SIZE - 1) /\ k.to_read \in Cells /\ k.to_write \in Cells
  BY RingFields
<1>2. k.to_read + 1 \in 0..(2 * BUFFER_SIZE - 1)
  BY <1>1 DEF Cells
<1>3. l.to_read = IF k.to_read + 1 < BUFFER_SIZE THEN k.to_read + 1 ELSE 0
  BY <1>1, <1>2, Wraps DEF INC_MOD, Cells
<1>4. Size(l) = Size(k) - 1
  BY <1>1, <1>3 DEF Size, SUB_MOD, Cells
<1>5. ASSUME NEW i \in 1..Size(l)
      PROVE  (l.to_read + i - 1) % BUFFER_SIZE = (k.to_read + (i + 1) - 1) % BUFFER_SIZE
  <2> DEFINE a == l.to_read + i - 1
             b == k.to_read + (i + 1) - 1
  <2>1. /\ a \in 0..(2 * BUFFER_SIZE - 1) /\ b \in 0..(2 * BUFFER_SIZE - 1)
        /\ a = b \/ a = b - BUFFER_SIZE
        /\ a < BUFFER_SIZE \/ a = b
    BY <1>1, <1>3, <1>4 DEF Cells
  <2> HIDE DEF a, b
  <2>2. a % BUFFER_SIZE = b % BUFFER_SIZE
    BY <2>1, Wraps
  <2> QED
    BY <2>2 DEF a, b
<1>6. /\ Unread(k) \in Seq(Characters) /\ Len(Unread(k)) = Size(k)
      /\ \A i \in 1..Size(k) : Unread(k)[i] = k.buffer[(k.to_read + i - 1) % BUFFER_SIZE].char
  BY UnreadIs
<1> DEFINE u == Unread(k)
           t == Tail(u)
<1>7. u \in Seq(Characters) /\ Len(u) = Size(k) /\ u # << >>
  BY <1>1, <1>6
<1>8. t \in Seq(Characters) /\ Len(t) = Size(l) /\ \A i \in 1..Size(l) : t[i] = u[i + 1]
  <2> HIDE DEF u
  <2> QED
    BY <1>1, <1>4, <1>7
<1>9. ASSUME NEW i \in 1..Size(l)
      PROVE  t[i] = l.buffer[(l.to_read + i - 1) % BUFFER_SIZE].char
  <2>1. i + 1 \in 1..Size(k)
    BY <1>1, <1>4
  <2>2. u[i + 1] = k.buffer[(k.to_read + (i + 1) - 1) % BUFFER_SIZE].char
    BY <1>6, <2>1
  <2> HIDE DEF t, u
  <2> QED
    BY <1>5, <1>8, <2>2
<1>10. Unread(l) = t
  <2> HIDE DEF t
  <2> QED
    BY <1>8, <1>9, SameUnread
<1> QED
  BY <1>7, <1>10 DEF QueueStep

\* A character erased is the last of the queue.
LEMMA EraseStep ==
    ASSUME NEW k \in Ring, NEW l \in Ring, ~Empty(k), l.buffer = k.buffer,
           l.to_write = SUB_MOD(k.to_write, 1), l.to_read = k.to_read
    PROVE  QueueStep(Unread(k), Unread(l))
<1>1. /\ Size(k) \in 1..(BUFFER_SIZE - 1) /\ k.to_read \in Cells /\ k.to_write \in Cells
  BY RingFields
<1>2. Size(l) = Size(k) - 1
  BY <1>1 DEF Size, SUB_MOD, Cells
<1> DEFINE u == Unread(k)
           t == Front(u)
<1>3. /\ u \in Seq(Characters) /\ Len(u) = Size(k) /\ u # << >>
      /\ \A i \in 1..Size(k) : u[i] = k.buffer[(k.to_read + i - 1) % BUFFER_SIZE].char
  BY <1>1, UnreadIs
<1>4. t \in Seq(Characters) /\ Len(t) = Size(l) /\ \A i \in 1..Size(l) : t[i] = u[i]
  <2> HIDE DEF u
  <2> QED
    BY <1>1, <1>2, <1>3 DEF Front
<1>5. ASSUME NEW i \in 1..Size(l)
      PROVE  t[i] = l.buffer[(l.to_read + i - 1) % BUFFER_SIZE].char
  <2> HIDE DEF t, u
  <2> QED
    BY <1>1, <1>2, <1>3, <1>4
<1>6. Unread(l) = t
  <2> HIDE DEF t
  <2> QED
    BY <1>4, <1>5, SameUnread
<1> QED
  BY <1>3, <1>6 DEF QueueStep

\* A ring whose positions meet is an empty queue.
LEMMA DropStep ==
    ASSUME NEW k \in Ring, NEW l \in Ring, l.to_write = l.to_read
    PROVE  QueueStep(Unread(k), Unread(l))
<1>1. Len(Unread(l)) = 0 /\ Unread(l) \in Seq(Characters)
  BY UnreadIs, RingFields DEF Empty
<1>2. Unread(l) = << >>
  BY <1>1
<1> QED
  BY <1>2 DEF QueueStep

\* Options and the Control key are no part of the queue.
LEMMA SameStep ==
    ASSUME NEW k, NEW l, l.buffer = k.buffer, l.to_write = k.to_write, l.to_read = k.to_read
    PROVE  QueueStep(Unread(k), Unread(l))
<1>1. Unread(l) = Unread(k)
  BY DEF Unread
<1> QED
  BY <1>1 DEF QueueStep


-----------------------------------------------------------------------------
(***************************************************************************)
(* The invariant                                                           *)
(***************************************************************************)

\* Cells between the positions
UnreadCell(k, i) == SUB_MOD(i, k.to_read) < Size(k)

Fresh(k) == \A i \in Cells : UnreadCell(k, i) => ~k.buffer[i].typedAhead

CmdTyped ==
    /\ cmd = [progs |-> cmd.progs, pid |-> cmd.pid, bg |-> cmd.bg, pids |-> cmd.pids,
              blocked |-> cmd.blocked]
    /\ cmd.pids \subseteq Users
    /\ cmd.bg \in BOOLEAN

ConsoleTyped ==
    /\ SemTypeOK
    /\ kb \in Ring
    /\ DOMAIN pc = PIDs
    /\ line \in Seq(Cell)
    /\ foreground \in [PIDs -> BOOLEAN]
    /\ waitPid \in [PIDs -> {NULL, SHELLPID}]
    /\ CmdTyped

Entries == Range(sems[keyboard_semaphore].waiting)

AtKeyboard == pc[SHELLPID] \in {"getchar", "skip"}

\* A post wakes the shell only where it reads
ShellListed == SHELLPID \in Entries => state[SHELLPID] = "BLOCKED" /\ AtKeyboard

\* An end wakes the shell only where it waits, and for that process
ShellAwaits == \A q \in PIDs : Alive(q) /\ waitPid[q] = SHELLPID =>
                                  pc[SHELLPID] = "clear" /\ cmd.pid = q

\* The shell goes on after the end of the process it waited for
ShellWoken == pc[SHELLPID] = "clear" => state[SHELLPID] = "BLOCKED" \/ ~Alive(cmd.pid)

ShellRuns == /\ pc[SHELLPID] \in {"wait", "clear", "toggle"} => cmd.pid \in Users
             /\ pc[SHELLPID] = "create" => cmd.pid \in Users \cup {NULL}

Serving == pc[SHELLPID] \in {"create", "wait", "clear"}

\* The only process that reads is the one the shell is about to wait for
UsersRead == \A q \in Users : Reader(q) => Serving /\ cmd.pid = q /\ ~cmd.bg

InitReads == pc[INITPID] \in {"getchar", "skip"}

\* What was typed ahead is in the ring only while the shell waits
AheadInWait == pc[SHELLPID] # "clear" => Fresh(kb)

ConsoleInv ==
    /\ ConsoleTyped
    /\ ShellListed /\ ShellAwaits /\ ShellWoken /\ ShellRuns /\ UsersRead /\ ~InitReads
    /\ AheadInWait /\ TypeAheadIsDropped


-----------------------------------------------------------------------------
(***************************************************************************)
(* What each operation on the ring keeps                                   *)
(***************************************************************************)

\* A step of the ring; ahead says whether a character entered is typed ahead
RingStep(k, l, ahead) ==
    /\ l \in Ring
    /\ QueueStep(Unread(k), Unread(l))
    /\ Fresh(k) /\ ~ahead => Fresh(l)

\* A cell that is unread after n characters were entered was unread or is one of them.
LEMMA UnreadGrows ==
    ASSUME NEW w \in Cells, NEW r \in Cells, NEW n \in Nat, NEW y, y = (w + n) % BUFFER_SIZE,
           NEW i \in Cells, SUB_MOD(i, r) < SUB_MOD(y, r)
    PROVE  SUB_MOD(i, w) < n \/ SUB_MOD(i, r) < SUB_MOD(w, r)
<1>1. PICK q \in Nat : SUB_MOD(w, r) + n = (BUFFER_SIZE * q) + SUB_MOD(y, r)
  <2>1. Grown(w, r, n, y)
    BY SizeGrows
  <2> QED
    BY <2>1, Zenon DEF Grown
<1>2. BUFFER_SIZE * q \in Nat
  OBVIOUS
<1>3. y \in Cells
  <2>1. w + n \in Nat
    BY DEF Cells
  <2> QED
    BY <2>1, Division DEF Cells
<1>4. SUB_MOD(y, r) \in Nat /\ SUB_MOD(w, r) \in Nat
  BY <1>3 DEF SUB_MOD, Cells
<1>5. SUB_MOD(y, r) <= SUB_MOD(w, r) + n
  BY <1>1, <1>2, <1>4
<1> QED
  BY <1>4, <1>5 DEF SUB_MOD, Cells

\* Characters that are not typed ahead leave the unread part free of such.
LEMMA FilledFresh ==
    ASSUME NEW k \in Ring, NEW l \in Ring, NEW c, NEW n \in Nat, Filled(k, l, c, n), Fresh(k),
           \A i \in Cells : l.buffer[i].typedAhead =>
                              k.buffer[i].typedAhead /\ ~(SUB_MOD(i, k.to_write) < n)
    PROVE  Fresh(l)
<1>1. /\ k.to_write \in Cells /\ k.to_read \in Cells /\ l.to_read = k.to_read
      /\ l.to_write = (k.to_write + n) % BUFFER_SIZE
  BY RingFields DEF Filled
<1> SUFFICES ASSUME NEW i \in Cells, UnreadCell(l, i) PROVE ~l.buffer[i].typedAhead
  BY DEF Fresh
<1>2. SUB_MOD(i, k.to_read) < SUB_MOD(l.to_write, k.to_read)
  BY <1>1 DEF UnreadCell, Size
<1>3. SUB_MOD(i, k.to_write) < n \/ SUB_MOD(i, k.to_read) < SUB_MOD(k.to_write, k.to_read)
  BY <1>1, <1>2, UnreadGrows
<1>4. CASE SUB_MOD(i, k.to_write) < n
  BY <1>4
<1>5. CASE ~(SUB_MOD(i, k.to_write) < n)
  <2>1. UnreadCell(k, i)
    BY <1>3, <1>5 DEF UnreadCell, Size
  <2> QED
    BY <1>5, <2>1 DEF Fresh
<1> QED
  BY <1>4, <1>5

\* A character entered while the shell does not wait keeps the ring fresh.
LEMMA AddFresh ==
    ASSUME NEW k \in Ring, NEW c \in Characters, Fresh(k), NEW ahead \in BOOLEAN, ~ahead,
           NEW l, l = addCharToBuffer(k, c, ahead)
    PROVE  Fresh(l)
<1>1. /\ l \in Ring /\ Filled(k, l, c, 1)
      /\ \A i \in Cells : l.buffer[i] = IF i = k.to_write
                                        THEN [char |-> c, typedAhead |-> ahead] ELSE k.buffer[i]
  BY AddEffect
<1>2. k.to_write \in Cells
  BY RingFields
<1>3. ASSUME NEW i \in Cells, l.buffer[i].typedAhead
      PROVE  k.buffer[i].typedAhead /\ ~(SUB_MOD(i, k.to_write) < 1)
  <2>1. i # k.to_write
    BY <1>1, <1>3
  <2>2. k.buffer[i].typedAhead
    BY <1>1, <1>3, <2>1
  <2>3. ~(SUB_MOD(i, k.to_write) < 1)
    BY <1>2, <2>1 DEF SUB_MOD, Cells
  <2> QED
    BY <2>2, <2>3
<1> QED
  BY <1>1, <1>3, FilledFresh

\* One character entered is a step of the ring.
LEMMA RingAdd ==
    ASSUME NEW k \in Ring, NEW c \in Characters, NEW ahead \in BOOLEAN,
           NEW l, l = addCharToBuffer(k, c, ahead)
    PROVE  RingStep(k, l, ahead)
<1>1. l \in Ring /\ Filled(k, l, c, 1)
  BY AddEffect
<1>2. 1 \in 0..Burst
  BY BurstType
<1>3. QueueStep(Unread(k), Unread(l))
  BY <1>1, <1>2, FilledStep
<1>4. Fresh(k) /\ ~ahead => Fresh(l)
  BY AddFresh
<1> QED
  BY <1>1, <1>3, <1>4 DEF RingStep

\* So are two at once.
LEMMA RingAddTwo ==
    ASSUME NEW k \in Ring, NEW c \in Characters, NEW d \in Characters, NEW ahead \in BOOLEAN,
           NEW l, l = addCharToBuffer(addCharToBuffer(k, c, ahead), d, ahead)
    PROVE  RingStep(k, l, ahead)
<1>1. PICK j : j = addCharToBuffer(k, c, ahead)
  OBVIOUS
<1>2. j \in Ring /\ Filled(k, j, c, 1)
  BY <1>1, AddEffect
<1>3. l = addCharToBuffer(j, d, ahead)
  BY <1>1
<1>4. l \in Ring /\ Filled(j, l, d, 1)
  BY <1>2, <1>3, AddEffect
<1>5. QueueStep(Unread(k), Unread(l))
  BY <1>2, <1>4, PairStep
<1>6. Fresh(k) /\ ~ahead => Fresh(l)
  BY <1>1, <1>2, <1>3, AddFresh
<1> QED
  BY <1>4, <1>5, <1>6 DEF RingStep

\* So are the spaces of a TAB.
LEMMA RingTab ==
    ASSUME NEW k \in Ring, NEW n \in 1..TAB_SIZE, NEW ahead \in BOOLEAN,
           NEW l, l = Spaced(k, n, ahead)
    PROVE  RingStep(k, l, ahead)
<1>1. /\ l \in Ring /\ Filled(k, l, SPACE, n)
      /\ \A i \in Cells : l.buffer[i] = IF SUB_MOD(i, k.to_write) < n
                                        THEN [char |-> SPACE, typedAhead |-> ahead]
                                        ELSE k.buffer[i]
  BY SpacedEffect
<1>2. SPACE \in Characters /\ n \in 0..Burst
  BY BurstType DEF Characters
<1>3. QueueStep(Unread(k), Unread(l))
  BY <1>1, <1>2, FilledStep
<1>4. ASSUME Fresh(k), ~ahead PROVE Fresh(l)
  <2>1. ASSUME NEW i \in Cells, l.buffer[i].typedAhead
        PROVE  k.buffer[i].typedAhead /\ ~(SUB_MOD(i, k.to_write) < n)
    <3>1. ~(SUB_MOD(i, k.to_write) < n)
      BY <1>1, <1>4, <2>1
    <3> QED
      BY <1>1, <2>1, <3>1
  <2>2. n \in Nat
    OBVIOUS
  <2> QED
    BY <1>1, <1>4, <2>1, <2>2, FilledFresh
<1> QED
  BY <1>1, <1>3, <1>4 DEF RingStep

\* The position after r, and what reading it or erasing the last cell leaves unread
LEMMA NextCell ==
    ASSUME NEW r \in Cells
    PROVE  /\ INC_MOD(r) = IF r + 1 < BUFFER_SIZE THEN r + 1 ELSE 0
           /\ INC_MOD(r) \in Cells
<1> DEFINE a == r + 1
<1>1. a \in 0..(2 * BUFFER_SIZE - 1)
  BY DEF Cells
<1>2. a % BUFFER_SIZE = IF a < BUFFER_SIZE THEN a ELSE a - BUFFER_SIZE
  <2> HIDE DEF a
  <2> QED BY <1>1, Wraps
<1> QED
  BY <1>2 DEF INC_MOD, Cells

\* What is unread after the reader moved on was unread before.
LEMMA UnreadShrinks ==
    ASSUME NEW w \in Cells, NEW r \in Cells, NEW i \in Cells, w # r
    PROVE  /\ SUB_MOD(i, INC_MOD(r)) < SUB_MOD(w, INC_MOD(r)) => SUB_MOD(i, r) < SUB_MOD(w, r)
           /\ SUB_MOD(i, r) < SUB_MOD(SUB_MOD(w, 1), r) => SUB_MOD(i, r) < SUB_MOD(w, r)
<1>1. PICK x \in Cells : x = INC_MOD(r) /\ x = IF r + 1 < BUFFER_SIZE THEN r + 1 ELSE 0
  BY NextCell
<1>2. SUB_MOD(i, x) < SUB_MOD(w, x) => SUB_MOD(i, r) < SUB_MOD(w, r)
  BY <1>1 DEF SUB_MOD, Cells
<1>3. PICK y \in Cells : y = SUB_MOD(w, 1) /\ y = IF w = 0 THEN BUFFER_SIZE - 1 ELSE w - 1
  BY DEF SUB_MOD, Cells
<1>4. SUB_MOD(i, r) < SUB_MOD(y, r) => SUB_MOD(i, r) < SUB_MOD(w, r)
  BY <1>3 DEF SUB_MOD, Cells
<1> QED
  BY <1>1, <1>2, <1>3, <1>4

\* A character taken by a reader is a step of the ring.
LEMMA RingTake ==
    ASSUME NEW k \in Ring, ~Empty(k), NEW ahead,
           NEW l, l = [k EXCEPT !.to_read = INC_MOD(@), !.modify = FALSE]
    PROVE  RingStep(k, l, ahead)
<1>1. /\ k.buffer \in [Cells -> Cell] /\ k.to_write \in Cells /\ k.to_read \in Cells
      /\ Size(k) \in 0..(BUFFER_SIZE - 1) /\ Size(k) # 0
  BY RingFields
<1>2. k.to_write # k.to_read
  BY DEF Empty
<1>3. INC_MOD(k.to_read) \in Cells
  BY <1>1, NextCell
<1>4. /\ l \in Ring /\ l.buffer = k.buffer /\ l.to_write = k.to_write
      /\ l.to_read = INC_MOD(k.to_read)
  BY <1>3 DEF Ring
<1>5. \A i \in Cells : UnreadCell(l, i) => UnreadCell(k, i)
  BY <1>1, <1>2, <1>4, UnreadShrinks DEF UnreadCell, Size
<1>6. QueueStep(Unread(k), Unread(l))
  BY <1>4, TakeStep
<1> QED
  BY <1>4, <1>5, <1>6 DEF RingStep, Fresh

\* So is one erased by BACKSPACE.
LEMMA RingErase ==
    ASSUME NEW k \in Ring, ~Empty(k), NEW ahead,
           NEW l, l = [k EXCEPT !.to_write = SUB_MOD(@, 1)]
    PROVE  RingStep(k, l, ahead)
<1>1. /\ k.buffer \in [Cells -> Cell] /\ k.to_write \in Cells /\ k.to_read \in Cells
      /\ Size(k) \in 0..(BUFFER_SIZE - 1) /\ Size(k) # 0
  BY RingFields
<1>2. SUB_MOD(k.to_write, 1) \in Cells
  BY <1>1 DEF SUB_MOD, Cells
<1>3. /\ l \in Ring /\ l.buffer = k.buffer /\ l.to_read = k.to_read
      /\ l.to_write = SUB_MOD(k.to_write, 1)
  BY <1>2 DEF Ring
<1>4. \A i \in Cells : UnreadCell(l, i) => UnreadCell(k, i)
  <2>1. k.to_write # k.to_read
    BY DEF Empty
  <2> QED
    BY <1>1, <1>3, <2>1, UnreadShrinks DEF UnreadCell, Size
<1>5. QueueStep(Unread(k), Unread(l))
  BY <1>3, EraseStep
<1> QED
  BY <1>3, <1>4, <1>5 DEF RingStep, Fresh

\* A buffer that is dropped or cleared has no unread cell.
LEMMA RingDrop ==
    ASSUME NEW k \in Ring, NEW l \in Ring, l.to_write = l.to_read, NEW ahead
    PROVE  RingStep(k, l, ahead) /\ Fresh(l)
<1>1. QueueStep(Unread(k), Unread(l))
  BY DropStep
<1>2. Fresh(l)
  BY RingFields DEF Fresh, UnreadCell, Size, SUB_MOD, Cells
<1> QED
  BY <1>1, <1>2 DEF RingStep

\* So is nothing at all.
LEMMA RingSame ==
    ASSUME NEW k \in Ring, NEW l \in Ring, NEW ahead,
           l.buffer = k.buffer, l.to_write = k.to_write, l.to_read = k.to_read
    PROVE  RingStep(k, l, ahead)
<1>1. QueueStep(Unread(k), Unread(l))
  BY SameStep
<1> QED
  BY <1>1 DEF RingStep, Fresh, UnreadCell, Size


-----------------------------------------------------------------------------
(***************************************************************************)
(* What the keyboard does to the processes                                 *)
(***************************************************************************)

NobodyStarts == \A p \in PIDs : state[p] = "EXITED" => state'[p] = "EXITED"

\* The keyboard's semaphore is the first one of the table.
LEMMA KeyboardSem == keyboard_semaphore \in SemIds
  BY DEF keyboard_semaphore, SemIds

\* The shell and the users' processes are three kinds of PIDs with init.
LEMMA Pids == /\ SHELLPID \in PIDs /\ INITPID \in PIDs /\ Users \subseteq PIDs
              /\ SHELLPID \notin Users /\ INITPID \notin Users /\ SHELLPID # INITPID
              /\ PIDs = Users \cup {INITPID, SHELLPID}
              /\ NULL \notin PIDs
  BY DEF PIDs, Users, SHELLPID

\* semPost, once or twice, empties the queue into READY.
LEMMA PostedEffect ==
    ASSUME SemTypeOK, NEW n \in Nat, Posted(n)
    PROVE  /\ SemTypeOK'
           /\ NobodyStarts
           /\ \A p \in PIDs : state'[p] = "BLOCKED" <=> state[p] = "BLOCKED" /\ p \notin Entries
           /\ Entries' = {}
<1> DEFINE s == keyboard_semaphore
<1>1. ProcTypeOK /\ s \in SemIds /\ sems[s] \in Sem
  BY KeyboardSem DEF SemTypeOK, ProcTypeOK
<1>2. /\ sems' = [sems EXCEPT ![s].value = sems[s].value + n, ![s].waiting = << >>]
      /\ UNCHANGED <<inWait, handle>>
      /\ Wake(Entries)
  BY DEF Posted, Entries
<1> HIDE DEF s
<1>3. [[sems[s] EXCEPT !.value = sems[s].value + n] EXCEPT !.waiting = << >>] \in Sem
  <2>1. sems[s].value + n \in Int /\ << >> \in Seq(PIDs)
    BY <1>1 DEF Sem
  <2>2. [sems[s] EXCEPT !.value = sems[s].value + n] \in Sem
    BY <1>1, <2>1, SemFields
  <2> QED
    BY <2>1, <2>2, SemFields
<1>4. sems' \in [SemIds -> Sem] /\ sems'[s].waiting = << >>
  BY <1>1, <1>2, <1>3 DEF SemTypeOK, Sem
<1>5. /\ ProcTypeOK'
      /\ \A p \in PIDs : state'[p] = "BLOCKED" <=> state[p] = "BLOCKED" /\ p \notin Entries
  BY <1>1, <1>2, WakeEffect
<1>6. NobodyStarts
  BY <1>1, <1>2, WokenEffect DEF Wake, Stay, NobodyStarts, ProcTypeOK
<1>7. Entries' = {}
  BY <1>4 DEF Entries, s, Range
<1> QED
  BY <1>2, <1>4, <1>5, <1>6, <1>7 DEF SemTypeOK, ProcTypeOK

\* A process that finds no line is listed and sleeps.
LEMMA AwaitEffect ==
    ASSUME SemTypeOK, kb \in Ring, state[cpu] = "RUNNING", AwaitKey, NEW ahead
    PROVE  /\ SemTypeOK'
           /\ NobodyStarts
           /\ \A p \in PIDs : state'[p] = "BLOCKED" <=> state[p] = "BLOCKED" \/ p = cpu
           /\ Entries' = Entries \cup {cpu}
           /\ RingStep(kb, kb', ahead)
<1> DEFINE s == keyboard_semaphore
           w == Append(sems[s].waiting, cpu)
<1>1. ProcTypeOK /\ s \in SemIds /\ sems[s] \in Sem /\ cpu \in PIDs
  BY KeyboardSem DEF SemTypeOK, ProcTypeOK
<1>2. /\ sems' = [sems EXCEPT ![s].value = 0, ![s].waiting = w]
      /\ inWait' = [inWait EXCEPT ![cpu] = s]
      /\ BlockSelf /\ handle' = handle
      /\ kb' = Options
  BY DEF AwaitKey
<1> HIDE DEF s
<1>3. sems[s].waiting \in Seq(PIDs)
  BY <1>1 DEF Sem
<1>4. w \in Seq(PIDs) /\ Range(w) = Range(sems[s].waiting) \cup {cpu}
  BY <1>1, <1>3, RangeOfAppend
<1> HIDE DEF w
<1>5. [[sems[s] EXCEPT !.value = 0] EXCEPT !.waiting = w] \in Sem
  <2>1. [sems[s] EXCEPT !.value = 0] \in Sem
    BY <1>1, SemFields
  <2> QED
    BY <1>4, <2>1, SemFields
<1>6. sems' \in [SemIds -> Sem] /\ sems'[s].waiting = w
  BY <1>1, <1>2, <1>5 DEF SemTypeOK, Sem
<1>7. /\ ProcTypeOK'
      /\ \A p \in PIDs : state'[p] = "BLOCKED" <=> p = cpu \/ state[p] = "BLOCKED"
  BY <1>1, <1>2, BlockSelfEffect
<1>8. NobodyStarts
  <2> DEFINE st == [state EXCEPT ![cpu] = "BLOCKED"]
  <2>1. st \in [PIDs -> States] /\ \A p \in PIDs : state[p] = "EXITED" => st[p] = "EXITED"
    BY <1>1 DEF ProcTypeOK, States
  <2>2. Switch(st)
    BY <1>2 DEF BlockSelf
  <2> HIDE DEF st
  <2> QED
    BY <1>1, <2>1, <2>2, SwitchEffect DEF NobodyStarts
<1>9. Entries' = Entries \cup {cpu}
  BY <1>4, <1>6 DEF Entries, s
<1>10. inWait' \in [PIDs -> SemIds \cup {NoSem}]
  BY <1>1, <1>2 DEF SemTypeOK
<1>11. RingStep(kb, kb', ahead)
  <2>1. /\ kb' \in Ring /\ kb'.buffer = kb.buffer
        /\ kb'.to_write = kb.to_write /\ kb'.to_read = kb.to_read
    BY <1>2 DEF Options, Ring
  <2> QED
    BY <2>1, RingSame
<1> QED
  BY <1>2, <1>6, <1>7, <1>8, <1>9, <1>10, <1>11 DEF SemTypeOK, ProcTypeOK

\* A reader takes the first unread character, and perhaps a unit of the semaphore.
LEMMA TakeCharEffect ==
    ASSUME SemTypeOK, kb \in Ring, TakeChar, NEW ahead
    PROVE  /\ SemTypeOK'
           /\ UNCHANGED <<state, cpu>>
           /\ Entries' = Entries
           /\ RingStep(kb, kb', ahead)
           /\ UnreadCell(kb, kb.to_read)
<1> DEFINE s == keyboard_semaphore
<1>1. s \in SemIds /\ sems[s] \in Sem /\ cpu \in PIDs
  BY KeyboardSem DEF SemTypeOK
<1>2. /\ sems' = IF Again THEN [sems EXCEPT ![s].value = sems[s].value - 1] ELSE sems
      /\ inWait' = [inWait EXCEPT ![cpu] = NoSem]
      /\ UNCHANGED <<state, cpu, handle>>
      /\ kb' = [kb EXCEPT !.to_read = INC_MOD(@), !.modify = FALSE]
      /\ MayTake
  BY DEF TakeChar, procVars
<1> HIDE DEF s
<1>3. sems' \in [SemIds -> Sem] /\ sems'[s].waiting = sems[s].waiting
  <2>1. CASE ~Again
    BY <1>2, <2>1 DEF SemTypeOK
  <2>2. CASE Again
    <3>1. sems[s].value \in Int
      BY <1>1 DEF Sem
    <3>2. sems[s].value - 1 \in Int
      BY <3>1
    <3>3. [sems[s] EXCEPT !.value = sems[s].value - 1] \in Sem
      BY <1>1, <3>2, SemFields
    <3> QED
      BY <1>1, <1>2, <2>2, <3>3 DEF SemTypeOK, Sem
  <2> QED
    BY <2>1, <2>2
<1>4. ~Empty(kb)
  <2>1. Options.to_write = kb.to_write /\ Options.to_read = kb.to_read
    BY DEF Options, Ring
  <2> QED
    BY <1>2, <2>1 DEF MayTake, LineReady, Empty
<1>5. RingStep(kb, kb', ahead)
  BY <1>2, <1>4, RingTake
<1>6. UnreadCell(kb, kb.to_read)
  BY <1>4, RingFields DEF UnreadCell, SUB_MOD, Cells
<1> QED
  BY <1>1, <1>2, <1>3, <1>5, <1>6 DEF SemTypeOK, Entries, s


-----------------------------------------------------------------------------
(***************************************************************************)
(* Steps that are not the shell's                                          *)
(***************************************************************************)

\* The shell and its variables are where they were
ShellStays ==
    /\ pc'[SHELLPID] = pc[SHELLPID] /\ pc'[INITPID] = pc[INITPID]
    /\ \A q \in Users : pc'[q] \in {"getchar", "skip"} => pc[q] \in {"getchar", "skip"}
    /\ UNCHANGED <<line, cmd, foreground>>

\* Nobody is registered anew, nobody starts, and the shell wakes for a reason
ProcessesStep ==
    /\ waitPid' \in [PIDs -> {NULL, SHELLPID}]
    /\ \A q \in PIDs : waitPid'[q] = waitPid[q] \/ waitPid'[q] = NULL
    /\ NobodyStarts
    /\ state[SHELLPID] = "BLOCKED" =>
          \/ state'[SHELLPID] = "BLOCKED"
          \/ SHELLPID \in Entries
          \/ \E q \in PIDs : Alive(q) /\ waitPid[q] = SHELLPID /\ state'[q] = "EXITED"
    /\ SHELLPID \in Entries' => SHELLPID \in Entries /\ state'[SHELLPID] = "BLOCKED"

\* Such a step keeps the invariant.
LEMMA QuietKeeps ==
    ASSUME ConsoleInv, SemTypeOK', DOMAIN pc' = PIDs, ShellStays, ProcessesStep,
           RingStep(kb, kb', Awaited)
    PROVE  ConsoleInv'
<1>1. /\ ConsoleTyped /\ ShellListed /\ ShellAwaits /\ ShellWoken /\ ShellRuns /\ UsersRead
      /\ ~InitReads /\ AheadInWait /\ TypeAheadIsDropped
  BY DEF ConsoleInv
<1>2. \A q \in PIDs : Alive(q)' => Alive(q)
  BY DEF ProcessesStep, NobodyStarts, Alive
<1>3. ConsoleTyped'
  BY <1>1 DEF ConsoleTyped, ShellStays, ProcessesStep, RingStep, CmdTyped
<1>4. ShellListed'
  BY <1>1 DEF ShellListed, ShellStays, ProcessesStep, AtKeyboard
<1>5. ShellAwaits'
  <2> SUFFICES ASSUME NEW q \in PIDs, Alive(q)', waitPid'[q] = SHELLPID
               PROVE  pc'[SHELLPID] = "clear" /\ cmd'.pid = q
    BY DEF ShellAwaits
  <2>1. Alive(q) /\ waitPid[q] = SHELLPID
    BY <1>2 DEF ProcessesStep, SHELLPID
  <2> QED
    BY <1>1, <2>1 DEF ShellAwaits, ShellStays
<1>6. ShellWoken'
  <2> SUFFICES ASSUME pc'[SHELLPID] = "clear", state'[cmd.pid] # "EXITED"
               PROVE  state'[SHELLPID] = "BLOCKED"
    BY DEF ShellWoken, ShellStays, Alive
  <2>1. pc[SHELLPID] = "clear"
    BY DEF ShellStays
  <2>2. cmd.pid \in PIDs
    BY <1>1, <2>1, Pids DEF ShellRuns
  <2>3. state[SHELLPID] = "BLOCKED"
    BY <1>1, <2>1, <2>2 DEF ShellWoken, Alive, ProcessesStep, NobodyStarts
  <2>4. SHELLPID \notin Entries
    BY <1>1, <2>1 DEF ShellListed, AtKeyboard
  <2>5. ~ \E q \in PIDs : Alive(q) /\ waitPid[q] = SHELLPID /\ state'[q] = "EXITED"
    BY <1>1, <2>1 DEF ShellAwaits, Alive
  <2> QED
    BY <2>3, <2>4, <2>5 DEF ProcessesStep
<1>7. ShellRuns'
  BY <1>1 DEF ShellRuns, ShellStays
<1>8. UsersRead'
  <2> SUFFICES ASSUME NEW q \in Users, Reader(q)'
               PROVE  Serving' /\ cmd'.pid = q /\ ~cmd'.bg
    BY DEF UsersRead
  <2>1. Reader(q)
    BY <1>2, Pids DEF Reader, ShellStays
  <2> QED
    BY <1>1, <2>1 DEF UsersRead, Serving, ShellStays
<1>9. ~InitReads'
  BY <1>1 DEF InitReads, ShellStays
<1>10. AheadInWait'
  <2> SUFFICES ASSUME pc'[SHELLPID] # "clear" PROVE Fresh(kb')
    BY DEF AheadInWait, Fresh, UnreadCell, Size
  <2>1. pc[SHELLPID] # "clear"
    BY DEF ShellStays
  <2>2. Fresh(kb)
    BY <1>1, <2>1 DEF AheadInWait
  <2>3. ~Awaited
    BY <1>1, <2>1, Pids DEF Awaited, Live, ShellAwaits
  <2> QED
    BY <2>2, <2>3 DEF RingStep
<1>11. TypeAheadIsDropped'
  BY <1>1 DEF TypeAheadIsDropped, ShellStays
<1> QED
  BY <1>3, <1>4, <1>5, <1>6, <1>7, <1>8, <1>9, <1>10, <1>11 DEF ConsoleInv

\* Whether the shell waits is a truth value.
LEMMA AwaitedType == Awaited \in BOOLEAN
  BY DEF Awaited

\* The keys that enter or erase characters, or find the buffer full
EditingKey ==
    \/ BufferFull \/ handleCtrlD(Awaited) \/ ReturnKey(Awaited)
    \/ TabKey(Awaited) \/ BackspaceKey
    \/ \E key \in LateWords : WordKey(key, Awaited)
    \/ \E on \in BOOLEAN : ControlKey(on)

\* Such a key is a step of the ring, and posts or does nothing to the processes.
LEMMA EditingEffect ==
    ASSUME kb \in Ring, EditingKey
    PROVE  /\ RingStep(kb, kb', Awaited)
           /\ UNCHANGED vars \/ \E n \in Nat : Posted(n)
<1>1. PICK ahead \in BOOLEAN : ahead = Awaited
  BY AwaitedType
<1>2. NEW_LINE_CHAR \in Characters /\ EOF \in Characters /\ Printables \subseteq Characters
  BY DEF Characters
<1>3. CASE BufferFull
  <2>1. kb' = [kb EXCEPT !.to_read = 0, !.to_write = 0] /\ UNCHANGED vars
    BY <1>3 DEF BufferFull
  <2>2. 0 \in Cells
    BY DEF Cells
  <2>3. kb' \in Ring /\ kb'.to_write = kb'.to_read
    BY <2>1, <2>2 DEF Ring
  <2> QED
    BY <2>1, <2>3, RingDrop
<1>4. CASE handleCtrlD(Awaited)
  <2>1. CASE Empty(kb)
    <3>1. kb' = addCharToBuffer(kb, EOF, ahead) /\ Posted(1)
      BY <1>1, <1>4, <2>1 DEF handleCtrlD
    <3> QED
      BY <1>1, <1>2, <3>1, RingAdd
  <2>2. CASE ~Empty(kb)
    <3>1. /\ kb' = addCharToBuffer(addCharToBuffer(kb, NEW_LINE_CHAR, ahead), EOF, ahead)
          /\ Posted(2)
      BY <1>1, <1>4, <2>2 DEF handleCtrlD
    <3> QED
      BY <1>1, <1>2, <3>1, RingAddTwo
  <2> QED
    BY <2>1, <2>2
<1>5. CASE ReturnKey(Awaited)
  <2>1. kb' = addCharToBuffer(kb, NEW_LINE_CHAR, ahead) /\ Posted(1)
    BY <1>1, <1>5 DEF ReturnKey
  <2> QED
    BY <1>1, <1>2, <2>1, RingAdd
<1>6. CASE TabKey(Awaited)
  <2>1. PICK n \in 1..TAB_SIZE : kb' = Spaced(kb, n, ahead)
    BY <1>1, <1>6 DEF TabKey
  <2>2. Posted(1)
    BY <1>6 DEF TabKey
  <2> QED
    BY <1>1, <2>1, <2>2, RingTab
<1>7. CASE BackspaceKey
  <2>1. /\ ~Empty(kb) /\ kb' = [kb EXCEPT !.to_write = SUB_MOD(@, 1)]
        /\ UNCHANGED vars
    BY <1>7 DEF BackspaceKey
  <2> QED
    BY <2>1, RingErase
<1>8. CASE \E key \in LateWords : WordKey(key, Awaited)
  <2>1. PICK key \in LateWords : kb' = addCharToBuffer(kb, key, ahead) /\ Posted(1)
    BY <1>1, <1>8 DEF WordKey
  <2>2. key \in Characters
    BY <1>2, ConsoleAssumption
  <2> QED
    BY <1>1, <2>1, <2>2, RingAdd
<1>9. CASE \E on \in BOOLEAN : ControlKey(on)
  <2>1. PICK on \in BOOLEAN : kb' = [kb EXCEPT !.control = on] /\ UNCHANGED vars
    BY <1>9 DEF ControlKey
  <2>2. /\ kb' \in Ring /\ kb'.buffer = kb.buffer
        /\ kb'.to_write = kb.to_write /\ kb'.to_read = kb.to_read
    BY <2>1 DEF Ring
  <2> QED
    BY <2>1, <2>2, RingSame
<1> QED
  BY <1>3, <1>4, <1>5, <1>6, <1>7, <1>8, <1>9 DEF EditingKey

\* A key that edits the buffer keeps the invariant: it posts to readers only.
LEMMA EditingKeeps ==
    ASSUME ConsoleInv, EditingKey, UNCHANGED shellVars
    PROVE  ConsoleInv' /\ RingStep(kb, kb', Awaited)
<1>1. SemTypeOK /\ kb \in Ring /\ ConsoleTyped
  BY DEF ConsoleInv, ConsoleTyped
<1>2. RingStep(kb, kb', Awaited)
  BY <1>1, EditingEffect
<1>3. ShellStays /\ DOMAIN pc' = PIDs
  BY <1>1 DEF shellVars, ShellStays, ConsoleTyped
<1>4. /\ waitPid' \in [PIDs -> {NULL, SHELLPID}]
      /\ \A q \in PIDs : waitPid'[q] = waitPid[q] \/ waitPid'[q] = NULL
  BY <1>1 DEF shellVars, ConsoleTyped
<1>5. CASE UNCHANGED vars
  <2>1. SemTypeOK' /\ Entries' = Entries /\ UNCHANGED state
    BY <1>1, <1>5 DEF vars, SemTypeOK, Entries
  <2>2. ProcessesStep
    BY <1>4, <2>1, Pids DEF ProcessesStep, NobodyStarts, ConsoleInv, ShellListed
  <2> QED
    BY <1>2, <1>3, <2>1, <2>2, QuietKeeps
<1>6. CASE \E n \in Nat : Posted(n)
  <2>1. /\ SemTypeOK' /\ NobodyStarts /\ Entries' = {}
        /\ \A p \in PIDs : state'[p] = "BLOCKED" <=> state[p] = "BLOCKED" /\ p \notin Entries
    BY <1>1, <1>6, PostedEffect
  <2>2. ProcessesStep
    BY <1>4, <2>1, Pids DEF ProcessesStep
  <2> QED
    BY <1>2, <1>3, <2>1, <2>2, QuietKeeps
<1> QED
  BY <1>1, <1>2, <1>5, <1>6, EditingEffect


\* The end of a process wakes the shell only if the shell waits for it.
LEMMA EndProcesses ==
    ASSUME ConsoleInv, NEW p \in Users, Alive(p), NEW W, W \subseteq {waitPid[p]}, End(p, W),
           sems' = sems, waitPid' = waitPid \/ waitPid' = [waitPid EXCEPT ![p] = NULL]
    PROVE  ProcessesStep /\ ProcTypeOK' /\ state'[p] = "EXITED"
<1>1. ConsoleTyped /\ ShellListed /\ ShellAwaits /\ ProcTypeOK /\ p \in PIDs
  BY Pids DEF ConsoleInv, ConsoleTyped, SemTypeOK, ProcTypeOK
<1>2. /\ ProcTypeOK'
      /\ \A q \in PIDs : state'[q] = "BLOCKED" <=> state[q] = "BLOCKED" /\ q # p /\ q \notin W
      /\ \A q \in PIDs : state'[q] = "EXITED" <=> state[q] = "EXITED" \/ q = p
  BY <1>1, EndEffect
<1>3. /\ waitPid' \in [PIDs -> {NULL, SHELLPID}]
      /\ \A q \in PIDs : waitPid'[q] = waitPid[q] \/ waitPid'[q] = NULL
  <2>1. CASE waitPid' = waitPid
    BY <1>1, <2>1 DEF ConsoleTyped
  <2>2. CASE waitPid' = [waitPid EXCEPT ![p] = NULL]
    BY <1>1, <2>2 DEF ConsoleTyped
  <2> QED
    BY <2>1, <2>2
<1>4. NobodyStarts
  BY <1>2 DEF NobodyStarts
<1>5. state[SHELLPID] = "BLOCKED" /\ state'[SHELLPID] # "BLOCKED" => waitPid[p] = SHELLPID
  BY <1>2, Pids
<1>6. Entries' = Entries
  BY DEF Entries
<1>7. SHELLPID \in Entries => state'[SHELLPID] = "BLOCKED"
  BY <1>1, <1>5 DEF ShellListed, ShellAwaits, AtKeyboard
<1> QED
  BY <1>1, <1>2, <1>3, <1>4, <1>5, <1>6, <1>7 DEF ProcessesStep

\* The slot that handleCtrlC finds is that of a live process in the foreground.
LEMMA ForegroundPid ==
    ASSUME Foreground # {}
    PROVE  Min(Foreground) \in Users /\ Alive(Min(Foreground))
<1>1. Foreground \subseteq Nat
  BY DEF Foreground, Live, Users
<1>2. Min(Foreground) \in Foreground
  BY <1>1, MinInSet
<1> QED
  BY <1>2 DEF Foreground, Live

\* Ctrl-C keeps it: who is killed may be a reader, and the shell wakes if it waits for it.
LEMMA CtrlCKeeps ==
    ASSUME ConsoleInv, handleCtrlC
    PROVE  ConsoleInv' /\ RingStep(kb, kb', Awaited)
<1>1. PICK p \in Users : p = Min(Foreground) /\ Alive(p)
  BY ForegroundPid DEF handleCtrlC
<1>2. ConsoleTyped /\ SemTypeOK /\ kb \in Ring /\ p \in PIDs /\ p # INITPID
  BY Pids DEF ConsoleInv, ConsoleTyped
<1>3. End(p, {waitPid[p]})
  BY <1>1, <1>2 DEF handleCtrlC, End, Alive
<1>4. /\ UNCHANGED <<pc, line, cmd, foreground, sems, handle>>
      /\ waitPid' = [waitPid EXCEPT ![p] = NULL]
      /\ inWait' = [inWait EXCEPT ![p] = NoSem]
  BY <1>1 DEF handleCtrlC, Killed
<1>5. ProcessesStep /\ ProcTypeOK'
  BY <1>1, <1>3, <1>4, EndProcesses
<1>6. SemTypeOK'
  BY <1>2, <1>4, <1>5 DEF SemTypeOK, ProcTypeOK
<1>7. ShellStays /\ DOMAIN pc' = PIDs
  BY <1>2, <1>4 DEF ShellStays, ConsoleTyped
<1>8. RingStep(kb, kb', Awaited)
  <2>1. CASE kb' = kb
    BY <1>2, <2>1, RingSame
  <2>2. CASE kb' = Cleared(kb)
    <3>1. kb' \in Ring /\ kb'.to_write = kb'.to_read
      BY <1>2, <2>2 DEF Cleared, Ring
    <3> QED
      BY <1>2, <3>1, RingDrop
  <2> QED
    BY <2>1, <2>2 DEF handleCtrlC
<1> QED
  BY <1>5, <1>6, <1>7, <1>8, QuietKeeps

\* The end of a turn keeps it.
LEMMA TurnKeeps ==
    ASSUME ConsoleInv, Turn
    PROVE  ConsoleInv' /\ RingStep(kb, kb', Awaited)
<1>1. ConsoleTyped /\ SemTypeOK /\ kb \in Ring
  BY DEF ConsoleInv, ConsoleTyped
<1>2. /\ Switch(state) /\ UNCHANGED <<sems, inWait, handle, kb>>
      /\ UNCHANGED <<pc, line, cmd, foreground, waitPid>>
  BY DEF Turn, Tick, Preempt, semVars, kbVars, shellVars
<1>3. /\ state' \in [PIDs -> States] /\ cpu' \in PIDs
      /\ \A p \in PIDs : state'[p] = "BLOCKED" <=> state[p] = "BLOCKED"
      /\ \A p \in PIDs : state'[p] = "EXITED" <=> state[p] = "EXITED"
  BY <1>1, <1>2, SwitchEffect DEF SemTypeOK
<1>4. SemTypeOK' /\ Entries' = Entries
  BY <1>1, <1>2, <1>3 DEF SemTypeOK, Entries
<1>5. ProcessesStep
  BY <1>1, <1>2, <1>3, <1>4, Pids
     DEF ProcessesStep, NobodyStarts, ConsoleInv, ConsoleTyped, ShellListed
<1>6. ShellStays /\ DOMAIN pc' = PIDs
  BY <1>1, <1>2 DEF ShellStays, ConsoleTyped
<1>7. RingStep(kb, kb', Awaited)
  BY <1>1, <1>2, RingSame
<1> QED
  BY <1>4, <1>5, <1>6, <1>7, QuietKeeps

\* A process that returns keeps it, also when a tick cuts its exit off.
LEMMA ReturnKeeps ==
    ASSUME ConsoleInv, NEW p \in Users, Return(p)
    PROVE  ConsoleInv' /\ RingStep(kb, kb', Awaited)
<1>1. ConsoleTyped /\ SemTypeOK /\ kb \in Ring /\ p \in PIDs /\ p # INITPID
  BY Pids DEF ConsoleInv, ConsoleTyped
<1>2. /\ cpu = p /\ Alive(p)
      /\ UNCHANGED <<sems, inWait, handle, kb, pc, line, cmd, foreground>>
  BY DEF Return, On, Alive, semVars, kbVars
<1>3. \E W \in {{}, {waitPid[p]}} : End(p, W)
  <2>1. CASE Switch(Woken([state EXCEPT ![p] = "EXITED"], {waitPid[p]}))
    BY <1>1, <1>2, <2>1 DEF End, Alive
  <2>2. CASE Switch([state EXCEPT ![p] = "EXITED"])
    <3> DEFINE st == [state EXCEPT ![p] = "EXITED"]
    <3>1. st \in [PIDs -> States]
      BY <1>1 DEF SemTypeOK, States
    <3>2. Woken(st, {}) = st
      <4> HIDE DEF st
      <4> QED BY <3>1 DEF Woken
    <3>3. End(p, {})
      BY <1>1, <1>2, <2>2, <3>2 DEF End, Alive
    <3> QED
      BY <3>3
  <2> QED
    BY <2>1, <2>2 DEF Return
<1>4. waitPid' = waitPid \/ waitPid' = [waitPid EXCEPT ![p] = NULL]
  BY DEF Return
<1>5. PICK W : W \subseteq {waitPid[p]} /\ End(p, W)
  BY <1>3
<1>6. ProcessesStep /\ ProcTypeOK'
  BY <1>2, <1>4, <1>5, EndProcesses
<1>7. SemTypeOK'
  BY <1>1, <1>2, <1>6 DEF SemTypeOK, ProcTypeOK
<1>8. ShellStays /\ DOMAIN pc' = PIDs
  BY <1>1, <1>2 DEF ShellStays, ConsoleTyped
<1>9. RingStep(kb, kb', Awaited)
  BY <1>1, <1>2, RingSame
<1> QED
  BY <1>6, <1>7, <1>8, <1>9, QuietKeeps

\* A process that reads, or goes on without, keeps it.
LEMMA CatKeeps ==
    ASSUME ConsoleInv, NEW p \in Users, CatRead(p)
    PROVE  ConsoleInv' /\ RingStep(kb, kb', Awaited)
<1>1. ConsoleTyped /\ SemTypeOK /\ kb \in Ring /\ p \in PIDs /\ p # INITPID /\ p # SHELLPID
  BY Pids DEF ConsoleInv, ConsoleTyped
<1>2. /\ cpu = p /\ state[cpu] = "RUNNING" /\ pc[p] = "getchar"
      /\ UNCHANGED <<line, cmd, foreground, waitPid>>
  BY DEF CatRead, On
<1>3. pc' = pc \/ \E at : pc' = [pc EXCEPT ![p] = at]
  BY DEF CatRead, Goto
<1>4. ShellStays /\ DOMAIN pc' = PIDs
  <2>1. CASE pc' = pc
    BY <1>1, <1>2, <2>1 DEF ShellStays, ConsoleTyped
  <2>2. CASE \E at : pc' = [pc EXCEPT ![p] = at]
    BY <1>1, <1>2, <2>2, Pids DEF ShellStays, ConsoleTyped
  <2> QED
    BY <1>3, <2>1, <2>2
<1>5. AwaitKey \/ TakeChar \/ UNCHANGED <<vars, kb>>
  BY DEF CatRead, kbVars
<1>6. /\ waitPid' \in [PIDs -> {NULL, SHELLPID}]
      /\ \A q \in PIDs : waitPid'[q] = waitPid[q] \/ waitPid'[q] = NULL
  BY <1>1, <1>2 DEF ConsoleTyped
<1>7. CASE AwaitKey
  <2>1. /\ SemTypeOK' /\ NobodyStarts /\ Entries' = Entries \cup {p}
        /\ \A q \in PIDs : state'[q] = "BLOCKED" <=> state[q] = "BLOCKED" \/ q = p
        /\ RingStep(kb, kb', Awaited)
    BY <1>1, <1>2, <1>7, AwaitEffect
  <2>2. ProcessesStep
    BY <1>1, <1>6, <2>1, Pids DEF ProcessesStep, ConsoleInv, ShellListed
  <2> QED
    BY <1>4, <2>1, <2>2, QuietKeeps
<1>8. CASE TakeChar
  <2>1. SemTypeOK' /\ UNCHANGED state /\ Entries' = Entries /\ RingStep(kb, kb', Awaited)
    BY <1>1, <1>8, TakeCharEffect
  <2>2. ProcessesStep
    BY <1>6, <2>1, Pids DEF ProcessesStep, NobodyStarts, ConsoleInv, ShellListed
  <2> QED
    BY <1>4, <2>1, <2>2, QuietKeeps
<1>9. CASE UNCHANGED <<vars, kb>>
  <2>1. SemTypeOK' /\ UNCHANGED state /\ Entries' = Entries
    BY <1>1, <1>9 DEF vars, SemTypeOK, Entries
  <2>2. ProcessesStep
    BY <1>6, <2>1, Pids DEF ProcessesStep, NobodyStarts, ConsoleInv, ShellListed
  <2>3. RingStep(kb, kb', Awaited)
    BY <1>1, <1>9, RingSame
  <2> QED
    BY <1>4, <2>1, <2>2, <2>3, QuietKeeps
<1> QED
  BY <1>5, <1>7, <1>8, <1>9



-----------------------------------------------------------------------------
(***************************************************************************)
(* Steps of the shell                                                      *)
(***************************************************************************)

ShellOn == cpu = SHELLPID /\ state[SHELLPID] = "RUNNING"

\* A shell that runs is in no queue, and waits for no live process.
LEMMA ShellAlone ==
    ASSUME ConsoleInv, ShellOn
    PROVE  /\ SHELLPID \notin Entries
           /\ \A q \in PIDs : Alive(q) => waitPid[q] # SHELLPID
           /\ pc[SHELLPID] = "clear" => ~Alive(cmd.pid)
  BY DEF ConsoleInv, ShellOn, ShellListed, ShellAwaits, ShellWoken

\* Only the shell goes on
OthersStay == DOMAIN pc' = PIDs /\ \A q \in PIDs : q # SHELLPID => pc'[q] = pc[q]

\* Where the shell goes, and that it goes alone.
LEMMA GotoEffect ==
    ASSUME ConsoleInv, NEW at, pc' = [pc EXCEPT ![SHELLPID] = at]
    PROVE  OthersStay /\ pc'[SHELLPID] = at
  BY Pids DEF OthersStay, ConsoleInv, ConsoleTyped

\* A shell that stays where it is.
LEMMA NoGoto ==
    ASSUME ConsoleInv, pc' = pc
    PROVE  OthersStay /\ pc'[SHELLPID] = pc[SHELLPID]
  BY DEF OthersStay, ConsoleInv, ConsoleTyped

\* The variables keep their types, and the shell is registered with nobody anew
Types ==
    /\ SemTypeOK' /\ kb' \in Ring /\ CmdTyped' /\ line' \in Seq(Cell) /\ foreground' = foreground
    /\ waitPid' \in [PIDs -> {NULL, SHELLPID}]
    /\ \A q \in PIDs : waitPid'[q] = waitPid[q] \/ waitPid'[q] = NULL

\* A shell that reads keys and commands, with nobody else at the keyboard, keeps the
\* invariant.
LEMMA PromptKeeps ==
    ASSUME ConsoleInv, ShellOn, OthersStay, Types, NobodyStarts,
           pc'[SHELLPID] # "clear", pc'[SHELLPID] # "wait",
           pc'[SHELLPID] = "create" => cmd'.pid = NULL,
           pc'[SHELLPID] = "toggle" => cmd'.pid \in Users,
           SHELLPID \in Entries' => state'[SHELLPID] = "BLOCKED" /\ AtKeyboard',
           \A q \in Users : Reader(q) => state'[q] = "EXITED",
           Fresh(kb'), TypeAheadIsDropped'
    PROVE  ConsoleInv'
<1>1. ConsoleTyped /\ ~InitReads
  BY DEF ConsoleInv
<1>2. \A q \in PIDs : Alive(q)' => Alive(q)
  BY DEF NobodyStarts, Alive
<1>3. ConsoleTyped'
  BY <1>1 DEF ConsoleTyped, Types, OthersStay
<1>4. ShellListed'
  BY DEF ShellListed
<1>5. ShellAwaits'
  BY <1>2, ShellAlone DEF ShellAwaits, Types, SHELLPID
<1>6. ShellWoken' /\ ShellRuns'
  BY DEF ShellWoken, ShellRuns
<1>7. UsersRead'
  <2> SUFFICES ASSUME NEW q \in Users, Reader(q)' PROVE FALSE
    BY DEF UsersRead
  <2>1. q \in PIDs /\ q # SHELLPID /\ state'[q] # "EXITED"
    BY Pids DEF Reader, Alive
  <2>2. Reader(q)
    BY <1>2, <2>1 DEF Reader, OthersStay, Types
  <2> QED
    BY <2>1, <2>2
<1>8. ~InitReads'
  BY <1>1, Pids DEF InitReads, OthersStay
<1>9. AheadInWait'
  BY DEF AheadInWait, Fresh, UnreadCell, Size
<1> QED
  BY <1>3, <1>4, <1>5, <1>6, <1>7, <1>8, <1>9 DEF ConsoleInv

\* A shell that runs no command is the only one that may read.
LEMMA NoReaders ==
    ASSUME ConsoleInv, ShellOn, ~Serving \/ pc[SHELLPID] = "clear"
    PROVE  \A q \in Users : ~Reader(q)
  BY ShellAlone DEF ConsoleInv, UsersRead, Reader

\* A line that is kept or emptied has nothing that was typed ahead.
LEMMA LineKept ==
    ASSUME ConsoleInv, line' = line \/ line' = << >>
    PROVE  line' \in Seq(Cell) /\ TypeAheadIsDropped'
<1>1. line \in Seq(Cell) /\ TypeAheadIsDropped
  BY DEF ConsoleInv, ConsoleTyped
<1>2. CASE line' = line
  BY <1>1, <1>2 DEF TypeAheadIsDropped
<1>3. CASE line' = << >>
  <2>1. line' \in Seq(Cell) /\ DOMAIN line' = {}
    BY <1>3
  <2> QED
    BY <2>1 DEF TypeAheadIsDropped
<1> QED
  BY <1>2, <1>3

\* The commands the shell starts with, and its line, have the types of the variables.
LEMMA IdleTyped ==
    ASSUME cmd' = Idle
    PROVE  CmdTyped' /\ cmd'.pid = NULL
  BY DEF Idle, CmdTyped


\* A key the shell waits for, or has, is a step of the ring that keeps it fresh.
LEMMA ShellKey ==
    ASSUME ConsoleInv, ShellOn, AtKeyboard, AwaitKey \/ TakeChar
    PROVE  /\ SemTypeOK' /\ NobodyStarts /\ kb' \in Ring /\ Fresh(kb')
           /\ QueueStep(Unread(kb), Unread(kb'))
           /\ AwaitKey => state'[SHELLPID] = "BLOCKED"
           /\ TakeChar => SHELLPID \notin Entries'
           /\ TakeChar => kb.buffer[kb.to_read] \in Cell /\ ~kb.buffer[kb.to_read].typedAhead
           /\ \A q \in Users : ~Reader(q)
<1>1. ConsoleTyped /\ SemTypeOK /\ kb \in Ring /\ Fresh(kb)
  BY DEF ConsoleInv, ConsoleTyped, AheadInWait, AtKeyboard
<1>2. SHELLPID \notin Entries /\ \A q \in Users : ~Reader(q)
  BY ShellAlone, NoReaders DEF Serving, AtKeyboard
<1>3. CASE AwaitKey
  <2>1. /\ SemTypeOK' /\ NobodyStarts /\ state'[SHELLPID] = "BLOCKED"
        /\ RingStep(kb, kb', FALSE)
    BY <1>1, <1>3, AwaitEffect, Pids DEF ShellOn
  <2>2. ~TakeChar
    BY <1>3 DEF AwaitKey, TakeChar
  <2> QED
    BY <1>1, <1>2, <2>1, <2>2 DEF RingStep
<1>4. CASE TakeChar
  <2>1. /\ SemTypeOK' /\ UNCHANGED state /\ Entries' = Entries
        /\ RingStep(kb, kb', FALSE) /\ UnreadCell(kb, kb.to_read)
    BY <1>1, <1>4, TakeCharEffect
  <2>2. kb.to_read \in Cells /\ kb.buffer[kb.to_read] \in Cell
    BY <1>1 DEF Ring
  <2>3. ~kb.buffer[kb.to_read].typedAhead
    BY <1>1, <2>1, <2>2 DEF Fresh
  <2>4. ~AwaitKey
    BY <1>4 DEF AwaitKey, TakeChar
  <2> QED
    BY <1>1, <1>2, <2>1, <2>2, <2>3, <2>4 DEF RingStep, NobodyStarts
<1> QED
  BY <1>3, <1>4

\* Where a line sends the shell.
LEMMA ExecuteEffect ==
    ASSUME ConsoleInv, NEW s, Execute(s)
    PROVE  /\ OthersStay /\ CmdTyped' /\ cmd'.pid = NULL
           /\ pc'[SHELLPID] \in {"getchar", "kill", "block", "create"}
           /\ line' = line \/ line' = << >>
<1> DEFINE progs == Parsed(s)
           at == IF Head(progs) \in {"kill", "block"} THEN Head(progs) ELSE "getchar"
<1>1. CASE Prompt("getchar")
  BY <1>1, GotoEffect, IdleTyped DEF Prompt
<1>2. CASE Prompt(at)
  <2>1. at \in {"getchar", "kill", "block"}
    OBVIOUS
  <2> HIDE DEF at
  <2> QED BY <1>2, <2>1, GotoEffect, IdleTyped DEF Prompt
<1>3. CASE /\ Goto(SHELLPID, "create")
           /\ cmd' = [Idle EXCEPT !.progs = progs, !.bg = InBackground(s)]
           /\ UNCHANGED line
  <2>1. OthersStay /\ pc'[SHELLPID] = "create"
    BY <1>3, GotoEffect DEF Goto
  <2>2. InBackground(s) \in BOOLEAN
    BY DEF InBackground, Background, HasPipe, allow_background
  <2>3. PICK b \in BOOLEAN : b = InBackground(s)
    BY <2>2
  <2>4. cmd' = [Idle EXCEPT !.progs = progs, !.bg = b]
    BY <1>3, <2>3
  <2> HIDE DEF progs
  <2>5. cmd' = [progs |-> progs, pid |-> NULL, bg |-> b, pids |-> {}, blocked |-> FALSE]
    BY <2>4 DEF Idle
  <2>6. CmdTyped' /\ cmd'.pid = NULL
    BY <2>5 DEF CmdTyped
  <2> QED
    BY <1>3, <2>1, <2>6
<1> QED
  BY <1>1, <1>2, <1>3 DEF Execute

\* A character of the command line was not typed ahead, since the ring is fresh at the prompt.
LEMMA ReadKeeps ==
    ASSUME ConsoleInv, ShellRead
    PROVE  ConsoleInv' /\ QueueStep(Unread(kb), Unread(kb'))
<1>1. /\ ShellOn /\ AtKeyboard /\ pc[SHELLPID] = "getchar"
      /\ UNCHANGED <<foreground, waitPid>>
      /\ AwaitKey \/ TakeChar
  BY DEF ShellRead, On, ShellOn, AtKeyboard
<1>2. ConsoleTyped /\ TypeAheadIsDropped
  BY DEF ConsoleInv
<1>3. /\ SemTypeOK' /\ NobodyStarts /\ kb' \in Ring /\ Fresh(kb')
      /\ QueueStep(Unread(kb), Unread(kb'))
      /\ \A q \in Users : ~Reader(q)
  BY <1>1, ShellKey
<1>4. CASE AwaitKey /\ UNCHANGED <<pc, line, cmd>>
  <2>1. OthersStay /\ pc'[SHELLPID] = "getchar" /\ state'[SHELLPID] = "BLOCKED"
    BY <1>1, <1>4, NoGoto, ShellKey
  <2>2. Types /\ TypeAheadIsDropped' /\ AtKeyboard'
    BY <1>1, <1>2, <1>3, <1>4, <2>1
       DEF Types, ConsoleTyped, CmdTyped, TypeAheadIsDropped, AtKeyboard
  <2> QED
    BY <1>1, <1>3, <2>1, <2>2, PromptKeeps
<1>5. CASE TakeChar
  <2> DEFINE c == kb.buffer[kb.to_read]
  <2>1. c \in Cell /\ ~c.typedAhead /\ SHELLPID \notin Entries'
    BY <1>1, <1>5, ShellKey
  <2>2. /\ OthersStay /\ CmdTyped' /\ line' \in Seq(Cell) /\ TypeAheadIsDropped'
        /\ pc'[SHELLPID] \in {"getchar", "kill", "block", "create", "skip"}
        /\ pc'[SHELLPID] = "create" => cmd'.pid = NULL
    <3>1. \/ Execute(Text(line)) \/ Prompt("skip")
          \/ line' = Append(line, c) /\ UNCHANGED <<pc, cmd>>
      BY <1>5 DEF ShellRead, AwaitKey, TakeChar
    <3> HIDE DEF c
    <3>2. line \in Seq(Cell)
      BY <1>2 DEF ConsoleTyped
    <3>3. CASE Execute(Text(line))
      <4>1. PICK s : s = Text(line)
        OBVIOUS
      <4>2. Execute(s)
        BY <3>3, <4>1
      <4> QED
        BY <4>2, ExecuteEffect, LineKept
    <3>4. CASE Prompt("skip")
      BY <3>4, GotoEffect, IdleTyped, LineKept DEF Prompt
    <3>5. CASE line' = Append(line, c) /\ UNCHANGED <<pc, cmd>>
      <4>1. line' \in Seq(Cell) /\ \A i \in DOMAIN line' : ~line'[i].typedAhead
        BY <1>2, <2>1, <3>2, <3>5 DEF TypeAheadIsDropped
      <4> QED
        BY <1>1, <1>2, <3>5, <4>1, NoGoto DEF CmdTyped, ConsoleTyped, TypeAheadIsDropped
    <3> QED
      BY <3>1, <3>3, <3>4, <3>5
  <2>3. Types
    BY <1>1, <1>2, <1>3, <2>2 DEF Types, ConsoleTyped
  <2> QED
    BY <1>1, <1>3, <2>1, <2>2, <2>3, PromptKeeps
<1> QED
  BY <1>4, <1>5 DEF ShellRead

\* The rest of a line that is too long is read like the line.
LEMMA SkipKeeps ==
    ASSUME ConsoleInv, ShellSkip
    PROVE  ConsoleInv' /\ QueueStep(Unread(kb), Unread(kb'))
<1>1. /\ ShellOn /\ AtKeyboard
      /\ UNCHANGED <<line, cmd, foreground, waitPid>>
      /\ AwaitKey \/ TakeChar
  BY DEF ShellSkip, On, ShellOn, AtKeyboard
<1>2. ConsoleTyped /\ TypeAheadIsDropped
  BY DEF ConsoleInv
<1>3. /\ SemTypeOK' /\ NobodyStarts /\ kb' \in Ring /\ Fresh(kb')
      /\ QueueStep(Unread(kb), Unread(kb'))
      /\ \A q \in Users : ~Reader(q)
      /\ AwaitKey => state'[SHELLPID] = "BLOCKED"
      /\ TakeChar => SHELLPID \notin Entries'
  BY <1>1, ShellKey
<1>4. pc' = pc \/ pc' = [pc EXCEPT ![SHELLPID] = "getchar"]
  BY DEF ShellSkip, Goto
<1>5. OthersStay /\ AtKeyboard'
  BY <1>1, <1>4, NoGoto, GotoEffect DEF AtKeyboard
<1>6. Types /\ TypeAheadIsDropped'
  BY <1>1, <1>2, <1>3 DEF Types, ConsoleTyped, CmdTyped, TypeAheadIsDropped
<1> QED
  BY <1>1, <1>3, <1>5, <1>6, PromptKeeps DEF AtKeyboard


\* A kill by the shell ends the process and wakes nobody.
LEMMA KillEffect ==
    ASSUME ConsoleInv, ShellOn, NEW p \in Users, Alive(p), KillOther(p)
    PROVE  /\ SemTypeOK' /\ NobodyStarts /\ state'[p] = "EXITED"
           /\ foreground' = foreground /\ SHELLPID \notin Entries'
           /\ waitPid' \in [PIDs -> {NULL, SHELLPID}]
           /\ \A q \in PIDs : waitPid'[q] = waitPid[q] \/ waitPid'[q] = NULL
<1>1. /\ Stay(Woken([state EXCEPT ![p] = "EXITED"], {waitPid[p]}))
      /\ waitPid' = [waitPid EXCEPT ![p] = NULL]
      /\ inWait' = [inWait EXCEPT ![p] = NoSem]
      /\ UNCHANGED <<sems, handle, foreground>>
  BY DEF KillOther, Killed
<1>2. SemTypeOK /\ p \in PIDs /\ p # INITPID
  BY Pids DEF ConsoleInv, ConsoleTyped
<1>3. PICK W : W = {waitPid[p]}
  OBVIOUS
<1>4. End(p, W)
  BY <1>1, <1>2, <1>3 DEF End, Alive
<1>5. ProcessesStep /\ ProcTypeOK' /\ state'[p] = "EXITED"
  BY <1>1, <1>3, <1>4, EndProcesses
<1>6. SemTypeOK'
  BY <1>1, <1>2, <1>5 DEF SemTypeOK, ProcTypeOK
<1> QED
  BY <1>1, <1>5, <1>6, ShellAlone DEF ProcessesStep

\* Steps of the shell that leave the processes and the ring alone.
LEMMA NothingElse ==
    ASSUME ConsoleInv, ShellOn, UNCHANGED <<vars, foreground, waitPid>>
    PROVE  /\ SemTypeOK' /\ NobodyStarts /\ foreground' = foreground /\ SHELLPID \notin Entries'
           /\ waitPid' \in [PIDs -> {NULL, SHELLPID}]
           /\ \A q \in PIDs : waitPid'[q] = waitPid[q] \/ waitPid'[q] = NULL
<1>1. /\ SemTypeOK /\ waitPid \in [PIDs -> {NULL, SHELLPID}]
      /\ SHELLPID \notin Entries
  BY ShellAlone DEF ConsoleInv, ConsoleTyped
<1>2. UNCHANGED <<state, cpu, sems, inWait, handle>>
  BY DEF vars
<1> QED
  BY <1>1, <1>2 DEF SemTypeOK, NobodyStarts, Entries

\* A shell that is not asleep in wait has a fresh ring, which stays so.
LEMMA RingStays ==
    ASSUME ConsoleInv, pc[SHELLPID] # "clear", kb' = kb
    PROVE  kb' \in Ring /\ Fresh(kb') /\ QueueStep(Unread(kb), Unread(kb'))
<1>1. kb \in Ring /\ Fresh(kb)
  BY DEF ConsoleInv, ConsoleTyped, AheadInWait
<1>2. RingStep(kb, kb', FALSE)
  BY <1>1, RingSame
<1> QED
  BY <1>1, <1>2 DEF RingStep

\* The left side of a pipeline that fails is the only process that may read, and is killed.
LEMMA CreateFailsKeeps ==
    ASSUME ConsoleInv, CreateFails
    PROVE  ConsoleInv' /\ QueueStep(Unread(kb), Unread(kb'))
<1>1. /\ ShellOn /\ pc[SHELLPID] = "create" /\ kb' = kb
      /\ Prompt("getchar")
  BY DEF CreateFails, On, ShellOn, kbVars
<1>2. OthersStay /\ pc'[SHELLPID] = "getchar" /\ CmdTyped' /\ line' \in Seq(Cell) /\ TypeAheadIsDropped'
  BY <1>1, GotoEffect, IdleTyped, LineKept DEF Prompt
<1>3. kb' \in Ring /\ Fresh(kb') /\ QueueStep(Unread(kb), Unread(kb'))
  BY <1>1, RingStays
<1>4. /\ SemTypeOK' /\ NobodyStarts /\ foreground' = foreground /\ SHELLPID \notin Entries'
      /\ waitPid' \in [PIDs -> {NULL, SHELLPID}]
      /\ \A q \in PIDs : waitPid'[q] = waitPid[q] \/ waitPid'[q] = NULL
      /\ \A q \in Users : Reader(q) => state'[q] = "EXITED"
  <2>0. \A q \in Users : Reader(q) => cmd.pid = q /\ Alive(q)
    BY DEF ConsoleInv, UsersRead, Reader
  <2>1. CASE First \/ ~Alive(cmd.pid)
    <3>1. UNCHANGED <<vars, foreground, waitPid>>
      BY <2>1 DEF CreateFails
    <3>2. \A q \in Users : ~Reader(q)
      BY <2>0, <2>1, Pids DEF First
    <3> QED
      BY <1>1, <3>1, <3>2, NothingElse
  <2>2. CASE ~First /\ Alive(cmd.pid)
    <3>1. cmd.pid \in Users
      BY <1>1, <2>2 DEF ConsoleInv, ShellRuns, First
    <3>2. PICK p \in Users : p = cmd.pid
      BY <3>1
    <3>3. KillOther(p) /\ Alive(p)
      BY <2>2, <3>2 DEF CreateFails
    <3> QED
      BY <1>1, <2>0, <3>2, <3>3, KillEffect
  <2> QED
    BY <2>1, <2>2
<1>5. Types
  BY <1>2, <1>3, <1>4 DEF Types
<1> QED
  BY <1>1, <1>2, <1>3, <1>4, <1>5, PromptKeeps

\* The buffer is fresh once it was cleared, and the process the shell waited for has ended.
LEMMA ClearKeeps ==
    ASSUME ConsoleInv, clearInputBuffer
    PROVE  ConsoleInv' /\ QueueStep(Unread(kb), Unread(kb'))
<1>1. /\ ShellOn /\ pc[SHELLPID] = "clear" /\ kb' = Cleared(kb)
      /\ Prompt("getchar") /\ UNCHANGED <<vars, foreground, waitPid>>
  BY DEF clearInputBuffer, On, ShellOn
<1>2. OthersStay /\ pc'[SHELLPID] = "getchar" /\ CmdTyped' /\ line' \in Seq(Cell) /\ TypeAheadIsDropped'
  BY <1>1, GotoEffect, IdleTyped, LineKept DEF Prompt
<1>3. kb' \in Ring /\ Fresh(kb') /\ QueueStep(Unread(kb), Unread(kb'))
  <2>1. kb \in Ring
    BY DEF ConsoleInv, ConsoleTyped
  <2>2. kb' \in Ring /\ kb'.to_write = kb'.to_read
    BY <1>1, <2>1 DEF Cleared, Ring
  <2>3. RingStep(kb, kb', FALSE) /\ Fresh(kb')
    BY <2>1, <2>2, RingDrop
  <2> QED
    BY <2>2, <2>3 DEF RingStep
<1>4. /\ SemTypeOK' /\ NobodyStarts /\ SHELLPID \notin Entries' /\ Types
  BY <1>1, <1>2, <1>3, NothingElse DEF Types
<1>5. \A q \in Users : ~Reader(q)
  BY <1>1, NoReaders
<1> QED
  BY <1>1, <1>2, <1>3, <1>4, <1>5, PromptKeeps


\* kill collects processes.
LEMMA KillCommandKeeps ==
    ASSUME ConsoleInv, KillCommand
    PROVE  ConsoleInv' /\ QueueStep(Unread(kb), Unread(kb'))
<1>1. /\ ShellOn /\ pc[SHELLPID] = "kill" /\ kb' = kb /\ line' = line
      /\ pc' = [pc EXCEPT ![SHELLPID] = "killing"] /\ UNCHANGED <<vars, foreground, waitPid>>
  BY DEF KillCommand, On, ShellOn, kbVars, Goto
<1>2. OthersStay /\ pc'[SHELLPID] = "killing" /\ line' \in Seq(Cell) /\ TypeAheadIsDropped'
  BY <1>1, GotoEffect, LineKept
<1>3. kb' \in Ring /\ Fresh(kb') /\ QueueStep(Unread(kb), Unread(kb'))
  BY <1>1, RingStays
<1>4. CmdTyped'
  <2>1. PICK ps : ps \subseteq Users /\ cmd' = [cmd EXCEPT !.pids = ps]
    BY DEF KillCommand, Live
  <2>2. CmdTyped
    BY DEF ConsoleInv, ConsoleTyped
  <2> QED
    BY <2>1, <2>2 DEF CmdTyped
<1>5. /\ SemTypeOK' /\ NobodyStarts /\ SHELLPID \notin Entries' /\ Types
  BY <1>1, <1>2, <1>3, <1>4, NothingElse DEF Types
<1>6. \A q \in Users : ~Reader(q)
  BY <1>1, NoReaders DEF Serving
<1> QED
  BY <1>1, <1>2, <1>3, <1>5, <1>6, PromptKeeps

\* kill ends one of them, or the command.
LEMMA KillNextKeeps ==
    ASSUME ConsoleInv, KillNext
    PROVE  ConsoleInv' /\ QueueStep(Unread(kb), Unread(kb'))
<1>1. ShellOn /\ pc[SHELLPID] = "killing" /\ kb' = kb
  BY DEF KillNext, On, ShellOn, kbVars
<1>2. kb' \in Ring /\ Fresh(kb') /\ QueueStep(Unread(kb), Unread(kb'))
  BY <1>1, RingStays
<1>3. \A q \in Users : ~Reader(q)
  BY <1>1, NoReaders DEF Serving
<1>4. CASE cmd.pids = {}
  <2>1. Prompt("getchar") /\ UNCHANGED <<vars, foreground, waitPid>>
    BY <1>4 DEF KillNext
  <2>2. OthersStay /\ pc'[SHELLPID] = "getchar" /\ CmdTyped' /\ line' \in Seq(Cell) /\ TypeAheadIsDropped'
    BY <2>1, GotoEffect, IdleTyped, LineKept DEF Prompt
  <2>3. SemTypeOK' /\ NobodyStarts /\ SHELLPID \notin Entries' /\ Types
    BY <1>1, <1>2, <2>1, <2>2, NothingElse DEF Types
  <2> QED
    BY <1>1, <1>2, <1>3, <2>2, <2>3, PromptKeeps
<1>5. CASE cmd.pids # {}
  <2>1. CmdTyped
    BY DEF ConsoleInv, ConsoleTyped
  <2>2. Min(cmd.pids) \in cmd.pids
    <3>1. cmd.pids \subseteq Nat
      BY <2>1 DEF CmdTyped, Users
    <3> QED
      BY <1>5, <3>1, MinInSet
  <2>3. PICK p \in Users : p = Min(cmd.pids)
    BY <2>1, <2>2 DEF CmdTyped
  <2>4. /\ cmd' = [cmd EXCEPT !.pids = @ \ {p}] /\ UNCHANGED <<pc, line>>
        /\ IF Alive(p) THEN KillOther(p) ELSE UNCHANGED <<vars, foreground, waitPid>>
    BY <1>5, <2>3 DEF KillNext
  <2>5. CmdTyped' /\ OthersStay /\ pc'[SHELLPID] = "killing" /\ line' \in Seq(Cell) /\ TypeAheadIsDropped'
    BY <1>1, <2>1, <2>4, NoGoto, LineKept DEF CmdTyped
  <2>6. SemTypeOK' /\ NobodyStarts /\ SHELLPID \notin Entries' /\ Types
    <3>1. CASE Alive(p)
      BY <1>1, <1>2, <2>4, <2>5, <3>1, KillEffect DEF Types
    <3>2. CASE ~Alive(p)
      BY <1>1, <1>2, <2>4, <2>5, <3>2, NothingElse DEF Types
    <3> QED
      BY <3>1, <3>2
  <2> QED
    BY <1>1, <1>2, <1>3, <2>5, <2>6, PromptKeeps
<1> QED
  BY <1>4, <1>5

\* block chooses a process, or none.
LEMMA BlockCommandKeeps ==
    ASSUME ConsoleInv, BlockCommand
    PROVE  ConsoleInv' /\ QueueStep(Unread(kb), Unread(kb'))
<1>1. /\ ShellOn /\ pc[SHELLPID] = "block" /\ kb' = kb
      /\ UNCHANGED <<vars, foreground, waitPid>>
  BY Zenon DEF BlockCommand, On, ShellOn, kbVars
<1>2. kb' \in Ring /\ Fresh(kb') /\ QueueStep(Unread(kb), Unread(kb'))
  BY <1>1, RingStays
<1>3. \A q \in Users : ~Reader(q)
  BY <1>1, NoReaders DEF Serving
<1>4. /\ OthersStay /\ CmdTyped' /\ line' \in Seq(Cell) /\ TypeAheadIsDropped'
      /\ \/ pc'[SHELLPID] = "getchar"
         \/ pc'[SHELLPID] = "toggle" /\ cmd'.pid \in Users
  <2>1. CASE Prompt("getchar")
    BY <2>1, GotoEffect, IdleTyped, LineKept DEF Prompt
  <2>2. CASE \E p \in Live : Found(p)
    <3>0. PICK p \in Live : Found(p)
      BY <2>2
    <3>1. /\ cmd' = [cmd EXCEPT !.pid = p, !.blocked = Blocked(p)]
          /\ pc' = [pc EXCEPT ![SHELLPID] = "toggle"] /\ line' = line
      BY <3>0, Zenon DEF Goto, Found
    <3>2. CmdTyped
      BY DEF ConsoleInv, ConsoleTyped
    <3>3. CmdTyped' /\ cmd'.pid \in Users
      BY <3>1, <3>2 DEF CmdTyped, Live
    <3> QED
      BY <3>1, <3>3, GotoEffect, LineKept
  <2> QED
    BY <2>1, <2>2 DEF BlockCommand
<1>5. SemTypeOK' /\ NobodyStarts /\ SHELLPID \notin Entries' /\ Types
  BY <1>1, <1>2, <1>4, NothingElse DEF Types
<1> QED
  BY <1>1, <1>2, <1>3, <1>4, <1>5, PromptKeeps

\* block or unblock of a process that is not the shell.
LEMMA ToggleKeeps ==
    ASSUME ConsoleInv, Toggle
    PROVE  ConsoleInv' /\ QueueStep(Unread(kb), Unread(kb'))
<1>1. /\ ShellOn /\ pc[SHELLPID] = "toggle" /\ kb' = kb
      /\ Prompt("getchar") /\ UNCHANGED <<sems, inWait, handle, foreground, waitPid>>
  BY DEF Toggle, On, ShellOn, kbVars, semVars
<1>2. kb' \in Ring /\ Fresh(kb') /\ QueueStep(Unread(kb), Unread(kb'))
  BY <1>1, RingStays
<1>3. \A q \in Users : ~Reader(q)
  BY <1>1, NoReaders DEF Serving
<1>4. OthersStay /\ pc'[SHELLPID] = "getchar" /\ CmdTyped' /\ line' \in Seq(Cell) /\ TypeAheadIsDropped'
  BY <1>1, GotoEffect, IdleTyped, LineKept DEF Prompt
<1>5. ConsoleTyped /\ SemTypeOK /\ cmd.pid \in Users
  BY <1>1 DEF ConsoleInv, ConsoleTyped, ShellRuns
<1>6. state' \in [PIDs -> States] /\ cpu' = cpu /\ NobodyStarts
  <2>1. PICK p \in PIDs : p = cmd.pid
    BY <1>5, Pids
  <2>2. /\ cpu' = cpu
        /\ \/ state' = state \/ state' = Woken(state, {p})
           \/ state[p] # "EXITED" /\ state' = [state EXCEPT ![p] = "BLOCKED"]
    BY <2>1 DEF Toggle, Stay, Alive
  <2>3. state \in [PIDs -> States]
    BY <1>5 DEF SemTypeOK
  <2>4. CASE state' = state
    BY <2>2, <2>3, <2>4 DEF NobodyStarts
  <2>5. CASE state' = Woken(state, {p})
    BY <2>2, <2>3, <2>5, WokenEffect DEF NobodyStarts
  <2>6. CASE state[p] # "EXITED" /\ state' = [state EXCEPT ![p] = "BLOCKED"]
    BY <2>2, <2>3, <2>6 DEF NobodyStarts, States
  <2> QED
    BY <2>2, <2>4, <2>5, <2>6
<1>7. SemTypeOK' /\ Entries' = Entries
  BY <1>1, <1>5, <1>6 DEF SemTypeOK, Entries
<1>8. Types
  BY <1>1, <1>2, <1>4, <1>5, <1>7 DEF Types, ConsoleTyped
<1> QED
  BY <1>1, <1>2, <1>3, <1>4, <1>6, <1>7, <1>8, ShellAlone, PromptKeeps


\* The slot a process is created in is a user's, and free.
LEMMA FreePid ==
    ASSUME FreeSlots # {}
    PROVE  Min(FreeSlots) \in Users /\ ~Alive(Min(FreeSlots))
<1>1. FreeSlots \subseteq Nat
  BY DEF FreeSlots, Users
<1>2. Min(FreeSlots) \in FreeSlots
  BY <1>1, MinInSet
<1> QED
  BY <1>2 DEF FreeSlots, Live

\* A process created in the foreground is the one the shell will wait for.
LEMMA CreateKeeps ==
    ASSUME ConsoleInv, Create
    PROVE  ConsoleInv' /\ QueueStep(Unread(kb), Unread(kb'))
<1>1. PICK p \in Users : p = Min(FreeSlots) /\ ~Alive(p)
  BY FreePid DEF Create
<1>2. ShellOn /\ pc[SHELLPID] = "create" /\ kb' = kb /\ UNCHANGED <<sems, inWait, handle>>
  BY Zenon DEF Create, On, ShellOn, kbVars, semVars
<1>3. PICK b \in BOOLEAN : b = (First /\ ~cmd.bg)
  OBVIOUS
<1>4. /\ state' = [state EXCEPT ![p] = "READY"] /\ cpu' = cpu
      /\ waitPid' = [waitPid EXCEPT ![p] = NULL]
      /\ foreground' = [foreground EXCEPT ![p] = b]
  BY <1>1, <1>3, Zenon DEF Create, Start, Stay
<1>5. PICK at : /\ pc' = [pc EXCEPT ![p] = at,
                                    ![SHELLPID] = IF Len(cmd.progs) > 1 THEN "create"
                                                  ELSE IF cmd.bg THEN "getchar" ELSE "wait"]
  BY <1>1, Zenon DEF Create
<1>6. /\ cmd' = IF Len(cmd.progs) = 1 /\ cmd.bg THEN Idle
                ELSE [cmd EXCEPT !.progs = Tail(@), !.pid = IF First THEN p ELSE @]
      /\ line' = IF Len(cmd.progs) = 1 /\ cmd.bg THEN << >> ELSE line
  BY <1>1, Zenon DEF Create
<1>7. /\ ConsoleTyped /\ SemTypeOK /\ CmdTyped /\ cmd.bg \in BOOLEAN
      /\ cmd.pid \in Users \cup {NULL}
      /\ UsersRead /\ ~InitReads
  BY <1>2 DEF ConsoleInv, ConsoleTyped, CmdTyped, ShellRuns
<1>8. /\ p \in PIDs /\ p # SHELLPID /\ p # INITPID /\ p # NULL
  BY <1>1, Pids
<1>9. /\ DOMAIN pc' = PIDs /\ pc'[INITPID] = pc[INITPID]
      /\ \A q \in Users : q # p => pc'[q] = pc[q]
      /\ pc'[SHELLPID] \in {"create", "wait", "getchar"}
      /\ ~cmd.bg => pc'[SHELLPID] # "getchar"
      /\ pc'[SHELLPID] = "wait" => ~cmd.bg
      /\ pc'[SHELLPID] = "create" => Len(cmd.progs) > 1
  BY <1>5, <1>7, <1>8, Pids DEF ConsoleTyped
<1>10. ~(Len(cmd.progs) = 1 /\ cmd.bg) =>
           cmd'.pid = (IF First THEN p ELSE cmd.pid) /\ (cmd'.bg <=> cmd.bg)
  BY <1>6, <1>7 DEF CmdTyped
<1>11. CmdTyped'
  <2>1. CASE cmd' = Idle
    BY <2>1, IdleTyped
  <2>2. CASE cmd' = [cmd EXCEPT !.progs = Tail(@), !.pid = IF First THEN p ELSE @]
    BY <1>7, <2>2 DEF CmdTyped
  <2> QED
    BY <1>6, <2>1, <2>2
<1>12. line' \in Seq(Cell) /\ TypeAheadIsDropped'
  BY <1>6, LineKept
<1>13. kb' \in Ring /\ Fresh(kb') /\ QueueStep(Unread(kb), Unread(kb'))
  BY <1>2, RingStays
<1>14. ConsoleTyped'
  <2>1. SemTypeOK'
    BY <1>2, <1>4, <1>7, <1>8 DEF SemTypeOK, States
  <2> QED
    BY <1>4, <1>7, <1>8, <1>9, <1>11, <1>12, <1>13, <2>1 DEF ConsoleTyped
<1>15. ShellListed' /\ ShellWoken' /\ AheadInWait'
  <2>1. SHELLPID \notin Entries'
    BY <1>2, ShellAlone DEF Entries
  <2> QED
    BY <1>9, <1>13, <2>1 DEF ShellListed, ShellWoken, AheadInWait, Fresh, UnreadCell, Size
<1>16. ShellAwaits'
  <2> SUFFICES ASSUME NEW q \in PIDs, Alive(q)', waitPid'[q] = SHELLPID PROVE FALSE
    BY DEF ShellAwaits
  <2>1. q # p
    BY <1>4, <1>7, <1>8 DEF ConsoleTyped, SHELLPID
  <2>2. Alive(q) /\ waitPid[q] = SHELLPID
    BY <1>4, <1>7, <1>8, <2>1 DEF ConsoleTyped, SemTypeOK, Alive
  <2> QED
    BY <1>2, <2>2, ShellAlone
<1>17. ShellRuns'
  <2>1. pc'[SHELLPID] \in {"create", "wait"} => ~(Len(cmd.progs) = 1 /\ cmd.bg)
    <3>1. \A n : n = 1 => ~(n > 1)
      OBVIOUS
    <3> QED
      BY <1>9, <3>1, Zenon
  <2> QED
    BY <1>7, <1>8, <1>9, <1>10, <2>1 DEF ShellRuns, First
<1>18. UsersRead'
  <2> SUFFICES ASSUME NEW q \in Users, Reader(q)'
               PROVE  Serving' /\ cmd'.pid = q /\ ~cmd'.bg
    BY DEF UsersRead
  <2>1. q \in PIDs
    BY Pids
  <2>2. CASE q = p
    <3>1. First /\ ~cmd.bg
      BY <1>3, <1>4, <1>7, <1>8, <2>2 DEF Reader, ConsoleTyped
    <3> QED
      BY <1>9, <1>10, <2>2, <3>1 DEF Serving
  <2>3. CASE q # p
    <3>1. Reader(q)
      BY <1>4, <1>7, <1>9, <2>1, <2>3 DEF Reader, Alive, ConsoleTyped, SemTypeOK
    <3>2. cmd.pid = q /\ ~cmd.bg /\ ~First
      BY <1>7, <2>1, <3>1, Pids DEF UsersRead, First
    <3> QED
      BY <1>9, <1>10, <3>2 DEF Serving
  <2> QED
    BY <2>2, <2>3
<1>19. ~InitReads'
  BY <1>7, <1>9 DEF InitReads
<1> QED
  BY <1>12, <1>13, <1>14, <1>15, <1>16, <1>17, <1>18, <1>19 DEF ConsoleInv

\* The shell sleeps until that process ends, or goes on at once.
LEMMA WaitKeeps ==
    ASSUME ConsoleInv, Wait
    PROVE  ConsoleInv' /\ QueueStep(Unread(kb), Unread(kb'))
<1>1. /\ ShellOn /\ pc[SHELLPID] = "wait" /\ kb' = kb
      /\ UNCHANGED <<sems, inWait, handle, line, cmd, foreground>>
  BY DEF Wait, On, ShellOn, kbVars, semVars
<1>2. OthersStay /\ pc'[SHELLPID] = "clear"
  BY GotoEffect DEF Wait, Goto
<1>3. /\ ConsoleTyped /\ SemTypeOK /\ ProcTypeOK /\ cmd.pid \in Users /\ cmd.pid \in PIDs
      /\ UsersRead /\ ~InitReads
  BY <1>1, Pids DEF ConsoleInv, ConsoleTyped, SemTypeOK, ProcTypeOK, ShellRuns
<1>4. kb' \in Ring /\ QueueStep(Unread(kb), Unread(kb'))
  BY <1>1, RingStays
<1>5. /\ ProcTypeOK' /\ NobodyStarts
      /\ state'[SHELLPID] = "BLOCKED" \/ state'[cmd.pid] = "EXITED"
      /\ waitPid' \in [PIDs -> {NULL, SHELLPID}]
      /\ \A q \in PIDs : q # cmd.pid => waitPid'[q] = waitPid[q]
      /\ state'[cmd.pid] # "EXITED" \/ waitPid' = waitPid
  <2>1. CASE Alive(cmd.pid)
    <3>1. BlockSelf /\ waitPid' = [waitPid EXCEPT ![cmd.pid] = SHELLPID]
      BY <2>1 DEF Wait
    <3>2. /\ ProcTypeOK'
          /\ \A q \in PIDs : state'[q] = "BLOCKED" <=> q = cpu \/ state[q] = "BLOCKED"
      BY <1>3, <3>1, BlockSelfEffect
    <3>3. \A q \in PIDs : state'[q] = "EXITED" <=> state[q] = "EXITED"
      <4> DEFINE st == [state EXCEPT ![cpu] = "BLOCKED"]
      <4>1. cpu \in PIDs /\ state[cpu] = "RUNNING"
        BY <1>1, Pids DEF ShellOn
      <4>2. /\ st \in [PIDs -> States]
            /\ \A q \in PIDs : st[q] = "EXITED" <=> state[q] = "EXITED"
        BY <1>3, <4>1 DEF ProcTypeOK, States
      <4>3. Switch(st)
        BY <3>1 DEF BlockSelf
      <4> HIDE DEF st
      <4> QED
        BY <4>1, <4>2, <4>3, SwitchEffect
    <3>4. waitPid' \in [PIDs -> {NULL, SHELLPID}]
      BY <1>3, <3>1 DEF ConsoleTyped
    <3>5. \A q \in PIDs : q # cmd.pid => waitPid'[q] = waitPid[q]
      BY <1>3, <3>1 DEF ConsoleTyped
    <3> QED
      BY <1>1, <1>3, <2>1, <3>2, <3>3, <3>4, <3>5, Pids DEF NobodyStarts, Alive, ShellOn
  <2>2. CASE ~Alive(cmd.pid)
    <3>1. UNCHANGED <<state, cpu, waitPid>>
      BY <2>2 DEF Wait, procVars
    <3> QED
      BY <1>3, <2>2, <3>1 DEF ProcTypeOK, NobodyStarts, Alive, ConsoleTyped
  <2> QED
    BY <2>1, <2>2
<1>6. ConsoleTyped'
  <2>1. SemTypeOK'
    BY <1>1, <1>3, <1>5 DEF SemTypeOK, ProcTypeOK
  <2> QED
    BY <1>1, <1>2, <1>3, <1>4, <1>5, <2>1 DEF ConsoleTyped, CmdTyped, OthersStay
<1>7. ShellListed'
  BY <1>1, ShellAlone DEF ShellListed, Entries
<1>8. ShellAwaits'
  <2> SUFFICES ASSUME NEW q \in PIDs, state'[q] # "EXITED", waitPid'[q] = SHELLPID
               PROVE  q = cmd.pid
    BY <1>1, <1>2 DEF ShellAwaits, Alive
  <2> QED
    BY <1>1, <1>5, ShellAlone DEF NobodyStarts, Alive
<1>9. ShellWoken' /\ ShellRuns'
  BY <1>1, <1>2, <1>3, <1>5 DEF ShellWoken, ShellRuns, Alive
<1>10. UsersRead'
  <2> SUFFICES ASSUME NEW q \in Users, Reader(q)'
               PROVE  Serving' /\ cmd'.pid = q /\ ~cmd'.bg
    BY DEF UsersRead
  <2>1. q \in PIDs /\ q # SHELLPID
    BY Pids
  <2>2. Reader(q)
    BY <1>1, <1>2, <1>5, <2>1 DEF Reader, Alive, NobodyStarts, OthersStay
  <2> QED
    BY <1>1, <1>2, <1>3, <2>2 DEF UsersRead, Serving
<1>11. ~InitReads' /\ AheadInWait' /\ TypeAheadIsDropped'
  BY <1>1, <1>2, <1>3, Pids, LineKept DEF InitReads, AheadInWait, OthersStay
<1> QED
  BY <1>4, <1>6, <1>7, <1>8, <1>9, <1>10, <1>11 DEF ConsoleInv


\* Every step of the shell keeps the invariant and is a step of the queue, or none.
LEMMA ShellStepKeeps ==
    ASSUME ConsoleInv, ShellStep
    PROVE  ConsoleInv' /\ QueueStep(Unread(kb), Unread(kb'))
  BY ReadKeeps, SkipKeeps, CreateKeeps, CreateFailsKeeps, WaitKeeps, ClearKeeps, KillCommandKeeps,
     KillNextKeeps, BlockCommandKeeps, ToggleKeeps DEF ShellStep


-----------------------------------------------------------------------------
(***************************************************************************)
(* The theorems                                                            *)
(***************************************************************************)

\* A ring in which a reader left some words is one, with nothing typed ahead.
LEMMA RingInit ==
    ASSUME NEW w \in Seq(Words), NEW r \in Cells, initKeyboard(w, r)
    PROVE  kb \in Ring /\ Fresh(kb)
<1> DEFINE char(i) == IF SUB_MOD(i, r) < Len(w) THEN w[SUB_MOD(i, r) + 1] ELSE SPACE
           buffer  == [i \in Cells |-> [char |-> char(i), typedAhead |-> FALSE]]
           to      == (r + Len(w)) % BUFFER_SIZE
<1>1. ASSUME NEW i \in Cells PROVE char(i) \in Characters
  <2>1. SUB_MOD(i, r) \in Nat
    BY DEF SUB_MOD, Cells
  <2>2. CASE SUB_MOD(i, r) < Len(w)
    <3>1. SUB_MOD(i, r) + 1 \in 1..Len(w)
      BY <2>1, <2>2
    <3>2. w[SUB_MOD(i, r) + 1] \in Words
      BY <3>1
    <3> QED
      BY <2>2, <3>2 DEF Characters, Printables
  <2>3. CASE ~(SUB_MOD(i, r) < Len(w))
    BY <2>3 DEF Characters
  <2> QED
    BY <2>2, <2>3
<1>2. kb = [buffer |-> buffer, to_write |-> to, to_read |-> r, modify |-> TRUE, control |-> FALSE]
  BY Zenon DEF initKeyboard
<1>3. to \in Cells
  <2>1. r + Len(w) \in Nat
    BY DEF Cells
  <2> DEFINE n == r + Len(w)
  <2> HIDE DEF n
  <2>2. n % BUFFER_SIZE \in Cells
    BY <2>1 DEF Cells, n
  <2> QED
    BY <2>2 DEF n
<1> HIDE DEF char
<1>4. /\ buffer \in [Cells -> Cell]
      /\ \A i \in Cells : ~buffer[i].typedAhead
  BY <1>1 DEF Cell
<1> HIDE DEF buffer, to
<1> QED
  BY <1>2, <1>3, <1>4 DEF Ring, Fresh

\* The shell sleeps in getchar, and the invariant holds.
LEMMA InitKeeps ==
    ASSUME ConsoleInit
    PROVE  ConsoleInv
<1>1. PICK l \in Lines : initKeyboard(l.words, l.start)
  BY Zenon DEF ConsoleInit
<1>2. l.words \in Seq(Words) /\ l.start \in Cells
  BY ConsoleAssumption
<1>3. kb \in Ring /\ Fresh(kb)
  BY <1>1, <1>2, RingInit
<1>4. PICK jobs : /\ jobs \subseteq Users
                  /\ state = [p \in PIDs |-> CASE p = INITPID  -> "RUNNING"
                                               [] p = SHELLPID -> "BLOCKED"
                                               [] p \in jobs   -> "READY"
                                               [] OTHER        -> "EXITED"]
  <2>1. Min(Users) \in Users
    <3>1. 3 \in Users
      BY ConsoleAssumption DEF Users
    <3>2. Users \subseteq Nat
      BY DEF Users
    <3> QED
      BY <3>1, <3>2, MinInSet
  <2>2. \A jobs \in SUBSET {Min(Users)} : jobs \subseteq Users
    BY <2>1
  <2> QED
    BY <2>2, Zenon DEF ConsoleInit
<1>5. state \in [PIDs -> States] /\ state[SHELLPID] = "BLOCKED"
  BY <1>4, Pids DEF States
<1>6. /\ cpu = INITPID
      /\ inWait = [p \in PIDs |-> IF p = SHELLPID THEN keyboard_semaphore ELSE NoSem]
      /\ handle = [p \in PIDs |-> [n \in Names |-> NoSem]]
      /\ pc = [p \in PIDs |-> IF p = SHELLPID THEN "getchar" ELSE "run"]
      /\ line = << >> /\ cmd = Idle
      /\ foreground = [p \in PIDs |-> p \notin Users]
      /\ waitPid = [p \in PIDs |-> NULL]
  BY Zenon DEF ConsoleInit
<1>7. sems \in [SemIds -> Sem]
  <2> DEFINE zero == [used |-> TRUE, value |-> 0, waiting |-> <<SHELLPID>>,
                      openedBy |-> [i \in 0..(MAX_PROCESSES - 1) |-> FALSE],
                      name |-> [i \in 1..NameLength |-> NUL]]
  <2>1. sems = [s \in SemIds |-> zero]
    BY Zenon DEF ConsoleInit
  <2>2. <<SHELLPID>> \in Seq(PIDs)
    BY Pids
  <2>3. [i \in 1..NameLength |-> NUL] \in [1..NameLength -> Chars]
    BY DEF Chars
  <2>4. zero \in Sem
    BY <2>2, <2>3 DEF Sem
  <2> HIDE DEF zero
  <2> QED
    BY <2>1, <2>4
<1>8. ConsoleTyped
  <2>1. SemTypeOK
    BY <1>5, <1>6, <1>7, Pids, KeyboardSem DEF SemTypeOK
  <2>2. CmdTyped
    BY <1>6 DEF CmdTyped, Idle
  <2>3. foreground \in [PIDs -> BOOLEAN]
    BY <1>6, Zenon
  <2> QED
    BY <1>3, <1>6, <2>1, <2>2, <2>3 DEF ConsoleTyped
<1>9. pc[SHELLPID] = "getchar" /\ pc[INITPID] = "run"
  BY <1>6, Pids
<1>10. ShellListed /\ ShellWoken /\ ShellRuns /\ ~InitReads /\ AheadInWait
  BY <1>3, <1>5, <1>9 DEF ShellListed, ShellWoken, ShellRuns, InitReads, AheadInWait, AtKeyboard
<1>11. ShellAwaits
  BY <1>6 DEF ShellAwaits, SHELLPID
<1>12. UsersRead
  BY <1>6, Pids DEF UsersRead, Reader
<1>13. TypeAheadIsDropped
  <2>1. DOMAIN line = {}
    BY <1>6
  <2> QED
    BY <2>1 DEF TypeAheadIsDropped
<1> QED
  BY <1>8, <1>10, <1>11, <1>12, <1>13 DEF ConsoleInv

\* Every step keeps the invariant and is a step of the queue, or none.
LEMMA NextKeeps ==
    ASSUME ConsoleInv, [ConsoleNext]_consoleVars
    PROVE  ConsoleInv' /\ QueueStep(Unread(kb), Unread(kb'))
<1>1. CASE Key
  <2>1. CASE handleCtrlC
    BY <2>1, CtrlCKeeps DEF RingStep
  <2>2. CASE EditingKey /\ UNCHANGED shellVars
    BY <2>2, EditingKeeps DEF RingStep
  <2> QED
    BY <1>1, <2>1, <2>2, Zenon DEF Key, EditingKey
<1>2. CASE Control
  <2>1. EditingKey /\ UNCHANGED shellVars
    BY <1>2, Zenon DEF Control, EditingKey
  <2> QED
    BY <2>1, EditingKeeps DEF RingStep
<1>3. CASE Turn
  BY <1>3, TurnKeeps DEF RingStep
<1>4. CASE ShellStep
  BY <1>4, ShellStepKeeps
<1>5. CASE \E p \in Users : UserStep(p)
  BY <1>5, CatKeeps, ReturnKeeps DEF UserStep, RingStep
<1>6. CASE UNCHANGED consoleVars
  <2>1. /\ UNCHANGED <<state, cpu, sems, inWait, handle>>
        /\ UNCHANGED <<kb, pc, line, cmd, foreground, waitPid>>
    BY <1>6 DEF consoleVars, vars, kbVars, shellVars
  <2>2. ConsoleTyped /\ SemTypeOK /\ kb \in Ring
    BY DEF ConsoleInv, ConsoleTyped
  <2>3. SemTypeOK' /\ Entries' = Entries /\ ShellStays /\ DOMAIN pc' = PIDs
    BY <2>1, <2>2 DEF SemTypeOK, Entries, ShellStays, ConsoleTyped
  <2>4. ProcessesStep
    BY <2>1, <2>2, <2>3 DEF ProcessesStep, NobodyStarts, ConsoleInv, ConsoleTyped, ShellListed
  <2>5. RingStep(kb, kb', Awaited)
    BY <2>1, <2>2, RingSame
  <2> QED
    BY <2>3, <2>4, <2>5, QuietKeeps DEF RingStep
<1> QED
  BY <1>1, <1>2, <1>3, <1>4, <1>5, <1>6 DEF ConsoleNext

\* The invariant holds in every state of a behaviour.
LEMMA ConsoleInvHolds == ConsoleSpec => []ConsoleInv
<1>1. ConsoleInit => ConsoleInv
  BY InitKeeps
<1>2. ConsoleInv /\ [ConsoleNext]_consoleVars => ConsoleInv'
  BY NextKeeps
<1> QED
  BY <1>1, <1>2, PTL DEF ConsoleSpec

\* The keyboard has one reader at a time, whoever is created, killed, woken by mistake
\* or cut off while it ends: a foreground process reads only while the shell is about to
\* wait, waits or is still asleep in waitProcess for it.
THEOREM KeyboardHasOneReader == ConsoleSpec => []OneReader
<1>1. ConsoleInv => OneReader
  <2> SUFFICES ASSUME ConsoleInv, NEW p \in PIDs, NEW q \in PIDs, Reader(p), Reader(q)
               PROVE  p = q
    BY DEF OneReader
  <2>1. \A r \in PIDs : Reader(r) => r = SHELLPID \/ r \in Users
    BY Pids DEF ConsoleInv, InitReads, Reader
  <2>2. \A r \in Users : Reader(r) => ~Reader(SHELLPID) /\ cmd.pid = r
    BY DEF ConsoleInv, UsersRead, Serving, Reader
  <2> QED
    BY <2>1, <2>2
<1> QED
  BY <1>1, ConsoleInvHolds, PTL

\* Nothing entered while the shell waits for a process gets into a command line:
\* clearInputBuffer comes before the next prompt on every way out of waitProcess.
THEOREM NothingTypedAheadIsRead == ConsoleSpec => []TypeAheadIsDropped
<1>1. ConsoleInv => TypeAheadIsDropped
  BY DEF ConsoleInv
<1> QED
  BY <1>1, ConsoleInvHolds, PTL

\* The ring of keyboard.c, with its positions taken modulo its size and its test for a
\* full buffer that holds for one pair of positions, implements the queue for every size
\* of the ring: at worst it forgets everything that is unread.
THEOREM RingIsAQueue == ConsoleSpec => ImplementsInputQueue
<1>1. ConsoleInit => Unread(kb) \in Seq(Characters)
  <2> SUFFICES ASSUME ConsoleInit PROVE Unread(kb) \in Seq(Characters)
    OBVIOUS
  <2>1. kb \in Ring
    BY InitKeeps DEF ConsoleInv, ConsoleTyped
  <2> QED
    BY <2>1, UnreadIs
<1>2. ConsoleInv /\ [ConsoleNext]_consoleVars =>
        [Input!Enter \/ Input!Erase \/ Input!Take \/ Input!Drop]_(Unread(kb))
  <2> SUFFICES ASSUME ConsoleInv, [ConsoleNext]_consoleVars
               PROVE  [Input!Enter \/ Input!Erase \/ Input!Take \/ Input!Drop]_(Unread(kb))
    OBVIOUS
  <2>1. QueueStep(Unread(kb), Unread(kb'))
    BY NextKeeps
  <2>2. Unread(kb)' = Unread(kb')
    BY DEF Unread, SUB_MOD
  <2>3. Input!BoundedSeq(Characters, Burst) = BoundedSeq(Characters, Burst)
    BY DEF BoundedSeq, SeqOf, Input!BoundedSeq, Input!SeqOf
  <2>4. Input!Front(Unread(kb)) = Front(Unread(kb))
    BY DEF Front, Input!Front
  <2> QED
    BY <2>1, <2>2, <2>3, <2>4, Zenon
       DEF QueueStep, KeptOf, Input!Enter, Input!Kept, Input!Erase, Input!Take, Input!Drop
<1> QED
  BY <1>1, <1>2, ConsoleInvHolds, PTL DEF ConsoleSpec, ImplementsInputQueue, Input!InputSpec
=============================================================================

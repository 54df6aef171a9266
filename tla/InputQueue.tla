----------------------------- MODULE InputQueue -----------------------------
(***************************************************************************)
(* What the keyboard driver promises to the programs that read from it: a  *)
(* queue of characters that is filled and edited at one end and read at    *)
(* the other.  It holds less than Capacity characters and forgets them all *)
(* whenever it would hold that many.                                       *)
(***************************************************************************)
EXTENDS Naturals, Sequences, SequencesExt

CONSTANTS
    Capacity,           \* characters that would be too many
    Burst,              \* the most characters a key enters
    Characters

VARIABLE queue

\* What is left of s once every Capacity characters have been forgotten
Kept(s) == SubSeq(s, Capacity * (Len(s) \div Capacity) + 1, Len(s))

Enter == \E s \in BoundedSeq(Characters, Burst) : queue' = Kept(queue \o s)
Erase == queue # << >> /\ queue' = Front(queue)
Take  == queue # << >> /\ queue' = Tail(queue)
Drop  == queue' = << >>

InputSpec == queue \in Seq(Characters) /\ [][Enter \/ Erase \/ Take \/ Drop]_queue
=============================================================================

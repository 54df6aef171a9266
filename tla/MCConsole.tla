----------------------------- MODULE MCConsole -----------------------------
(* TLC instances of Console: lines for each kind of command, one too long. *)
EXTENDS Console

MCNames   == {<<"k">>}
NoCallers == {}

At(start, lines) == {[start |-> start, words |-> l] : l \in lines}

\* From 0 the ring can be full; from the others it wraps, and overruns its characters
MCLines == At(0, {<<"cat">>, <<"loop", "|", "cat">>, <<"block">>})
      \cup At(3, {<< >>, <<"cat">>, <<"loop", "|", "cat">>, <<"echo", "cat", "loop", "loop">>})
      \cup At(4, {<<"loop", "&">>, <<"kill">>})
=============================================================================

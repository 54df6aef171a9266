---------------------------- MODULE MCSemaphores ----------------------------
(* TLC instances of Semaphores: names of one and of two characters, one a  *)
(* prefix of the other or two of one length, and processes without the     *)
(* last PID.                                                               *)
EXTENDS Semaphores

MCNames == {<<"a">>, <<"a", "b">>}
MCTwins == {<<"a", "b">>, <<"a", "c">>}

MostCallers == PIDs \ {INITPID, MAX_PROCESSES}

\* Initial values a program may ask for: one below 0 and one above
MCValues == {-1, 1}
=============================================================================

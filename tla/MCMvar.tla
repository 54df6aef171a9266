------------------------------- MODULE MCMvar -------------------------------
(* TLC instances of Mvar and of TestSync. *)
EXTENDS Mvar

MCMutex   == <<"m">>
MCEmpty   == <<"e">>
MCFull    == <<"f">>
MCNames   == {MCMutex, MCEmpty, MCFull}
NoCallers == {}
=============================================================================

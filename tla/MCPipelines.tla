---------------------------- MODULE MCPipelines ----------------------------
(* TLC instances of Pipelines: the semaphores of the descriptors 3 to 6.   *)
EXTENDS Pipelines

MCNames   == {<<"3">>, <<"4">>, <<"5">>, <<"6">>}
NoCallers == {}
=============================================================================

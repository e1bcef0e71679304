------------------------------ MODULE MCRouter ------------------------------
(* Two shards, routes with and without a gap between the instruments, and  *)
(* queues that fill.                                                       *)
EXTENDS Router

MCInstrumentIds == 3 .. 6
=============================================================================

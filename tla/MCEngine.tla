------------------------------ MODULE MCEngine ------------------------------
(* A short history over a ring and an event queue that both fill, with one  *)
(* payload that is applied or rejected and one whose application fails.     *)
EXTENDS Engine

CONSTANTS ok, fatal
=============================================================================

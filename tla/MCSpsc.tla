------------------------------- MODULE MCSpsc -------------------------------
(* A ring of four slots whose counters wrap every second lap.               *)
EXTENDS Spsc

CONSTANTS a, b

MCValues == {a, b}
=============================================================================

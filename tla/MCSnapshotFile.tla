--------------------------- MODULE MCSnapshotFile ---------------------------
(* Two calls that race, and a third one of a later process that has been   *)
(* given the process id, and so the temporary name, of the first.          *)
EXTENDS SnapshotFile

CONSTANTS c1, c2, c3, t1, t2

MCTempOf == [c \in {c1, c2, c3} |-> IF c = c2 THEN t2 ELSE t1]
=============================================================================

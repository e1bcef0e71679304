--------------------------- MODULE MCStoredBook ---------------------------
(* A book of two levels a side with its stores.  The ids share the last    *)
(* bucket of the order index, so that probe runs wrap around its end.      *)
EXTENDS StoredBook

MCPrices == 1..3
MCQuantities == 1..2
MCHome == [id \in OrderIds \union {FreshId} |-> CAPACITY - 1]
IdSymmetry == Permutations(OrderIds)
=============================================================================

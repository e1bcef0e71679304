----------------------------- MODULE LevelIndex -----------------------------
(***************************************************************************)
(* The sorted level index of one side of hft-book: entries of price and    *)
(* level slot, best price first, and the pool of free level slots.         *)
(* partition_point on sorted entries is the number of entries ahead.       *)
(***************************************************************************)
EXTENDS PriceLevel

\* The pool is a stack: a fresh side hands out the lowest slots first.
NewLevelIndex(slots) ==
    [entries |-> << >>, free |-> [i \in 1..slots |-> slots - i]]

IsFull(sorted) == sorted.free = << >>

PositionOf(sorted, price, descending) ==
    Cardinality({i \in 1..Len(sorted.entries) :
                    IF descending THEN sorted.entries[i].price > price
                                  ELSE sorted.entries[i].price < price})

\* find: the slot of the level at price, NIL when there is none.
FindLevel(sorted, price, descending) ==
    LET position == PositionOf(sorted, price, descending) IN
    IF position < Len(sorted.entries) /\ sorted.entries[position + 1].price = price
    THEN sorted.entries[position + 1].level_index ELSE NIL

InsertLevel(sorted, price, descending) ==
    [entries |-> InsertAt(sorted.entries, PositionOf(sorted, price, descending) + 1,
                          [price |-> price, level_index |-> Last(sorted.free)]),
     free |-> Front(sorted.free)]

RemoveLevel(sorted, price, descending) ==
    LET position == PositionOf(sorted, price, descending) IN
    IF FindLevel(sorted, price, descending) = NIL THEN sorted
    ELSE [entries |-> RemoveAt(sorted.entries, position + 1),
          free |-> Append(sorted.free, sorted.entries[position + 1].level_index)]
=============================================================================

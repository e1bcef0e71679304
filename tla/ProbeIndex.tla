----------------------------- MODULE ProbeIndex -----------------------------
(***************************************************************************)
(* The open-addressed index used three times in the system: the account    *)
(* and reservation indexes of hft-risk (ProbeIndex) and the order index of *)
(* hft-book (OrderIndex, the same algorithm over three array dimensions).  *)
(* Linear probing from a home bucket; a removal closes the hole by moving  *)
(* displaced entries back and reports every move, so that the owner of the *)
(* entry can update the handle it stores.                                  *)
(*                                                                         *)
(* An index maps its occupied positions to [key, value]; cap is CAPACITY,  *)
(* and home[key] is probe_start(key), here any function into the buckets.  *)
(***************************************************************************)
EXTENDS Integers, Sequences, SequencesExt

NIL == -1

EmptyIndex == << >>

\* Mutant: the distance ignores the end of the array.
ProbeDistanceNoWrap(cap, home, current) == current - home

\* probe_distance: how far current lies behind home, around the end.
ProbeDistance(cap, home, current) ==
    IF current >= home THEN current - home ELSE cap - (home - current)

\* find_slot: the walk ends at the first empty position.
FindSlot(cap, home, index, key) ==
    LET at(o) == (home[key] + o) % cap
        hits == {o \in 0..(cap - 1) :
                    /\ at(o) \in DOMAIN index /\ index[at(o)].key = key
                    /\ \A p \in 0..(o - 1) : at(p) \in DOMAIN index}
    IN  IF hits = {} THEN NIL ELSE at(Min(hits))

\* Where insert puts key: the first empty position, NIL when there is none or
\* the key is met before it.
InsertSlot(cap, home, index, key) ==
    LET at(o) == (home[key] + o) % cap
        open == {o \in 0..(cap - 1) : at(o) \notin DOMAIN index}
    IN  IF \/ open = {}
           \/ \E o \in 0..(Min(open) - 1) : index[at(o)].key = key
        THEN NIL ELSE at(Min(open))

Put(index, slot, key, value) == (slot :> [key |-> key, value |-> value]) @@ index

\* One candidate of remove_at's loop.  acc.hole is the position to refill.
Shift(cap, home, acc, candidate) ==
    IF acc.done THEN acc
    ELSE IF candidate \notin DOMAIN acc.index
         THEN [acc EXCEPT !.index = Restrict(@, DOMAIN @ \ {acc.hole}), !.done = TRUE]
    ELSE LET entry == acc.index[candidate] IN
         IF ProbeDistance(cap, home[entry.key], acc.hole)
              < ProbeDistance(cap, home[entry.key], candidate)
         THEN [acc EXCEPT !.index = (acc.hole :> entry) @@ @,
                          !.moves = Append(@, [key |-> entry.key,
                                               value |-> entry.value,
                                               slot |-> acc.hole]),
                          !.hole = candidate]
         ELSE acc

\* remove_at: the index without key, and the moves its owner must follow.  A
\* stale handle removes nothing.  The loop ends at an empty position; at most
\* half of them are occupied.
RemoveEntryAt(cap, home, index, slot, key) ==
    IF slot \notin DOMAIN index \/ index[slot].key # key
    THEN [index |-> index, moves |-> << >>]
    ELSE FoldLeft(LAMBDA acc, o : Shift(cap, home, acc, (slot + o) % cap),
                  [index |-> index, moves |-> << >>, hole |-> slot, done |-> FALSE],
                  [o \in 1..cap |-> o])
=============================================================================

----------------------------- MODULE PriceLevel -----------------------------
(***************************************************************************)
(* One price level of hft-book: order slots, doubly linked in FIFO order,  *)
(* and a free list through the unused ones.  Slot handles stay valid while *)
(* other orders come and go.  Operators on a level value:                  *)
(*   live       live slot -> order with its links prev and next            *)
(*   next_free  free slot -> next free slot                                *)
(* A call that fails closed leaves the level as it is.                     *)
(***************************************************************************)
EXTENDS ProbeIndex

NewLevel(price, slots) ==
    [price |-> price, aggregate_quantity |-> 0, live |-> << >>,
     next_free |-> [s \in 0..(slots - 1) |-> IF s + 1 < slots THEN s + 1 ELSE NIL],
     head |-> NIL, tail |-> NIL, free_head |-> IF slots = 0 THEN NIL ELSE 0]

\* push_tail takes the slot at free_head, which is the handle it returns.
PushTail(level, order) ==
    LET slot == level.free_head
        linked == IF level.tail = NIL THEN level.live
                  ELSE [level.live EXCEPT ![level.tail].next = slot]
        pushed == (slot :> (order @@ [prev |-> level.tail, next |-> NIL])) @@ linked
    IN  [level EXCEPT
            !.live = pushed,
            !.next_free = Restrict(@, DOMAIN @ \ {slot}),
            !.free_head = level.next_free[slot],
            !.head = IF level.tail = NIL THEN slot ELSE @,
            !.tail = slot,
            !.aggregate_quantity = @ + order.quantity]

\* Links of a live slot that lead to a slot that is not live.
Broken(level, slot) ==
    \/ slot \notin DOMAIN level.live
    \/ \E n \in {level.live[slot].prev, level.live[slot].next} :
          n # NIL /\ n \notin DOMAIN level.live

UnlinkSlot(level, slot) ==
    IF Broken(level, slot) THEN level
    ELSE LET order == level.live[slot]
             skipped == [s \in DOMAIN level.live \ {slot} |->
                            [level.live[s] EXCEPT
                                !.next = IF s = order.prev THEN order.next ELSE @,
                                !.prev = IF s = order.next THEN order.prev ELSE @]]
         IN  [level EXCEPT
                !.live = skipped,
                !.head = IF order.prev = NIL THEN order.next ELSE @,
                !.tail = IF order.next = NIL THEN order.prev ELSE @,
                !.next_free = (slot :> level.free_head) @@ @,
                !.free_head = slot,
                !.aggregate_quantity = @ - order.quantity]

\* Mutant: a reduction forgets the level's total.
ReduceKeepsAggregate(level, slot, quantity) ==
    [level EXCEPT !.live[slot].quantity = @ - quantity]

ReduceQuantity(level, slot, quantity) ==
    [level EXCEPT !.live[slot].quantity = @ - quantity,
                  !.aggregate_quantity = @ - quantity]

LevelLen(level) == Cardinality(DOMAIN level.live)

\* for_each_live: the slots in link order from head.
Chain(level) ==
    LET step[n \in 0..LevelLen(level)] ==
            IF n = 0 THEN level.head
            ELSE IF step[n - 1] = NIL THEN NIL ELSE level.live[step[n - 1]].next
        length == CHOOSE n \in 0..LevelLen(level) :
                    /\ \A k \in 0..(n - 1) : step[k] # NIL
                    /\ step[n] = NIL \/ n = LevelLen(level)
    IN  [k \in 1..length |-> step[k - 1]]
=============================================================================

-------------------------- MODULE ReservationStore --------------------------
(***************************************************************************)
(* Where hft-risk keeps its reservations: slots with a free list through   *)
(* the free ones, an index from order id to slot, and in every live slot   *)
(* the index position it is found at.  Risk is about the values; here are  *)
(* the handles: check_and_reserve takes a slot, release_reservation gives  *)
(* it back, from_state builds the store again.                             *)
(***************************************************************************)
EXTENDS ProbeIndex

CONSTANTS ORDERS, INDEX_PLANES, OrderIds

ASSUME StoreAssumption ==
    ORDERS \in Nat \ {0} /\ INDEX_PLANES \in Nat \ {0, 1} /\ OrderIds \subseteq Nat

CAPACITY == ORDERS * INDEX_PLANES
Slots == 0..(ORDERS - 1)

VARIABLES home,               \* probe_start, fixed
          index,
          live,               \* live slot -> [order_id, index_slot]
          next_free,          \* free slot -> next free slot
          free_head, maximum_order_id

vars == <<home, index, live, next_free, free_head, maximum_order_id>>

\* The free list from slot n on.
FreeFrom(n) == [s \in n..(ORDERS - 1) |-> IF s + 1 < ORDERS THEN s + 1 ELSE NIL]

Init ==
    /\ home \in [OrderIds -> 0..(CAPACITY - 1)]
    /\ index = EmptyIndex /\ live = << >>
    /\ next_free = FreeFrom(0) /\ free_head = 0
    /\ maximum_order_id = NIL

CheckAndReserve(id) ==
    LET slot == InsertSlot(CAPACITY, home, index, id) IN
    /\ id > maximum_order_id
    /\ free_head # NIL
    /\ slot # NIL
    /\ index' = Put(index, slot, id, free_head)
    /\ live' = (free_head :> [order_id |-> id, index_slot |-> slot]) @@ live
    /\ next_free' = Restrict(next_free, DOMAIN next_free \ {free_head})
    /\ free_head' = next_free[free_head]
    /\ maximum_order_id' = id
    /\ UNCHANGED home

\* live_reservation: the slot found under id, if it is live and id's.
LiveReservation(id) ==
    LET at == FindSlot(CAPACITY, home, index, id) IN
    {s \in DOMAIN live : at # NIL /\ index[at].value = s /\ live[s].order_id = id}

\* The closure remove_at calls for every move.
UpdateMoved(slots, move) ==
    IF move.value \in DOMAIN slots /\ slots[move.value].order_id = move.key
    THEN [slots EXCEPT ![move.value].index_slot = move.slot] ELSE slots

ReleaseReservation(id) ==
    \E slot \in LiveReservation(id) :
        LET removed == RemoveEntryAt(CAPACITY, home, index, live[slot].index_slot, id)
            updated == FoldLeft(UpdateMoved, live, removed.moves)
        IN  /\ index' = removed.index
            /\ live' = Restrict(updated, DOMAIN live \ {slot})
            /\ next_free' = (slot :> free_head) @@ next_free
            /\ free_head' = slot
            /\ UNCHANGED <<home, maximum_order_id>>

\* from_state: the exported reservations, in id order, into fresh slots.
RestoreSlot(store, id) ==
    LET n == Cardinality(DOMAIN store.live)
        slot == InsertSlot(CAPACITY, home, store.index, id)
    IN  [index |-> Put(store.index, slot, id, n),
         live |-> (n :> [order_id |-> id, index_slot |-> slot]) @@ store.live]

Restore ==
    LET ids == SetToSortSeq({live[s].order_id : s \in DOMAIN live}, LAMBDA a, b : a < b)
        store == FoldLeft(RestoreSlot, [index |-> EmptyIndex, live |-> << >>], ids)
    IN  /\ index' = store.index
        /\ live' = store.live
        /\ next_free' = FreeFrom(Len(ids))
        /\ free_head' = IF Len(ids) = ORDERS THEN NIL ELSE Len(ids)
        /\ UNCHANGED <<home, maximum_order_id>>

Next ==
    \/ \E id \in OrderIds : CheckAndReserve(id) \/ ReleaseReservation(id)
    \/ Restore

Spec == Init /\ [][Next]_vars
-----------------------------------------------------------------------------
\* Type correctness: live and free slots partition the table.
TypeOK ==
    /\ DOMAIN index \subseteq 0..(CAPACITY - 1)
    /\ DOMAIN live \subseteq Slots
    /\ DOMAIN next_free = Slots \ DOMAIN live
    /\ free_head \in DOMAIN next_free \union {NIL}

\* Exactly the live reservations are found, each in its slot, whatever was
\* removed from the middle of a probe run before.
LookupIsExact ==
    \A id \in OrderIds :
        LiveReservation(id) = {s \in DOMAIN live : live[s].order_id = id}

\* The index has no entry but those, and every live slot stores the position
\* it is indexed at now: remove_at reported every move.
HandlesAreCurrent ==
    /\ Cardinality(DOMAIN index) = Cardinality(DOMAIN live)
    /\ \A s \in DOMAIN live :
          /\ live[s].index_slot \in DOMAIN index
          /\ index[live[s].index_slot] = [key |-> live[s].order_id, value |-> s]

\* The free list passes through every free slot once and ends: the store can
\* always be filled up to ORDERS.
FreeListIsExact ==
    LET walk[n \in 0..ORDERS] ==
            IF n = 0 THEN free_head
            ELSE IF walk[n - 1] = NIL THEN NIL ELSE next_free[walk[n - 1]]
    IN  {walk[n] : n \in 0..ORDERS} = DOMAIN next_free \union {NIL}

\* Lookups, slots, their handles and the free list agree after every insertion
\* and removal.
StoreInv == TypeOK /\ LookupIsExact /\ HandlesAreCurrent /\ FreeListIsExact
=============================================================================

----------------------------- MODULE StoredBook -----------------------------
(***************************************************************************)
(* The book as hft-book stores it: per side a pool of levels and its       *)
(* sorted index, in each level the linked order slots, and one index from  *)
(* order id to location, whose position every order keeps.  OrderBook is   *)
(* what it promises; exported, what export_state reads, is the mapping.    *)
(*                                                                         *)
(* A store s is one value with the fields levels (side -> occupied level   *)
(* slot -> level), sorted (side -> level index) and index.                 *)
(***************************************************************************)
EXTENDS Book, LevelIndex

CONSTANTS OrderIds, AccountIds, InstrumentIds, Prices, Quantities, FreshId,
          MaxSequence,
          ORDER_INDEX_PLANES,
          Home                 \* probe_start of every order id

ASSUME StoredBookAssumption == ORDER_INDEX_PLANES \in Nat \ {0, 1}

VARIABLES store, sequence,
          exported             \* always ExportState(store)

vars == <<store, sequence, exported>>

CAPACITY == LEVELS * ORDERS_PER_LEVEL * ORDER_INDEX_PLANES
Descending(side) == side = "Buy"

Init ==
    /\ store = [levels |-> [side \in Sides |-> << >>],
                sorted |-> [side \in Sides |-> NewLevelIndex(LEVELS)],
                index |-> EmptyIndex]
    /\ sequence = 1
    /\ exported = EmptyBook
-----------------------------------------------------------------------------
(* Export: the entries in order, each level along its links.               *)

LogicalOrder(order) == RestingOrder(order, order.quantity)

ExportLevel(level) ==
    [price |-> level.price,
     orders |-> LET chain == Chain(level) IN
                [k \in 1..Len(chain) |-> LogicalOrder(level.live[chain[k]])]]

ExportState(s) ==
    [side \in Sides |->
        [i \in 1..Len(s.sorted[side].entries) |->
            ExportLevel(s.levels[side][s.sorted[side].entries[i].level_index])]]

Abstract == INSTANCE OrderBook WITH book <- exported
-----------------------------------------------------------------------------
(* The order index.                                                        *)

IsLive(s, location) ==
    /\ location.level_index \in DOMAIN s.levels[location.side]
    /\ location.slot \in DOMAIN s.levels[location.side][location.level_index].live

LiveAt(s, location) == s.levels[location.side][location.level_index].live[location.slot]

\* A location is stored as one number: the side in the lowest bit, and one
\* more, since zero marks an empty slot.
EncodeLocation(location) ==
    1 + (IF location.side = "Sell" THEN 1 ELSE 0)
      + 2 * (location.level_index * ORDERS_PER_LEVEL + location.slot)

DecodeLocation(encoded) ==
    LET flat == (encoded - 1) \div 2 IN
    [side |-> IF (encoded - 1) % 2 = 0 THEN "Buy" ELSE "Sell",
     level_index |-> flat \div ORDERS_PER_LEVEL, slot |-> flat % ORDERS_PER_LEVEL]

FindOrder(s, id) == FindSlot(CAPACITY, Home, s.index, id)

\* location: the indexed location of id, as a set of none or one.
LocationOf(s, id) ==
    {DecodeLocation(s.index[at].value) : at \in {FindOrder(s, id)} \ {NIL}}

\* insert: at the first free position of its probe run, whose number is the
\* handle the order keeps.
IndexPosition(s, id) == InsertSlot(CAPACITY, Home, s.index, id)
IndexOrder(index, at, id, location) == Put(index, at, id, EncodeLocation(location))

\* remove_at: the index without id, and the moves its orders must follow.
Unindex(s, index_slot, id) == RemoveEntryAt(CAPACITY, Home, s.index, index_slot, id)

\* locate: where id rests; a stale entry locates nothing.
Located(s, id) ==
    {location \in LocationOf(s, id) :
        IsLive(s, location) /\ LiveAt(s, location).order_id = id}

\* The closure of remove_index_entry, once per moved entry.
FollowMove(s, move) ==
    LET location == DecodeLocation(move.value) IN
    IF IsLive(s, location) /\ LiveAt(s, location).order_id = move.key
    THEN [s EXCEPT !.levels[location.side][location.level_index]
                        .live[location.slot].index_slot = move.slot]
    ELSE s

RemoveIndexEntry(s, index_slot, id) ==
    LET removed == Unindex(s, index_slot, id)
    IN  FoldLeft(FollowMove, [s EXCEPT !.index = removed.index], removed.moves)
-----------------------------------------------------------------------------
(* Orders enter and leave.                                                 *)

OpenLevel(s, side, price) ==
    LET slot == Last(s.sorted[side].free) IN
    [s EXCEPT !.sorted[side] = InsertLevel(@, price, Descending(side)),
              !.levels[side] = (slot :> NewLevel(price, ORDERS_PER_LEVEL)) @@ @]

\* rest_at_tail: find or open the level, push, index, store the handle.
StoreAtTail(s, side, price, order) ==
    LET opened == IF FindLevel(s.sorted[side], price, Descending(side)) # NIL THEN s
                  ELSE OpenLevel(s, side, price)
        level_index == FindLevel(opened.sorted[side], price, Descending(side))
        slot == opened.levels[side][level_index].free_head
        location == [side |-> side, level_index |-> level_index, slot |-> slot]
        at == IndexPosition(opened, order.order_id)
    IN  [opened EXCEPT
            !.index = IndexOrder(@, at, order.order_id, location),
            !.levels[side][level_index] =
                PushTail(@, order @@ [index_slot |-> at])]

\* A level without orders is dropped and its slot returned to the pool.
DropIfEmpty(s, side, level_index) ==
    LET level == s.levels[side][level_index] IN
    IF LevelLen(level) # 0 THEN s
    ELSE [s EXCEPT !.levels[side] = Restrict(@, DOMAIN @ \ {level_index}),
                   !.sorted[side] = RemoveLevel(@, level.price, Descending(side))]

UnlinkAt(s, location) ==
    [s EXCEPT !.levels[location.side][location.level_index] = UnlinkSlot(@, location.slot)]

\* A full fill removes the index entry before it unlinks; cancel and replace
\* unlink first, so their moves find the order's own slot already free.
RemoveFilled(s, location) ==
    LET order == LiveAt(s, location) IN
    DropIfEmpty(UnlinkAt(RemoveIndexEntry(s, order.index_slot, order.order_id), location),
                location.side, location.level_index)

RemoveOrder(s, location) ==
    LET order == LiveAt(s, location) IN
    RemoveIndexEntry(
        DropIfEmpty(UnlinkAt(s, location), location.side, location.level_index),
        order.index_slot, order.order_id)
-----------------------------------------------------------------------------
(* build_plan and apply_plan over the stores.                              *)

\* The makers in the order of the walk, with their locations; it ends at the
\* first level that does not cross.
StoredWalk(s, order) ==
    LET side == Opposite(order.side)
        entries == s.sorted[side].entries
        crosses(i) == Crosses(order.side, order.price, entries[i].price)
        reached == {i \in 1..Len(entries) : \A j \in 1..i : crosses(j)}
        crossing == SubSeq(entries, 1, Cardinality(reached))
    IN  FlattenSeq([i \in 1..Len(crossing) |->
            LET level == s.levels[side][crossing[i].level_index]
                chain == Chain(level)
            IN  [k \in 1..Len(chain) |->
                    [maker |-> level.live[chain[k]], price |-> crossing[i].price,
                     location |-> [side |-> side, slot |-> chain[k],
                                   level_index |-> crossing[i].level_index]]]])

StoredMeet(plan, w) ==
    LET traded == IF w.maker.quantity < plan.remaining THEN w.maker.quantity
                                                       ELSE plan.remaining
    IN  IF plan.remaining = 0 THEN plan
        ELSE [fills |-> Append(plan.fills, [location |-> w.location, quantity |-> traded]),
              remaining |-> plan.remaining - traded]

StoredPlan(s, order) ==
    LET walk == StoredWalk(s, order)
        planned[k \in 0..Len(walk)] ==
            IF k = 0 THEN [fills |-> << >>, remaining |-> order.quantity]
            ELSE StoredMeet(planned[k - 1], walk[k])
    IN  planned[Len(walk)]

StoredBestCrosses(s, side, price) ==
    LET entries == s.sorted[Opposite(side)].entries IN
    entries # << >> /\ Crosses(side, price, entries[1].price)

StoredRestReject(s, side, price) ==
    LET level_index == FindLevel(s.sorted[side], price, Descending(side)) IN
    IF level_index # NIL
    THEN IF LevelLen(s.levels[side][level_index]) = ORDERS_PER_LEVEL
         THEN "PriceLevelOrderCapacity" ELSE "Ok"
    ELSE IF IsFull(s.sorted[side]) THEN "PriceLevelCapacity" ELSE "Ok"

StoredSubmitReject(s, order) ==
    IF order.instrument_id # instrument THEN "InvalidInstrument"
    ELSE IF order.price <= 0 THEN "InvalidPrice"
    ELSE IF order.quantity = 0 THEN "InvalidQuantity"
    ELSE IF LocationOf(s, order.order_id) # {} THEN "DuplicateOrderId"
    ELSE IF order.time_in_force = "PostOnly"
            /\ StoredBestCrosses(s, order.side, order.price) THEN "PostOnlyWouldTrade"
    ELSE LET plan == StoredPlan(s, order) IN
         IF ~ReportsFit(plan.fills) THEN "ReportCapacity"
         ELSE IF plan.remaining = 0 \/ order.time_in_force = "Ioc" THEN "Ok"
         ELSE IF order.time_in_force = "Fok" THEN "InsufficientLiquidity"
         ELSE StoredRestReject(s, order.side, order.price)

StoredFill(s, fill) ==
    IF LiveAt(s, fill.location).quantity = fill.quantity
    THEN RemoveFilled(s, fill.location)
    ELSE [s EXCEPT !.levels[fill.location.side][fill.location.level_index] =
                        ReduceQuantity(@, fill.location.slot, fill.quantity)]

StoredSubmit(s, order) ==
    LET plan == StoredPlan(s, order)
        matched == FoldLeft(StoredFill, s, plan.fills)
    IN  IF plan.remaining = 0 \/ order.time_in_force = "Ioc" THEN matched
        ELSE StoreAtTail(matched, order.side, order.price,
                         RestingOrder(order, plan.remaining))
-----------------------------------------------------------------------------
\* Mutant: the slot that the move frees is not counted.
StoredMoveRejectNeedsFreeLevel(s, location, price) ==
    IF price = s.levels[location.side][location.level_index].price THEN "Ok"
    ELSE StoredRestReject(s, location.side, price)

StoredMoveReject(s, location, price) ==
    LET side == location.side
        source == s.levels[side][location.level_index]
    IN  IF price = source.price THEN "Ok"
        ELSE IF FindLevel(s.sorted[side], price, Descending(side)) # NIL
             THEN StoredRestReject(s, side, price)
        ELSE IF IsFull(s.sorted[side]) /\ LevelLen(source) # 1
             THEN "PriceLevelCapacity"
        ELSE "Ok"

\* Mutant: every amendment takes the order out and stores it again.
InPlaceNever(s, location, replace) == FALSE

InPlace(s, location, replace) ==
    /\ replace.price = s.levels[location.side][location.level_index].price
    /\ replace.quantity < LiveAt(s, location).quantity

StoredReplaceReject(s, replace) ==
    IF replace.instrument_id # instrument THEN "InvalidInstrument"
    ELSE IF Located(s, replace.order_id) = {} THEN "UnknownOrder"
    ELSE LET location == CHOOSE l \in Located(s, replace.order_id) : TRUE
             price == s.levels[location.side][location.level_index].price
         IN  IF LiveAt(s, location).account_id # replace.account_id THEN "NotOrderOwner"
             ELSE IF replace.price <= 0 THEN "InvalidPrice"
             ELSE IF replace.quantity = 0 THEN "InvalidQuantity"
             ELSE IF InPlace(s, location, replace) THEN "Ok"
             ELSE IF replace.price # price
                     /\ StoredBestCrosses(s, location.side, replace.price)
                  THEN "ReplaceWouldCross"
             ELSE StoredMoveReject(s, location, replace.price)

StoredReplace(s, replace) ==
    LET location == CHOOSE l \in Located(s, replace.order_id) : TRUE
        order == LiveAt(s, location)
    IN  IF InPlace(s, location, replace)
        THEN [s EXCEPT !.levels[location.side][location.level_index] =
                ReduceQuantity(@, location.slot, order.quantity - replace.quantity)]
        ELSE StoreAtTail(RemoveOrder(s, location), location.side, replace.price,
                         RestingOrder(replace, replace.quantity))

StoredCancelReject(s, cancel) ==
    IF cancel.instrument_id # instrument THEN "InvalidInstrument"
    ELSE IF Located(s, cancel.order_id) = {} THEN "UnknownOrder"
    ELSE IF \E l \in Located(s, cancel.order_id) :
                LiveAt(s, l).account_id # cancel.account_id THEN "NotOrderOwner"
    ELSE "Ok"

StoredCancel(s, cancel) ==
    RemoveOrder(s, CHOOSE l \in Located(s, cancel.order_id) : TRUE)
-----------------------------------------------------------------------------
\* The store moves on, and what it would export with it.
Step(after) ==
    /\ sequence' = sequence + 1
    /\ store' = after
    /\ exported' = ExportState(after)

SubmitStep(order) ==
    /\ sequence < MaxSequence
    /\ StoredSubmitReject(store, order) = "Ok"
    /\ Step(StoredSubmit(store, Abstract!Stamped(order)))

ReplaceStep(replace) ==
    /\ sequence < MaxSequence
    /\ StoredReplaceReject(store, replace) = "Ok"
    /\ Step(StoredReplace(store, Abstract!Stamped(replace)))

CancelStep(cancel) ==
    /\ sequence < MaxSequence
    /\ StoredCancelReject(store, cancel) = "Ok"
    /\ Step(StoredCancel(store, cancel))

Next ==
    \/ \E order \in Abstract!Orders : SubmitStep(order)
    \/ \E replace \in Abstract!Replaces : ReplaceStep(replace)
    \/ \E cancel \in Abstract!Cancels : CancelStep(cancel)

Spec == Init /\ [][Next]_vars
-----------------------------------------------------------------------------
\* Type correctness of the exported book and of the store: level slots in use
\* and in the pool partition each side, order slots live and free each level.
TypeOK ==
    /\ Abstract!TypeOK
    /\ DOMAIN store.index \subseteq 0..(CAPACITY - 1)
    /\ \A side \in Sides :
          /\ DOMAIN store.levels[side] \union Range(store.sorted[side].free)
                = 0..(LEVELS - 1)
          /\ \A l \in DOMAIN store.levels[side] :
                LET level == store.levels[side][l] IN
                /\ DOMAIN level.live \union DOMAIN level.next_free
                     = 0..(ORDERS_PER_LEVEL - 1)
                /\ level.aggregate_quantity \in Nat

\* The stored book does what the abstract one promises, on every accepted
\* submit, replace and cancel.
ImplementsOrderBook == Abstract!Spec

\* And it accepts and refuses the same next command for the same reason.  Ids
\* that do not rest are alike, so one stands for all.
RejectsAlike ==
    /\ \A id \in OrderIds :
          LocationOf(store, id) # {} <=> ContainsOrder(exported, id)
    /\ sequence < MaxSequence =>
          /\ \A order \in [order_id : {FreshId}, account_id : AccountIds,
                           instrument_id : InstrumentIds, side : Sides, price : Prices,
                           quantity : Quantities, time_in_force : TimeInForce] :
                StoredSubmitReject(store, order) = SubmitReject(exported, order)
          /\ \A replace \in Abstract!Replaces :
                StoredReplaceReject(store, replace) = ReplaceReject(exported, replace)
          /\ \A cancel \in Abstract!Cancels :
                StoredCancelReject(store, cancel) = CancelReject(exported, cancel)

Locations == {[side |-> side, level_index |-> l, slot |-> n] :
                side \in Sides, l \in 0..(LEVELS - 1), n \in 0..(ORDERS_PER_LEVEL - 1)}

\* Every resting order's stored index position is where the index has it, and
\* the index holds nothing else: handles survive removals that shift entries.
\* The number it holds is read back as the order's location.
HandlesAreCurrent ==
    LET resting == {l \in Locations : IsLive(store, l)} IN
    /\ Cardinality(DOMAIN store.index) = Cardinality(resting)
    /\ \A l \in resting :
          LET order == LiveAt(store, l) IN
          /\ order.index_slot \in DOMAIN store.index
          /\ store.index[order.index_slot] =
                [key |-> order.order_id, value |-> EncodeLocation(l)]
          /\ DecodeLocation(EncodeLocation(l)) = l

\* The quantity a level reports at the top of the book is the sum of the
\* orders it links.
AggregatesMatch ==
    \A side \in Sides : \A l \in DOMAIN store.levels[side] :
        LET level == store.levels[side][l]
            chain == Chain(level)
        IN  level.aggregate_quantity =
                FoldLeft(LAMBDA n, s : n + level.live[s].quantity, 0, chain)

\* Levels, handles and aggregates agree with the linked orders.
StoreInv == TypeOK /\ HandlesAreCurrent /\ AggregatesMatch

\* What OrderBook asks of every reachable book and of every order and amendment
\* it would accept, asked of the book that the store exports: that it passes its
\* own validation, price-time priority, conservation of quantity, the promise of
\* each time in force, and amendments that overtake nobody.
MatchingIsFair ==
    /\ Abstract!ReachableBooksValidate
    /\ Abstract!SubmitIsFair
    /\ Abstract!ReplaceIsFair
=============================================================================

-------------------------------- MODULE Book --------------------------------
(***************************************************************************)
(* The single-instrument price-time book, hft-book/src/lib.rs, by what it  *)
(* holds: each side is a sequence of levels, best price first, and each    *)
(* level a FIFO of resting orders.  The stores behind it (level pool,      *)
(* order slots and links, order index) are the subjects of LevelIndex,     *)
(* PriceLevel and ProbeIndex.                                              *)
(*                                                                         *)
(* As in Risk, an operation on a book b is a reject reason and the value   *)
(* it leaves behind; build_plan decides every rejection on the unchanged   *)
(* book and apply_plan cannot fail.                                        *)
(***************************************************************************)
EXTENDS Integers, Sequences, SequencesExt

CONSTANTS instrument,                 \* the instrument of this book
          LEVELS, ORDERS_PER_LEVEL,   \* capacities of a side and of a level
          REPORTS                     \* capacity of the report buffer

ASSUME BookAssumption ==
    LEVELS \in Nat /\ ORDERS_PER_LEVEL \in Nat /\ REPORTS \in Nat

Sides == {"Buy", "Sell"}
Opposite(side) == IF side = "Buy" THEN "Sell" ELSE "Buy"
TimeInForce == {"Gtc", "Ioc", "Fok", "PostOnly"}

EmptyBook == [side \in Sides |-> <<>>]

\* Would a taker on side, limited to price, trade with a maker at maker_price?
Crosses(side, price, maker_price) ==
    IF side = "Buy" THEN maker_price <= price ELSE maker_price >= price

\* Is price p ahead of q in a side's level order?
Better(side, p, q) == IF side = "Buy" THEN p > q ELSE p < q

Resting(b, side) == {<<i, j>> \in (1..LEVELS) \X (1..ORDERS_PER_LEVEL) :
                        i <= Len(b[side]) /\ j <= Len(b[side][i].orders)}

\* locate: the places where order id rests (one or none).
Places(b, id) == {<<side, i, j>> \in Sides \X (1..LEVELS) \X (1..ORDERS_PER_LEVEL) :
                    /\ <<i, j>> \in Resting(b, side)
                    /\ b[side][i].orders[j].order_id = id}

ContainsOrder(b, id) == Places(b, id) # {}
Locate(b, id) == CHOOSE place \in Places(b, id) : TRUE
OrderAt(b, place) == b[place[1]][place[2]].orders[place[3]]
PriceAt(b, place) == b[place[1]][place[2]].price

LevelsAt(b, side, price) ==
    {i \in 1..Len(b[side]) : b[side][i].price = price}
-----------------------------------------------------------------------------
(* Levels and their orders.                                                *)

\* Levels left without orders go back to the pool.
DropEmpty(levels) == SelectSeq(levels, LAMBDA l : l.orders # <<>>)

\* Unlink one order; its peers keep their order.
Unlink(b, place) ==
    [b EXCEPT ![place[1]] =
        DropEmpty([@ EXCEPT ![place[2]].orders = RemoveAt(@, place[3])])]

\* LevelIndex::position: levels strictly ahead of price.
Position(b, side, price) ==
    Cardinality({i \in 1..Len(b[side]) : Better(side, b[side][i].price, price)})

\* rest_at_tail: the last in its level, which is created when it is missing.
RestAtTail(b, side, price, order) ==
    IF LevelsAt(b, side, price) # {}
    THEN LET i == CHOOSE i \in LevelsAt(b, side, price) : TRUE
         IN  [b EXCEPT ![side][i].orders = Append(@, order)]
    ELSE [b EXCEPT ![side] = InsertAt(@, Position(b, side, price) + 1,
                                      [price |-> price, orders |-> <<order>>])]

\* May an order rest at price?  build_plan asks for a place in the level, or
\* for a free level.
RestReject(b, side, price) ==
    IF LevelsAt(b, side, price) # {}
    THEN IF \E i \in LevelsAt(b, side, price) :
                Len(b[side][i].orders) = ORDERS_PER_LEVEL
         THEN "PriceLevelOrderCapacity" ELSE "Ok"
    ELSE IF Len(b[side]) = LEVELS THEN "PriceLevelCapacity" ELSE "Ok"
-----------------------------------------------------------------------------
(* Matching.                                                               *)

\* The levels of the walk: from the best, up to the first that does not cross.
CrossingLevels(b, order) ==
    LET makers == b[Opposite(order.side)]
        n == CHOOSE n \in 0..Len(makers) :
                /\ \A i \in 1..n : Crosses(order.side, order.price, makers[i].price)
                /\ n < Len(makers) =>
                     ~Crosses(order.side, order.price, makers[n + 1].price)
    IN  SubSeq(makers, 1, n)

\* Mutant: a level is walked from its newest order.
WalkLastFirst(b, order) ==
    LET levels == CrossingLevels(b, order) IN
    FlattenSeq([i \in 1..Len(levels) |->
        LET n == Len(levels[i].orders) IN
        [j \in 1..n |-> [maker |-> levels[i].orders[n + 1 - j],
                         price |-> levels[i].price]]])

\* The makers the walk meets, each level in FIFO order.
Walk(b, order) ==
    LET levels == CrossingLevels(b, order) IN
    FlattenSeq([i \in 1..Len(levels) |->
        [j \in 1..Len(levels[i].orders) |->
            [maker |-> levels[i].orders[j], price |-> levels[i].price]]])

\* One maker of the walk: a fill, unless nothing remains to trade.
Meet(plan, w) ==
    LET traded == IF w.maker.quantity < plan.remaining THEN w.maker.quantity
                                                       ELSE plan.remaining
    IN  IF plan.remaining = 0 THEN plan
        ELSE [fills |-> Append(plan.fills,
                               [maker_order_id |-> w.maker.order_id,
                                price |-> w.price, quantity |-> traded]),
              remaining |-> plan.remaining - traded]

Plan(b, order) ==
    LET walk == Walk(b, order)
        planned[k \in 0..Len(walk)] ==
            IF k = 0 THEN [fills |-> <<>>, remaining |-> order.quantity]
            ELSE Meet(planned[k - 1], walk[k])
    IN  planned[Len(walk)]

Fills(b, order) == Plan(b, order).fills
Unfilled(b, order) == Plan(b, order).remaining

\* Gtc and PostOnly rest what is left, Ioc discards it.
Discarded(b, order) ==
    IF order.time_in_force = "Ioc" THEN Unfilled(b, order) ELSE 0

BestCrosses(b, side, price) ==
    LET makers == b[Opposite(side)] IN
    makers # <<>> /\ Crosses(side, price, makers[1].price)

\* The best opposing level is first: if it does not cross, none does.
PostOnlyWouldTrade(b, order) ==
    order.time_in_force = "PostOnly" /\ BestCrosses(b, order.side, order.price)

\* The report buffer is cleared before each command: it takes REPORTS fills.
ReportsFit(fills) == Len(fills) <= REPORTS

SubmitReject(b, order) ==
    IF order.instrument_id # instrument THEN "InvalidInstrument"
    ELSE IF order.price <= 0 THEN "InvalidPrice"
    ELSE IF order.quantity = 0 THEN "InvalidQuantity"
    ELSE IF ContainsOrder(b, order.order_id) THEN "DuplicateOrderId"
    ELSE IF PostOnlyWouldTrade(b, order) THEN "PostOnlyWouldTrade"
    ELSE LET plan == Plan(b, order) IN
         IF ~ReportsFit(plan.fills) THEN "ReportCapacity"
         ELSE IF plan.remaining = 0 \/ order.time_in_force = "Ioc" THEN "Ok"
         ELSE IF order.time_in_force = "Fok" THEN "InsufficientLiquidity"
         ELSE RestReject(b, order.side, order.price)

\* One fill of apply_plan: a maker filled in full is unlinked.
ApplyFill(b, fill) ==
    LET place == Locate(b, fill.maker_order_id) IN
    IF OrderAt(b, place).quantity = fill.quantity
    THEN Unlink(b, place)
    ELSE [b EXCEPT ![place[1]][place[2]].orders[place[3]].quantity = @ - fill.quantity]

RestingOrder(order, quantity) ==
    [order_id |-> order.order_id, account_id |-> order.account_id,
     quantity |-> quantity, sequence |-> order.sequence]

Submit(b, order) ==
    LET plan == Plan(b, order)
        matched == FoldLeft(ApplyFill, b, plan.fills)
    IN  IF plan.remaining = 0 \/ order.time_in_force = "Ioc" THEN matched
        ELSE RestAtTail(matched, order.side, order.price,
                        RestingOrder(order, plan.remaining))
-----------------------------------------------------------------------------
(* Replace and cancel.                                                     *)

\* A pure reduction keeps its place.
PriorityKept(b, replace) ==
    LET place == Locate(b, replace.order_id) IN
    /\ replace.price = PriceAt(b, place)
    /\ replace.quantity < OrderAt(b, place).quantity

\* Capacity at the destination, on the unchanged book: the order may return to
\* its own level, or use the level it empties.
MoveReject(b, place, price) ==
    LET side == place[1] IN
    IF price = PriceAt(b, place) THEN "Ok"
    ELSE IF LevelsAt(b, side, price) # {} THEN RestReject(b, side, price)
    ELSE IF Len(b[side]) = LEVELS /\ Len(b[side][place[2]].orders) # 1
         THEN "PriceLevelCapacity"
    ELSE "Ok"

ReplaceWouldCross(b, place, price) ==
    price # PriceAt(b, place) /\ BestCrosses(b, place[1], price)

ReplaceReject(b, replace) ==
    IF replace.instrument_id # instrument THEN "InvalidInstrument"
    ELSE IF ~ContainsOrder(b, replace.order_id) THEN "UnknownOrder"
    ELSE LET place == Locate(b, replace.order_id) IN
         IF OrderAt(b, place).account_id # replace.account_id THEN "NotOrderOwner"
         ELSE IF replace.price <= 0 THEN "InvalidPrice"
         ELSE IF replace.quantity = 0 THEN "InvalidQuantity"
         ELSE IF PriorityKept(b, replace) THEN "Ok"
         ELSE IF ReplaceWouldCross(b, place, replace.price) THEN "ReplaceWouldCross"
         ELSE MoveReject(b, place, replace.price)

Replace(b, replace) ==
    LET place == Locate(b, replace.order_id) IN
    IF PriorityKept(b, replace)
    THEN [b EXCEPT ![place[1]][place[2]].orders[place[3]].quantity = replace.quantity]
    ELSE RestAtTail(Unlink(b, place), place[1], replace.price,
                    RestingOrder(replace, replace.quantity))

CancelReject(b, cancel) ==
    IF cancel.instrument_id # instrument THEN "InvalidInstrument"
    ELSE IF ~ContainsOrder(b, cancel.order_id) THEN "UnknownOrder"
    ELSE IF OrderAt(b, Locate(b, cancel.order_id)).account_id # cancel.account_id
         THEN "NotOrderOwner"
    ELSE "Ok"

CancelOrder(b, cancel) == Unlink(b, Locate(b, cancel.order_id))
-----------------------------------------------------------------------------
(* from_state: what validate_state asks of an exported book.  Capacity and *)
(* the padding of the fixed arrays are fields of the encoding, not of the  *)
(* exported value.                                                         *)

ValidSide(b, side) ==
    /\ Len(b[side]) <= LEVELS
    /\ \A i \in 1..Len(b[side]) :
          LET level == b[side][i] IN
          /\ level.price > 0
          /\ Len(level.orders) \in 1..ORDERS_PER_LEVEL
          /\ i > 1 => Better(side, b[side][i - 1].price, level.price)
          /\ \A j \in 1..Len(level.orders) :
                /\ level.orders[j].quantity > 0 /\ level.orders[j].sequence > 0
                /\ j > 1 => level.orders[j - 1].sequence < level.orders[j].sequence

ValidUniqueIds(b) ==
    \A s, t \in Sides : \A ij \in Resting(b, s), kl \in Resting(b, t) :
        LET x == b[s][ij[1]].orders[ij[2]]
            y == b[t][kl[1]].orders[kl[2]]
        IN  x.order_id = y.order_id \/ x.sequence = y.sequence =>
                s = t /\ ij = kl

ValidBook(b) ==
    /\ ValidSide(b, "Buy") /\ ValidSide(b, "Sell")
    /\ b["Buy"] # <<>> /\ b["Sell"] # <<>> => b["Buy"][1].price < b["Sell"][1].price
    /\ ValidUniqueIds(b)
=============================================================================

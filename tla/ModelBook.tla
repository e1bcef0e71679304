----------------------------- MODULE ModelBook -----------------------------
(***************************************************************************)
(* The book of the reference model, hft-model/src/lib.rs: the levels of a  *)
(* side stay in the order they were opened and are searched, a level is a  *)
(* queue whose orders are removed by shifting.  The property tests compare *)
(* hft-book with it.                                                       *)
(*                                                                         *)
(* An operation is a plan, "Ok" or the reason of the rejection, and the    *)
(* book it leaves behind.  An expect that fails in the code is an          *)
(* expression without value here.                                          *)
(***************************************************************************)
EXTENDS Integers, Sequences, SequencesExt, FiniteSets

CONSTANTS LEVELS, ORDERS_PER_LEVEL,   \* level_cap and order_cap
          REPORTS                                 \* report_capacity

Other(side) == IF side = "Buy" THEN "Sell" ELSE "Buy"

\* The position of the first level with the price, or with the order, 0 if none.
AtPrice(levels, price) == SelectInSeq(levels, LAMBDA l : l.price = price)
FindIn(levels, id) ==
    SelectInSeq(levels, LAMBDA l : \E k \in 1..Len(l.orders) : l.orders[k].id = id)

QueueOf(levels, price) == levels[AtPrice(levels, price)].orders
QueuePosition(queue, id) == SelectInSeq(queue, LAMBDA o : o.id = id)
NewModelBook == [side \in {"Buy", "Sell"} |-> <<>>]

HasOrder(book, id) == \E side \in {"Buy", "Sell"} : FindIn(book[side], id) # 0

\* The prices that trade, sorted best first: the levels themselves are not.
Crossing(book, order) ==
    LET prices == {l.price : l \in ToSet(book[Other(order.side)])}
    IN  IF order.side = "Buy"
        THEN SetToSortSeq({p \in prices : p <= order.price}, LAMBDA p, q : p < q)
        ELSE SetToSortSeq({p \in prices : p >= order.price}, LAMBDA p, q : p > q)

\* submit's inner loop over one level: as often as the front can be traded.
TradeQueue(queue, price, acc) ==
    LET front(a) == a.queue[1]
        traded(a) == IF a.remaining < front(a).quantity THEN a.remaining ELSE front(a).quantity
        step(a) ==
            IF a.remaining = 0 \/ a.queue = <<>> THEN a
            ELSE [queue |-> IF traded(a) = front(a).quantity THEN Tail(a.queue)
                            ELSE [a.queue EXCEPT ![1].quantity = @ - traded(a)],
                  fills |-> Append(a.fills, [maker_order_id |-> front(a).id, price |-> price,
                                             quantity |-> traded(a)]),
                  remaining |-> a.remaining - traded(a)]
        run[n \in 0..Len(queue)] ==
            IF n = 0 THEN [queue |-> queue, fills |-> acc.fills, remaining |-> acc.remaining]
            ELSE step(run[n - 1])
    IN  run[Len(queue)]

\* Its outer loop: emptied levels are removed.
TradeLevel(acc, price) ==
    IF acc.remaining = 0 THEN acc
    ELSE LET position == AtPrice(acc.levels, price)
             traded == TradeQueue(acc.levels[position].orders, price, acc)
         IN  [levels |-> IF traded.queue = <<>> THEN RemoveAt(acc.levels, position)
                         ELSE [acc.levels EXCEPT ![position].orders = traded.queue],
              fills |-> traded.fills, remaining |-> traded.remaining]

\* The loops of submit; plan simulates them for the same counts.
Match(book, order) ==
    LET prices == Crossing(book, order)
        run[n \in 0..Len(prices)] ==
            IF n = 0 THEN [levels |-> book[Other(order.side)], fills |-> <<>>,
                           remaining |-> order.quantity]
            ELSE TradeLevel(run[n - 1], prices[n])
    IN  run[Len(prices)]

Rests(order) == order.time_in_force \in {"Gtc", "PostOnly"}

RestPlan(own, order) ==
    IF AtPrice(own, order.price) # 0
    THEN IF Len(QueueOf(own, order.price)) = ORDERS_PER_LEVEL
         THEN "PriceLevelOrderCapacity" ELSE "Ok"
    ELSE IF Len(own) = LEVELS THEN "PriceLevelCapacity" ELSE "Ok"

PlanOrder(book, order) ==
    LET matched == Match(book, order) IN
    IF order.price <= 0 THEN "InvalidPrice"
    ELSE IF order.quantity = 0 THEN "InvalidQuantity"
    ELSE IF HasOrder(book, order.order_id) THEN "DuplicateOrderId"
    ELSE IF order.time_in_force = "PostOnly" /\ Crossing(book, order) # <<>>
         THEN "PostOnlyWouldTrade"
    ELSE IF Len(matched.fills) > REPORTS THEN "ReportCapacity"
    ELSE IF matched.remaining = 0 THEN "Ok"
    ELSE IF order.time_in_force = "Fok" THEN "InsufficientLiquidity"
    ELSE IF Rests(order) THEN RestPlan(book[order.side], order)
    ELSE "Ok"

\* push_back into the level of that price, which is opened last when missing.
PushBack(levels, price, row) ==
    IF AtPrice(levels, price) # 0
    THEN [levels EXCEPT ![AtPrice(levels, price)].orders = Append(@, row)]
    ELSE Append(levels, [price |-> price, orders |-> <<row>>])

ModelOrder(order, quantity) ==
    [id |-> order.order_id, account |-> order.account_id, quantity |-> quantity,
     sequence |-> order.sequence]

SubmitOrder(book, order) ==
    LET matched == Match(book, order)
        traded == [book EXCEPT ![Other(order.side)] = matched.levels]
        rested == IF Rests(order) THEN matched.remaining ELSE 0
    IN  [book |-> IF rested = 0 THEN traded
                  ELSE [traded EXCEPT ![order.side] =
                            PushBack(@, order.price, ModelOrder(order, rested))],
         fills |-> matched.fills, rested |-> rested,
         discarded |-> IF order.time_in_force = "Ioc" THEN matched.remaining ELSE 0]

\* Where an order rests: side, level position, position in the queue.
Row(book, id) ==
    LET side == IF FindIn(book["Buy"], id) # 0 THEN "Buy" ELSE "Sell"
        level == FindIn(book[side], id)
    IN  [side |-> side, level |-> level,
         place |-> QueuePosition(book[side][level].orders, id)]

RowLevel(book, row) == book[row.side][row.level]
RowOrder(book, row) == RowLevel(book, row).orders[row.place]

\* The best opposing price is looked for among all of them.
CrossesOpposing(book, side, price) ==
    \E l \in ToSet(book[Other(side)]) :
        IF side = "Buy" THEN price >= l.price ELSE price <= l.price

MovePlan(book, row, replace) ==
    LET levels == book[row.side]
        dest == AtPrice(levels, replace.price)
    IN  IF dest # 0
        THEN IF dest # row.level /\ Len(levels[dest].orders) = ORDERS_PER_LEVEL
             THEN "PriceLevelOrderCapacity" ELSE "Ok"
        ELSE IF Len(levels) = LEVELS /\ Len(levels[row.level].orders) # 1
             THEN "PriceLevelCapacity" ELSE "Ok"

KeepsPriority(book, row, replace) ==
    /\ replace.price = RowLevel(book, row).price
    /\ replace.quantity < RowOrder(book, row).quantity

ReplacePlan(book, replace) ==
    LET row == Row(book, replace.order_id) IN
    IF replace.price <= 0 THEN "InvalidPrice"
    ELSE IF replace.quantity = 0 THEN "InvalidQuantity"
    ELSE IF ~HasOrder(book, replace.order_id) THEN "UnknownOrder"
    ELSE IF RowOrder(book, row).account # replace.account_id THEN "NotOrderOwner"
    ELSE IF KeepsPriority(book, row, replace) THEN "Ok"
    ELSE IF /\ replace.price # RowLevel(book, row).price
            /\ CrossesOpposing(book, row.side, replace.price) THEN "ReplaceWouldCross"
    ELSE MovePlan(book, row, replace)

\* queue.remove, and the level with it when it was the last order.
RemoveRow(book, row) ==
    LET queue == RemoveAt(RowLevel(book, row).orders, row.place) IN
    [book EXCEPT ![row.side] = IF queue = <<>> THEN RemoveAt(@, row.level)
                               ELSE [@ EXCEPT ![row.level].orders = queue]]

ReplaceOrder(book, replace) ==
    LET row == Row(book, replace.order_id) IN
    IF KeepsPriority(book, row, replace)
    THEN [book EXCEPT ![row.side][row.level].orders[row.place].quantity = replace.quantity]
    ELSE [RemoveRow(book, row) EXCEPT ![row.side] =
            PushBack(@, replace.price, ModelOrder(replace, replace.quantity))]

CancelPlan(book, cancel) ==
    IF ~HasOrder(book, cancel.order_id) THEN "UnknownOrder"
    ELSE IF RowOrder(book, Row(book, cancel.order_id)).account # cancel.account_id
         THEN "NotOrderOwner"
    ELSE "Ok"

\* dump_levels: prices ascending, FIFO within a level; the rows of a level
\* are kept together.
DumpLevels(levels) ==
    LET prices == SetToSortSeq({l.price : l \in ToSet(levels)}, LAMBDA p, q : p < q)
    IN  [i \in 1..Len(prices) |->
            LET queue == QueueOf(levels, prices[i]) IN
            <<prices[i], [k \in 1..Len(queue) |->
                <<queue[k].id, queue[k].quantity, queue[k].sequence>>]>>]
=============================================================================

------------------------------ MODULE OrderBook ------------------------------
(***************************************************************************)
(* The book under every sequence of submit, replace and cancel.  A         *)
(* rejected call leaves book and report buffer untouched, so each action   *)
(* is an accepted one.  Sequence numbers come from the gateway: every      *)
(* command, accepted or not, carries the next one.                         *)
(***************************************************************************)
EXTENDS Book, TLC, FiniteSetsExt

CONSTANTS OrderIds, AccountIds, InstrumentIds, Prices, Quantities,
          FreshId,               \* an order id that never rests
          MaxSequence            \* bound: number of commands

VARIABLES book,
          sequence               \* sequence number of the next command

vars == <<book, sequence>>

Orders == [order_id : OrderIds, account_id : AccountIds,
           instrument_id : InstrumentIds, side : Sides, price : Prices,
           quantity : Quantities, time_in_force : TimeInForce]
Replaces == [order_id : OrderIds, account_id : AccountIds,
             instrument_id : InstrumentIds, price : Prices, quantity : Quantities]
Cancels == [order_id : OrderIds, account_id : AccountIds,
            instrument_id : InstrumentIds]

Stamped(command) == [sequence |-> sequence] @@ command

Init == book = EmptyBook /\ sequence = 1

Step == sequence < MaxSequence /\ sequence' = sequence + 1

SubmitStep(order) ==
    /\ Step
    /\ SubmitReject(book, order) = "Ok"
    /\ book' = Submit(book, Stamped(order))

ReplaceStep(replace) ==
    /\ Step
    /\ ReplaceReject(book, replace) = "Ok"
    /\ book' = Replace(book, Stamped(replace))

CancelStep(cancel) ==
    /\ Step
    /\ CancelReject(book, cancel) = "Ok"
    /\ book' = CancelOrder(book, cancel)

Next ==
    \/ \E order \in Orders : SubmitStep(order)
    \/ \E replace \in Replaces : ReplaceStep(replace)
    \/ \E cancel \in Cancels : CancelStep(cancel)

Spec == Init /\ [][Next]_vars
-----------------------------------------------------------------------------
\* Type correctness of the book.
TypeOK ==
    /\ sequence \in 1..MaxSequence
    /\ \A side \in Sides : \A i \in 1..Len(book[side]) :
          /\ book[side][i].price \in Prices
          /\ \A j \in 1..Len(book[side][i].orders) :
                book[side][i].orders[j] \in
                    [order_id : OrderIds, account_id : AccountIds,
                     quantity : Nat, sequence : 1..MaxSequence]

\* Every reachable book passes the validation of from_state: levels sorted,
\* never empty and within capacity, FIFO in sequence order, ids and sequences
\* unique, and the best bid below the best ask.
ReachableBooksValidate == ValidBook(book)

\* The orders of a side with their price and place, and who is ahead of whom.
Priced(b, side) ==
    {[price |-> b[side][ij[1]].price, order |-> b[side][ij[1]].orders[ij[2]],
      place |-> ij[2]] : ij \in Resting(b, side)}
Ahead(side, x, y) ==
    \/ Better(side, x.price, y.price)
    \/ x.price = y.price /\ x.place < y.place
QuantityOf(b, id) ==
    IF ContainsOrder(b, id) THEN OrderAt(b, Locate(b, id)).quantity ELSE 0
SideTotal(b, side) ==
    FoldSet(LAMBDA x, total : total + x.order.quantity, 0, Priced(b, side))
Filled(fills) == FoldLeft(LAMBDA total, f : total + f.quantity, 0, fills)

\* The orders the book would accept next.  Ids that do not rest are alike, so
\* one of them stands for all.
Accepted ==
    {order \in [order_id : {FreshId}, account_id : AccountIds,
                instrument_id : InstrumentIds, side : Sides, price : Prices,
                quantity : Quantities, time_in_force : TimeInForce] :
        sequence < MaxSequence /\ SubmitReject(book, order) = "Ok"}

\* Price-time priority: a maker trades only when every opposing order with a
\* better price, or with the same price and an earlier sequence number, is
\* used up.
PriceTimePriority(order, after) ==
    LET side == Opposite(order.side)
        makers == Priced(book, side)
        left(x) == QuantityOf(after, x.order.order_id)
        traded == {x \in makers : left(x) < x.order.quantity}
        surviving == {x \in makers : left(x) > 0}
    IN  \A x \in surviving, y \in traded :
            /\ ~Better(side, x.price, y.price)
            /\ x.price = y.price => x.order.sequence >= y.order.sequence

\* Every unit of an accepted order is traded, rests or is discarded, and every
\* unit it trades leaves the opposing side; the reports say exactly that, and
\* no maker trades beyond the taker's limit.
SubmitConservesQuantity(order, after, fills) ==
    LET rested == SideTotal(after, order.side) - SideTotal(book, order.side) IN
    /\ SideTotal(book, Opposite(order.side))
         - SideTotal(after, Opposite(order.side)) = Filled(fills)
    /\ rested = QuantityOf(after, order.order_id)
    /\ Filled(fills) + rested + Discarded(book, order) = order.quantity
    /\ \A k \in 1..Len(fills) :
          /\ fills[k].quantity > 0
          /\ Crosses(order.side, order.price, fills[k].price)

\* Ioc leaves nothing behind, Fok fills in full, PostOnly never trades.
TimeInForceHonoured(order, after, fills) ==
    /\ order.time_in_force \in {"Ioc", "Fok"} =>
            ~ContainsOrder(after, order.order_id)
    /\ order.time_in_force = "Fok" => Filled(fills) = order.quantity
    /\ order.time_in_force = "PostOnly" => fills = <<>>

\* The three of every order the book would accept.
SubmitIsFair ==
    \A order \in Accepted :
        LET after == Submit(book, Stamped(order))
            fills == Fills(book, order)
        IN  /\ PriceTimePriority(order, after)
            /\ SubmitConservesQuantity(order, after, fills)
            /\ TimeInForceHonoured(order, after, fills)

\* Replacing an order overtakes nobody: peers keep their relative priority,
\* a pure reduction keeps its own, and any other amendment at the same price
\* falls behind the orders that rest there.
ReplaceIsFair ==
    \A replace \in Replaces :
        (sequence < MaxSequence /\ ReplaceReject(book, replace) = "Ok") =>
        LET after == Replace(book, Stamped(replace))
            reduced(x) == replace.price = x.price /\ replace.quantity < x.order.quantity
        IN  \A side \in Sides : \A x, y \in Priced(book, side) :
            \A u, v \in Priced(after, side) :
                (/\ u.order.order_id = x.order.order_id
                 /\ v.order.order_id = y.order.order_id
                 /\ Ahead(side, x, y))
                => CASE x.order.order_id = replace.order_id ->
                            IF reduced(x) THEN Ahead(side, u, v)
                            ELSE u.price = y.price => Ahead(side, v, u)
                     [] y.order.order_id = replace.order_id ->
                            Better(side, v.price, u.price) \/ Ahead(side, u, v)
                     [] OTHER -> Ahead(side, u, v)
=============================================================================

----------------------------- MODULE LiveOrders -----------------------------
(***************************************************************************)
(* The subscriber of the soak harness, hft-soak/src/routed.rs and          *)
(* events.rs: a table of live orders kept from the event batches alone,    *)
(* which refuses a batch that its command and the table cannot explain.    *)
(*                                                                         *)
(* The slots of the table are only searched by id, so live maps an order   *)
(* id to its account, side, price and quantity.  The first error ends the  *)
(* harness: which one it is makes no difference, and ok = FALSE stands for *)
(* all of them.                                                            *)
(***************************************************************************)
EXTENDS Risk, Book

\* Option::None of a top level.
Absent == [price |-> 0, aggregate_quantity |-> 0, order_count |-> 0]

NoLiveOrders == <<>>
-----------------------------------------------------------------------------
(* validate_batch: the identity and the order of the events of a batch.    *)

IsTerminal(event) == event.kind \in {"Accepted", "Rejected", "Cancelled", "Replaced"}

ValidBatch(batch, instrument_id, sequence) ==
    /\ batch # <<>>
    /\ \A k \in 1..Len(batch) :
          LET event == batch[k] IN
          /\ event.instrument_id = instrument_id
          /\ event.command_sequence = sequence
          /\ event.ordinal = k - 1
          /\ IsTerminal(event) <=> k = 1
          /\ event.kind = "Trade" => batch[1].kind = "Accepted"
          /\ event.kind = "TopOfBook" => batch[1].kind # "Rejected" /\ k = Len(batch)
-----------------------------------------------------------------------------
(* LiveOrders                                                              *)

\* top: the best level that the live orders of a side make up.
LiveTop(live, side) ==
    LET ids == {id \in DOMAIN live : live[id].side = side}
        best == CHOOSE id \in ids :
                    \A other \in ids : ~Better(side, live[other].price, live[id].price)
        level == {id \in ids : live[id].price = live[best].price}
    IN  IF ids = {} THEN Absent
        ELSE [price |-> live[best].price,
              aggregate_quantity |-> FoldSet(LAMBDA id, n : n + live[id].quantity, 0, level),
              order_count |-> Cardinality(level)]

LiveTops(live) == [side \in Sides |-> LiveTop(live, side)]

\* One event of apply_trades, for a command that must be the taker.
ExplainedTrade(live, trade, taker) ==
    /\ taker.kind = "NewOrder"
    /\ trade.taker_order_id = taker.order_id
    /\ trade.maker_order_id \in DOMAIN live
    /\ LET maker == live[trade.maker_order_id] IN
       /\ maker.side # taker.side
       /\ trade.price = maker.price
       /\ Crosses(taker.side, taker.price, trade.price)
       /\ trade.quantity \in 1..maker.quantity

ApplyTrade(acc, event, taker) ==
    LET id == event.maker_order_id IN
    IF event.kind # "Trade" \/ ~acc.ok THEN acc
    ELSE IF ~ExplainedTrade(acc.live, event, taker) THEN [acc EXCEPT !.ok = FALSE]
    ELSE [acc EXCEPT !.traded = @ + event.quantity,
                     !.live = IF acc.live[id].quantity = event.quantity
                              THEN Without(@, id)
                              ELSE [@ EXCEPT ![id].quantity = @ - event.quantity]]

ApplyTrades(live, batch, command) ==
    FoldLeft(LAMBDA acc, event : ApplyTrade(acc, event, command),
             [live |-> live, traded |-> 0, ok |-> TRUE], batch)

\* validate_accepted: the quantities add up, and are those the state and the
\* time in force allow.
ValidAccepted(event, order, traded) ==
    /\ order.quantity # 0
    /\ event.filled_quantity + event.resting_quantity + event.discarded_quantity
         = order.quantity
    /\ event.filled_quantity = traded
    /\ event.state = IF event.filled_quantity = order.quantity THEN "Filled"
                     ELSE IF event.filled_quantity = 0 THEN "Accepted"
                     ELSE "PartiallyFilled"
    /\ CASE order.time_in_force = "Gtc" -> event.discarded_quantity = 0
         [] order.time_in_force = "Ioc" -> event.resting_quantity = 0
         [] order.time_in_force = "Fok" -> event.filled_quantity = order.quantity
         [] OTHER -> event.filled_quantity = 0 /\ event.resting_quantity = order.quantity

\* What the terminal event does to the table, and whether it may.
ApplyAccepted(live, event, order, traded) ==
    [ok |-> /\ ValidAccepted(event, order, traded)
            /\ event.resting_quantity # 0 =>
                 order.order_id \notin DOMAIN live /\ Cardinality(DOMAIN live) < ORDERS,
     live |-> IF event.resting_quantity = 0 THEN live
              ELSE With(live, order.order_id,
                        [account_id |-> order.account_id, side |-> order.side,
                         price |-> order.price, quantity |-> event.resting_quantity])]

ApplyCancelled(live, event) ==
    [ok |-> /\ event.order_id \in DOMAIN live
            /\ live[event.order_id].account_id = event.account_id
            /\ live[event.order_id].quantity = event.quantity,
     live |-> Without(live, event.order_id)]

\* Priority is lost unless the price stays and the quantity shrinks.
ApplyReplaced(live, event, replace) ==
    LET id == event.order_id
        order == live[id]
    IN  [ok |-> /\ id \in DOMAIN live
                /\ order.account_id = event.account_id
                /\ order.quantity = event.old_quantity
                /\ replace.quantity = event.new_quantity
                /\ replace.price = event.price
                /\ event.new_quantity # 0
                /\ event.priority_lost #
                     (replace.price = order.price /\ replace.quantity < order.quantity),
         live |-> IF id \notin DOMAIN live THEN live
                  ELSE [live EXCEPT ![id].quantity = event.new_quantity,
                                    ![id].price = event.price]]

ApplyTerminal(live, event, command, traded) ==
    LET answers(kind) == /\ command.kind = kind
                         /\ event.order_id = command.order_id
                         /\ event.account_id = command.account_id
    IN  CASE event.kind = "Accepted" /\ answers("NewOrder") ->
                ApplyAccepted(live, event, command, traded)
          [] event.kind = "Cancelled" /\ answers("Cancel") -> ApplyCancelled(live, event)
          [] event.kind = "Replaced" /\ answers("Replace") ->
                ApplyReplaced(live, event, command)
          [] event.kind = "Rejected" -> [ok |-> answers(event.command), live |-> live]
          [] OTHER -> [ok |-> FALSE, live |-> live]

\* A top of book comes exactly when the tops the table derives have changed,
\* and carries them.
TopIsExplained(batch, before, after) ==
    LET last == batch[Len(batch)] IN
    IF last.kind = "TopOfBook"
    THEN LiveTops(before) # LiveTops(after) /\ last.top = LiveTops(after)
    ELSE before = after \/ LiveTops(before) = LiveTops(after)

\* apply: makers are retired before the taker enters.
ApplyBatch(live, batch, command) ==
    IF ~ValidBatch(batch, command.instrument_id, command.sequence)
    THEN [ok |-> FALSE, live |-> live]
    ELSE LET trades == ApplyTrades(live, batch, command)
             applied == ApplyTerminal(trades.live, batch[1], command, trades.traded)
         IN  [applied EXCEPT !.ok = @ /\ trades.ok
                /\ TopIsExplained(batch, live, applied.live)]

\* validate: the table has exactly the orders the book exports.
LiveMatchesBook(live, b) ==
    LET places == UNION {{<<side, ij[1], ij[2]>> : ij \in Resting(b, side)} : side \in Sides}
    IN  /\ Cardinality(places) = Cardinality(DOMAIN live)
        /\ \A place \in places :
              LET order == OrderAt(b, place) IN
              /\ order.order_id \in DOMAIN live
              /\ live[order.order_id] =
                    [account_id |-> order.account_id, side |-> place[1],
                     price |-> PriceAt(b, place), quantity |-> order.quantity]
=============================================================================

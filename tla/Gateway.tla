------------------------------- MODULE Gateway -------------------------------
(***************************************************************************)
(* The gateway, hft-gateway/src/lib.rs: one command at a time, in sequence *)
(* order, through the risk engine and the book, with the rollback of the   *)
(* reservation when the book refuses.  A command is one step: the gateway  *)
(* owns both components and nothing runs between their calls.              *)
(*                                                                         *)
(* outcome is what the call returned: "Ok", or the layer that refused.     *)
(* RiskState is the gateway's internal error: the two components disagree. *)
(***************************************************************************)
EXTENDS Risk, Book, TLC

CONSTANTS UnknownAccounts,    \* account ids that are not registered
          InstrumentIds,
          MaxSequence         \* u64::MAX of the sequence numbers

VARIABLES risk, book, expected_sequence, maximum_received_order_id, outcome

state == <<risk, book>>
vars == <<risk, book, expected_sequence, maximum_received_order_id, outcome>>

Callers == AccountIds \union UnknownAccounts
NewOrders == [order_id : OrderIds, account_id : Callers,
              instrument_id : InstrumentIds, side : Side, price : Prices,
              quantity : Quantities, time_in_force : TimeInForce]
ReplaceOrders == [order_id : OrderIds, account_id : Callers,
                  instrument_id : InstrumentIds, price : Prices,
                  quantity : {0} \union Quantities]
CancelOrders == [order_id : OrderIds, account_id : Callers,
                 instrument_id : InstrumentIds]

\* Gateway::new over a risk engine with every account registered.
Init ==
    /\ risk \in {[EmptyRisk EXCEPT !.accounts =
                    [a \in AccountIds |->
                        RegisterAccount(EmptyRisk, a, limits[a]).accounts[a]]]
                  : limits \in [AccountIds -> Limits]}
    /\ book = EmptyBook
    /\ expected_sequence = 1
    /\ maximum_received_order_id = NoOrder
    /\ outcome = "Ok"
-----------------------------------------------------------------------------
Stamped(command) == [sequence |-> expected_sequence] @@ command

\* accept_sequence: the sequence is consumed before anything else is decided.
AcceptSequence ==
    /\ expected_sequence < MaxSequence
    /\ expected_sequence' = expected_sequence + 1

\* check_sequence refuses any other sequence, and the one without successor.
RefuseSequence ==
    /\ outcome' \in IF expected_sequence = MaxSequence
                    THEN {"Sequence", "Exhausted"} ELSE {"Sequence"}
    /\ UNCHANGED <<risk, book, expected_sequence, maximum_received_order_id>>

Reject(layer) == outcome' = layer /\ UNCHANGED state

\* One record_fill of the loop over the reports; after an error none follows.
Record(acc, id, quantity) ==
    IF acc.error # "Ok" THEN acc
    ELSE IF FillReject(acc.risk, id, quantity) # "Ok"
         THEN [acc EXCEPT !.error = FillReject(acc.risk, id, quantity)]
    ELSE [acc EXCEPT !.risk = RecordFill(acc.risk, id, quantity)]

\* The maker's fill, then the taker's, report by report.
RecordFills(r, fills, taker) ==
    FoldLeft(LAMBDA acc, fill :
                Record(Record(acc, fill.maker_order_id, fill.quantity),
                       taker, fill.quantity),
             [risk |-> r, error |-> "Ok"], fills)

\* Mutant: the discarded remainder of a taker stays reserved.
ReleaseDiscardedNever(acc, order) == acc

\* What Ioc discards is released like a cancel.
ReleaseDiscarded(acc, order) ==
    IF acc.error # "Ok" \/ Discarded(book, order) = 0 THEN acc
    ELSE IF SettleReject(acc.risk, order.order_id, 0) # "Ok"
         THEN [acc EXCEPT !.error = SettleReject(acc.risk, order.order_id, 0)]
    ELSE [acc EXCEPT !.risk = Settle(acc.risk, order.order_id, 0)]

\* A book rejection releases the reservation just made.
RollBackTaker(reserved, order) ==
    /\ IF SettleReject(reserved, order.order_id, 0) = "Ok"
       THEN risk' = Settle(reserved, order.order_id, 0) /\ outcome' = "Book"
       ELSE risk' = reserved /\ outcome' = "RiskState"
    /\ UNCHANGED book

\* Mutant: the id is recorded before the account and its limits are looked at.
RefuseReservationKeepsId(order) ==
    /\ risk' = [risk EXCEPT !.maximum_order_id = order.order_id]
    /\ outcome' = "Risk"
    /\ UNCHANGED book

\* The early returns of check_and_reserve.
RefuseReservation(order) == Reject("Risk")

Execute(reserved, order) ==
    LET recorded == RecordFills(reserved, Fills(book, order), order.order_id)
        final == ReleaseDiscarded(recorded, order)
    IN  /\ book' = Submit(book, order)
        /\ risk' = final.risk
        /\ outcome' = IF final.error = "Ok" THEN "Ok" ELSE "RiskState"

ProcessNewOrder(order) ==
    /\ AcceptSequence
    /\ \/ /\ order.order_id <= maximum_received_order_id
          /\ Reject("Risk")
          /\ UNCHANGED maximum_received_order_id
       \/ /\ order.order_id > maximum_received_order_id
          /\ maximum_received_order_id' = order.order_id
          /\ \/ ReserveReject(risk, order) # "Ok" /\ RefuseReservation(order)
             \/ /\ ReserveReject(risk, order) = "Ok"
                /\ LET reserved == CheckAndReserve(risk, order) IN
                   \/ /\ SubmitReject(book, order) # "Ok"
                      /\ RollBackTaker(reserved, order)
                   \/ /\ SubmitReject(book, order) = "Ok"
                      /\ Execute(reserved, Stamped(order))
-----------------------------------------------------------------------------
\* The reservation adjusts first; a book rejection restores its quantity.
ProcessReplace(replace) ==
    LET id == replace.order_id
        reject == AdjustReject(risk, id, replace.account_id, replace.price,
                               replace.quantity)
        prior == risk.reservations[id].quantity
        adjusted == Resize(risk, id, replace.quantity)
    IN  /\ AcceptSequence
        /\ \/ reject # "Ok" /\ Reject("Risk")
           \/ /\ reject = "Ok" /\ ReplaceReject(book, replace) = "Ok"
              /\ risk' = adjusted
              /\ book' = Replace(book, Stamped(replace))
              /\ outcome' = "Ok"
           \/ /\ reject = "Ok" /\ ReplaceReject(book, replace) # "Ok"
              /\ IF RestoreReject(adjusted, id, replace.account_id, prior) = "Ok"
                 THEN risk' = Resize(adjusted, id, prior) /\ outcome' = "Book"
                 ELSE risk' = adjusted /\ outcome' = "RiskState"
              /\ UNCHANGED book
        /\ UNCHANGED maximum_received_order_id

\* The book's quantity must be the one released, or the error is internal.
ProcessCancel(cancel) ==
    LET id == cancel.order_id
        owner == OwnerReject(risk, id, cancel.account_id)
        release == CancelReservationReject(risk, id, cancel.account_id)
    IN  /\ AcceptSequence
        /\ \/ owner # "Ok" /\ Reject("Risk")
           \/ owner = "Ok" /\ CancelReject(book, cancel) # "Ok" /\ Reject("Book")
           \/ /\ owner = "Ok" /\ CancelReject(book, cancel) = "Ok"
              /\ book' = CancelOrder(book, cancel)
              /\ risk' = IF release = "Ok" THEN Settle(risk, id, 0) ELSE risk
              /\ outcome' = IF /\ release = "Ok"
                               /\ OrderAt(book, Locate(book, id)).quantity
                                    = risk.reservations[id].quantity
                            THEN "Ok" ELSE "RiskState"
        /\ UNCHANGED maximum_received_order_id

Next ==
    \/ RefuseSequence
    \/ \E order \in NewOrders : ProcessNewOrder(order)
    \/ \E replace \in ReplaceOrders : ProcessReplace(replace)
    \/ \E cancel \in CancelOrders : ProcessCancel(cancel)

Spec == Init /\ [][Next]_vars
-----------------------------------------------------------------------------
(* from_state: what the gateway asks of an exported state before it builds *)
(* a gateway from it.                                                      *)

\* The reservation that belongs to a resting order.
ReservationOf(r, side, order) ==
    /\ Live(r, order.order_id)
    /\ r.reservations[order.order_id] =
          [account_id |-> order.account_id, side |-> side, quantity |-> order.quantity]

BookPlaces(b) == UNION {{<<side, ij[1], ij[2]>> : ij \in Resting(b, side)}
                           : side \in Sides}

ValidCrossComponent(r, b, expected, maximum) ==
    /\ expected # 0
    /\ r.maximum_order_id <= maximum
    /\ \A place \in BookPlaces(b) :
          LET order == OrderAt(b, place) IN
          /\ order.sequence < expected
          /\ order.order_id <= maximum
          /\ ReservationOf(r, place[1], order)
    /\ Cardinality(BookPlaces(b)) = Cardinality(DOMAIN r.reservations)

\* The limit check on resting orders.
OrdersWithinLimits(r, b) ==
    \A place \in BookPlaces(b) :
        LET order == OrderAt(b, place)
            limits == r.accounts[order.account_id].limits
        IN  /\ order.quantity <= limits.max_quantity
            /\ PriceAt(b, place) >= limits.minimum_price
            /\ PriceAt(b, place) <= limits.maximum_price
            /\ PriceAt(b, place) * order.quantity <= limits.max_notional
-----------------------------------------------------------------------------
\* Type correctness.
TypeOK ==
    /\ expected_sequence \in 1..MaxSequence
    /\ maximum_received_order_id \in OrderIds \union {NoOrder}
    /\ outcome \in {"Ok", "Sequence", "Exhausted", "Risk", "Book", "RiskState"}
    /\ DOMAIN risk.accounts = AccountIds
    /\ \A a \in AccountIds : /\ risk.accounts[a].reserved_buys \in Nat
                             /\ risk.accounts[a].reserved_sells \in Nat

\* The internal error is unreachable: no fill, settlement, rollback or cancel
\* of a reservation ever fails after the book accepted the command.
NoInternalError == outcome # "RiskState"

\* Positions come only from trades: what some accounts gained others lost.
PositionsBalance ==
    FoldSet(LAMBDA a, n : n + risk.accounts[a].settled_position, 0, AccountIds) = 0

\* "Rejection does not mutate risk state", nor the book: a command refused by
\* risk leaves both as they were, and one refused by the book after risk has
\* reserved or adjusted leaves nothing behind but the id that was used up.
RejectionLeavesNoTrace ==
    [][/\ outcome' = "Risk" => UNCHANGED state
       /\ outcome' = "Book" =>
            /\ UNCHANGED book
            /\ risk' = [risk EXCEPT !.maximum_order_id = risk'.maximum_order_id]]_vars

\* Everything from_state asks of a state but the limits of resting orders
\* holds of every state a gateway reaches: each resting order has one
\* reservation with its account, side and remaining quantity, no reservation
\* outlives its order, totals and watermarks agree, and the book is ordered.
ExportIsConsistent ==
    /\ ValidBook(book) /\ ValidRisk(risk)
    /\ ValidCrossComponent(risk, book, expected_sequence, maximum_received_order_id)

\* A gateway can be rebuilt from the state it exported.
OwnExportIsAccepted == ExportIsConsistent /\ OrdersWithinLimits(risk, book)

\* After every command the book, the reservations and the positions agree, and
\* no command got as far as an internal error.
GatewayInv == TypeOK /\ NoInternalError /\ ExportIsConsistent /\ PositionsBalance
=============================================================================

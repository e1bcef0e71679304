---------------------------- MODULE ModelEngine ----------------------------
(***************************************************************************)
(* ModelEngine of hft-model/src/lib.rs, the reference model the property   *)
(* tests run beside the gateway: sequencing, duplicate ids, reservations   *)
(* and matching outcomes for well-formed commands.                         *)
(*                                                                         *)
(* A model m has the fields book, accounts, reservations,                  *)
(* maximum_received_order_id and next_sequence.  An operation returns the  *)
(* model and its answer: <<"Ok", ...>>, or the layer that rejected and its *)
(* reason.                                                                 *)
(***************************************************************************)
EXTENDS ModelBook

CONSTANTS instrument, MinI64

NoReceived == -1                  \* None, below every order id

\* new, with register_account for every account.
NewModel(limits) ==
    [book |-> NewModelBook,
     accounts |-> [a \in DOMAIN limits |->
                    [limits |-> limits[a], settled_position |-> 0, reserved_buys |-> 0,
                     reserved_sells |-> 0, open_orders |-> 0, killed |-> FALSE]],
     reservations |-> <<>>, maximum_received_order_id |-> NoReceived,
     next_sequence |-> 1]

\* What both sides' totals become when n is added to one of them.
AddReserved(account, side, n) ==
    IF side = "Buy" THEN [account EXCEPT !.reserved_buys = @ + n]
                    ELSE [account EXCEPT !.reserved_sells = @ + n]

PositionExceeded(account) ==
    \/ account.settled_position + account.reserved_buys > account.limits.max_abs_position
    \/ account.settled_position - account.reserved_sells < -account.limits.max_abs_position

NotionalOf(price, quantity) == (IF price < 0 THEN -price ELSE price) * quantity

ModelLimitsReject(account, order) ==
    LET limits == account.limits IN
    IF account.killed THEN "KillSwitch"
    ELSE IF order.quantity > limits.max_quantity THEN "QuantityLimit"
    ELSE IF order.price < limits.minimum_price \/ order.price > limits.maximum_price
         THEN "PriceCollar"
    ELSE IF order.price = MinI64 THEN "ArithmeticOverflow"
    ELSE IF NotionalOf(order.price, order.quantity) > limits.max_notional
         THEN "NotionalLimit"
    ELSE IF PositionExceeded(AddReserved(account, order.side, order.quantity))
         THEN "PositionLimit"
    ELSE IF account.open_orders + 1 > limits.max_open_orders THEN "OpenOrderLimit"
    ELSE "Ok"
-----------------------------------------------------------------------------
(* Reservations.                                                           *)

Forget(reservations, id) == [x \in DOMAIN reservations \ {id} |-> reservations[x]]

\* release: all of it, without a position change.
Release(m, id) ==
    LET reservation == m.reservations[id] IN
    [m EXCEPT !.reservations = Forget(@, id),
              !.accounts[reservation.account_id] =
                [AddReserved(@, reservation.side, -reservation.remaining)
                    EXCEPT !.open_orders = @ - 1]]

ModelRecordFill(m, id, traded) ==
    LET reservation == m.reservations[id]
        emptied == reservation.remaining = traded
        signed == IF reservation.side = "Buy" THEN traded ELSE -traded
        account == [AddReserved(m.accounts[reservation.account_id], reservation.side, -traded)
                        EXCEPT !.settled_position = @ + signed,
                               !.open_orders = IF emptied THEN @ - 1 ELSE @]
    IN  [m EXCEPT !.accounts[reservation.account_id] = account,
                  !.reservations = IF emptied THEN Forget(@, id)
                                   ELSE [@ EXCEPT ![id].remaining = @ - traded]]

\* adjust_reservation: an increase enters the account's total before it is
\* checked, and a refusal leaves it there.
AdjustModel(m, replace) ==
    LET id == replace.order_id
        reservation == m.reservations[id]
        delta == replace.quantity - reservation.remaining
        moved == [m EXCEPT !.accounts[reservation.account_id] =
                    AddReserved(@, reservation.side, delta)]
        account == moved.accounts[reservation.account_id]
        reason == IF delta <= 0 THEN "Ok"
                  ELSE IF replace.price = MinI64 THEN "ArithmeticOverflow"
                  ELSE IF NotionalOf(replace.price, replace.quantity)
                            > account.limits.max_notional THEN "NotionalLimit"
                  ELSE IF PositionExceeded(account) THEN "PositionLimit"
                  ELSE "Ok"
    IN  [m |-> IF reason # "Ok" THEN moved
               ELSE [moved EXCEPT !.reservations[id].remaining = replace.quantity],
         reason |-> reason]

\* restore_reservation, after the book refused.
RestoreModel(m, id, prior) ==
    LET reservation == m.reservations[id] IN
    [m EXCEPT !.accounts[reservation.account_id] =
                AddReserved(@, reservation.side, prior - reservation.remaining),
              !.reservations[id].remaining = prior]
-----------------------------------------------------------------------------
(* Commands.  Each consumes its sequence, whatever the answer.             *)

Answer(m, answer) == [m |-> [m EXCEPT !.next_sequence = @ + 1], answer |-> answer]

ReserveOrder(m, order) ==
    [m EXCEPT !.accounts[order.account_id] =
                [AddReserved(@, order.side, order.quantity) EXCEPT !.open_orders = @ + 1],
              !.reservations =
                [x \in DOMAIN @ \union {order.order_id} |->
                    IF x = order.order_id
                    THEN [account_id |-> order.account_id, side |-> order.side,
                          remaining |-> order.quantity]
                    ELSE @[x]]]

\* Maker, then taker, fill by fill.
RecordModelFills(m, order, fills) ==
    LET run[n \in 0..Len(fills)] ==
            IF n = 0 THEN m
            ELSE ModelRecordFill(
                    ModelRecordFill(run[n - 1], fills[n].maker_order_id, fills[n].quantity),
                    order.order_id, fills[n].quantity)
    IN  run[Len(fills)]

\* The part of apply_new after the reservation.
Execute(m, order) ==
    LET submitted == SubmitOrder(m.book, order)
        recorded == RecordModelFills([m EXCEPT !.book = submitted.book], order,
                                     submitted.fills)
        filled == order.quantity - submitted.rested - submitted.discarded
    IN  Answer(IF submitted.rested = 0 /\ filled < order.quantity
               THEN Release(recorded, order.order_id) ELSE recorded,
               <<"Ok", filled, submitted.rested, submitted.discarded, submitted.fills>>)

ApplyNew(m, order) ==
    LET burned == order.order_id <= m.maximum_received_order_id
        received == [m EXCEPT !.maximum_received_order_id = order.order_id]
        reason == ModelLimitsReject(m.accounts[order.account_id], order)
        reserved == ReserveOrder(received, order)
        plan == PlanOrder(m.book, order)
    IN  IF burned THEN Answer(m, <<"Risk", "DuplicateOrderId">>)
        ELSE IF order.account_id \notin DOMAIN m.accounts
             THEN Answer(received, <<"Risk", "UnknownAccount">>)
        ELSE IF reason # "Ok" THEN Answer(received, <<"Risk", reason>>)
        ELSE IF order.instrument_id # instrument
             THEN Answer(Release(reserved, order.order_id), <<"Book", "InvalidInstrument">>)
        ELSE IF plan # "Ok"
             THEN Answer(Release(reserved, order.order_id), <<"Book", plan>>)
        ELSE Execute(reserved, order)

OwnerReason(m, id, account_id) ==
    IF id \notin DOMAIN m.reservations THEN "UnknownOrder"
    ELSE IF m.reservations[id].account_id # account_id THEN "NotOrderOwner"
    ELSE "Ok"

ApplyCancel(m, cancel) ==
    LET id == cancel.order_id
        owner == OwnerReason(m, id, cancel.account_id)
        plan == CancelPlan(m.book, cancel)
        row == Row(m.book, id)
    IN  IF cancel.instrument_id # instrument
        THEN Answer(m, <<"Book", "InvalidInstrument">>)
        ELSE IF owner # "Ok" THEN Answer(m, <<"Risk", owner>>)
        ELSE IF plan # "Ok" THEN Answer(m, <<"Book", plan>>)
        ELSE Answer(Release([m EXCEPT !.book = RemoveRow(@, row)], id),
                    <<"Ok", RowOrder(m.book, row).quantity>>)

ApplyReplace(m, replace) ==
    LET id == replace.order_id
        owner == OwnerReason(m, id, replace.account_id)
        prior == m.reservations[id].remaining
        adjusted == AdjustModel(m, replace)
        plan == ReplacePlan(m.book, replace)
        row == Row(m.book, id)
        restored(reason) == Answer(RestoreModel(adjusted.m, id, prior), <<"Book", reason>>)
    IN  IF owner # "Ok" THEN Answer(m, <<"Risk", owner>>)
        ELSE IF adjusted.reason # "Ok" THEN Answer(adjusted.m, <<"Risk", adjusted.reason>>)
        ELSE IF replace.instrument_id # instrument THEN restored("InvalidInstrument")
        ELSE IF plan # "Ok" THEN restored(plan)
        ELSE Answer([adjusted.m EXCEPT !.book = ReplaceOrder(@, replace)],
                    <<"Ok", RowOrder(m.book, row).quantity,
                      ~KeepsPriority(m.book, row, replace)>>)
-----------------------------------------------------------------------------
\* account_view: projected position and open orders.
AccountView(m, a) ==
    <<m.accounts[a].settled_position + m.accounts[a].reserved_buys
        - m.accounts[a].reserved_sells, m.accounts[a].open_orders>>

HeldFor(m, a, side) ==
    {id \in DOMAIN m.reservations :
        m.reservations[id].account_id = a /\ m.reservations[id].side = side}
SumHeld(m, ids) == FoldSet(LAMBDA id, n : n + m.reservations[id].remaining, 0, ids)

\* assert_consistent: "reservation equals live exposure".
Consistent(m) ==
    /\ \A id \in DOMAIN m.reservations :
          /\ m.reservations[id].remaining > 0
          /\ ~m.accounts[m.reservations[id].account_id].killed
    /\ \A a \in DOMAIN m.accounts :
          LET buys == HeldFor(m, a, "Buy")
              sells == HeldFor(m, a, "Sell")
          IN  /\ m.accounts[a].reserved_buys = SumHeld(m, buys)
              /\ m.accounts[a].reserved_sells = SumHeld(m, sells)
              /\ m.accounts[a].open_orders = Cardinality(buys) + Cardinality(sells)
    /\ \A side \in {"Buy", "Sell"} : \A l \in ToSet(m.book[side]) :
          \A o \in ToSet(l.orders) :
             /\ o.id \in DOMAIN m.reservations
             /\ m.reservations[o.id] =
                  [account_id |-> o.account, side |-> side, remaining |-> o.quantity]
=============================================================================

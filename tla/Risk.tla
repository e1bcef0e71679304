-------------------------------- MODULE Risk --------------------------------
(***************************************************************************)
(* Pre-trade risk, hft-risk/src/lib.rs: accounts with limits, exposure     *)
(* totals and an open-order count, and one reservation per live order.     *)
(*                                                                         *)
(* The engine is one value r; every operation is a reject reason, "Ok"     *)
(* when it is accepted, and the value it leaves behind.  A rejection       *)
(* leaves r alone.  The storage behind it (open-addressed index, free      *)
(* list) is the subject of ProbeIndex.  Quantities are u64 and totals      *)
(* 128 bits wide: totals are bounded by twice max_abs_position, so of the  *)
(* checked operations only the absolute value of i64::MIN and the          *)
(* subtractions below zero can fail, and those are modelled.               *)
(***************************************************************************)
EXTENDS Integers, FiniteSets

CONSTANTS AccountIds, ACCOUNTS,   \* account names; capacity of the table
          ORDERS,                 \* capacity of the reservation table
          Limits,                 \* the RiskLimits a registration may carry
          OrderIds, Prices, Quantities,
          MinI64                  \* i64::MIN, which has no absolute value

ASSUME RiskAssumption ==
    /\ ACCOUNTS \in Nat /\ ORDERS \in Nat
    /\ OrderIds \subseteq Nat /\ Prices \subseteq Int /\ Quantities \subseteq Nat
    /\ \A l \in Limits :
          /\ l.max_quantity \in Nat /\ l.max_notional \in Nat
          /\ l.max_abs_position \in Nat /\ l.max_open_orders \in Nat
          /\ l.minimum_price \in Int /\ l.maximum_price \in Int

Side == {"Buy", "Sell"}
NoOrder == -1                     \* Option::None, below every order id

Abs(n) == IF n < 0 THEN -n ELSE n

EmptyRisk == [accounts |-> << >>, reservations |-> << >>,
              maximum_order_id |-> NoOrder, killed |-> FALSE]

Registered(r, a) == a \in DOMAIN r.accounts
Live(r, id) == id \in DOMAIN r.reservations

\* f with x mapped to v, and f without x.
With(f, x, v) == [y \in DOMAIN f \union {x} |-> IF y = x THEN v ELSE f[y]]
Without(f, x) == [y \in DOMAIN f \ {x} |-> f[y]]

PutAccount(r, a, acct) == [r EXCEPT !.accounts = With(@, a, acct)]
PutReservation(r, id, res) == [r EXCEPT !.reservations = With(@, id, res)]
DropReservation(r, id) == [r EXCEPT !.reservations = Without(@, id)]
-----------------------------------------------------------------------------
InvalidLimits(l) == \/ l.max_quantity = 0 \/ l.max_open_orders = 0
                    \/ l.minimum_price > l.maximum_price

RegisterReject(r, a, l) ==
    IF InvalidLimits(l) THEN "InvalidLimits"
    ELSE IF Registered(r, a) THEN "DuplicateAccount"
    ELSE IF Cardinality(DOMAIN r.accounts) >= ACCOUNTS THEN "AccountCapacity"
    ELSE "Ok"

RegisterAccount(r, a, l) ==
    PutAccount(r, a, [limits |-> l, settled_position |-> 0,
                      reserved_buys |-> 0, reserved_sells |-> 0,
                      open_orders |-> 0, killed |-> FALSE])

SetKillSwitch(r, k) == [r EXCEPT !.killed = k]

SetAccountKillSwitch(r, a, k) == [r EXCEPT !.accounts[a].killed = k]
-----------------------------------------------------------------------------
\* The worst position either side could reach if all its orders filled.
WithinPosition(acct) ==
    /\ acct.settled_position + acct.reserved_buys <= acct.limits.max_abs_position
    /\ acct.settled_position - acct.reserved_sells >= -acct.limits.max_abs_position

\* An account with n added to the reserved total of one side (n may be < 0).
Reserve(acct, side, n) ==
    IF side = "Buy" THEN [acct EXCEPT !.reserved_buys = @ + n]
                    ELSE [acct EXCEPT !.reserved_sells = @ + n]

NotionalReject(limits, price, quantity) ==
    IF price = MinI64 THEN "ArithmeticOverflow"
    ELSE IF Abs(price) * quantity > limits.max_notional THEN "NotionalLimit"
    ELSE "Ok"

AtOpenOrderLimit(acct) == acct.open_orders + 1 > acct.limits.max_open_orders

EvaluateLimits(acct, order) ==
    LET limits == acct.limits
        notional == NotionalReject(limits, order.price, order.quantity)
    IN  IF acct.killed THEN "KillSwitch"
        ELSE IF order.quantity > limits.max_quantity THEN "QuantityLimit"
        ELSE IF \/ order.price < limits.minimum_price
                \/ order.price > limits.maximum_price THEN "PriceCollar"
        ELSE IF notional # "Ok" THEN notional
        ELSE IF ~WithinPosition(Reserve(acct, order.side, order.quantity))
             THEN "PositionLimit"
        ELSE IF AtOpenOrderLimit(acct) THEN "OpenOrderLimit"
        ELSE "Ok"

\* Mutant: only live ids count as duplicates.
DuplicateIfLive(r, id) == Live(r, id)

\* Ids must rise: one watermark stands for every id ever reserved.
DuplicateOrderId(r, id) == id <= r.maximum_order_id

ReserveReject(r, order) ==
    IF r.killed THEN "KillSwitch"
    ELSE IF order.quantity = 0 THEN "InvalidQuantity"
    ELSE IF DuplicateOrderId(r, order.order_id) THEN "DuplicateOrderId"
    ELSE IF Cardinality(DOMAIN r.reservations) >= ORDERS THEN "OrderCapacity"
    ELSE IF ~Registered(r, order.account_id) THEN "UnknownAccount"
    ELSE EvaluateLimits(r.accounts[order.account_id], order)

CheckAndReserve(r, order) ==
    LET acct == r.accounts[order.account_id]
        reserved == [Reserve(acct, order.side, order.quantity)
                        EXCEPT !.open_orders = @ + 1]
        reservation == [account_id |-> order.account_id, side |-> order.side,
                        quantity |-> order.quantity]
    IN  [PutReservation(PutAccount(r, order.account_id, reserved),
                        order.order_id, reservation)
            EXCEPT !.maximum_order_id = order.order_id]
-----------------------------------------------------------------------------

\* exposure_after_fill: filled becomes position, released leaves the total.
ExposureAfterFill(acct, side, filled, released) ==
    [Reserve(acct, side, -released)
        EXCEPT !.settled_position = IF side = "Buy" THEN @ + filled ELSE @ - filled]

\* checked_sub on the side's total.
CanRelease(acct, side, released) ==
    released <= IF side = "Buy" THEN acct.reserved_buys ELSE acct.reserved_sells

SettleReject(r, id, filled) ==
    IF ~Live(r, id) THEN "UnknownOrder"
    ELSE LET res == r.reservations[id]
             acct == r.accounts[res.account_id]
         IN  IF filled > res.quantity THEN "InvalidQuantity"
             ELSE IF ~CanRelease(acct, res.side, res.quantity)
                     \/ acct.open_orders = 0 THEN "ArithmeticOverflow"
             ELSE "Ok"

Settle(r, id, filled) ==
    LET res == r.reservations[id]
        acct == ExposureAfterFill(r.accounts[res.account_id], res.side,
                                  filled, res.quantity)
    IN  DropReservation(
            PutAccount(r, res.account_id, [acct EXCEPT !.open_orders = @ - 1]), id)

FillReject(r, id, filled) ==
    IF filled = 0 THEN "InvalidQuantity"
    ELSE IF ~Live(r, id) THEN "UnknownOrder"
    ELSE LET res == r.reservations[id]
             acct == r.accounts[res.account_id]
         IN  IF filled > res.quantity THEN "InvalidQuantity"
             ELSE IF ~CanRelease(acct, res.side, filled)
                     \/ (filled = res.quantity /\ acct.open_orders = 0)
                  THEN "ArithmeticOverflow"
             ELSE "Ok"

\* Mutant: the last fill does not close the order.
RecordFillKeepsOpen(r, id, filled) ==
    LET res == r.reservations[id]
        acct == ExposureAfterFill(r.accounts[res.account_id], res.side, filled, filled)
    IN  IF filled = res.quantity
        THEN DropReservation(PutAccount(r, res.account_id, acct), id)
        ELSE PutReservation(PutAccount(r, res.account_id, acct), id,
                            [res EXCEPT !.quantity = @ - filled])

\* A full fill closes the order, a partial one keeps the rest reserved.
RecordFill(r, id, filled) ==
    LET res == r.reservations[id]
        acct == ExposureAfterFill(r.accounts[res.account_id], res.side, filled, filled)
    IN  IF filled = res.quantity
        THEN DropReservation(
                PutAccount(r, res.account_id, [acct EXCEPT !.open_orders = @ - 1]), id)
        ELSE PutReservation(PutAccount(r, res.account_id, acct), id,
                            [res EXCEPT !.quantity = @ - filled])
-----------------------------------------------------------------------------
\* Ownership checks shared by cancel, adjust and restore.
OwnerReject(r, id, account_id) ==
    IF ~Live(r, id) THEN "UnknownOrder"
    ELSE IF r.reservations[id].account_id # account_id THEN "NotOrderOwner"
    ELSE "Ok"

Resize(r, id, quantity) ==
    LET res == r.reservations[id]
        delta == quantity - res.quantity
    IN  PutReservation(
            PutAccount(r, res.account_id,
                       Reserve(r.accounts[res.account_id], res.side, delta)),
            id, [res EXCEPT !.quantity = quantity])

\* Only an increase is checked, against notional and position.
AdjustReject(r, id, account_id, price, quantity) ==
    IF OwnerReject(r, id, account_id) # "Ok" THEN OwnerReject(r, id, account_id)
    ELSE LET res == r.reservations[id]
             acct == r.accounts[res.account_id]
             delta == quantity - res.quantity
             notional == NotionalReject(acct.limits, price, quantity)
         IN  IF delta < 0
             THEN IF CanRelease(acct, res.side, -delta) THEN "Ok"
                                                        ELSE "ArithmeticOverflow"
             ELSE IF delta = 0 THEN "Ok"
             ELSE IF notional # "Ok" THEN notional
             ELSE IF ~WithinPosition(Reserve(acct, res.side, delta))
                  THEN "PositionLimit"
             ELSE "Ok"

\* Mutant: an order amended to zero cannot be restored.
RestoreRejectWhenEmpty(r, id, account_id, prior) ==
    IF Live(r, id) /\ r.reservations[id].quantity = 0 THEN "UnknownOrder"
    ELSE OwnerReject(r, id, account_id)

\* restore_reservation: no limit check; taking an increase back must not go
\* below zero.
RestoreReject(r, id, account_id, prior) ==
    IF OwnerReject(r, id, account_id) # "Ok" THEN OwnerReject(r, id, account_id)
    ELSE LET res == r.reservations[id]
             acct == r.accounts[res.account_id]
         IN  IF /\ prior < res.quantity
                /\ ~CanRelease(acct, res.side, res.quantity - prior)
             THEN "ArithmeticOverflow" ELSE "Ok"

CancelReservationReject(r, id, account_id) ==
    IF OwnerReject(r, id, account_id) # "Ok" THEN OwnerReject(r, id, account_id)
    ELSE SettleReject(r, id, 0)
-----------------------------------------------------------------------------
(* from_state: what validate_state asks of an exported risk engine.        *)

\* The reservations of an account, of one side or of both.
HeldBy(r, a, sides) == {id \in DOMAIN r.reservations :
                          /\ r.reservations[id].account_id = a
                          /\ r.reservations[id].side \in sides}

\* Sum of the quantities reserved under ids, counted unit by unit.
Reserved(r, ids) ==
    Cardinality(UNION {{id} \X (1..r.reservations[id].quantity) : id \in ids})

\* validate_account_state
ValidAccount(r, a) ==
    LET acct == r.accounts[a] IN
    /\ ~InvalidLimits(acct.limits)
    /\ acct.reserved_buys = Reserved(r, HeldBy(r, a, {"Buy"}))
    /\ acct.reserved_sells = Reserved(r, HeldBy(r, a, {"Sell"}))
    /\ acct.open_orders = Cardinality(HeldBy(r, a, Side))
    /\ acct.open_orders <= acct.limits.max_open_orders
    /\ WithinPosition(acct)

ValidRisk(r) ==
    /\ Cardinality(DOMAIN r.accounts) <= ACCOUNTS
    /\ Cardinality(DOMAIN r.reservations) <= ORDERS
    /\ \A id \in DOMAIN r.reservations :
          /\ r.reservations[id].quantity # 0
          /\ id <= r.maximum_order_id
          /\ Registered(r, r.reservations[id].account_id)
    /\ \A a \in DOMAIN r.accounts : ValidAccount(r, a)
=============================================================================

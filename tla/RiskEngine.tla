----------------------------- MODULE RiskEngine -----------------------------
(***************************************************************************)
(* The risk engine as its callers see it: every public operation of        *)
(* hft-risk in any order and with any arguments.  A rejected call leaves   *)
(* the engine as it is, so each action is the accepted call.               *)
(* restore_reservation skips the limits on the strength of its caller's    *)
(* state and is therefore only called to undo an adjustment: it is in      *)
(* RollbackIsExact and in Gateway.                                         *)
(***************************************************************************)
EXTENDS Risk

VARIABLES risk,
          used      \* history: every order id that ever held a reservation

vars == <<risk, used>>

NewOrder == [order_id : OrderIds, account_id : AccountIds, side : Side,
             price : Prices, quantity : Quantities]

Init == risk = EmptyRisk /\ used = {}

Register(a, l) ==
    /\ RegisterReject(risk, a, l) = "Ok"
    /\ risk' = RegisterAccount(risk, a, l)
    /\ UNCHANGED used

Kill(k) == risk' = SetKillSwitch(risk, k) /\ UNCHANGED used

KillAccount(a, k) ==
    /\ Registered(risk, a)
    /\ risk' = SetAccountKillSwitch(risk, a, k)
    /\ UNCHANGED used

Admit(order) ==
    /\ ReserveReject(risk, order) = "Ok"
    /\ risk' = CheckAndReserve(risk, order)
    /\ used' = used \union {order.order_id}

SettleOrder(id, filled) ==
    /\ SettleReject(risk, id, filled) = "Ok"
    /\ risk' = Settle(risk, id, filled)
    /\ UNCHANGED used

Fill(id, filled) ==
    /\ FillReject(risk, id, filled) = "Ok"
    /\ risk' = RecordFill(risk, id, filled)
    /\ UNCHANGED used

Adjust(id, a, price, quantity) ==
    /\ AdjustReject(risk, id, a, price, quantity) = "Ok"
    /\ risk' = Resize(risk, id, quantity)
    /\ UNCHANGED used

Cancel(id, a) ==
    /\ CancelReservationReject(risk, id, a) = "Ok"
    /\ risk' = Settle(risk, id, 0)
    /\ UNCHANGED used

Next ==
    \/ \E a \in AccountIds, l \in Limits : Register(a, l)
    \/ \E k \in BOOLEAN : Kill(k) \/ \E a \in AccountIds : KillAccount(a, k)
    \/ \E order \in NewOrder : Admit(order)
    \/ \E id \in OrderIds, q \in Quantities : SettleOrder(id, q) \/ Fill(id, q)
    \/ \E id \in OrderIds, a \in AccountIds, p \in Prices, q \in Quantities :
            Adjust(id, a, p, q)
    \/ \E id \in OrderIds, a \in AccountIds : Cancel(id, a)

Spec == Init /\ [][Next]_vars
-----------------------------------------------------------------------------
\* Type correctness of accounts, reservations and the watermark.
TypeOK ==
    /\ DOMAIN risk.accounts \subseteq AccountIds
    /\ DOMAIN risk.reservations \subseteq OrderIds
    /\ \A a \in DOMAIN risk.accounts :
          /\ risk.accounts[a].limits \in Limits
          /\ risk.accounts[a].settled_position \in Int
          /\ risk.accounts[a].reserved_buys \in Nat
          /\ risk.accounts[a].reserved_sells \in Nat
          /\ risk.accounts[a].open_orders \in Nat
          /\ risk.accounts[a].killed \in BOOLEAN
    /\ \A id \in DOMAIN risk.reservations :
          risk.reservations[id] \in
            [account_id : DOMAIN risk.accounts, side : Side, quantity : Nat]
    /\ risk.maximum_order_id \in OrderIds \union {NoOrder}
    /\ risk.killed \in BOOLEAN /\ used \subseteq OrderIds

\* Totals and counts, maintained incrementally by reserve, fill, settle,
\* adjust and cancel, are at every moment the sums over live reservations.
TotalsMatchReservations ==
    \A a \in DOMAIN risk.accounts :
        /\ risk.accounts[a].reserved_buys = Reserved(risk, HeldBy(risk, a, {"Buy"}))
        /\ risk.accounts[a].reserved_sells = Reserved(risk, HeldBy(risk, a, {"Sell"}))
        /\ risk.accounts[a].open_orders = Cardinality(HeldBy(risk, a, Side))

\* No sequence of admissions, fills, settlements, amendments and cancels takes
\* an account's worst-case long or short position past max_abs_position: an
\* admitted order may fill at any later time without another check.
PositionStaysWithinLimit ==
    \A a \in DOMAIN risk.accounts : WithinPosition(risk.accounts[a])

\* An account never has more open orders than max_open_orders, however orders
\* open, fill partly, are amended and close.
OpenOrdersWithinLimit ==
    \A a \in DOMAIN risk.accounts :
        risk.accounts[a].open_orders <= risk.accounts[a].limits.max_open_orders

\* Releasing what is reserved never fails: fills, settlement and the rollback
\* after a book rejection cannot run into ArithmeticOverflow.
ReleaseNeverOverflows ==
    \A id \in DOMAIN risk.reservations :
        LET res == risk.reservations[id] IN
        /\ SettleReject(risk, id, 0) = "Ok"
        /\ \A q \in 1..res.quantity : FillReject(risk, id, q) = "Ok"
        /\ \A q \in 0..res.quantity :
              AdjustReject(risk, id, res.account_id, MinI64, q) = "Ok"

\* An accepted adjustment followed by restore_reservation with the quantity it
\* reported gives back exactly the engine before it.
RollbackIsExact ==
    \A id \in DOMAIN risk.reservations, p \in Prices, q \in Quantities :
        LET res == risk.reservations[id]
            adjusted == Resize(risk, id, q)
        IN  AdjustReject(risk, id, res.account_id, p, q) = "Ok" =>
                /\ RestoreReject(adjusted, id, res.account_id, res.quantity) = "Ok"
                /\ Resize(adjusted, id, res.quantity) = risk

\* An order id that ever held a reservation never gets another one, although
\* the engine remembers only the largest id.
OrderIdsAreNeverReused ==
    [][\A id \in used : ~Live(risk, id) => ~Live(risk', id)]_vars

\* Whatever was admitted, filled, amended and cancelled: the accounts agree with
\* the reservation table, and every account is within its limits and would be
\* after any of its orders filled.
RiskInv == /\ TypeOK /\ TotalsMatchReservations
           /\ PositionStaysWithinLimit /\ OpenOrdersWithinLimit

\* What the gateway does after the book's answer cannot fail: releases fit, and
\* the rollback of an amendment is exact.
UndoNeverFails == ReleaseNeverOverflows /\ RollbackIsExact
=============================================================================

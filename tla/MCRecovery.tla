----------------------------- MODULE MCRecovery -----------------------------
(* Two accounts, two prices, and amendments up to twice the quantity of an *)
(* order, inside limits that leave room for them, as in the soak run.      *)
EXTENDS Recovery

MCLimits ==
    {[max_quantity |-> 2, max_notional |-> 4, max_abs_position |-> 2,
      max_open_orders |-> 2, minimum_price |-> 1, maximum_price |-> 2]}
MCOrderIds == 1..3
MCPrices == 1..2
MCQuantities == 1..2
MCMinI64 == -9
=============================================================================

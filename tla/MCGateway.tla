----------------------------- MODULE MCGateway -----------------------------
(* Two accounts that trade with each other, a price below zero that risk   *)
(* accepts and the book refuses, and tables small enough to fill.          *)
EXTENDS Differential

MCLimits ==
    {[max_quantity |-> 2, max_notional |-> 4, max_abs_position |-> 2,
      max_open_orders |-> 2, minimum_price |-> -1, maximum_price |-> 2]}
\* A collar below the highest price an amendment may ask for.
MCTightLimits ==
    {[max_quantity |-> 2, max_notional |-> 4, max_abs_position |-> 2,
      max_open_orders |-> 2, minimum_price |-> 1, maximum_price |-> 1]}
MCOrderIds == 1..3
MCPrices == {-1, 1, 2}
MCQuantities == 1..2
MCMinI64 == -9
AccountSymmetry == Permutations(AccountIds)
=============================================================================

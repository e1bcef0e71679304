---------------------------- MODULE MCRiskEngine ----------------------------
(* A small risk engine: more accounts than the table holds, limits that    *)
(* bind at two units or at the first open order, limits registration       *)
(* refuses, a price whose absolute value overflows.                        *)
EXTENDS RiskEngine, TLC

MCLimits ==
    {[max_quantity |-> 2, max_notional |-> 4, max_abs_position |-> 3,
      max_open_orders |-> 2, minimum_price |-> -9, maximum_price |-> 2],
     [max_quantity |-> 2, max_notional |-> 4, max_abs_position |-> 2,
      max_open_orders |-> 1, minimum_price |-> 1, maximum_price |-> 2],
     [max_quantity |-> 0, max_notional |-> 4, max_abs_position |-> 3,
      max_open_orders |-> 2, minimum_price |-> 1, maximum_price |-> 2]}
MCPrices == {-9, 1, 2}
AccountSymmetry == Permutations(AccountIds)
MCMinI64 == -9
MCOrderIds == 0..2
MCQuantities == {0, 1, 2, 3}
=============================================================================

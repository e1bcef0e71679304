SPECIFICATION Spec
CONSTANTS
  AccountIds = {a, b, c}
  ACCOUNTS = 2
  ORDERS = 2
  Limits <- MCLimits
  OrderIds <- MCOrderIds
  Prices <- MCPrices
  Quantities <- MCQuantities
  MinI64 <- MCMinI64
INVARIANTS
  RiskInv
  UndoNeverFails
PROPERTIES
  OrderIdsAreNeverReused
SYMMETRY AccountSymmetry

SPECIFICATION Spec
CONSTANTS
  ORDERS = 3
  INDEX_PLANES = 2
  OrderIds <- MCOrderIds
INVARIANTS
  StoreInv

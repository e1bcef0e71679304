SPECIFICATION Spec
CONSTANTS
  instrument = i
  InstrumentIds = {i}
  LEVELS = 2
  ORDERS_PER_LEVEL = 2
  ORDER_INDEX_PLANES = 4
  REPORTS = 2
  AccountIds = {a}
  OrderIds = {o1, o2, o3}
  FreshId = fresh
  Home <- MCHome
  Prices <- MCPrices
  Quantities <- MCQuantities
  MaxSequence = 5
INVARIANTS
  StoreInv
  RejectsAlike
  MatchingIsFair
PROPERTIES
  ImplementsOrderBook
CHECK_DEADLOCK FALSE
SYMMETRY IdSymmetry

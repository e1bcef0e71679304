SPECIFICATION TestSpec
CONSTANTS
  AccountIds = {a, b}
  UnknownAccounts = {}
  ACCOUNTS = 2
  ORDERS = 3
  Limits <- MCLimits
  OrderIds <- MCOrderIds
  Prices <- MCPrices
  Quantities <- MCQuantities
  MinI64 <- MCMinI64
  instrument = i
  InstrumentIds = {i}
  LEVELS = 2
  ORDERS_PER_LEVEL = 2
  REPORTS = 2
  BATCH = 4
  MaxSequence = 5
INVARIANTS
  GatewayInv
  FeedRebuildsBook
PROPERTIES
  RejectionLeavesNoTrace
  OnlyRefusedIncreasesDiverge
SYMMETRY AccountSymmetry

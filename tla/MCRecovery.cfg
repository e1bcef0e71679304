SPECIFICATION RecoverySpec
CONSTANTS
  AccountIds = {1, 2}
  UnknownAccounts = {}
  ACCOUNTS = 2
  ORDERS = 3
  Limits <- MCLimits
  OrderIds <- MCOrderIds
  Prices <- MCPrices
  Quantities <- MCQuantities
  MinI64 <- MCMinI64
  instrument = 7
  InstrumentIds = {7}
  LEVELS = 2
  ORDERS_PER_LEVEL = 2
  REPORTS = 2
  MaxSequence = 9
  gen_accounts = 2
  minimum_price = 1
  maximum_price = 2
  max_quantity = 1
  gen_instrument = 7
  MaxGenerated = 3
  TAIL_RECORD_LIMIT = 2
INVARIANTS
  RecoveryIsExact
  LiveOrdersTrackBook
  CodecsAreCanonical
CHECK_DEADLOCK FALSE

SPECIFICATION TestSpec
CONSTANTS
  AccountIds = {a, b}
  UnknownAccounts = {c}
  ACCOUNTS = 2
  ORDERS = 3
  Limits <- MCTightLimits
  OrderIds <- MCOrderIds
  Prices <- MCPrices
  Quantities <- MCQuantities
  MinI64 <- MCMinI64
  instrument = i
  InstrumentIds = {i, j}
  LEVELS = 1
  ORDERS_PER_LEVEL = 2
  REPORTS = 2
  BATCH = 4
  MaxSequence = 5
INVARIANT OwnExportIsAccepted
SYMMETRY AccountSymmetry

SPECIFICATION MCSpec
CONSTANTS
  u1 = u1
  u2 = u2
  m1 = m1
  m2 = m2
  Users = {u1, u2}
  Nobody = Nobody
  WEEK = 0
  Traders = {m1, m2}
  Self = Self
  Orders <- BothOrders
  MaxOrders = 2
  ONE = 10
  MAX_OTC_PRICE_TOLERANCE = 2
  MIN_TWAP = 180
  DUST = 1
  InitialTolerance = 2
  InitialTwap = 420
  Funds = 4
  TraderFunds = 5
  UserAmounts = {2, 4}
  NetAmounts = {3}
  DepositAmounts = {3}
  WithdrawAmounts = {3}
  Prices = {8}
  Quotes = {10}
  SqthAmounts = {2, 3}
  EthAmounts = {4, 5}
  CrabAmounts = {5}
  UsdcAmounts = {4, 5}
  Drift <- AnyDrift
  Minimums = {3}
  Tolerances = {2, 5}
  Twaps = {100, 420}
  Indices = {0, 2}
  MaxReceipts = 2
  MaxTime = 2
INVARIANTS Solvent RecordsAgree ForceExitPossible NettingNeverStuck
PROPERTIES FirstComeFirstServed OnePrice OrdersWorkOnce
CONSTRAINT OneQueue
SYMMETRY UserSymmetry
CHECK_DEADLOCK FALSE

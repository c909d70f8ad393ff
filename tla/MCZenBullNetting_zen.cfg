SPECIFICATION MCSpec
CONSTANTS
  u1 = u1
  u2 = u2
  m1 = m1
  m2 = m2
  owner = owner
  keeper = keeper
  Users = {u1, u2}
  Refusers = {u2}
  Owner = owner
  Bots = {keeper}
  Nobody = Nobody
  WEEK = 0
  Traders = {m1, m2}
  Self = Self
  Orders <- BothOrders
  MaxOrders = 2
  ONE = 10
  MAX_OTC_PRICE_TOLERANCE = 2
  MIN_AUCTION_TWAP = 180
  DUST = 1
  InitialTolerance = 2
  InitialTwap = 420
  Funds = 2
  TraderFunds = 5
  UserAmounts = {1, 2}
  NetAmounts = {1, 2}
  DepositAmounts = {2}
  WithdrawAmounts = {3}
  Prices = {8}
  Quotes = {10}
  SqthAmounts = {2, 4}
  EthAmounts = {2, 7}
  ZenAmounts = {5}
  Drift <- AnyDrift
  Minimums = {2}
  Tolerances = {2, 5}
  Twaps = {100, 420}
  Indices = {0, 1}
  MaxReceipts = 2
  MaxTime = 2
INVARIANTS Solvent ForceExitPossible NettingNeverStuck
PROPERTIES EarningsReachUsers
CONSTRAINT Explored
CHECK_DEADLOCK FALSE

SPECIFICATION Spec
CONSTANTS
  ONE = 100
  MIN_COLLATERAL = 50
  LIQUIDATION_BOUNTY = 10
  REDUCE_DEBT_BOUNTY = 2
  LOWER_MARK_RATIO = 80
  UPPER_MARK_RATIO = 140
  UINT96_MAX = 135
  UINT128_MAX = 300
  NoNft = NoNft
  u1 = u1
  u2 = u2
  t1 = t1
  Users = {u1, u2}
  Nobody = Nobody
  Self = Self
  Pool = Pool
  UniIds = {t1}
  UniAmounts <- OneUni
  UniValues <- OneUniCounted
  EthPrices = {30, 50}
  WPrices = {30, 40}
  Norms = {100, 80}
  EthAmounts = {0, 60}
  WAmounts = {100, 300}
  FeeRates = {100, 101}
  Operators = {u1, u2}
  TimeSteps = {1}
  MaxTime = 2
  MaxVaults = 2
  FUNDING_PERIOD = 420
  PAUSE_TIME_LIMIT = 4368
  ONE_DAY = 24
  PausesAllowed = 0
INVARIANTS SupplyIsDebt BackedByCollateral PositionCustody
PROPERTIES SafeStaysSafe
SYMMETRY UserSymmetry
CONSTRAINT PositionsOrUsers
CHECK_DEADLOCK FALSE

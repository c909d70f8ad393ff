SPECIFICATION Spec
CONSTANTS
  ONE = 100
  MIN_COLLATERAL = 50
  LIQUIDATION_BOUNTY = 10
  REDUCE_DEBT_BOUNTY = 2
  LOWER_MARK_RATIO = 80
  UPPER_MARK_RATIO = 140
  UINT96_MAX = 240
  UINT128_MAX = 520
  NoNft = NoNft
  u1 = u1
  u2 = u2
  t1 = t1
  Users = {u1}
  Nobody = Nobody
  Self = Self
  Pool = Pool
  UniIds = {t1}
  UniAmounts <- BigUni
  UniValues <- BigUniCounted
  EthPrices = {30}
  WPrices = {30, 40}
  Norms = {100}
  EthAmounts = {0, 120}
  WAmounts = {260}
  FeeRates = {}
  Operators = {}
  TimeSteps = {1}
  MaxTime = 2
  MaxVaults = 1
  FUNDING_PERIOD = 420
  PAUSE_TIME_LIMIT = 4368
  ONE_DAY = 24
  PausesAllowed = 0
INVARIANTS UnsafeCanBeLiquidated
CHECK_DEADLOCK FALSE

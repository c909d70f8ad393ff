SPECIFICATION FairSpec
CONSTANTS
  ONE = 100
  MIN_COLLATERAL = 50
  LIQUIDATION_BOUNTY = 10
  REDUCE_DEBT_BOUNTY = 2
  LOWER_MARK_RATIO = 80
  UPPER_MARK_RATIO = 140
  UINT96_MAX = 120
  UINT128_MAX = 70
  NoNft = NoNft
  u1 = u1
  u2 = u2
  t1 = t1
  Users = {u1}
  Nobody = Nobody
  Self = Self
  Pool = Pool
  UniIds = {t1}
  UniAmounts <- OneUni
  UniValues <- OneUniCounted
  EthPrices = {30, 100}
  WPrices = {30, 40}
  Norms = {100, 80}
  EthAmounts = {60}
  WAmounts = {35}
  FeeRates = {}
  Operators = {}
  TimeSteps = {1}
  MaxTime = 6
  MaxVaults = 2
  FUNDING_PERIOD = 1
  PAUSE_TIME_LIMIT = 3
  ONE_DAY = 1
  PausesAllowed = 2
INVARIANTS SettlementBacked
PROPERTIES SettlementFrozen PausesRunOut
CONSTRAINT OneAtATime
CHECK_DEADLOCK FALSE

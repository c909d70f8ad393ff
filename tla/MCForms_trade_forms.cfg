CONSTANTS
  MaxTx = 2
  MaxInputs = 2
  Busy = {"crabWithdraw", "bullEmergency", "bullWithdraw", "bullDeposit"}
  MaxAsks = 1
  Collats = {0, 4}
  Amounts = {0, 1}
  Ratios = {2, 4}
  Balance = 4
  MIN_COLLATERAL_AMOUNT = 1
  Deposits = {1, 2}
  HighImpact = {1, 2}
  Held = 2
  MinQueued = 2
  Cap = 5
  CollatInputs = {1}
  ShortInputs = {1}
  Percents = {3}
  Tokens = {1}
  Kinds = {"openShort", "closeShort", "openLong", "closeLong", "mint", "vault", "bullEmergency", "bullDeposit"}
SPECIFICATION Spec
INVARIANTS OneLiveSpend NoDoomedSpend SettledFormTruthful LoadingEnds
CHECK_DEADLOCK FALSE

CONSTANTS
  MaxTx = 2
  MaxInputs = 2
  Busy = {"crabWithdraw", "crabV1", "bullWithdraw"}
  MaxAsks = 1
  Collats = {0, 4}
  Amounts = {0, 1}
  Ratios = {2, 4}
  Balance = 4
  MIN_COLLATERAL_AMOUNT = 1
  Deposits = {1, 2}
  HighImpact = {1, 2}
  Held = 2
  MinQueued = 2
  Cap = 5
  CollatInputs = {1}
  ShortInputs = {1}
  Percents = {3}
  Tokens = {1}
  Kinds = {"crabDeposit", "crabWithdraw", "queued", "crabV1", "migrate", "bullWithdraw"}
SPECIFICATION Spec
INVARIANTS QueueOfferStands PageTellsTruth
CHECK_DEADLOCK FALSE

SPECIFICATION MCSpec
CONSTANTS
  Users = {u1}
  ShortHelper = ShortHelper
  CrabHelper = CrabHelper
  FlashBull = FlashBull
  Bull = Bull
  Migration = Migration
  Zero = Zero
  CrabVault = 1
  V1Vault = 2
  UserVaults = {3}
  Amounts = {1, 2}
  HOUR = 2
  DAY = 4
  MaxTime = 5
  MaxTx = 3
  MaxFlows = 2
  MaxPending = 9
INVARIANTS TotalsAgree EntitiesFollowChain HistoryAddsUp RowsTellTheFlow
CHECK_DEADLOCK FALSE

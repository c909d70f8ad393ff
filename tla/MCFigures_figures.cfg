SPECIFICATION FairSpec
CONSTANTS
  Nothing = Nothing
  ONE = 100
  Prices = {80, 95, 100}
  Vaults <- TwoVaults
  Caps = {600, 1000}
  Deposits = {0, 160}
  Amounts = {100, 800}
  Slippage = 20
  DEFAULT_SLIPPAGE = 10
  Deviation = 1
  Depth = 390
  Lend = 50
  Borrow = 30
  MaxMoves = 1
  MaxAsks = 2
  NoPreview = NoPreview
  Sizes = {1, 2}
  Markets <- TwoMarkets
  Start <- First
  MaxTrades = 3
  MaxOther = 1
INVARIANTS LoanIsBest CardTellsPosition
PROPERTIES RefusedForAReason WaitsEnd
CONSTRAINT Bounds
CHECK_DEADLOCK FALSE

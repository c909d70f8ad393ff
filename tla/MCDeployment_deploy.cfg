SPECIFICATION AllSpec
CONSTANTS
  Networks = {"localhost", "rinkeby", "ropsten", "goerli", "mainnet"}
  Edited = {"WETH9", "Controller", "ABDKMath64x64"}
  MaxRuns = 3
  MaxEdits = 1
  Amount = 2
  MaxTasks = 2
CONSTRAINT TasksLast
INVARIANTS SystemAgrees RetriesAreSafe
CHECK_DEADLOCK FALSE

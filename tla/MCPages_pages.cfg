SPECIFICATION Spec
CHECK_DEADLOCK FALSE
CONSTANTS
  MaxNews = 2
  MaxPending = 3
  Busy = {"home", "crab", "crabQueue", "crabResult", "crabV1", "long", "positions", "liquidity"}
  Opened <- MCOpened
  Lacking <- MCLacking
  Nobody = Nobody
  a = a
  b = b
  Accounts = {a, b}
  Risky = {b}
  Earlier <- MCEarlier
  MaxEvents = 2
  MaxOpen = 1
  NaN = NaN
  Infinity = Infinity
  Null = Null
  Undefined = Undefined
  Failed = Failed
  Launch <- MCLaunch
  Worths = {0, 1, 9, 25}
  Deposits = {0, 1, 2, 8}
  Firsts = {10, 30, 50}
  Nows = {50, 8700}
  Answers <- MCAnswers
  Widths = {0, 1, 2}
INVARIANTS FiguresFollowInputs NoForeignFigures LoadingEnds AccountIsTheWallets ThreeStrikesBlock
CONSTRAINT SessionBounds

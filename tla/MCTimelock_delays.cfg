SPECIFICATION Spec
CONSTANTS
  a = a
  b = b
  heir = heir
  Accounts = {a, b}
  Nobody = Nobody
  Self = Self
  Deployer = a
  Strategy = Strategy
  Successors = {heir}
  MINIMUM_DELAY = 1
  MAXIMUM_DELAY = 2
  GRACE_PERIOD = 1
  InitialDelay = 2
  Delays = {0, 1, 3}
  MaxQueued = 2
  MaxTime = 4
PROPERTIES GivesNotice
CONSTRAINT FewExecuted
CHECK_DEADLOCK FALSE

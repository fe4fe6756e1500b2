CONSTANTS
  FdMax = 3
  Limit1 = 2
  Limit2 = 2
  PageInts = 1
  Max1 = 1
  Max2 = 3
  MaxWorkers = 4
SPECIFICATION FairSpec
INVARIANTS DivertedForward CounterExact
PROPERTIES PortTwoServed LastAnswered
CHECK_DEADLOCK FALSE

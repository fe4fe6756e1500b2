CONSTANTS
  Clients = {c1, c2, c3, c4}
  ConnectMax = 2
  MaxSends = 1
  MaxRuns = 2
  MayDie = {c1}
  QMax = 2
SPECIFICATION FairSpec
INVARIANTS OneRunsLines
PROPERTIES SettledOrWedged
CHECK_DEADLOCK FALSE

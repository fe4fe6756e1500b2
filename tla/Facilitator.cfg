CONSTANTS
  Clients = {c1, c2}
  Numbers <- MCNumbers
  Lines <- MCLines
  MaxLines = 2
  MaxThreads = 2
  MayDie = {c2}
SPECIFICATION FairSpec
INVARIANTS RightService NeverAnEarlier
PROPERTIES ForwardedOrBlocked
CHECK_DEADLOCK FALSE

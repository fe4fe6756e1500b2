CONSTANTS
  Clients = {101, 102}
  MaxWords = 2
  MaxLen = 2
  QMax = 2
SPECIFICATION FairSpec
INVARIANTS SignalCovered ShownInOrder TornOnce
PROPERTIES RelayEndsOrStrands
CHECK_DEADLOCK FALSE

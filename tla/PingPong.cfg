CONSTANTS
  MaxNews = 7
  QMax = 3
SPECIFICATION FairSpec
INVARIANTS OneTurn SwappedPairs
PROPERTY PairsShown
CHECK_DEADLOCK FALSE

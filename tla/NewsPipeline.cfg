CONSTANTS
  NReporters = 2
  Sizes = {2}
  BufSlots = 3
  MaxPieces <- MCMaxPieces
  MaxKills = 1
  QMax = 2
SPECIFICATION FairSpec
INVARIANTS Exclusion Conservation RouteOrder
PROPERTY SettlesShownOrHeldBack
CHECK_DEADLOCK FALSE

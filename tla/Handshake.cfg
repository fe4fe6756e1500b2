CONSTANTS
  Initiators = {i1, i2}
  Listeners = {l1}
  ToListen <- MC_ToListen
  ToInit <- MC_ToInit
  Word = 16
  QMax = 6
  MaxOthers = 1
SPECIFICATION FairSpec
INVARIANTS NoShortCut Acknowledged
PROPERTIES HandshakeCompletes
CHECK_DEADLOCK FALSE

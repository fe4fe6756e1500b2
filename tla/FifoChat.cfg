CONSTANTS
  Clients = {c1, c2}
  Srv = srv
  ConnectMax = 2
  MsgCells = 2
  MaxLines = 1
  MayDie = {c1}
SPECIFICATION FairSpec
INVARIANTS SameStream CutOnlyAtFirst TypedOrder
PROPERTIES SettlesOrStuck
CHECK_DEADLOCK FALSE

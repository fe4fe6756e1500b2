CONSTANTS
  Clients = {c1, c2, c3}
  Groups = {1, 12}
  ConnectMax = 2
  MaxSends = 2
  MayQuit = {c1}
  QMax = 2
SPECIFICATION FairSpec
INVARIANTS TotalOrder NothingLost
PROPERTIES ImplementsBroadcast DeliveredOrWedged
CHECK_DEADLOCK FALSE

CONSTANTS
  Clients = {c1, c2}
  MaxConns = 4
  MaxWords = 2
  MaxMaint = 1
  MaxBlanks = 1
  MaxKills = 1
SPECIFICATION FairSpec
INVARIANTS ToldOnce LatestServed
PROPERTIES SwitchesOrDeaf WordsReceived
CHECK_DEADLOCK FALSE

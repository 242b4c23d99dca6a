SPECIFICATION FairSpec
CONSTANTS
  Conns = {c1, c2}
  NoConn = NoConn
  MaxTokens = 2
  MaxLiveTokens = 1
  MaxEpoch = 1
  MaxEvents = 1
  MaxDrops = 1
INVARIANTS TokenLetsInOne NewestKeepsSlot ConfigNotMissed
PROPERTIES DeadFreesSlot
CHECK_DEADLOCK FALSE

CONSTANTS
  Pkt = {p1, p2}
  NONE = NONE
  Inbounds <- AllInbounds
  Configs <- AllConfigs
  MaxStop = 1
  MaxRetry = 1
  MaxPasswd = 3
  MaxName = 3
  MaxSubj = 4
SPECIFICATION Spec
INVARIANTS
  NothingLost
PROPERTIES
  TossedOnce
  Emptied
CHECK_DEADLOCK FALSE

SPECIFICATION Spec
CONSTANTS
  NONE = NONE
  MaxFault = 1
  PosInterval = 2
  Packet <- MCPacket
  Scenarios <- MCScenarios
  Site <- MCSite
  ByteTexts <- MCByteTexts
  MaxPasswd = 3
  MaxName = 6
  MaxSubj = 6
INVARIANTS
  NothingLost
  ArticleKept
  TextsKept
  ThreadsKept
PROPERTY AllGated
CHECK_DEADLOCK FALSE

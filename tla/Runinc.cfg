SPECIFICATION Spec
CONSTANTS
  Zone = 2
  Msg = {1, 2, 3, 4, 5, 6}
  MaxFault = 1
  MaxRepack = 2
  Configs <- MCConfigs
INVARIANTS
  NothingLost
  CopiedOnce
  WayKept
PROPERTIES
  AllSent

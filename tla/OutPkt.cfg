SPECIFICATION FairSpec
CONSTANTS
  Key = {k1, k2, k3}
  MaxOpen = 2
  MaxMsg = 4
  MaxLoss = 1
  Faults <- AllFaults
INVARIANTS
  PublishedComplete
  OpenFilesCounted
PROPERTIES
  ImplementsSpool
  EverythingPublished

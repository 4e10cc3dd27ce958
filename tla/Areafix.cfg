CONSTANTS
  Link = {k, l}
  NoArea = NoArea
  Setups <- PassSetups
  MaxRequest = 3
  MaxMail = 2
  MaxOnce = 2
SPECIFICATION FairSpec
INVARIANTS
  AskedUplink
PROPERTIES
  NoSilentLoss
  FedOrTold
  Quiet

CONSTANTS
  x = x
  y = y
  gateway = gateway
  none = none
  Addresses <- MCAddresses
  Networks <- MCNetworks
  OtherTargets = {none}
  Covers <- MCCovers
  Folded <- MCFolded
  Protected <- MCProtected
  Backends = {"nft"}
  MaxRequests = 2
SPECIFICATION Spec
INVARIANT ReportedBlockBlocks
CHECK_DEADLOCK FALSE

CONSTANTS
  x = x
  y = y
  gateway = gateway
  none = none
  Addresses <- MCAddresses
  Networks <- MCNetworks
  OtherTargets = {none}
  Covers <- MCCovers
  Folded <- MCFolded
  Protected <- MCProtected
  Backends = {"nft", "iptables", "netsh", "none"}
  MaxRequests = 3
SPECIFICATION Spec
INVARIANTS TypeOK ProtectedUntouched ReportedIsContained
PROPERTIES BlockedStaysBlocked BlockTakesEffect
CHECK_DEADLOCK FALSE

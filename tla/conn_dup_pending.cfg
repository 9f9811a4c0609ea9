\* A client whose Connection message arrives again after it was accepted.
CONSTANTS
  A1 = A1
  A2 = A2
  Addrs <- MCAddrs
  CidMod = 6
  OverflowChecks = TRUE
  MaxPending = 2
  MaxNew = 6
SPECIFICATION Spec
PROPERTY NewPendingRejectsConnected

\* Two client addresses, each sending its Connection message any number of
\* times; a CId space of 6 values so that the counter reaches its top, debug build.
CONSTANTS
  A1 = A1
  A2 = A2
  Addrs <- MCAddrs
  CidMod = 6
  OverflowChecks = TRUE
  MaxPending = 2
  MaxNew = 6
SPECIFICATION Spec
INVARIANTS TypeOK OverlapsAgrees

\* A late AckNum that falls into an older bitfield, debug build.
CONSTANTS
  W = 2
  SEND_ACK_THRESHOLD = 2
  AckMod = 16
  OverflowChecks = TRUE
  Rel = Rel
  Newest = Newest
  AckT = AckT
  MTypes <- MCMTypes
  Guarantee <- MCGuarantee
  Incoming = {0, 1, 2, 3, 4, 5}
  PeerOffsets = {0, 2}
  MaxSend = 4
  MaxResidual = 2
  AckMType = AckT
SPECIFICATION Spec
INVARIANT NoPanic

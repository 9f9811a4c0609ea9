\* AckSystem across the AckNum wrap, release build (u16 arithmetic wraps).
CONSTANTS
  W = 2
  SEND_ACK_THRESHOLD = 2
  AckMod = 8
  OverflowChecks = FALSE
  Rel = Rel
  Newest = Newest
  AckT = AckT
  MTypes <- MCMTypes
  Guarantee <- MCGuarantee
  Incoming = {1, 3, 5, 7}
  PeerOffsets = {0}
  MaxSend = 2
  MaxResidual = 1
  AckMType = AckT
SPECIFICATION Spec
INVARIANT NoHang

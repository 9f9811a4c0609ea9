\* Two endpoints over a lossy, reordering network; windows of two bits.
CONSTANTS
  W = 2
  SEND_ACK_THRESHOLD = 2
  AckMod = 16
  OverflowChecks = TRUE
  A = A
  B = B
  User = User
  AckT = AckT
  Peers <- MCPeers
  MTypes <- MCMTypes
  Guarantee <- MCGuarantee
  MaxSend = 4
  MaxNet = 4
  UserMType = User
  AckMType = AckT
SPECIFICATION Spec
INVARIANT NoFalseAck
CHECK_DEADLOCK FALSE

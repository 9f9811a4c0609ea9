\* A datagram whose MType is outside the table.
CONSTANTS
  MaxBatch = 2
  InKinds = {"garbage", "bad_mtype", "ping_req", "discon", "accept", "reject", "other"}
SPECIFICATION Spec
INVARIANT NoPanic

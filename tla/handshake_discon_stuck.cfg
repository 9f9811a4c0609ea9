\* disconnect() against a well-formed server, tick() called every frame.
CONSTANTS
  MaxBatch = 2
  InKinds = {"garbage", "ping_req", "discon", "accept", "reject", "other"}
SPECIFICATION HSpec
PROPERTY DisconnectCompletes

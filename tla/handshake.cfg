\* Client and server session over a lossy network; any transport call may fail.
CONSTANTS
  MaxBatch = 2
  \* "garbage" and "other" are left out: RecvOne changes nothing for them,
  \* so a batch that holds them ends in the state of the batch without them.
  InKinds = {"bad_mtype", "ping_req", "discon", "accept", "reject"}
SPECIFICATION HSpec
INVARIANT LiveStatusHasTransport
PROPERTIES StatusRefinement

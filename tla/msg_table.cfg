\* A SortedMsgTable peer and a MsgTable peer registering two user types
\* (under two identifiers) in any order, and the control types by mistake.
CONSTANTS
  P1 = P1  P2 = P2  T1 = T1  T2 = T2  Con = Con  Resp = Resp  Discon = Discon
  Peers <- MCPeers
  SortedPeers <- MCSortedPeers
  Types <- MCTypes
  Ids = {1, 2}
  ConTypes <- MCConTypes
SPECIFICATION Spec
INVARIANTS TypeOK PartsConsistent
PROPERTIES RegistryRefinement

----------------------------- MODULE MCMsgTable -----------------------------
EXTENDS MsgTable
CONSTANTS P1, P2, T1, T2, Con, Resp, Discon
MCPeers == {P1, P2}
\* P1 uses a SortedMsgTable, P2 a MsgTable.
MCSortedPeers == {P1}
MCTypes == {T1, T2}
\* Distinct control types, as every build call under src/ passes them.
MCConTypes == <<Con, Resp, Discon>>
=============================================================================

--------------------------- MODULE MCConnectionList ---------------------------
EXTENDS ConnectionList
CONSTANTS A1, A2
MCAddrs == {A1, A2}
=============================================================================

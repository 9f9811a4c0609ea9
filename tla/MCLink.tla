-------------------------------- MODULE MCLink --------------------------------
(* Model values and bounds for Link.                                       *)
EXTENDS Link

CONSTANTS A, B, User, AckT

MCPeers == {A, B}
MCMTypes == {User, AckT}
MCGuarantee == (User :> "Reliable") @@ (AckT :> "Unreliable")
=============================================================================

------------------------------ MODULE MCAckUnit ------------------------------
(* Model values and bounds for AckUnit.                                    *)
EXTENDS AckUnit

CONSTANTS Rel, Newest, AckT

MCMTypes == {Rel, Newest, AckT}
MCGuarantee == (Rel :> "Reliable") @@ (Newest :> "ReliableNewest")
                 @@ (AckT :> "Unreliable")

(* The state without the history variable advertised, which no action     *)
(* reads: runs whose properties do not mention it fingerprint this view.   *)
AckView == <<ack, fault, marked, retired>>
=============================================================================

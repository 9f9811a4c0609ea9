----------------------------- MODULE ClientStatus -----------------------------
(***************************************************************************)
(* The connection state machine of spec section 4.6, as the spec states    *)
(* it: which status may follow which, and through which kind of event.     *)
(* Payloads (the Response, the error, the disconnect message, the AckNum   *)
(* of Disconnecting) are left out.                                         *)
(*                                                                         *)
(* A public call may pass through several of these transitions at once;    *)
(* the two the spec describes inside one call are kept as one step:       *)
(* connect() whose connection message fails to go out, and disconnect()   *)
(* whose disconnect message fails to go out (error propagation).           *)
(***************************************************************************)
CONSTANTS Statuses

VARIABLE st

Init == st = "NotConnected"

(* connect(): Connecting, or ConnectionFailed if the send of con_msg hit a *)
(* transport error.                                                        *)
Connect ==
  /\ st = "NotConnected"
  /\ st' \in {"Connecting", "ConnectionFailed"}

(* A Response while Connecting.                                            *)
Respond ==
  /\ st = "Connecting"
  /\ st' \in {"Accepted", "Rejected"}

(* disconnect(): Disconnecting, or Dropped if its send fails.              *)
Disconnect ==
  /\ st = "Connected"
  /\ st' \in {"Disconnecting", "Dropped"}

(* The peer's Disconnect while Connected.                                  *)
PeerDisconnect ==
  /\ st = "Connected"
  /\ st' = "Disconnected"

(* A transport error at any point.                                         *)
TransportError ==
  st' = CASE st = "Connected"                            -> "Dropped"
          [] st \in {"Connecting", "Accepted", "Rejected"} -> "ConnectionFailed"
          [] st = "Disconnecting"                        -> "NotConnected"
          [] OTHER                                       -> st

(* The roll-over to the next status: Accepted becomes Connected, and the   *)
(* terminal statuses become NotConnected (spec 8.8).                       *)
Roll ==
  \/ st = "Accepted" /\ st' = "Connected"
  \/ st \in {"Rejected", "ConnectionFailed", "Disconnected", "Dropped"}
       /\ st' = "NotConnected"

(* The disconnect message was acknowledged.                                *)
DisconnectAcked ==
  /\ st = "Disconnecting"
  /\ st' = "NotConnected"

Next ==
  \/ Connect \/ Respond \/ Disconnect \/ PeerDisconnect
  \/ TransportError \/ Roll \/ DisconnectAcked

Spec == Init /\ [][Next]_st
=============================================================================

--------------------------- MODULE ClientConnection ---------------------------
(***************************************************************************)
(* The client side of a connection (src/src/connection/client_connection.rs*)
(* struct ClientConnection) as its public operations drive it: connect,    *)
(* disconnect, send, tick and handle_status.                               *)
(*                                                                         *)
(* State: status (net.rs enum Status, the payloads dropped), transport     *)
(* (whether the Option<T> is Some) and whether the process has panicked.   *)
(* The ReliableSystem, the ping system and the received-message buffers    *)
(* are left out: no status change depends on them (update_status is empty).*)
(* The ack machinery is modelled in AckSystem and Link.                    *)
(*                                                                         *)
(* The server and the network are the environment: any datagram kind may  *)
(* arrive while the transport is open, and any transport call may fail.    *)
(* A send has an outcome: "ok", "ser_err" (the serializer failed: send     *)
(* returns Err before touching the transport) or "io_err" (transport.send  *)
(* failed: send records the error in the status and still returns Ok).     *)
(***************************************************************************)
EXTENDS Naturals, Sequences

CONSTANTS
  MaxBatch,  \* bound on the datagrams one get_msgs call drains
  InKinds    \* the datagram kinds the peer and the network produce

Statuses == {"NotConnected", "Connecting", "Accepted", "Rejected",
             "ConnectionFailed", "Connected", "Disconnected", "Dropped",
             "Disconnecting"}

(* The Status::is_* predicates the client's guards call (net.rs).         *)
is_not_connected(s) == s = "NotConnected"
is_connecting(s) == s = "Connecting"
is_connected(s) == s = "Connected"

(* What one received datagram is, as far as get_msgs_err tells apart:      *)
(* shorter than HEADER_SIZE or failing to deserialize ("garbage"), an      *)
(* MType outside the table, a ping request, the peer's Disconnect, a       *)
(* Response (accepted or rejected), or anything else (user messages and    *)
(* ping responses, which only fill buffers).                               *)
Kinds == {"garbage", "bad_mtype", "ping_req", "discon", "accept", "reject",
          "other"}
ASSUME InKinds \subseteq Kinds
SendOutcomes == {"ok", "ser_err", "io_err"}
Batches == UNION {[1 .. n -> InKinds] : n \in 0 .. MaxBatch}

VARIABLES status, transport, panicked
vars == <<status, transport, panicked>>

(* A ClientConnection's state as a record, so that the steps of one public *)
(* call can be chained.                                                    *)
Conn == [status |-> status, transport |-> transport, panicked |-> panicked]

(* A variant of StatusErr that forgets the Connected arm.                  *)
StatusErr_NoDrop(c) ==
  [c EXCEPT !.status = CASE @ \in {"Connecting", "Accepted", "Rejected"} -> "ConnectionFailed"
                         [] @ = "Disconnecting" -> "NotConnected"
                         [] OTHER -> @,
            !.transport = FALSE]

(* ClientConnection::status_err *)
StatusErr(c) ==
  [c EXCEPT !.status = CASE @ = "Connected" -> "Dropped"
                         [] @ \in {"Connecting", "Accepted", "Rejected"} -> "ConnectionFailed"
                         [] @ = "Disconnecting" -> "NotConnected"
                         [] OTHER -> @,
            !.transport = FALSE]

(* ClientConnection::send: [c, ok] with ok whether it returned Ok.         *)
SendMsg(c, outcome) ==
  CASE ~c.transport         -> [c |-> c, ok |-> FALSE]
    [] outcome = "ser_err"  -> [c |-> c, ok |-> FALSE]
    [] outcome = "io_err"   -> [c |-> StatusErr(c), ok |-> TRUE]
    [] OTHER                -> [c |-> c, ok |-> TRUE]

(* A send whose result is only logged (send_ack_msg, send_ping, the ping   *)
(* reply); "none" is the call not sending anything.                        *)
SendLogged(c, outcome) ==
  IF outcome = "none" THEN c ELSE SendMsg(c, outcome).c

(* ClientConnection::resend_reliable: each due payload goes to the         *)
(* transport while it is Some; the first failure closes it.                *)
ResendReliable(c, outcome) ==
  IF outcome = "io_err" /\ c.transport THEN StatusErr(c) ELSE c

(* get_msgs_err, the body of the loop for one datagram.                    *)
RecvOne(c, kind, pingReply) ==
  CASE kind = "bad_mtype" -> [c EXCEPT !.panicked = TRUE]
    [] kind = "ping_req"  -> SendLogged(c, pingReply)
    [] kind = "discon" /\ is_connected(c.status)    -> [c EXCEPT !.status = "Disconnected"]
    [] kind = "accept" /\ is_connecting(c.status)   -> [c EXCEPT !.status = "Accepted"]
    [] kind = "reject" /\ is_connecting(c.status)   -> [c EXCEPT !.status = "Rejected"]
    [] OTHER -> c

(* get_msgs: drain the batch while the transport is Some, then the recv   *)
(* that ends the loop: WouldBlock, or an error that closes the connection. *)
RECURSIVE Drain(_, _, _, _)
Drain(c, batch, replies, recvErr) ==
  CASE c.panicked      -> c
    [] ~c.transport    -> c
    [] batch = <<>>    -> IF recvErr THEN StatusErr(c) ELSE c
    [] OTHER -> Drain(RecvOne(c, Head(batch), Head(replies)),
                      Tail(batch), Tail(replies), recvErr)

-----------------------------------------------------------------------------
Init ==
  /\ status = "NotConnected"
  /\ transport = FALSE
  /\ panicked = FALSE

Become(c) ==
  /\ status' = c.status
  /\ transport' = c.transport
  /\ panicked' = c.panicked

(* ClientConnection::connect, when T::new succeeded: reset the subsystems, *)
(* Connecting, transport Some, then send(con_msg).                          *)
Connect(outcome) ==
  /\ ~panicked
  /\ is_not_connected(status)
  /\ Become(SendMsg([Conn EXCEPT !.status = "Connecting", !.transport = TRUE],
                    outcome).c)

(* ClientConnection::disconnect.                                           *)
Disconnect(outcome) ==
  /\ ~panicked
  /\ is_connected(status)
  /\ LET r == SendMsg(Conn, outcome) IN
       Become(IF r.ok THEN [r.c EXCEPT !.status = "Disconnecting"]
                      ELSE StatusErr(r.c))

(* ClientConnection::send of an application message.                       *)
Send(outcome) ==
  /\ ~panicked
  /\ transport
  /\ Become(SendMsg(Conn, outcome).c)

(* ClientConnection::tick: clear_msgs, send_ack_msg, send_ping,            *)
(* resend_reliable, get_msgs, update_status (whose body is a TODO).        *)
Tick(ackOut, pingOut, resendOut, batch, replies, recvErr) ==
  /\ ~panicked
  /\ LET c1 == SendLogged(Conn, ackOut)
         c2 == SendLogged(c1, pingOut)
         c3 == ResendReliable(c2, resendOut)
     IN Become(Drain(c3, batch, replies, recvErr))

(* A variant of HandleStatus that treats Connecting as accepted.           *)
HandleStatus_Eager ==
  /\ ~panicked
  /\ status' = CASE status \in {"Accepted", "Connecting"} -> "Connected"
                 [] status \in {"Rejected", "ConnectionFailed", "Disconnected",
                                "Dropped"} -> "NotConnected"
                 [] OTHER -> status
  /\ UNCHANGED <<transport, panicked>>

(* ClientConnection::handle_status.                                        *)
HandleStatus ==
  /\ ~panicked
  /\ status' = CASE status \in {"Accepted"} -> "Connected"
                 [] status \in {"Rejected", "ConnectionFailed", "Disconnected",
                                "Dropped"} -> "NotConnected"
                 [] OTHER -> status
  /\ UNCHANGED <<transport, panicked>>

(* A panic aborts the process.                                             *)
Aborted ==
  /\ panicked
  /\ UNCHANGED vars

TickStep ==
  \E ackOut, pingOut \in SendOutcomes \cup {"none"},
     resendOut \in {"none", "ok", "io_err"}, batch \in Batches,
     recvErr \in BOOLEAN :
     \E replies \in [1 .. Len(batch) -> {"ok", "io_err"}] :
        Tick(ackOut, pingOut, resendOut, batch, replies, recvErr)

Next ==
  \/ \E o \in SendOutcomes : Connect(o) \/ Disconnect(o) \/ Send(o)
  \/ TickStep
  \/ HandleStatus
  \/ Aborted

(* The application calls tick() every frame.                               *)
Spec == Init /\ [][Next]_vars /\ WF_vars(TickStep)

-----------------------------------------------------------------------------
TypeOK ==
  /\ status \in Statuses
  /\ transport \in BOOLEAN
  /\ panicked \in BOOLEAN

StatusMachine == INSTANCE ClientStatus WITH st <- status

(* Every status change a public call makes (connect, disconnect, send,     *)
(* tick with its sends and its get_msgs loop, handle_status) is a          *)
(* transition of the state machine of spec 4.6, or several the spec puts   *)
(* in one call: Connected is entered only from Accepted, NotConnected only *)
(* from a terminal status or Disconnecting, and a Response is taken only   *)
(* while Connecting (spec 8.8).                                            *)
StatusRefinement == StatusMachine!Spec

(* While a connection attempt or connection is live, the transport is      *)
(* open: every path that closes the transport (status_err) also leaves    *)
(* these statuses.                                                         *)
LiveStatusHasTransport ==
  status \in {"Connecting", "Accepted", "Connected"} => transport

(* Disconnecting waits for the disconnect message to be acknowledged, so   *)
(* the transport it is resent on must still be open (spec 4.6).            *)
DisconnectKeepsTransport == status = "Disconnecting" => transport

(* A disconnect() eventually completes: the client gets back to            *)
(* NotConnected, where connect() may be called again (spec 4.6, 9(b)).     *)
DisconnectCompletes == (status = "Disconnecting") ~> (status = "NotConnected")

(* A malformed datagram is dropped and never tears the process down        *)
(* (spec section 7).                                                       *)
NoPanic == ~panicked
=============================================================================

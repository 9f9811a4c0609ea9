------------------------------- MODULE Handshake -------------------------------
(***************************************************************************)
(* A ClientConnection talking to the server's session for it, over UDP     *)
(* that loses and reorders datagrams.                                      *)
(*                                                                         *)
(* The client is ClientConnection's state and operators.  Its reliable     *)
(* messages that matter to the server (the connection message and the     *)
(* disconnect message) are kept in cli_saved from the send that saves them *)
(* until the next connect() replaces the ReliableSystem; resend_reliable   *)
(* sends them again.  Which of them the server acknowledged is left out    *)
(* (the ack machinery is Link's subject), so the model resends more often  *)
(* than the code: that only adds behaviours.  In the other direction the   *)
(* server's accepted Response is resent only until the client's ack of it  *)
(* arrives: the client marks it in get_msgs (push_received) and a later    *)
(* tick's ack message or header carries the ack back.                      *)
(*                                                                         *)
(* The server's session for this client follows spec section 4.7 (the      *)
(* server connection is not part of the sources): a Connection message     *)
(* from a listening address becomes a pending connection, which the        *)
(* application accepts (Response Accepted, reliable) or rejects (Response  *)
(* Rejected, sent once); an accepted client can be disconnected by the     *)
(* server or disconnect itself.                                            *)
(***************************************************************************)
EXTENDS ClientConnection, FiniteSets

VARIABLES
  srv,        \* the server's state for this client address
  to_srv,     \* client -> server datagrams in flight: "con", "discon"
  to_cli,     \* server -> client datagrams in flight
  cli_saved,  \* the client's saved reliable "con" / "discon" messages
  cli_marked, \* the client's ReliableSystem has marked the accepted Response
  srv_unacked \* the server's accepted Response awaits the client's ack
hvars == <<status, transport, panicked, srv, to_srv, to_cli, cli_saved,
           cli_marked, srv_unacked>>

SrvStates == {"listening", "pending", "accepted"}
ServerKinds == {"accept", "reject", "discon", "ping_req"}
\* What reaches the client besides the server's datagrams.
Noise == InKinds \ ServerKinds

HInit ==
  /\ Init
  /\ srv = "listening"
  /\ to_srv = {}
  /\ to_cli = {}
  /\ cli_saved = {}
  /\ cli_marked = FALSE
  /\ srv_unacked = FALSE

(* The client's message m leaves when send() reached transport.send with   *)
(* outcome "ok"; save_msg ran before the transport call unless the         *)
(* serializer failed.                                                      *)
Emit(m, o) == IF o = "ok" /\ transport THEN {m} ELSE {}
Saved(m, o) == IF o # "ser_err" /\ transport THEN {m} ELSE {}

CliConnect(o) ==
  /\ Connect(o)
  /\ to_srv' = to_srv \cup (IF o = "ok" THEN {"con"} ELSE {})
  /\ cli_saved' = IF o = "ser_err" THEN {} ELSE {"con"}
  /\ cli_marked' = FALSE
  /\ UNCHANGED <<srv, to_cli, srv_unacked>>

CliDisconnect(o) ==
  /\ Disconnect(o)
  /\ to_srv' = to_srv \cup Emit("discon", o)
  /\ cli_saved' = cli_saved \cup Saved("discon", o)
  /\ UNCHANGED <<srv, to_cli, cli_marked, srv_unacked>>

CliSend(o) ==
  /\ Send(o)
  /\ UNCHANGED <<srv, to_srv, to_cli, cli_saved, cli_marked, srv_unacked>>

(* tick(): send_ack_msg, send_ping and resend_reliable come first.  Their  *)
(* results are only logged, and the first transport failure closes the     *)
(* transport so that the later sends do nothing: what differs is "none"    *)
(* (nothing sent, or sent with ok / ser_err), "resent" (the saved messages *)
(* went out again) and "io_err" (one of these sends failed).  The batch    *)
(* get_msgs drains is made of datagrams the server sent and network noise; *)
(* a ping reply's outcome matters only for a ping request.  Once the       *)
(* accepted Response is marked, a tick whose sends did not fail may carry  *)
(* its ack to the server (send_ack_msg, or the header of a resend).        *)
PreSends == [none   |-> <<"none", "none", "none">>,
             resent |-> <<"none", "none", "ok">>,
             io_err |-> <<"io_err", "none", "none">>]

CliTick ==
  \E pre \in DOMAIN PreSends, recvErr \in BOOLEAN, ackOut \in BOOLEAN :
  \E batch \in UNION {[1 .. n -> to_cli \cup Noise] : n \in 0 .. MaxBatch} :
  \E replies \in {r \in [1 .. Len(batch) -> {"ok", "io_err"}] :
                    \A i \in DOMAIN r : batch[i] # "ping_req" => r[i] = "ok"} :
     LET o      == PreSends[pre]
         resent == IF pre = "resent" /\ transport THEN cli_saved ELSE {}
     IN /\ ackOut => cli_marked /\ transport /\ pre # "io_err"
        /\ Tick(o[1], o[2], o[3], batch, replies, recvErr)
        /\ to_cli' = to_cli \ {batch[i] : i \in 1 .. Len(batch)}
        /\ to_srv' = to_srv \cup resent \cup (IF ackOut THEN {"ack"} ELSE {})
        /\ cli_marked' = (cli_marked \/ \E i \in DOMAIN batch : batch[i] = "accept")
        /\ UNCHANGED <<srv, cli_saved, srv_unacked>>

(* A tick whose get_msgs drains datagram m from the socket.               *)
CliRecv(m) == CliTick /\ m \in to_cli /\ m \notin to_cli'

CliHandleStatus ==
  /\ HandleStatus
  /\ UNCHANGED <<srv, to_srv, to_cli, cli_saved, cli_marked, srv_unacked>>

-----------------------------------------------------------------------------
(* The server's session (spec 4.7).                                        *)
SrvRecv(m) ==
  /\ m \in to_srv
  /\ to_srv' = to_srv \ {m}
  /\ srv' = CASE m = "con" /\ srv = "listening"   -> "pending"
              [] m = "discon" /\ srv = "accepted" -> "listening"
              [] OTHER -> srv
  /\ srv_unacked' = (srv_unacked /\ srv' = "accepted" /\ m # "ack")
  /\ UNCHANGED <<status, transport, panicked, to_cli, cli_saved, cli_marked>>

SrvAccept ==
  /\ srv = "pending"
  /\ srv' = "accepted"
  /\ to_cli' = to_cli \cup {"accept"}
  /\ srv_unacked' = TRUE
  /\ UNCHANGED <<status, transport, panicked, to_srv, cli_saved, cli_marked>>

SrvReject ==
  /\ srv = "pending"
  /\ srv' = "listening"
  /\ to_cli' = to_cli \cup {"reject"}
  /\ UNCHANGED <<status, transport, panicked, to_srv, cli_saved, cli_marked,
                 srv_unacked>>

(* The accepted Response is reliable: the server's ReliableSystem resends *)
(* it until the client's ack arrives.  The server's Disconnect ends the    *)
(* session and is not resent.                                              *)
SrvResend ==
  /\ srv = "accepted" /\ srv_unacked
  /\ to_cli' = to_cli \cup {"accept"}
  /\ UNCHANGED <<status, transport, panicked, srv, to_srv, cli_saved,
                 cli_marked, srv_unacked>>

SrvDisconnect ==
  /\ srv = "accepted"
  /\ srv' = "listening"
  /\ to_cli' = to_cli \cup {"discon"}
  /\ srv_unacked' = FALSE
  /\ UNCHANGED <<status, transport, panicked, to_srv, cli_saved, cli_marked>>

SrvPing ==
  /\ srv = "accepted"
  /\ to_cli' = to_cli \cup {"ping_req"}
  /\ UNCHANGED <<status, transport, panicked, srv, to_srv, cli_saved,
                 cli_marked, srv_unacked>>

(* UDP drops a datagram.                                                   *)
LoseToSrv(m) ==
  /\ m \in to_srv
  /\ to_srv' = to_srv \ {m}
  /\ UNCHANGED <<status, transport, panicked, srv, to_cli, cli_saved,
                 cli_marked, srv_unacked>>

LoseToCli(m) ==
  /\ m \in to_cli
  /\ to_cli' = to_cli \ {m}
  /\ UNCHANGED <<status, transport, panicked, srv, to_srv, cli_saved,
                 cli_marked, srv_unacked>>

HNext ==
  \/ \E o \in SendOutcomes : CliConnect(o) \/ CliDisconnect(o) \/ CliSend(o)
  \/ CliTick
  \/ CliHandleStatus
  \/ Aborted /\ UNCHANGED <<srv, to_srv, to_cli, cli_saved, cli_marked, srv_unacked>>
  \/ \E m \in to_srv : SrvRecv(m) \/ LoseToSrv(m)
  \/ \E m \in to_cli : LoseToCli(m)
  \/ SrvAccept \/ SrvReject \/ SrvResend \/ SrvDisconnect \/ SrvPing

(* tick() runs every frame; the server's reliable system resends the       *)
(* accepted Response while it is unacknowledged (get_resend every          *)
(* 1000 ms); the network delivers, to the server's session and to the      *)
(* client's get_msgs, a datagram that is sent again and again (fair loss,  *)
(* as for a retransmitting protocol).                                      *)
HSpec ==
  /\ HInit /\ [][HNext]_hvars
  /\ WF_hvars(CliTick)
  /\ WF_hvars(SrvResend)
  /\ \A m \in {"con", "discon"} : SF_hvars(SrvRecv(m))
  /\ SF_hvars(CliRecv("accept"))
=============================================================================

------------------------------- MODULE AckUnit -------------------------------
(***************************************************************************)
(* One AckSystem driven by the calls the connection makes on it:           *)
(*   - sending a message: ReliableSystem::get_send_header (outgoing_ack_num *)
(*     and next_header) followed by save_msg, as ClientConnection::send    *)
(*     does (client_connection.rs 129-140);                                *)
(*   - sending the dedicated ack message: ack_msg_info, then the ack       *)
(*     message is itself sent with a header (client_connection.rs 164-173);*)
(*   - receiving a datagram: ReliableSystem::push_received, which calls    *)
(*     mark_received(sender_ack_num) then mark_bitfield(offset, bits).     *)
(* The peer is arbitrary: any AckNum it may have issued can arrive, in any *)
(* order and any number of times (UDP reorders and duplicates, and the     *)
(* peer resends).                                                          *)
(*                                                                         *)
(* Three ghost variables observe the window: marked, the AckNums whose    *)
(* mark_received returned; retired, those of them whose bit has since left *)
(* the window; advertised, those of them whose acknowledgement went out to *)
(* the peer, in the ack pair of a header or in an ack message.             *)
(***************************************************************************)
EXTENDS AckSystem

CONSTANTS
  Incoming,     \* the AckNums the peer may send (a bound)
  PeerOffsets,  \* the ack offsets the peer may put in a header
  MaxSend,      \* bound on the messages this side sends
  MaxResidual,  \* bound on the length of the residual Vec
  AckMType      \* the MType of the ack message

ASSUME Incoming \subseteq AckNum /\ PeerOffsets \subseteq AckNum
ASSUME AckMType \in MTypes

VARIABLES ack, fault, marked, retired, advertised
vars == <<ack, fault, marked, retired, advertised>>

(* The window position of bitfield i (1 = front) and whether n is set.     *)
Base(a, i) == a.ack_offset - W * (i - 1)
CoveringField(a, n) ==
  {i \in 1 .. Len(a.ack_bitfields) : n - Base(a, i) \in Bit}
InWindow(a, n) ==
  \E i \in CoveringField(a, n) : n - Base(a, i) \in a.ack_bitfields[i].bits
Dropped(a, b) == {n \in marked : InWindow(a, n) /\ ~InWindow(b, n)}

(* The received AckNums a header's ack pair names: the peer's              *)
(* mark_bitfield takes bit i of the pair to mean offset + i.               *)
PairAcks(a) ==
  LET h == NextHeaderValue(a) IN {U16(h.offset + i) : i \in h.bits} \cap marked
(* The received AckNums an ack message carries (spec 4.4: the window and   *)
(* the residual), counted whatever the peer does with its body.            *)
MsgAcks(a) == {n \in marked : InWindow(a, n) \/ n \in ToSet(a.residual)}

Init ==
  /\ ack = NewAck
  /\ fault = "none"
  /\ marked = {}
  /\ retired = {}
  /\ advertised = {}

(* ClientConnection::send for a message of type t: get_send_header, then  *)
(* the message's ser_fn, then save_msg and the transport send.  A ser_fn   *)
(* error returns early (the `?`): the AckNum and the send counts the       *)
(* header took stay taken, and nothing is saved or goes out.               *)
Send(t, serOk) ==
  /\ fault = "none"
  /\ ack.outgoing_counter < MaxSend
  /\ LET num == ack.outgoing_counter
         hd  == NextHeader(OutgoingAckNum(ack))
     IN /\ ack' = IF serOk THEN SaveMsg(hd, num, t, Guarantee[t]) ELSE hd
        /\ advertised' = IF serOk THEN advertised \cup PairAcks(ack)
                                  ELSE advertised
  /\ UNCHANGED <<fault, marked, retired>>

(* ClientConnection::send_ack_msg: get_ack_msg (ack_msg_info) returns a    *)
(* message when a residual is pending or a bitfield was sent fewer than    *)
(* SEND_ACK_THRESHOLD times; the message is then sent like any other.      *)
SendAckMsg ==
  /\ fault = "none"
  /\ ack.outgoing_counter < MaxSend
  /\ \/ ack.residual # <<>>
     \/ \E i \in DOMAIN ack.ack_bitfields :
          ack.ack_bitfields[i].send_count < SEND_ACK_THRESHOLD
  /\ LET a   == AckMsgInfo(ack)
         num == a.outgoing_counter
     IN /\ ack' = SaveMsg(NextHeader(OutgoingAckNum(a)), num, AckMType,
                          Guarantee[AckMType])
        /\ advertised' = advertised \cup MsgAcks(ack) \cup PairAcks(a)
  /\ UNCHANGED <<fault, marked, retired>>

(* ReliableSystem::push_received(header): mark_received(sender_ack_num),   *)
(* then mark_bitfield(receiver_acking_offset, ack_bits).                   *)
Receive(num, offset, bits) ==
  /\ fault = "none"
  /\ Len(ack.residual) < MaxResidual
  /\ LET r == MarkReceived(ack, num) IN
       IF r.fault # "none"
       THEN /\ fault' = r.fault
            /\ UNCHANGED <<ack, marked, retired, advertised>>
       ELSE /\ fault' = IF MarkBitfieldOverflows(offset, bits)
                        THEN "overflow" ELSE "none"
            /\ ack' = MarkBitfield(r.st, offset, bits)
            /\ marked' = marked \cup {num}
            /\ retired' = retired \cup Dropped(ack, r.st)
            /\ UNCHANGED advertised

(* A panic aborts the process: nothing happens any more.  Once both bounds *)
(* are reached the model has nothing left to explore either.               *)
Stopped ==
  /\ \/ fault # "none"
     \/ ack.outgoing_counter >= MaxSend /\ Len(ack.residual) >= MaxResidual
  /\ UNCHANGED vars

Next ==
  \/ \E t \in MTypes \ {AckMType}, serOk \in BOOLEAN : Send(t, serOk)
  \/ SendAckMsg
  \/ \E num \in Incoming, offset \in PeerOffsets, bits \in SUBSET Bit :
       Receive(num, offset, bits)
  \/ Stopped

Spec == Init /\ [][Next]_vars

-----------------------------------------------------------------------------
TypeOK ==
  /\ ack.outgoing_counter \in AckNum
  /\ ack.ack_offset \in AckNum
  /\ ack.current_idx \in 0 .. Len(ack.ack_bitfields) - 1
  /\ ack.ack_bitfields \in Seq([bits : SUBSET Bit, send_count : SendCount])
  /\ ack.residual \in Seq(AckNum)
  /\ DOMAIN ack.saved_msgs \subseteq AckNum
  /\ \A k \in DOMAIN ack.saved_msgs : ack.saved_msgs[k] \in MTypes
  /\ fault \in Faults
  /\ marked \subseteq AckNum /\ retired \subseteq marked
  /\ advertised \subseteq marked

(* Every AckNum the peer sent us and mark_received accepted is still       *)
(* acknowledgeable: its bit is set at its position in the window, it is in *)
(* the residual Vec, or it left the window by eviction (mark_received's    *)
(* slide and bit placement, spec property 2).                              *)
AckCoverage ==
  \A n \in marked :
     InWindow(ack, n) \/ n \in ToSet(ack.residual) \/ n \in retired

(* A received AckNum leaves the window only after its acknowledgement has *)
(* gone out at least once, in a header's ack pair or an ack message: the   *)
(* point of mark_received's eviction rule (spec 3, "evicted only when its  *)
(* send_count >= 2").  Otherwise the peer never learns that it arrived,    *)
(* keeps resending it, and each resend lands in the residual.              *)
AckedBeforeEvicted == retired \subseteq advertised

(* mark_received and mark_bitfield never panic, whatever order the peer's  *)
(* AckNums arrive in.                                                      *)
NoPanic == fault = "none"

(* mark_received always returns (release builds wrap instead of            *)
(* panicking; the slide loop must still terminate).                        *)
NoHang == fault # "hang"
=============================================================================

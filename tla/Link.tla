-------------------------------- MODULE Link --------------------------------
(***************************************************************************)
(* Two connection endpoints, each with its own AckSystem, exchanging       *)
(* reliable messages over UDP, which loses and reorders datagrams.         *)
(*                                                                         *)
(* A datagram carries the header fields the ack machinery reads            *)
(* (net.rs MsgHeader): m_type, sender_ack_num, and the                     *)
(* receiver_acking_offset / ack_bits pair taken from next_header().        *)
(* Each endpoint does what ClientConnection does with its ReliableSystem:  *)
(*   Send       -- send(): get_send_header, save, transport.send           *)
(*   SendAckMsg -- send_ack_msg(): ack_msg_info, then send() of the AckMsg *)
(*   Resend     -- resend_reliable(): a saved payload (header included) is *)
(*                 sent again once its timer expired                       *)
(*   Receive    -- get_msgs_err(): push_received (mark_received, then      *)
(*                 mark_bitfield with the header's ack pair)               *)
(* The body of the AckMsg is not read by any code under src/ and is not    *)
(* modelled; its header is processed like any other.                       *)
(***************************************************************************)
EXTENDS AckSystem

CONSTANTS
  Peers,      \* the two endpoints
  MaxSend,    \* bound on the datagrams each endpoint issues (AckNums used)
  MaxNet,     \* bound on datagrams in flight
  UserMType,  \* a Reliable user message type
  AckMType    \* the MType of the ack message

ASSUME Cardinality(Peers) = 2
ASSUME {UserMType, AckMType} \subseteq MTypes /\ Guarantee[UserMType] = "Reliable"

VARIABLES
  ack,    \* Peers -> AckSystem state
  fault,  \* Peers -> Faults: a panic aborts that endpoint
  net,    \* datagrams in flight
  sent,   \* Peers -> the datagrams issued (the saved payloads, for resend)
  got     \* Peers -> the AckNums received from the peer (ghost)
vars == <<ack, fault, net, sent, got>>

Other(p) == CHOOSE q \in Peers : q # p

Datagram == [src : Peers, dst : Peers, m_type : MTypes, num : AckNum,
             offset : AckNum, bits : SUBSET Bit]

Init ==
  /\ ack = [p \in Peers |-> NewAck]
  /\ fault = [p \in Peers |-> "none"]
  /\ net = {}
  /\ sent = [p \in Peers |-> {}]
  /\ got = [p \in Peers |-> {}]

(* The datagram send() builds from AckSystem a for a message of type t.    *)
Dgram(p, a, t) ==
  [src |-> p, dst |-> Other(p), m_type |-> t, num |-> a.outgoing_counter,
   offset |-> NextHeaderValue(a).offset, bits |-> NextHeaderValue(a).bits]

(* ClientConnection::send: get_send_header, save, transport.send.          *)
Issue(p, a, t) ==
  LET d == Dgram(p, a, t) IN
  /\ ack' = [ack EXCEPT ![p] =
               SaveMsg(NextHeader(OutgoingAckNum(a)), d.num, t, Guarantee[t])]
  /\ net' = net \cup {d}
  /\ sent' = [sent EXCEPT ![p] = @ \cup {d}]

CanIssue(p) ==
  /\ fault[p] = "none"
  /\ ack[p].outgoing_counter < MaxSend
  /\ Cardinality(net) < MaxNet

Send(p) ==
  /\ CanIssue(p)
  /\ Issue(p, ack[p], UserMType)
  /\ UNCHANGED <<fault, got>>

(* ClientConnection::send_ack_msg.                                         *)
SendAckMsg(p) ==
  /\ CanIssue(p)
  /\ \/ ack[p].residual # <<>>
     \/ \E i \in DOMAIN ack[p].ack_bitfields :
          ack[p].ack_bitfields[i].send_count < SEND_ACK_THRESHOLD
  /\ Issue(p, AckMsgInfo(ack[p]), AckMType)
  /\ UNCHANGED <<fault, got>>

(* ClientConnection::resend_reliable: the saved payload, header and all.   *)
Resend(p) ==
  /\ fault[p] = "none"
  /\ Cardinality(net) < MaxNet
  /\ \E d \in sent[p] :
       /\ d.num \in GetResend(ack[p])
       /\ d \notin net
       /\ net' = net \cup {d}
  /\ UNCHANGED <<ack, fault, sent, got>>

(* get_msgs_err for one datagram: push_received.                           *)
Receive(d) ==
  /\ d \in net
  /\ net' = net \ {d}
  /\ LET p == d.dst
         r == MarkReceived(ack[p], d.num)
     IN IF fault[p] # "none"
        THEN UNCHANGED <<ack, fault, got>>
        ELSE IF r.fault # "none"
        THEN /\ fault' = [fault EXCEPT ![p] = r.fault]
             /\ UNCHANGED <<ack, got>>
        ELSE /\ fault' = [fault EXCEPT ![p] =
                   IF MarkBitfieldOverflows(d.offset, d.bits) THEN "overflow" ELSE "none"]
             /\ ack' = [ack EXCEPT ![p] = MarkBitfield(r.st, d.offset, d.bits)]
             /\ got' = [got EXCEPT ![p] = @ \cup {d.num}]
  /\ UNCHANGED sent

(* UDP drops a datagram.                                                   *)
Lose(d) ==
  /\ d \in net
  /\ net' = net \ {d}
  /\ UNCHANGED <<ack, fault, sent, got>>

Next ==
  \/ \E p \in Peers : Send(p) \/ SendAckMsg(p) \/ Resend(p)
  \/ \E d \in net : Receive(d) \/ Lose(d)

Spec == Init /\ [][Next]_vars

-----------------------------------------------------------------------------
TypeOK ==
  /\ \A p \in Peers : ack[p].outgoing_counter \in AckNum
  /\ fault \in [Peers -> Faults]
  /\ net \subseteq Datagram
  /\ sent \in [Peers -> SUBSET Datagram]
  /\ got \in [Peers -> SUBSET AckNum]

(* A reliable message leaves the sender's saved buffer (and is never sent  *)
(* again) only after the peer received it: the ack pair a header carries   *)
(* (next_header) names only AckNums the peer marked (mark_bitfield).       *)
NoFalseAck ==
  \A p \in Peers : \A d \in sent[p] :
     /\ Guarantee[d.m_type] = "Reliable"
     /\ d.num \notin DOMAIN ack[p].saved_msgs
     => d.num \in got[Other(p)]
=============================================================================

----------------------------- MODULE HeaderCodec -----------------------------
(***************************************************************************)
(* The 12-byte wire header (src/src/net.rs, MsgHeader::to_be_bytes and    *)
(* MsgHeader::from_be_bytes) and the length check get_msgs_err makes       *)
(* before decoding (client_connection.rs 235-242).                         *)
(*                                                                         *)
(* A header is encoded, the datagram may be cut short on the way (a        *)
(* truncated or foreign datagram), and the receiver decodes it if it is    *)
(* long enough.  Field values are drawn from constants that include the    *)
(* edges of each integer width.                                            *)
(***************************************************************************)
EXTENDS Integers, Sequences

CONSTANTS
  U16Values,   \* sample u16 values (m_type, order_num, the two AckNums)
  U32Values    \* sample u32 values (ack_bits)

HEADER_SIZE == 12
Byte == 0 .. 255

Header == [m_type : U16Values, order_num : U16Values, sender_ack_num : U16Values,
           receiver_acking_offset : U16Values, ack_bits : U32Values]

\* A variant of BeBytes that shifts without keeping the low byte.
BeBytes_NoMask(x, n) == [i \in 1 .. n |-> x \div (256 ^ (n - i))]

(* x.to_be_bytes() for an n-byte integer: most significant byte first.     *)
BeBytes(x, n) == [i \in 1 .. n |-> (x \div (256 ^ (n - i))) % 256]

(* u16::from_be_bytes / u32::from_be_bytes over the slice b[lo..hi].       *)
RECURSIVE FromBe(_, _, _)
FromBe(b, lo, hi) == IF hi < lo THEN 0 ELSE FromBe(b, lo, hi - 1) * 256 + b[hi]

\* A variant of ToBeBytes that writes the two AckNum fields in swapped order.
ToBeBytes_SwapAcks(h) ==
  BeBytes(h.m_type % 2^16, 2) \o BeBytes(h.order_num, 2)
    \o BeBytes(h.receiver_acking_offset, 2) \o BeBytes(h.sender_ack_num, 2)
    \o BeBytes(h.ack_bits, 4)

(* MsgHeader::to_be_bytes: (m_type as u16), order_num, sender_ack_num,     *)
(* receiver_acking_offset, ack_bits, each big-endian, concatenated.        *)
ToBeBytes(h) ==
  BeBytes(h.m_type % 2^16, 2) \o BeBytes(h.order_num, 2) \o BeBytes(h.sender_ack_num, 2)
    \o BeBytes(h.receiver_acking_offset, 2) \o BeBytes(h.ack_bits, 4)

(* MsgHeader::from_be_bytes(&bytes[..HEADER_SIZE]).                         *)
FromBeBytes(b) ==
  [m_type |-> FromBe(b, 1, 2), order_num |-> FromBe(b, 3, 4),
   sender_ack_num |-> FromBe(b, 5, 6), receiver_acking_offset |-> FromBe(b, 7, 8),
   ack_bits |-> FromBe(b, 9, 12)]

VARIABLES
  hdr,     \* the header the sender built
  wire,    \* the bytes in flight (header then body)
  outcome, \* "none" before get_msgs_err looks at it, then "short" or "decoded"
  got      \* the header from_be_bytes returned
vars == <<hdr, wire, outcome, got>>

Init ==
  /\ hdr \in Header
  /\ wire = <<>>
  /\ outcome = "none"
  /\ got = hdr

(* ClientConnection::send: the header bytes, then the serialized payload   *)
(* (abstracted to one byte).                                               *)
Encode ==
  /\ wire = <<>> /\ outcome = "none"
  /\ wire' = ToBeBytes(hdr) \o <<0>>
  /\ UNCHANGED <<hdr, outcome, got>>

(* The datagram reaches the receiver cut to its first n bytes.             *)
Truncate ==
  /\ wire # <<>> /\ outcome = "none"
  /\ \E n \in 0 .. Len(wire) - 1 : wire' = SubSeq(wire, 1, n)
  /\ UNCHANGED <<hdr, outcome, got>>

(* get_msgs_err: a datagram shorter than HEADER_SIZE is discarded with a   *)
(* warning; otherwise the header is decoded from its first 12 bytes.       *)
Decode ==
  /\ wire # <<>> /\ outcome = "none"
  /\ IF Len(wire) < HEADER_SIZE
     THEN /\ outcome' = "short"
          /\ UNCHANGED got
     ELSE /\ outcome' = "decoded"
          /\ got' = FromBeBytes(SubSeq(wire, 1, HEADER_SIZE))
  /\ UNCHANGED <<hdr, wire>>

(* The datagram has been handled.                                          *)
Finished ==
  /\ outcome # "none"
  /\ UNCHANGED vars

Next == Encode \/ Truncate \/ Decode \/ Finished

Spec == Init /\ [][Next]_vars

-----------------------------------------------------------------------------
TypeOK ==
  /\ hdr \in Header
  /\ wire \in Seq(Byte)
  /\ outcome \in {"none", "short", "decoded"}
  /\ got \in [m_type : Nat, order_num : Nat, sender_ack_num : Nat,
              receiver_acking_offset : Nat, ack_bits : Nat]

(* Whatever a datagram was cut to, a header the receiver decodes is the    *)
(* one the sender wrote, field for field, at every edge of the u16 and u32 *)
(* ranges: to_be_bytes and from_be_bytes are inverse.                      *)
RoundTrip == outcome = "decoded" => got = hdr
=============================================================================

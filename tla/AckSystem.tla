------------------------------ MODULE AckSystem ------------------------------
(***************************************************************************)
(* The acknowledgement system of one connection endpoint                   *)
(* (src/src/connection/ack_system.rs, struct AckSystem).                   *)
(*                                                                         *)
(* The state of one AckSystem is a record with the fields of the struct:   *)
(*   outgoing_counter, ack_offset, current_idx  -- AckNums / an index,     *)
(*   ack_bitfields  -- the VecDeque; element 1 is the front (index 0),     *)
(*                     each a record [bits, send_count] where bits is the  *)
(*                     set of bit positions set in the u32,                *)
(*   residual       -- the Vec<AckNum>,                                    *)
(*   saved_msgs     -- the HashMap, abstracted to AckNum -> m_type (the    *)
(*                     Instant and the payload are not observable here).   *)
(*                                                                         *)
(* The methods are written as operators from a state to a state, so that   *)
(* the composing modules can apply several of them in one action, as the   *)
(* calling code does.  mark_received can panic; it returns a record        *)
(* [st, fault] where fault is "none" or the way the process dies.          *)
(*                                                                         *)
(* AckUnit drives one AckSystem with every call the connection code makes *)
(* on it; Link composes two of them over a lossy network.                  *)
(***************************************************************************)
EXTENDS Integers, Sequences, FiniteSets, SequencesExt, Functions

CONSTANTS
  W,               \* BITFIELD_WIDTH (32 in the code)
  SEND_ACK_THRESHOLD, \* 2 in the code
  AckMod,          \* 2^16: AckNum is a u16
  OverflowChecks,  \* TRUE: debug build (u16 overflow panics); FALSE: release (wraps)
  MTypes,          \* message types that are sent
  Guarantee        \* MType -> guarantee, the registry's guarantees table

ASSUME W \in Nat \ {0} /\ AckMod % W = 0
ASSUME SEND_ACK_THRESHOLD \in Nat \ {0}
ASSUME OverflowChecks \in BOOLEAN

Guarantees == {"Unreliable", "UnreliableNewest", "Reliable",
               "ReliableOrdered", "ReliableNewest"}
ASSUME Guarantee \in [MTypes -> Guarantees]

AckNum == 0 .. AckMod - 1
Bit    == 0 .. W - 1
\* send_count is a u32 that only ever counts up and is only compared with
\* SEND_ACK_THRESHOLD: it is kept saturated at the threshold.
SendCount == 0 .. SEND_ACK_THRESHOLD
Faults == {"none", "overflow", "index", "hang"}

(* Guarantees::unreliable() *)
IsUnreliable(g) == g \in {"Unreliable", "UnreliableNewest"}

(* u16 arithmetic: the value the expression x has in the build, and        *)
(* whether computing it panics (debug builds check overflow).              *)
U16(x) == x % AckMod
Overflow(x) == OverflowChecks /\ (x < 0 \/ x >= AckMod)

(* AckBitfields::default() *)
EmptyField == [bits |-> {}, send_count |-> 0]

BumpCount(f) == [f EXCEPT !.send_count = IF @ < SEND_ACK_THRESHOLD THEN @ + 1 ELSE @]

(* AckSystem::new() *)
NewAck == [outgoing_counter |-> 0, ack_offset |-> 0, current_idx |-> 0,
           ack_bitfields |-> <<EmptyField>>, residual |-> <<>>,
           saved_msgs |-> [n \in {} |-> CHOOSE t \in MTypes : TRUE]]

-----------------------------------------------------------------------------
(* mark_received: one turn of the sliding while-loop.                      *)
SlideOnce(a) ==
  LET kept == IF Last(a.ack_bitfields).send_count >= SEND_ACK_THRESHOLD
              THEN Front(a.ack_bitfields) ELSE a.ack_bitfields
  IN [a EXCEPT !.ack_bitfields = <<EmptyField>> \o kept,
               !.ack_offset = U16(@ + W)]

(* mark_received: the while-loop.  The guard num >= ack_offset + 32 is     *)
(* computed in u16; a release build that wraps can loop forever, which is  *)
(* detected as more turns than there are window positions.                 *)
RECURSIVE Slide(_, _, _)
Slide(a, num, turns) ==
  LET lim == a.ack_offset + W IN
  CASE turns > AckMod \div W -> [st |-> a, fault |-> "hang"]
    [] Overflow(lim)         -> [st |-> a, fault |-> "overflow"]
    [] num >= U16(lim)       -> Slide(SlideOnce(a), num, turns + 1)
    [] OTHER                 -> [st |-> a, fault |-> "none"]

(* A variant of SetBit that shifts the bit one position.                   *)
SetBit_OffByOne(a, dif) ==
  [a EXCEPT !.ack_bitfields[dif \div W + 1].bits = @ \cup {(dif + 1) % W}]

(* mark_received: set bit dif % 32 of bitfield dif / 32.                   *)
SetBit(a, dif) ==
  [a EXCEPT !.ack_bitfields[dif \div W + 1].bits = @ \cup {dif % W}]

(* AckSystem::mark_received(num) *)
MarkReceived(a, num) ==
  LET s    == Slide(a, num, 0)
      b    == s.st
      span == W * (Len(b.ack_bitfields) - 1)
      lb   == U16(b.ack_offset - U16(span))
      dif  == U16(num - b.ack_offset)
  IN CASE s.fault # "none"                      -> s
       [] Overflow(span) \/ Overflow(b.ack_offset - U16(span))
                                                -> [st |-> b, fault |-> "overflow"]
       [] num < lb -> [st |-> [b EXCEPT !.residual = Append(@, num)], fault |-> "none"]
       [] Overflow(num - b.ack_offset)          -> [st |-> b, fault |-> "overflow"]
       [] dif \div W >= Len(b.ack_bitfields)    -> [st |-> b, fault |-> "index"]
       [] OTHER -> [st |-> SetBit(b, dif), fault |-> "none"]

(* AckSystem::mark_bitfield(offset, bitfield): offset + i is u16.          *)
MarkBitfieldOverflows(offset, bits) == \E i \in bits : Overflow(offset + i)
MarkBitfield(a, offset, bits) ==
  [a EXCEPT !.saved_msgs =
     Restrict(@, DOMAIN @ \ {U16(offset + i) : i \in bits})]

(* AckSystem::next_header(): the (ack_offset, bitfield) pair it returns,   *)
(* and the state after it.                                                 *)
NextHeaderValue(a) ==
  [offset |-> a.ack_offset, bits |-> a.ack_bitfields[a.current_idx + 1].bits]
NextHeader_NoWrap(a) ==
  [a EXCEPT !.ack_bitfields[a.current_idx + 1] = BumpCount(@),
            !.current_idx = @ + 1]
NextHeader(a) ==
  [a EXCEPT !.ack_bitfields[a.current_idx + 1] = BumpCount(@),
            !.current_idx = (@ + 1) % Len(a.ack_bitfields)]

(* AckSystem::ack_msg_info(): bumps every send_count.                      *)
AckMsgInfo(a) ==
  [a EXCEPT !.ack_bitfields = [i \in DOMAIN @ |-> BumpCount(@[i])]]

(* AckSystem::outgoing_ack_num(): wrapping_add.                            *)
OutgoingAckNum(a) == [a EXCEPT !.outgoing_counter = U16(@ + 1)]

(* AckSystem::save_msg(header, guarantees, _).  For ReliableNewest the     *)
(* first saved entry of the same m_type the HashMap iterator yields is     *)
(* removed; the iteration order is unspecified, CHOOSE picks one.          *)
SameType(a, t) == {k \in DOMAIN a.saved_msgs : a.saved_msgs[k] = t}
SaveMsg(a, num, t, g) ==
  IF IsUnreliable(g) THEN a
  ELSE LET old  == SameType(a, t)
           kept == IF g = "ReliableNewest" /\ old # {}
                   THEN Restrict(a.saved_msgs,
                                 DOMAIN a.saved_msgs \ {CHOOSE k \in old : TRUE})
                   ELSE a.saved_msgs
       IN [a EXCEPT !.saved_msgs =
             [k \in DOMAIN kept \cup {num} |-> IF k = num THEN t ELSE kept[k]]]

(* AckSystem::get_resend: the saved messages whose 1000 ms timer expired   *)
(* (the timer is reset on the way).  Time is abstracted: any saved message *)
(* may be due.                                                             *)
GetResend(a) == DOMAIN a.saved_msgs
=============================================================================

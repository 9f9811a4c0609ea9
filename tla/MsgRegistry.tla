----------------------------- MODULE MsgRegistry -----------------------------
(***************************************************************************)
(* What a message-type registry promises (the doc comments of MsgTable,   *)
(* SortedMsgTable and MsgTableParts in message_table.rs, and spec 4.2's    *)
(* rule that sorting by name makes peers agree), with no sorting and no    *)
(* build loop: the MId of every type is defined directly.  The slots are   *)
(* the code's (C, R, D at 0-2); spec 4.2 lists six control types at 1-6,   *)
(* which the code does not have.                                           *)
(*                                                                         *)
(*   - The control types C, R, D take MIds 0, 1, 2 (CONNECTION_TYPE_MID,   *)
(*     RESPONSE_TYPE_MID, DISCONNECT_TYPE_MID).                            *)
(*   - A SortedMsgTable peer registers a SET of (identifier, type) pairs;  *)
(*     a user type's MId is 3 plus the number of registered identifiers   *)
(*     that sort before its own, whatever the registration order.          *)
(*   - A MsgTable peer registers a SEQUENCE of types; the i-th registered  *)
(*     type gets MId 3 + i - 1.                                            *)
(*   - Registering one of the control types makes build fail.              *)
(***************************************************************************)
EXTENDS Integers, Sequences, FiniteSets

CONSTANTS Peers, SortedPeers, Types, Ids, ConTypes

VARIABLES
  reg,    \* Peers -> the registered set (sorted peers) or sequence of types
  phase,  \* Peers -> "unbuilt", "err" or "built"
  parts   \* Peers -> [tid_map, at] once built
vars == <<reg, phase, parts>>

AllTypes == Types \cup {ConTypes[k] : k \in 1 .. 3}

(* The types a peer has registered.                                        *)
RegTypes(p) ==
  IF p \in SortedPeers THEN {e.tid : e \in reg[p]}
  ELSE {reg[p][i] : i \in DOMAIN reg[p]}

(* The MId the registry assigns to a registered user type t.               *)
UserMId(p, t) ==
  IF p \in SortedPeers
  THEN LET e == CHOOSE e \in reg[p] : e.tid = t
       IN 3 + Cardinality({f \in reg[p] : f.id < e.id})
  ELSE 3 + (CHOOSE i \in DOMAIN reg[p] : reg[p][i] = t) - 1

MIdOf(p, t) ==
  IF \E k \in 1 .. 3 : ConTypes[k] = t
  THEN CHOOSE m \in 0 .. 2 : ConTypes[m + 1] = t
  ELSE UserMId(p, t)

(* The parts a successful build must produce.                              *)
Expected(p) ==
  LET dom == RegTypes(p) \cup {ConTypes[k] : k \in 1 .. 3}
      tm  == [t \in dom |-> MIdOf(p, t)]
  IN [tid_map |-> tm,
      at      |-> [m \in 0 .. Cardinality(dom) - 1 |-> CHOOSE t \in dom : tm[t] = m]]

Init ==
  /\ reg = [p \in Peers |-> IF p \in SortedPeers THEN {} ELSE <<>>]
  /\ phase = [p \in Peers |-> "unbuilt"]
  /\ parts = [p \in Peers |-> [tid_map |-> <<>>, at |-> <<>>]]

(* A sorted peer registers a fresh identifier for an unregistered type.    *)
RegisterNamed(p, id, t) ==
  /\ p \in SortedPeers /\ phase[p] = "unbuilt"
  /\ \A e \in reg[p] : e.id # id /\ e.tid # t
  /\ reg' = [reg EXCEPT ![p] = @ \cup {[id |-> id, tid |-> t]}]
  /\ UNCHANGED <<phase, parts>>

(* An order-keeping peer registers an unregistered type.                   *)
RegisterNext(p, t) ==
  /\ p \notin SortedPeers /\ phase[p] = "unbuilt"
  /\ t \notin RegTypes(p)
  /\ reg' = [reg EXCEPT ![p] = Append(@, t)]
  /\ UNCHANGED <<phase, parts>>

Build(p) ==
  /\ phase[p] = "unbuilt"
  /\ IF \E k \in 1 .. 3 : ConTypes[k] \in RegTypes(p)
     THEN /\ phase' = [phase EXCEPT ![p] = "err"]
          /\ UNCHANGED parts
     ELSE /\ phase' = [phase EXCEPT ![p] = "built"]
          /\ parts' = [parts EXCEPT ![p] = Expected(p)]
  /\ UNCHANGED reg

Next ==
  \E p \in Peers :
     \/ \E id \in Ids, t \in AllTypes : RegisterNamed(p, id, t)
     \/ \E t \in AllTypes : RegisterNext(p, t)
     \/ Build(p)

Spec == Init /\ [][Next]_vars
=============================================================================

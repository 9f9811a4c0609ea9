------------------------------ MODULE MsgTable ------------------------------
(***************************************************************************)
(* The message-type registry of each peer (src/src/message_table.rs,       *)
(* SortedMsgTable and MsgTable, which share the build loop).               *)
(*                                                                         *)
(* A SortedMsgTable peer registers types under identifier strings, in any *)
(* order; a MsgTable peer registers bare types.  Each then builds its      *)
(* table into MsgTableParts.  An identifier is abstracted  *)
(* to its position in the string order (a natural number); a TypeId is a  *)
(* model value.  The parts are kept as what the rest of the code reads:    *)
(* tid_map (TypeId -> MId) and the TypeId whose transport, ser and deser   *)
(* functions sit at each MId.                                              *)
(***************************************************************************)
EXTENDS Integers, Sequences, FiniteSets, TLC, Functions

CONSTANTS
  Peers,       \* the peers that must agree on MIds
  SortedPeers, \* the peers that use a SortedMsgTable (the others a MsgTable)
  Types,     \* user TypeIds
  Ids,       \* user identifier strings, as their rank (>= 0) in the string order
  ConTypes   \* <<C, R, D>>, the generic parameters of build

\* The identifiers build gives the control types ("carrier-pigeon::connection",
\* "...::response", "...::disconnect"); user identifiers are distinct from them.
ConId == <<-1, -2, -3>>
ReservedIds == {ConId[1], ConId[2], ConId[3]}
Entry == [id : Ids \cup ReservedIds, tid : Types \cup Range(ConTypes)]
\* A MsgTable entry carries no identifier.
TidEntry == [tid : Types \cup Range(ConTypes)]

VARIABLES
  table,   \* Peers -> SortedMsgTable.table (Seq(Entry)) or MsgTable.table (Seq(TidEntry))
  phase,   \* Peers -> "unbuilt", then "err" or "built": what build returned
  parts    \* Peers -> the built MsgTableParts (while phase is "built")
vars == <<table, phase, parts>>

NoParts == [tid_map |-> <<>>, at |-> <<>>]

Init ==
  /\ table = [p \in Peers |-> <<>>]
  /\ phase = [p \in Peers |-> "unbuilt"]
  /\ parts = [p \in Peers |-> NoParts]

(* SortedMsgTable::get_custom_registration: NonUniqueIdentifier, then      *)
(* TypeAlreadyRegistered, then the entry.                                  *)
RegError(tab, id, tid) ==
  CASE \E i \in DOMAIN tab : tab[i].id = id   -> "NonUniqueIdentifier"
    [] \E i \in DOMAIN tab : tab[i].tid = tid -> "TypeAlreadyRegistered"
    [] OTHER -> "none"

(* The build loop: enumerate the control entries then the table; for each  *)
(* entry tid_map.insert(tid, idx) (a later insert overwrites an earlier    *)
(* one) and push the functions.                                            *)
LastIdx(all, t) == CHOOSE i \in DOMAIN all :
                     all[i].tid = t /\ \A j \in DOMAIN all : j > i => all[j].tid # t
\* A variant of BuildParts that numbers the entries from 1.
BuildParts_FromOne(all) ==
  [tid_map |-> [t \in {all[i].tid : i \in DOMAIN all} |-> LastIdx(all, t)],
   at      |-> [m \in 0 .. Len(all) - 1 |-> all[m + 1].tid]]
BuildParts(all) ==
  [tid_map |-> [t \in {all[i].tid : i \in DOMAIN all} |-> LastIdx(all, t) - 1],
   at      |-> [m \in 0 .. Len(all) - 1 |-> all[m + 1].tid]]

(* The MsgTableParts queries.  mid_count is transports.len(); valid_mid   *)
(* compares with <=; valid_tid looks the TypeId up in tid_map.             *)
mid_count(pt) == Cardinality(DOMAIN pt.at)
valid_mid(pt, mid) == mid <= mid_count(pt)
valid_tid(pt, tid) == tid \in DOMAIN pt.tid_map

ConEntries ==
  [k \in 1 .. 3 |-> [id |-> ConId[k], tid |-> ConTypes[k]]]

(* The user identifiers are ordered by rank; a reserved identifier never   *)
(* reaches the sort.                                                       *)
IdLess(a, b) == a.id < b.id

(* Whether get_registration of C, R or D against the table fails (the ?   *)
(* in build returns the first error).                                      *)
ConRegFails(tab) ==
  \E k \in 1 .. 3 : RegError(tab, ConEntries[k].id, ConEntries[k].tid) # "none"

(* A variant of SortedBuild that leaves the table in registration order.   *)
SortedBuild_Unsorted(tab) == BuildParts(ConEntries \o tab)

(* SortedMsgTable::build once the control registrations succeeded: sort   *)
(* by identifier, then the build loop.                                     *)
SortedBuild(tab) == BuildParts(ConEntries \o SortSeq(tab, IdLess))

-----------------------------------------------------------------------------
(* SortedMsgTable::register / register_custom: push unless an error.      *)
Register(p, id, tid) ==
  /\ p \in SortedPeers /\ phase[p] = "unbuilt"
  /\ RegError(table[p], id, tid) = "none"
  /\ table' = [table EXCEPT ![p] = Append(@, [id |-> id, tid |-> tid])]
  /\ UNCHANGED <<phase, parts>>

(* A registration that fails leaves the table as it was.                   *)
RegisterFails(p, id, tid) ==
  /\ p \in SortedPeers /\ phase[p] = "unbuilt"
  /\ RegError(table[p], id, tid) # "none"
  /\ UNCHANGED vars

(* A variant of Build that ignores the error of a control registration.  *)
Build_IgnoreErr(p) ==
  /\ p \in SortedPeers /\ phase[p] = "unbuilt"
  /\ phase' = [phase EXCEPT ![p] = IF ConRegFails(table[p]) THEN "err" ELSE "built"]
  /\ parts' = [parts EXCEPT ![p] = SortedBuild(table[p])]
  /\ UNCHANGED table

(* SortedMsgTable::build, which consumes the table.                        *)
Build(p) ==
  /\ p \in SortedPeers /\ phase[p] = "unbuilt"
  /\ IF ConRegFails(table[p])
     THEN /\ phase' = [phase EXCEPT ![p] = "err"]
          /\ UNCHANGED parts
     ELSE /\ phase' = [phase EXCEPT ![p] = "built"]
          /\ parts' = [parts EXCEPT ![p] = SortedBuild(table[p])]
  /\ UNCHANGED table

(* MsgTable::register / register_custom: get_custom_registration fails    *)
(* with TypeAlreadyRegistered when the type is in the table; otherwise the *)
(* entry is pushed.                                                        *)
MsgTableRegError(tab, tid) ==
  IF \E i \in DOMAIN tab : tab[i].tid = tid THEN "TypeAlreadyRegistered" ELSE "none"

MsgTableRegister(p, tid) ==
  /\ p \notin SortedPeers /\ phase[p] = "unbuilt"
  /\ MsgTableRegError(table[p], tid) = "none"
  /\ table' = [table EXCEPT ![p] = Append(@, [tid |-> tid])]
  /\ UNCHANGED <<phase, parts>>

MsgTableRegisterFails(p, tid) ==
  /\ p \notin SortedPeers /\ phase[p] = "unbuilt"
  /\ MsgTableRegError(table[p], tid) # "none"
  /\ UNCHANGED vars

(* MsgTable::build: get_registration of C, R and D (the ? returns the     *)
(* first error), then the build loop over the control entries and the     *)
(* table in registration order.                                            *)
MsgTableBuild(p) ==
  /\ p \notin SortedPeers /\ phase[p] = "unbuilt"
  /\ IF \E k \in 1 .. 3 : MsgTableRegError(table[p], ConTypes[k]) # "none"
     THEN /\ phase' = [phase EXCEPT ![p] = "err"]
          /\ UNCHANGED parts
     ELSE /\ phase' = [phase EXCEPT ![p] = "built"]
          /\ parts' = [parts EXCEPT ![p] = BuildParts(ConEntries \o table[p])]
  /\ UNCHANGED table

(* Every peer has built: nothing is left to do.                            *)
Done ==
  /\ \A p \in Peers : phase[p] # "unbuilt"
  /\ UNCHANGED vars

Next ==
  \/ \E p \in Peers, id \in Ids, tid \in Types \cup Range(ConTypes) :
       Register(p, id, tid) \/ RegisterFails(p, id, tid)
  \/ \E p \in Peers, tid \in Types \cup Range(ConTypes) :
       MsgTableRegister(p, tid) \/ MsgTableRegisterFails(p, tid)
  \/ \E p \in Peers : Build(p) \/ MsgTableBuild(p)
  \/ Done

Spec == Init /\ [][Next]_vars

-----------------------------------------------------------------------------
Built(p) == phase[p] = "built"

TypeOK ==
  /\ \A p \in Peers : table[p] \in IF p \in SortedPeers THEN Seq(Entry) ELSE Seq(TidEntry)
  /\ phase \in [Peers -> {"unbuilt", "err", "built"}]
  /\ \A p \in Peers : ~Built(p) => parts[p] = NoParts

(* The registry each peer holds, as MsgRegistry sees it: the set of        *)
(* (identifier, type) pairs of a SortedMsgTable, the sequence of types of  *)
(* a MsgTable.                                                             *)
RegView ==
  [p \in Peers |-> IF p \in SortedPeers THEN Range(table[p])
                   ELSE [i \in DOMAIN table[p] |-> table[p][i].tid]]

Registry == INSTANCE MsgRegistry WITH reg <- RegView

(* Both tables implement the registry's promise: build fails exactly when  *)
(* a control type was registered, and otherwise every type gets the MId    *)
(* the registry defines (control types at 0-2, then user types by          *)
(* identifier rank for SortedMsgTable, by registration order for          *)
(* MsgTable), whatever order a SortedMsgTable was filled in.  Two sorted   *)
(* peers with the same registrations therefore agree on every MId          *)
(* (message_table.rs 25-42, and spec 4.2's name sort).                     *)
RegistryRefinement == Registry!Spec

(* In built parts, tid_map and the per-MId vectors describe the same       *)
(* table: the MId tid_map gives a type indexes the vectors and holds that  *)
(* type's functions; no MId is shadowed (tid_map.insert keeps the last     *)
(* index of a type, so a type pushed twice would leave an MId that         *)
(* tid_map never yields); valid_tid holds for exactly the control types    *)
(* and the types registered; mid_count counts them; and the control types  *)
(* sit at their fixed MIds 0, 1, 2 (CONNECTION_TYPE_MID,                   *)
(* RESPONSE_TYPE_MID, DISCONNECT_TYPE_MID), which get_msgs_err dispatches  *)
(* on.                                                                     *)
PartsConsistent ==
  \A p \in Peers : Built(p) =>
     LET pt == parts[p]
         registered == Range(ConTypes) \cup {table[p][i].tid : i \in DOMAIN table[p]}
     IN /\ \A t \in DOMAIN pt.tid_map :
              /\ pt.tid_map[t] \in DOMAIN pt.at
              /\ pt.at[pt.tid_map[t]] = t
        /\ \A m \in DOMAIN pt.at : pt.tid_map[pt.at[m]] = m
        /\ \A t \in Types \cup Range(ConTypes) : valid_tid(pt, t) <=> t \in registered
        /\ mid_count(pt) = Len(table[p]) + 3
        /\ \A k \in 1 .. 3 : pt.tid_map[ConTypes[k]] = k - 1
=============================================================================

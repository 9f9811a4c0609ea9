---------------------------- MODULE ConnectionList ----------------------------
(***************************************************************************)
(* The server's connection directory (src/src/connection/mod.rs, struct    *)
(* ConnectionList): the CId counter, the CId <-> SocketAddr DoubleHashMap  *)
(* and the queue of pending connections.                                   *)
(*                                                                         *)
(* The callers are the server's connection code, which is not part of the *)
(* sources; following spec section 4.7 it calls new_pending for every      *)
(* Connection message that arrives (a client resends its Connection        *)
(* message until it is acknowledged, so one address can send it several   *)
(* times), and the application accepts or rejects pending connections in  *)
(* queue order and disconnects connected ones.  DoubleHashMap (util, not   *)
(* part of the sources) is modelled from its use: insert fails when either *)
(* key is present, remove takes out both directions.                       *)
(***************************************************************************)
EXTENDS Naturals, Sequences, FiniteSets, SequencesExt

CONSTANTS
  Addrs,           \* client socket addresses
  CidMod,          \* 2^32: CId is a u32
  OverflowChecks,  \* TRUE: debug build (u32 overflow panics); FALSE: release
  MaxPending,      \* bound on the pending queue
  MaxNew           \* bound on the new_pending calls

ASSUME CidMod \in Nat \ {0, 1} /\ OverflowChecks \in BOOLEAN

CId == 0 .. CidMod - 1

VARIABLES
  current_cid,  \* ConnectionList.current_cid
  cid_addr,     \* the DoubleHashMap, as a set of [cid, addr] pairs
  pending,      \* pending_connections (the connection message is left out)
  panicked,     \* a u32 overflow panicked the server
  issued        \* the CIds new_pending handed out, in order (ghost)
vars == <<current_cid, cid_addr, pending, panicked, issued>>

Cids(dir) == {e.cid : e \in dir}
AddrsIn(dir) == {e.addr : e \in dir}

(* ConnectionList::new *)
Init ==
  /\ current_cid = 1
  /\ cid_addr = {}
  /\ pending = <<>>
  /\ panicked = FALSE
  /\ issued = <<>>

(* A variant of NewPending whose overflow test is one step late.           *)
NewPending_LateOverflow(addr) ==
  /\ ~panicked
  /\ Len(pending) < MaxPending /\ Len(issued) < MaxNew
  /\ IF OverflowChecks /\ current_cid + 1 > CidMod
     THEN /\ panicked' = TRUE
          /\ UNCHANGED <<current_cid, cid_addr, pending, issued>>
     ELSE /\ current_cid' = IF OverflowChecks THEN current_cid + 1
                            ELSE (current_cid + 1) % CidMod
          /\ pending' = Append(pending, [cid |-> current_cid, addr |-> addr])
          /\ issued' = Append(issued, current_cid)
          /\ UNCHANGED <<cid_addr, panicked>>

(* ConnectionList::new_pending(addr, _): take current_cid, increment it    *)
(* (u32 +=), queue the entry, return Ok(cid).  There is no check of addr.  *)
NewPending(addr) ==
  /\ ~panicked
  /\ Len(pending) < MaxPending /\ Len(issued) < MaxNew
  /\ IF OverflowChecks /\ current_cid + 1 >= CidMod
     THEN /\ panicked' = TRUE
          /\ UNCHANGED <<current_cid, cid_addr, pending, issued>>
     ELSE /\ current_cid' = (current_cid + 1) % CidMod
          /\ pending' = Append(pending, [cid |-> current_cid, addr |-> addr])
          /\ issued' = Append(issued, current_cid)
          /\ UNCHANGED <<cid_addr, panicked>>

(* ConnectionList::new_connection: DoubleHashMap::insert fails with        *)
(* AlreadyConnected when cid or addr is present, and then changes nothing. *)
NewConnection(dir, cid, addr) ==
  IF cid \in Cids(dir) \/ addr \in AddrsIn(dir) THEN dir
  ELSE dir \cup {[cid |-> cid, addr |-> addr]}

(* get_pending, then accepting: new_connection(cid, addr).                 *)
Accept ==
  /\ ~panicked
  /\ pending # <<>>
  /\ cid_addr' = NewConnection(cid_addr, Head(pending).cid, Head(pending).addr)
  /\ pending' = Tail(pending)
  /\ UNCHANGED <<current_cid, panicked, issued>>

(* get_pending, then rejecting: the entry is dropped.                      *)
Reject ==
  /\ ~panicked
  /\ pending # <<>>
  /\ pending' = Tail(pending)
  /\ UNCHANGED <<current_cid, cid_addr, panicked, issued>>

(* ConnectionList::remove_connection / disconnect: both directions of the  *)
(* map go (remove_connection first returns NotConnected for an unknown     *)
(* cid, which changes nothing either).                                     *)
RemoveConnection(cid) ==
  /\ ~panicked
  /\ cid \in Cids(cid_addr)
  /\ cid_addr' = {e \in cid_addr : e.cid # cid}
  /\ UNCHANGED <<current_cid, pending, panicked, issued>>

(* The server has panicked, or every bound is reached with nothing left.   *)
Stopped ==
  /\ panicked \/ (Len(issued) = MaxNew /\ pending = <<>>)
  /\ UNCHANGED vars

Next ==
  \/ \E addr \in Addrs : NewPending(addr)
  \/ Accept
  \/ Reject
  \/ \E cid \in Cids(cid_addr) : RemoveConnection(cid)
  \/ Stopped

Spec == Init /\ [][Next]_vars

-----------------------------------------------------------------------------
(* net.rs CIdSpec: All, None, Except(cid) or Only(cid), the way the server *)
(* names the connections an operation applies to.                          *)
CIdSpecs(cids) == {[kind |-> "All"], [kind |-> "None"]}
                    \cup [kind : {"Except", "Only"}, cid : cids]

(* CIdSpec::matches *)
Matches(spec, cid) ==
  CASE spec.kind = "All"    -> TRUE
    [] spec.kind = "None"   -> FALSE
    [] spec.kind = "Except" -> cid # spec.cid
    [] spec.kind = "Only"   -> cid = spec.cid

\* A variant of Overlaps with the Only/Except arms inverted.
Overlaps_OnlyExceptEq(a, b) ==
  IF "None" \in {a.kind, b.kind} THEN FALSE
  ELSE CASE "All" \in {a.kind, b.kind}          -> TRUE
         [] a.kind = "Except" /\ b.kind = "Except" -> TRUE
         [] a.kind = "Only" /\ b.kind = "Only"     -> a.cid = b.cid
         [] OTHER                                 -> a.cid = b.cid

(* CIdSpec::overlaps: the match arms in order (None first, then All).      *)
Overlaps(a, b) ==
  IF "None" \in {a.kind, b.kind} THEN FALSE
  ELSE CASE "All" \in {a.kind, b.kind}          -> TRUE
         [] a.kind = "Except" /\ b.kind = "Except" -> TRUE
         [] a.kind = "Only" /\ b.kind = "Only"     -> a.cid = b.cid
         [] OTHER                                 -> a.cid # b.cid

-----------------------------------------------------------------------------
TypeOK ==
  /\ current_cid \in CId
  /\ cid_addr \subseteq [cid : CId, addr : Addrs]
  /\ pending \in Seq([cid : CId, addr : Addrs])
  /\ panicked \in BOOLEAN
  /\ issued \in Seq(CId)

(* new_pending refuses an address that is already connected: no step      *)
(* appends to the pending queue an entry whose address the directory holds *)
(* at that moment (new_pending's doc comment: "Returns an error if the     *)
(* address is already connected").  A client's Connection message resent  *)
(* after the server accepted it would otherwise be queued again.           *)
NewPendingRejectsConnected ==
  [][Len(issued') > Len(issued) => Last(pending').addr \notin AddrsIn(cid_addr)]_vars

(* CIdSpec::overlaps is what its doc comment says, "shares at least one    *)
(* common CId": for any two specs naming CIds new_pending handed out, it  *)
(* holds exactly when some CId of the whole u32 space matches both.  Two   *)
(* Except specs overlap only because the space has more than two CIds.     *)
OverlapsAgrees ==
  \A a, b \in CIdSpecs(ToSet(issued)) :
     Overlaps(a, b) = \E c \in CId : Matches(a, c) /\ Matches(b, c)
=============================================================================

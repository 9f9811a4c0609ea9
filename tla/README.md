# TLA+ models of carrier_pigeon's connection layer

These modules model the connection layer of carrier_pigeon: the ack window, the client
connection state machine, the message-type registry, the wire header and the server's
connection directory. TLC checks them. `PROJECT.json` lists every component, run, mutant,
finding and hazard. It also maps each definition to the source lines it translates.

Run any check from this directory:

    tlc -workers 2 -config <run>.cfg <module>

## 1. The system and how its parts interact

| Part | Source | State | Operations |
|---|---|---|---|
| AckSystem | `src/src/connection/ack_system.rs` | outgoing_counter, ack_offset, current_idx, a VecDeque of 32-bit bitfields with send counts, a residual Vec, saved reliable messages | new, mark_received, mark_bitfield, next_header, ack_msg_info, outgoing_ack_num, save_msg, get_resend |
| ClientConnection | `src/src/connection/client_connection.rs` | status (net.rs `Status`), `Option<transport>`, ReliableSystem, ping system, message buffers | connect, disconnect, send, tick (clear, send_ack_msg, send_ping, resend_reliable, get_msgs, update_status), handle_status |
| Wire header | `src/src/net.rs` MsgHeader | none (a 12-byte codec) | to_be_bytes, from_be_bytes |
| Message registry | `src/src/message_table.rs` | the table of (identifier, TypeId, functions) or of (TypeId, functions) | register, register_custom, build, for SortedMsgTable and MsgTable |
| ConnectionList | `src/src/connection/mod.rs` | CId counter, CId <-> address map, pending queue | new_pending, get_pending, new_connection, remove_connection, disconnect |
| Server connection, ReliableSystem, ordering, ping, transports | not under `src/` | | modelled from the spec where needed (marked `spec_modelled`) |

How they interact:
- Every datagram carries a header with:
  - the sender's AckNum;
  - an (ack_offset, bitfield) pair from the sender's `next_header`.
- On receipt, `push_received` calls:
  - `mark_received` for the AckNum;
  - `mark_bitfield` for the pair, which drops the sender's own saved messages that the peer acknowledged.
- The client sends its Connection message reliably. It reaches `Connected` only through a Response the server sends after accepting. The server keeps one directory entry per connected address.
- The whole engine runs on a single thread (spec 5). The concurrency that matters is therefore between two endpoints and the network, which loses, duplicates, reorders and delays datagrams. The models show it that way.

## 2. Modules

- **AckSystem** defines no variables. It holds operators, one per AckSystem method, each mapping a state record to a state record:
  - `MarkReceived` is the sliding while-loop (`Slide`, RECURSIVE, with a turn bound that detects a loop that never ends), followed by the residual / bit placement.
  - `NextHeader`, `AckMsgInfo`, `OutgoingAckNum`, `MarkBitfield` and `SaveMsg` follow the code line for line.
  - u16 arithmetic is `% AckMod`. `OverflowChecks` selects the build: debug panics on overflow (a terminal `fault`), release wraps.
  - `BITFIELD_WIDTH` is the constant `W`.
  - A bitfield is the set of its set bit positions.
  - `send_count` only counts up and is only compared with `SEND_ACK_THRESHOLD`, so it is saturated there.
- **AckUnit** drives one AckSystem with exactly the calls ClientConnection makes:
  - `Send(t, serOk)` is `send()`: get_send_header, the message's ser_fn, then save. When ser_fn fails (`serOk` FALSE) the `?` returns after the header took its AckNum and bumped a send_count, and nothing is saved or sent;
  - `SendAckMsg` is `send_ack_msg()`;
  - `Receive` is `push_received`.
  - The peer is arbitrary: any AckNum from `Incoming`, any ack pair, in any order and any number of times.
  - History variables record what mark_received accepted (`marked`), what later left the window (`retired`) and whose acknowledgement went out in a header pair or an ack message (`advertised`, via `PairAcks` and `MsgAcks`). No action reads them. The `ack_unit` cfg fingerprints states by `AckView`, which leaves out `advertised`, since none of its properties mention it.
- **Link** runs two AckSystems exchanging datagrams over a lossy, reordering network:
  - `Resend` is resend_reliable over `GetResend` (get_resend). The 1000 ms timer is abstracted to "at any time".
  - Ghost `sent` and `got` relate what one side forgets to what the other received.
- **ClientConnection** models the client's status machine:
  - `Conn` is a record, so one public call can be the chain of the steps it makes: `SendMsg`, `StatusErr`, `Drain` (the get_msgs loop, RECURSIVE).
  - A send has an outcome: ok, a serializer error (Err, nothing sent) or a transport error (the status is changed by status_err but Ok is returned).
  - A datagram is one of the kinds get_msgs_err tells apart.
  - A panic is the terminal `panicked`, with `Aborted` as its stutter step.
  - The guards are net.rs's `is_not_connected`, `is_connecting` and `is_connected`, as in the code.
- **ClientStatus** is the abstract connection state machine of spec 4.6: connect, a Response, disconnect, the peer's Disconnect, a transport error, the roll-over to the next status, and the disconnect being acknowledged. connect and disconnect whose send fails are single steps, as the spec describes them inside one call. ClientConnection refines it: `StatusMachine == INSTANCE ClientStatus WITH st <- status`, with `StatusRefinement == StatusMachine!Spec` checked as a PROPERTY.
- **Handshake** composes ClientConnection with the server's session for this client (spec 4.7, spec_modelled):
  - the server side is pending, accept, reject, resend of the accepted Response until the client's ack arrives (`srv_unacked`), disconnect and ping;
  - the client marks the accepted Response in get_msgs (`cli_marked`, reset by connect's new ReliableSystem), and a later tick whose sends did not fail may carry the ack back;
  - two lossy channels connect the sides;
  - `cli_saved` holds the client's saved reliable control messages (con, discon), which resend_reliable sends again.
- **MsgTable** models two peers, one per table kind (`SortedPeers` says which):
  - a SortedMsgTable peer: register with its two error checks, and build with the control registrations, the sort by identifier and the build loop (`tid_map.insert` overwrites);
  - a MsgTable peer: register with its TypeAlreadyRegistered check (`MsgTableRegister`, `MsgTableRegisterFails`), and build, whose control registrations fail if C, R or D was registered (`MsgTableBuild`);
  - an identifier is abstracted to its rank in the string order;
  - the MsgTableParts queries `mid_count`, `valid_mid` and `valid_tid` are operators over the built parts.
- **MsgRegistry** is the abstract registry: what the doc comments promise (and spec 4.2's name sort; the spec's six control slots 1-6 are not the code's three at 0-2), with no sort and no loop. A sorted peer holds a set of (identifier, type) pairs, and a type's MId is 3 plus the number of identifiers that sort before its own. An order-keeping peer holds a sequence, and the i-th type gets MId 3 + i - 1. The control types get 0-2. Registering a control type makes build fail. MsgTable refines it: `Registry == INSTANCE MsgRegistry WITH reg <- RegView`, where `RegView` forgets the order of a SortedMsgTable's entries. `RegistryRefinement == Registry!Spec` is checked as a PROPERTY.
- **HeaderCodec** covers to_be_bytes / from_be_bytes with integer byte arithmetic (RECURSIVE `FromBe`), and get_msgs_err's `HEADER_SIZE` check on a datagram cut to any length.
- **ConnectionList** covers the directory:
  - The CId counter is a u32 (`CidMod`, debug or release).
  - The DoubleHashMap is a set of pairs whose insert fails when either key exists.
  - The callers follow spec 4.7: every arriving Connection message is passed to new_pending, and the application accepts or rejects in queue order.
  - net.rs's CIdSpec (`CIdSpecs`, `Matches`, `Overlaps`) names the connections an operation applies to. It is checked against its doc comment over the CIds the directory hands out.

MC modules (`MCAckUnit`, `MCLink`, `MCMsgTable`, `MCHeaderCodec`, `MCConnectionList`) give the model values and the small sets the cfgs use.

## 3. Runs and what they show

Passing runs. Every property has a mutant in `PROJECT.json`: a plausible bug in the mapped code that TLC catches.

| Run | Checks | Shows |
|---|---|---|
| `ack_unit` | TypeOK, AckCoverage | Before the wrap, with sends whose ser_fn may fail and any order of the peer's AckNums (up to the first panic), every AckNum mark_received accepted is still set at its position in the window, in the residual, or gone with an evicted bitfield. |
| `handshake` | LiveStatusHasTransport, StatusRefinement | Against a server session, loss, failing sends and stray datagrams: every status change, including several in one tick, is a transition of the spec 4.6 state machine, and Connecting/Accepted/Connected always have an open transport. |
| `msg_table` | TypeOK, PartsConsistent, RegistryRefinement | Every step of either table kind is a step of the abstract registry (or a stutter). Every build, in any registration order and after any registration errors, gives exactly the MIds the registry defines. tid_map and the per-MId vectors are inverse (no MId is shadowed by tid_map's overwriting insert), valid_tid holds for exactly the registered and control types, mid_count is their number, and the control types sit at MIds 0-2. |
| `header_codec` | TypeOK, RoundTrip | Any decoded header equals the encoded one at the edges of the u16 and u32 ranges. A datagram shorter than 12 bytes is never decoded. |
| `conn_list` | TypeOK, OverlapsAgrees | With duplicate Connection messages and the CId counter reaching its top in a debug build, CIdSpec::overlaps holds exactly when some CId matches both specs. |

Violation runs (findings; `PROJECT.json` gives each one's source line):

| Run | Property | What TLC finds |
|---|---|---|
| `ack_late_mark` | NoPanic | Receive 2, then 0. The window has slid, and `num - ack_offset` underflows (ack_system.rs:86). A debug build panics; in release the wrapped difference gives a bitfield index far past the deque (2047 in the code), which panics too. |
| `ack_wrap` | NoHang | Release build: an AckNum near the top of the u16 range keeps the slide-loop guard true forever (ack_system.rs:70). In the code, any num >= 65504 does this. |
| `ack_evict_unsent` | AckedBeforeEvicted | Two sends advertise the empty front bitfield through next_header (send_count 2); one ack message does the same through ack_msg_info and its own header. AckNum 0 arrives, then AckNum 2 (32 in the code) slides the window and evicts that field. 0's acknowledgement was never sent (ack_system.rs:74): send_count counts advertisements made before the bit was set. No header of this side can ack 0 any more, and a resent copy of 0 goes to the residual, which no code under `src/` sends. A send whose ser_fn fails bumps send_count the same way with no datagram at all (client_connection.rs:135). |
| `link_false_ack` | NoFalseAck | next_header sends the front ack_offset with an older bitfield (ack_system.rs:117). The peer drops a reliable message the other side never received, so it is never resent. |
| `client_bad_mtype` | NoPanic | One datagram with an unknown MType indexes `deser` out of bounds (client_connection.rs:244-259). |
| `handshake_discon_stuck` | DisconnectCompletes | With fair ticks and a fair network, Disconnecting is never left: update_status is empty (client_connection.rs:363-367). |
| `conn_dup_pending` | NewPendingRejectsConnected | new_pending(A2), the application accepts it, then A2's Connection message arrives again and new_pending queues it a second time while A2 is connected. new_pending never checks the address, contrary to its doc comment (mod.rs:55). |

## 4. Bounds and why they are enough

- **AckUnit / Link.**
  - `W = 2` in place of 32. The window logic depends only on positions relative to multiples of W.
  - `AckMod = 16` (or 8) in place of 65536, with `AckMod % W = 0` as in the code.
  - `ack_unit`:
    - `Incoming = 0..5` and `MaxSend = 4` span three bitfields, so the window slides twice;
    - a bitfield is evicted and one is kept;
    - the residual is used (`MaxResidual = 2`);
    - offsets 0 and 2 exercise mark_bitfield on both the front and an older field.
  - AckUnit's `Stopped` step and ClientConnection's `Aborted` step are the ends the bounds and a panic impose. No run relies on CHECK_DEADLOCK FALSE except `link_false_ack`, whose bounded sends end in a state with nothing left to do.
- **ClientConnection / Handshake.**
  - `MaxBatch = 2` datagrams per get_msgs call. This is enough for a reply whose send fails to close the transport before the second datagram is read.
  - Every send outcome is enumerated. `client_bad_mtype` enumerates every datagram kind get_msgs_err tells apart. `handshake` leaves out the undecodable ("garbage") and unregistered-type ("other") datagrams, which RecvOne ignores, to keep its liveness check within minutes.
  - tick's three pre-sends (send_ack_msg, send_ping, resend_reliable) are collapsed into the outcomes that differ (`PreSends`): nothing happened, the saved messages were resent, or a send failed and closed the transport.
- **MsgTable.** One sorted and one order-keeping peer, two user types and two identifiers. This gives both registration orders, every registration error of both kinds, and a control type registered by the user (which makes build fail).
- **HeaderCodec.** The u16 samples are 0, 255, 258 and 65535. The u32 samples are 0, 0x01020304 and 2^31-1. TLC's integers are 32-bit signed, so ack_bits with the top bit set is not sampled.
- **ConnectionList.** Two addresses, a queue of 2 and a CId space of 6, so the counter reaches its top within the 6 new_pending calls.

## 5. Fairness

`handshake_discon_stuck` checks liveness under `HSpec`:
- `WF` on the client tick: the application calls tick() every frame (spec 4.6, 5).
- `WF` on the server resending its accepted Response while it is unacknowledged: the server's ReliableSystem resends an unacknowledged reliable message every 1000 ms (spec 4.4), and stops once the ack arrives.
- `SF` on the server session receiving each kind of client message, and on a tick draining the accepted Response (`CliRecv("accept")`). Both messages are sent again and again, and the network is assumed not to lose one forever (fair loss).

The application's accept/reject decision and the server's own disconnect carry no fairness. The application controls them.

## 6. Not modelled, and why

- disconnect's overwrite of Dropped (client_connection.rs:102) is stated by `DisconnectKeepsTransport` in ClientConnection and listed as a hazard. No run checks it: the client it affects is stuck in Disconnecting anyway (`handshake_discon_stuck`).
- The message buffers and recv/try_recv: no status or ack state depends on them. The double push of a user message (client_connection.rs:296 and 309) is listed as a hazard.
- The ping system's RTT filter and the ordering system are not under `src/`. Ping requests appear only as datagrams that make the client send a reply.
- The remaining `is_*`, `unwrap_*` and Display methods of Status only read it. ClientConfig and ServerConfig are empty. ErasedNetMsg and NetMsg are the message buffers' payloads.
- Eventual completion of an accepted connection attempt is not checked. Once the server stops resending an acknowledged accept, the only fairness that would give it is delivery of the one Response, which assumes the conclusion. A client that reconnects after an acknowledged accept gets no Response at all from the modelled server. The server is not under `src/`, so no run states either.
- The release-build wrap of the CId counter (mod.rs:62) is listed as a hazard. Only the debug build is run, where the counter panics at its top.
- `mark_outgoing` has no caller. `get_resend`'s timer is abstracted to "any time".
- valid_mid's off-by-one (message_table.rs:373) is listed as a hazard with no property. valid_mid is an operator of MsgTable, but nothing under `src/` calls it, and a property of it alone would restate its `<=`.
- connect() whose Connection message fails to serialize stays Connecting with nothing to resend (client_connection.rs:84). Handshake reaches that state (`CliConnect("ser_err")`). A run showing the client stuck would need fairness on the application's accept/reject decision, which the code does not impose. It is listed as a hazard.
- save_msg's overwrite after an AckNum wrap (ack_system.rs:162) needs 65536 outstanding messages. The AckUnit and Link bounds stay below the wrap, and a wrap instance needs a send counter separate from the wrapping AckNum.

## 7. Plan for the next steps

1. A wrap run of Link (AckMod 8, release) for save_msg's overwrite at ack_system.rs:162.
2. A server-side composition: ConnectionList inside a server session per client, so the stale Response and duplicate Connection hazards are checked end to end.
3. An abstract reliable-delivery specification (every reliable message the sender forgets was received), with Link shown to implement it by a refinement mapping. The AckSystem bugs above mean that check fails today. Link's ack liveness (a reliable message resent forever once its AckMsgs were lost, client_connection.rs:164) belongs with it.
4. The ReliableSystem / OrderingSystem from spec 4.4-4.5 (spec_modelled), with ordering properties.

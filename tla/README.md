# A verification project for EasyTier-Edge

TLA+ models of the relay under `src/cloudflare`, the TLC runs that check small
instances of them, and proofs for instances of any size. File names below are
relative to `src/cloudflare/`.

## 1. Inventory

EasyTier peers open WebSockets to a Cloudflare Worker (`src/index.ts`), which
hands every upgrade to one durable object, `EasyTierServer` (`src/server.ts`).
All state is in the memory of that object. It handles one event at a time: a
message, a close, a timer. No handler awaits anything, so there are no races
inside an event; what is hard is that an event is large (a failed send closes
its receiver, which broadcasts, which may fail again), that four registries must
agree after each, and that peers, with several sockets open at once, slow
answers and restarts, see the server's steps in many orders.

| Component | State | Operations | What makes it correct |
|---|---|---|---|
| Connection life cycle: `src/server.ts`, `src/runtime/connection.ts` | phase, identity, key, handshake timer of each connection; connection map; maintenance timer | `fetch`, message 1, message 3, ready packets, `registerConnection`, `removeConnection`, `close`, broadcast, timers | every registry agrees with the phases; a replaced connection never unregisters its successor; timers match what they are for; handshakes end |
| Room registry: `src/runtime/rooms.ts` | network → peer id → connection | `get`, `set`, `delete`, `peers` | exactly the ready connections, one per peer |
| Session store and `SecurePeer`: `wasm/src/secure.rs` | per peer: root key, epoch, counters, receive slots, bound key, attachments; a working copy in each `SecurePeer` | `upsert_session` (Create / Sync / Join), attach, load, persist, seal, open, drop | no nonce twice, attachments exact, sessions live while used, both ends hold the same root key |
| Replay windows: `wasm/src/secure.rs` | bitmap of 256 sequence numbers per receive slot; four slots | `can_accept`, `accept`, `precheck_replay`, `commit_replay`, `evict_old_rx_slots`, Sync | each packet delivered once while it is remembered, none dropped without cause |
| Route state: `wasm/src/route_state.rs` | peers, their information, topology version; per peer what it has acknowledged | `add_peer`, `remove_peer`, request, acknowledgement, building an update | an update leaves out only what its receiver has |
| Route transactions: `src/core/rpc.ts`, `wasm/src/rpc.rs` | `inFlight`, `dirty`, `forceFull`, `sentAt`; outstanding transactions with deadlines | `sendRouteUpdate`, `flushRouteUpdate`, `handleResponse`, `cleanExpired`, `maintainPeer` | one transaction at a time; nothing that waits is forgotten |
| RPC fragments: `wasm/src/rpc.rs` | pending merges, global piece and byte counts | `merge_packet`, `clean_pending`, `remove_pending` | counts equal what is held; limits respected; nothing joined late |
| PeerCenter: `wasm/src/peer_center.rs` | reports of each peer with their times, digest | report, poll, departure, expiry | digest and map agree; nothing of a removed peer stays |
| Frames and forwarding: `wasm/src/packet.rs`, `src/core/packet.ts`, `handleReadyPacket` | none; hop counter in the frame | parse, forward, Ping, RPC | hop limit, networks apart, only the one at fault is closed |
| Send window: `src/runtime/connection.ts` | bytes and frames of the present second | `sendConnection` | limits per window, no refusal of a quiet peer |
| Entry and configuration: `src/index.ts`, `src/core/config.ts`, `src/runtime/messages.ts` | configuration read by the object's constructor | `/healthz`, upgrade, `readServerConfig`, checks of messages 1 and 3 | the rooms are those configured; the health check speaks for the relay |

Interaction: `handleMessage` calls the `SecurePeer` of the connection during the
handshake; `registerConnection` and `removeConnection` call the room registry
and `EasyTierRpc.addPeer` / `removePeer`, which call the route state; route
requests and answers go through `EasyTierRpc` into the route state and come back
as updates, each sealed by the receiver's `SecurePeer` and sent on its socket;
any failure on the way closes the connection it happened on. The session store
is shared by all `SecurePeer` objects of a peer.

`PROJECT.json` lists the hazards of this code, each at its line, with the
properties that cover it or the reason why none does yet.

## 2. Modules

| Module | Models | Proofs | TLC |
|---|---|---|---|
| `Relay` | connection life cycle, rooms, authenticated keys, attachment side of the session store: all registries of the server under every event | `RelayProofs` | `MCRelay` |
| `Directory` | what the server promises about presence; implemented by `Relay` | `RelayProofs` | `MCRelay` |
| `Broadcast` | the cascade of broadcasts and closes, call by call | `BroadcastProofs` | `MCBroadcast` |
| `Forwarding` | the frames of ready connections | `ForwardingProofs` | `MCForwarding` |
| `SendWindow` | the limits of `sendConnection` | `WindowProofs` | `MCSendWindow` |
| `Admission` | configuration, deployment, health check, upgrade, and what the handshake takes from the configuration | `RelayProofs` | `MCAdmission` |
| `SecureSession` | one session of the store, the `SecurePeer`s of its sockets, and the peer: keys, nonces, epochs | `SecureSessionProofs` | `MCSecureSession` |
| `Windows` | `ReplayWindow256` on its bytes and bits | `WindowProofs` | `MCReceive` |
| `Receive` | the receive slots that hold such windows | `WindowProofs` | `MCReceive` |
| `RouteSync` | route state and route transactions of one network with its clients | `RouteSyncProofs` | `MCRouteSync` |
| `RpcMerge` | reassembly of fragmented RPC packets | `RpcMergeProofs` | `MCRpcMerge` |
| `PeerCenter` | the reports of one network and their digest | `PeerCenterProofs` | `MCPeerCenter` |

Each module has, after its `Init`, a section of faulty variants: definitions
with the slip a change to the code might make. No specification uses them;
`PROJECT.json` says which property notices which.

How the modules fit together. `Relay` treats an event of the durable object as
one step and closes any set of connections its failing sends may reach;
`Broadcast` is the inside of that step. `Relay` calls the route core with
additions and removals; `RouteSync`, `RpcMerge` and `PeerCenter` start from
exactly these calls (`Join`, `Leave` and the like, for peers with a ready
connection). `Forwarding` is what a registered connection's frames do, where a
send that fails is one of a set `failing`; `SendWindow` says when the limits
make it fail. `SecureSession` and `Receive` look inside one session of `Relay`'s
store, one at keys and counters, one at what is received. `Admission` is what
comes before `Relay`. They share no variables, so each can be checked at a size
at which its own cases happen.

### Relay

One action is one event of the durable object. A member of `Conns` is a slot
that a `Connection` object occupies. `phase`, `ident`, `remoteKey` and
`handshakeTimer` are fields of `Connection`; `connections`, `rooms` and
`maintenanceTimer` are fields of `EasyTierServer`; `peerKeys` is
`authenticated_peer_keys`; `sessions`, `boundKey` and `attachments` are the
parts of `SESSION_STORE` that connections depend on.

A send may fail at any time. The set `F` of an action is the set of connections
that a cascade of failing sends has closed: the code closes them recursively, in
the middle of the loops over the rooms, and `F` ranges over all sets of ready
connections the cascade can reach. The end state depends on the set only, which
is why the order inside a cascade is not modelled.

| Action | Code |
|---|---|
| `Fetch` | `fetch`, `createConnection`, `scheduleMaintenance` |
| `Msg1Accept`, `Msg1Unsent`, `Msg1Refused` | `handleHandshakeMessage1` with `build_msg2`, `upsert_session`, `attach_session`, and the two ways it fails after it has changed the store |
| `HandshakeFails`, `HandshakeTimeout` | `failConnection`, `close`, the 4408 timer |
| `Msg3Accept` | `handleHandshakeMessage3`: `confirm_session_public_key`, `registerConnection` (with the close of the replaced connection and its broadcast), `completeHandshake`, broadcast |
| `ReadyEnds`, `ForwardRejected`, `RouteChanged`, `MaintenanceTick` | the ways a ready connection ends: its own error or close, a rejected forward, a failed broadcast, a failed retry or refresh |

Time is abstract: an unattached session may be idle at any time
(`SESSION_IDLE_MS`), a timer may fire at any time while it is armed.

### SecureSession

All sockets of one peer of one network, so one `SessionKey`. `session` is the
`StoredSession`, `copy[c]` what the `SecurePeer` of socket `c` holds. The peer
is modelled as far as the protocol involves it: it names its session generation
in message 1, takes a root key from message 2 and seals packets in some epoch.
One direction of sending and one of receiving are used by the code, so one
counter and one pair of slots remain. Epochs wrap as a `u32` does (`Following`),
at `MaxEpoch`, and the peer may seal its packets in any of them. `sealed`,
`reused`, `wrapped` and `packets` are history: `wrapped` holds the root keys
whose epochs have come round to 0 again, in a rotation or in a Sync. The
properties about nonces and epochs hold for a root key until then. The windows
inside a slot are `Receive`'s. Noise and AEAD are taken to work: message
3 verifies if the peer has read message 2, and a packet opens if both ends hold
the same root key. Slots may be evicted at any time before a packet is opened.
`LosesRoots` says whether a message 2 that carries a root key may be lost; one
that carries none always may.

### RouteSync

One network. `info`, `topology`, `session` are `RouteGroupData`; `sync` is
`routeSyncStates`; `out` the outstanding transactions; `down` and `up` the
frames on the WebSockets, in order and without loss as long as the connection
lasts; `own` and `know` belong to the clients. Two times matter. `overdue` says
that the 3 s of a transaction are over: `ROUTE_SYNC_TIMEOUT_MS` and
`ROUTE_RPC_TIMEOUT_MS` start at the same moment and are equal, so one flag
serves both. A saved version may turn out to be older than
`SAVED_ROUTE_VERSION_TTL_MS` whenever an update is built (`MayBeOld`): the model
allows this for every saved version at every time, which includes all the times
the code allows.

`Reconnect` is the whole of `registerConnection` for a peer that is present: its
removal with the broadcast of topology version `t + 1`, then its addition with
the broadcast of `t + 2`. A send that fails is a `Leave` of its receiver. The
clients are external: a client publishes its information when the server lacks
it or when it changes, answers updates or drops them, and may come back as a new
instance whose versions start again. `Request` has a branch for an instance that
changes without a new connection (`swapped`) and one for a session that changes
without new information; the clients of the model do neither.

### Broadcast

`stack` is the call stack of the one thread. An event (`Join`, `Reconnect`,
`Leave`, `RouteRequest`, `Response`, `Maintenance`, ...) pushes calls when the
stack is empty; `BroadcastStep`, `ArriveStep`, `CleanStep`, `CloseStep` and
`MaintainStep` do the next step of the call on top. A loop over a JavaScript
`Map` visits whatever is in the map when it gets there; `done` and `todo` are
the entries visited and those of a copy still to be looked at. Every send
succeeds, finds the update cannot be built (`flushRouteUpdate` has cleared its
flags by then, `rpc.ts:147`), or fails on the socket, by choice. What an update
says is left to `RouteSync`: `behind` holds the peers to whom something remains
to be sent.

### Forwarding

A frame is a record: header, who made it (`author`), who has it (`holder`) and
where it is. Clients make frames with any header, pass them among themselves,
and send them to the relay again after the relay has delivered them. `Handle` is
`handleMessage` for a ready connection: a frame that is malformed, wrongly
sealed or over the hop limit closes its sender; one for a peer that is not there
is dropped; one that the target cannot take closes the target. `F` is the set a
broadcast's failing sends close along the way, as in `Relay`. `passes` is
history.

### SendWindow

`elapsed`, `sentBytes` and `sentFrames` are the fields of `Connection`. The code
resets a window when a send comes after its end, and does not move it;
`recentBytes` and `recentFrames` keep what was sent in the last `k` steps of the
clock, for every `k` up to `Window`, for the properties only.

### Admission

An environment is what the bindings of the worker can hold: keys that are
missing, undecodable, zero, mismatched or a pair; the parsed
`EASYTIER_NETWORKS`; a frame limit; a hostname. The worker sees a deployment at
once (`env`), the durable object keeps the configuration its constructor has
read until it is evicted (`relay`). `Rooms` is the loop of `readServerConfig`
with its early throws. `Msg1` and `Msg3` hold the checks of both languages,
`NoiseAccepts` in Rust and `Parses` in TypeScript. A configured name is a
JavaScript string (`Names`) and a name in message 1 a UTF-8 text (`Texts`);
`Encoded` and `Decoded` are the conversions. `TextEncoder` puts U+FFFD in the
place of an unpaired surrogate, so the string of such a name is not that of any
text: it is measured and accepted, and no client can join its room, which is the
one difference that `RoomsJoinable` admits. The specification is
`AdmSpec`, with `AdmInit` and `AdmNext`, so that one module of proofs can extend
`Relay` too.

### Windows and Receive

`Windows` translates the shifts of `shift_right` byte by byte and bit by bit,
with the cast of the distance to a 32-bit `usize`. `Receive` composes it with
the current and previous slot and the two that Sync puts aside: `Deliver` and
`Reject` are `decrypt_payload` for a packet that opens, `Garbled` for one that
does not (the window is consulted before and written after decryption), and
`Aged` evicts. The peer seals, rotates and is sent through Sync; it goes from one
epoch to the next and does not jump, as it could. `heard`, `known`, `evicted`,
`again` and `lost` are history: `known` is what was delivered and has not been
forgotten. Two things forget. An eviction leaves the epochs of the grace slots
and those up to the current slot's; what it took the slot of (`evicted`) is then
known by the order of epochs only, until the next Sync removes the current slot.
When the current slot goes idle (30 s without a packet) and no grace is left,
`precheck_replay` accepts everything. And a Sync overwrites the grace slots of
the one before (`Overwritten`), if that was less than `SYNC_RX_GRACE_AFTER_MS`
ago. What the current and the previous slot have recorded is kept by every Sync.
Each exception is needed: without it TLC finds a packet delivered twice. `Timely` bounds delays: nothing is
under way while its sender goes through a whole epoch. Without that bound a
packet from before the previous slot's epoch could become the current slot after
an eviction and push the later slot out, whose packets would be accepted again;
and the server could lag behind the peer by more than the epochs it accepts.

### RpcMerge

`merges` is the map `pending`, `pendingPieces` and `pendingBytes` the two global
counters that the code keeps beside it. `Fragment` is `merge_packet` in full:
clean what is too old, replace a merge whose declared count has changed, test
the limits, count, complete. An error ends the connection, whose merges go in
the same step. A body is its length. `NoLateJoin` is about a fragment that finds
its merge expired: it must not complete the message (`Completes`), and what it
leaves of the merge is the old one, none, or one begun anew with one piece.

### PeerCenter

`info` and `age` are `global_peer_map`, `reported` is `peer_report_time`, `held`
the map by whose digest a client polls. The digest is the map itself, that is,
the hash has no collisions. `Report`, `Get`, `Leave` and `Clean` are the four
operations. `polled` is history, the clients that were answered since the map
last changed: most answers of "unchanged" change nothing in the group, so a
property of steps would not see them. `Reports` is a constant, what each peer may
report; a peer may report itself.

## 3. Runs

Times are for two workers on a small machine. Some properties are conjunctions
of named parts, given in brackets.

| Run | Instance | Distinct states | Checks |
|---|---|---|---|
| `relay` | 4 slots, 3 connections, 2 networks x 2 peers, 2 keys, 2 sessions | 23,525 (25 s) | `RegistriesExact`, `SessionsExact` (with `TypeOK`), `WithinCapacity`, `TimersExact`, `ImplementsDirectory`, `HandshakeResolves` |
| `secure_session` | 2 sockets, 2 root keys, 3 epochs that wrap, 3 packets, rotation after 2 | 5,822,346 (95 s) | `SharedSession`, `NonceUnique`, `SyncFresh` (`SealedBehind`, `GraceBehind`), `EpochPacketsBounded`, `RootAgreement` |
| `secure_session_lossy` | 2 sockets, 2 root keys; a message 2 with a root key may be lost | violation | `RootAgreement` |
| `receive` | 3 epochs of 2 packets and 8 packets of one epoch, window of 6 in 2 bytes | 41,832 (9 s) | `TypeOK`, `AtMostOnce`, `RejectedForCause` |
| `route_sync` | 2 peers, 3 connections, updates dropped, late and retried | 420,770 (60 s) | `Consistent` (`TypeOK`, `OneTransaction`), `PendingHasTrigger`, `QuiescentMeansSent`, `UpToDate` |
| `route_sync_live` | 2 peers, 3 connections, one client restarts, updates dropped | 88,731 (40 s) | `Converges` |
| `broadcast` | 4 peers | 346,496 (50 s) | `NobodyForgotten`, `StatesExact` (`TypeOK`, `StatesOfPresent`), `CascadesEnd` |
| `forwarding` | 2 networks x 2 peers, 1 frame, hop limit 1 | 156,573 (20 s) | `HopsBounded`, `Contained` (`TypeOK`, `NetworksApart`), `RpcFromItsPeer`, `ClosedForCause`, `FramesSettle` |
| `rpc_merge` | 2 peers x 2 transactions, 3 pieces | 4,676 (52 s) | `CountersExact`, `MergesExact`, `LimitsKept` (`TypeOK`, `PeerLimited`, `OnlyPresent`), `NoLateJoin`, `AbandonedGivenUp` |
| `peer_center` | 2 peers, one of which reports itself too, 2 infos, lifetime 2 | 110,096 (36 s) | `GroupExact` (`TypeOK`, `DigestCurrent`, `OfPresent`), `PolledMeansCurrent`, `StaleForgotten` |
| `send_window` | window of 3 steps, 5 bytes, 4 frames | 16,215 (1 s) | `BurstBounded`, `RefusedOnlyWhenBusy` |
| `admission` | 2 connections, every configuration of up to 2 rooms, 5 environments deployed in turn | 112,656 (10 s) | `ConfigSound` (`ConfigIsReference`, `RoomsJoinable`), `HealthMatchesUpgrade`, `Consistent` (`TypeOK`, `ReadyProvedSecret`) |

Why the bounds are enough.

* `relay`: every definition looks at one id and one network at a time, at two
  connections of an id (the registered one and its successor) and at the others
  of the network (the cascade). Four slots hold a replaced connection, its
  successor, a bystander and one that finds the server full; two networks show
  isolation; two sessions for four identities make the store refuse; two keys
  make a changed key possible. The proofs cover all other sizes.
* `secure_session`: two sockets are what a reconnect has open at once. Three
  packets with rotation after two cross a rotation, and are enough for the wrap:
  one sealed in epoch 0, one of the last epoch received, and after a Sync one
  sealed with the first one's nonce. With three epochs there are also Syncs that
  do not wrap. Two root keys are the one before and the present one.
* `receive`: two bounds on a peer's numbers. With at most two packets in each
  epoch (`MaxSeq`), three epochs are more than the two slots of either kind can
  hold; a peer that never leaves its first epoch goes on to number 7
  (`LongRun`), past a window of six that spans two bytes, so a shift carries
  across bytes, goes by whole bytes, and past the width.
* `route_sync*`: what the server keeps about a receiver depends on one sender at
  a time, so two peers are a receiver and a sender. Three connections let a
  sender leave and return, the smallest history in which an answer can report
  what was removed meanwhile. `Unreliable` bounds the connections during which
  clients drop and delay updates, `MaxFrames` how many frames are under way when
  a transaction becomes overdue: 0 means that the client dropped the update, 1
  that its answer will come late. After one late answer the connection is
  closed, so more of them add nothing. `Flaky` names the peers whose connection
  may end, or be replaced, while their client runs. The two runs share the work:
  `route_sync` has connections that are lost and late answers, `route_sync_live`
  a client that restarts. Both keep to one version of each instance; the proofs
  of the same invariants are for any number of versions.
* `broadcast`: every peer may fail in every loop once, since a peer that failed
  is gone; with four, a close happens inside a close inside a loop, with a
  bystander left. `TypeOK` states the depth as one call per peer and two for the
  event.
* `forwarding`: frames do not meet except through connections that are closed,
  so one frame; with a hop limit of 1, a frame made with counter 0 and passed on,
  and handed to the relay again, is below, at and above it. The proofs cover other sizes.
* `rpc_merge`: of two transactions one may be pending for each peer; pieces and
  bytes suffice for less than two merges, so each limit is met first by some
  history.
* `peer_center`: two infos let a map change and change back, which is where a
  digest and a map could differ; one peer reports itself and the other, so that
  its departure removes a pair that is its own at both ends; lifetime 2 separates a pair's age from its
  reporter's.
* `send_window`: no other bound than the limits; in one of the three steps, or
  across two windows, either limit is reached first.
* `admission`: names below, at and above the limit of 5 bytes and an empty one,
  one with an unpaired surrogate and the one it is encoded like,
  peer ids 0 to 3 of which one is the server's, every variable at and around its
  limits. Every environment is deployed first, five in any order afterwards.

Symmetry is used in `secure_session` and `route_sync` only, which check no
liveness. Slots and peers are model values that no definition distinguishes.
`CHECK_DEADLOCK FALSE` is set for `RouteSync`, where the number of connections
is bounded and the model ends when all of them are gone, and for `SendWindow`,
where a closed connection is the end.

### Fairness

* `relay`: `WF` of `HandshakeTimeout(c)`: an armed `setTimeout` fires. Nothing
  is assumed of peers.
* `route_sync_live`: `WF` of giving up an overdue transaction (the maintenance
  timer fires every 10 s while there are connections, which `Relay`'s
  `TimersExact` establishes). For every peer `WF` of the passing of time (each
  transaction has a deadline of its own), of reading its frames (the runtime
  serves every socket) and of publishing; and `SF` of a maintenance refresh that
  finds its saved versions old (a refresh only touches the versions that it
  sends, so what is not sent does grow old) and of taking over an update, that
  is, a client does not drop every retry for ever. Assumed for some peer only,
  the passing of time is too weak: retries to one peer could then go on while
  the transaction of another never gets old. Nothing forces a peer to connect
  or to stay.
* `broadcast`: `WF` of the next step of the call on top of the stack: the thread
  goes on. The choice of which send fails is not constrained.
* `forwarding`: `WF` of handling a frame that is on its way over a registered
  socket. Clients need not do anything.
* `rpc_merge` and `peer_center`: `WF` of `Clean` (the same maintenance timer)
  and of `Elapse` (time passes).

### What the runs found

* *Join without the root key* (`secure_session_lossy`). Generations are always 1
  (`secure.rs:963`) and Join compares generations only (`secure.rs:908`). A peer
  that holds the key of a session which the server lost with its memory, and
  whose message 2 of the new session was lost with its socket, is joined to the
  new session without being sent its key. Its packets do not open, and the
  connection ends after ten of them. `README.md:35` calls sessions shared across
  reconnecting WebSockets.
* *A late answer hides a new instance* (`route_state.rs:212`).
  `commit_route_update` saves the versions of the update that was answered even
  if `remove_peer` has removed the peer since. If the peer comes back as a new
  instance, whose versions start again, updates leave it out until the saved
  version is 60 s old. `UpToDate` is proved for clients
  that do not restart and false for others (with `Restarts = {p1}`, `MaxRuns =
  2` it fails in ten states: p1 is sent to p2, p1 reconnects as a new instance,
  p2's answer arrives). `route_sync_live` shows that the
  refresh heals it: the mutant without the time limit does not converge. No
  document promises more, so this is a hazard and not a finding.
* *Epochs wrap* (`secure.rs:932`). The peer chooses the epochs of its packets,
  and while there is no current slot any is accepted (`secure.rs:726`). One
  packet in the last epoch and one Sync bring the session back to epoch 0 and
  sequence number 0 with the same root key; from there nonces repeat, what was
  sealed is not behind the counters, and grace slots are ahead of the session's
  epoch. `secure_session` reaches a repeated nonce in ten states. A peer that
  counts its epochs as the server does needs 2^32 of them. No document speaks
  about it, so this is a hazard; the properties say what holds until the wrap.
* *Two Syncs* (`secure.rs:936`). The second overwrites what the first kept aside
  even if its grace is not over, and until a packet of the new epoch arrives
  every epoch is accepted: a packet that was delivered before the first Sync is
  delivered again if it comes again (six states: sealed, delivered, Sync, Sync,
  delivered). `AtMostOnce` names this as an exception.
* *Names nobody can send* (`config.ts:54`). A configured name with an unpaired
  surrogate passes the check of its length, and its room can never be joined.
* *A late answer closes the connection* (`rpc.rs:258`). The retry of a timed-out
  update helps only if the client dropped the first one; if it was merely slow,
  its answer is an error and `failConnection` closes the socket.

Every property of a passing run has a mutant in `PROJECT.json`: a change to one
definition, of the kind a slip in the code would be, that makes the run fail. A
property that is a conjunction has one for more than one of its parts where they
rest on different code.

## 4. Proofs

All proofs are for every value of the constants that satisfies the assumptions
named in the component's module. Two theorems name one more, because the
property is false without it: `RootsAgree` (no message 2 with a root key is
lost) and `NothingMissed` (no client restarts).

| Module | Theorems | States properties |
|---|---|---|
| `RelayProofs` | `TypeCorrect`, `RegistriesAgree`, `SessionsFollowConnections`, `TimersFollowConnections`, `CapacityRespected`, `RelayImplementsDirectory`, `SecretProved`, `HealthIsTrue`, `ConfigurationSound` | all of `relay` but `HandshakeResolves`, and all of `admission` |
| `SecureSessionProofs` | `SessionTypeCorrect`, `SessionOutlivesItsPeers`, `NoNonceTwice`, `EpochsBounded`, `SyncStartsAfresh`, `RootsAgree` | all of `secure_session` |
| `RouteSyncProofs` | `PendingTriggered`, `OneAtATime`, `StaysConsistent`, `QuietMeansSent`, `NothingMissed` | all of `route_sync` |
| `BroadcastProofs` | `NobodyIsForgotten`, `StatesStayExact` | all of `broadcast` but `CascadesEnd` |
| `ForwardingProofs` | `HopsLimited`, `FramesContained`, `RpcOwned`, `OnlyForCause` | all of `forwarding` but `FramesSettle` |
| `RpcMergeProofs` | `MergeTypeCorrect`, `CapacityGivenBack`, `MergesNeverIncomplete`, `PeersLimited`, `NeverJoinedLate` | all of `rpc_merge` but `AbandonedGivenUp` |
| `PeerCenterProofs` | `CenterTypeCorrect`, `DigestAlwaysCurrent`, `CenterExact`, `PollsAreCurrent` | all of `peer_center` but `StaleForgotten` |
| `WindowProofs` | `ReceiveTypeCorrect`, `DeliveredOnce`, `DroppedForCause`, `WindowTypeCorrect`, `BurstAtMostDouble`, `RefusedForItsTraffic` | all of `receive` and of `send_window` |

**Relay.** Assumptions: `Conns`, `Networks` and `Peers` are finite (counting
attachments and connections needs it), the sentinels are not members of the sets
they are absent from, the limits are natural numbers. The inductive invariant
`IInv` is the conjunction of the typing invariant, the agreement of the room
registry and of the route core's keys with the phases (`RoomsExact`,
`PeerKeysExact`), the attachment counts and what hangs on them
(`AttachmentsExact`, `SessionHeld`, `BoundToLiveKey`) and the timers
(`TimersExact`); the limits are inductive given these. The parts need each
other: `RoomsExact` after `Msg3Accept` needs that the only connection replaced
is the registered one; `BoundToLiveKey` after an eviction needs that evicted
sessions have no holders, which is `AttachmentsExact`; `PeerKeysExact` after a
replacement needs `BoundToLiveKey`, because nothing in `registerConnection`
compares keys. The step lemmas treat `CloseAll(D)` once, for any set `D`, and
the events on top of it. `AttachmentsExact` rests on cardinalities of
`Holders(id)` when one connection is added or a set removed. For the refinement,
each event is an arrival, a departure or a stutter of `Directory`.

**Admission.** Assumptions: the empty text is a name of no bytes, a text's string
is encoded as that text again (`TextIsText`), the server has a peer id, `EASYTIER_NETWORKS` is an array of some length where it is one at
all, and the sentinels differ from sets of rooms and from instances. `Informed`
says that an instance has the configuration of the environment it was
constructed in and that the two answers last given are right, unless that
environment is not the one deployed any more; `Selected` that the secret of a
connection between the messages is one of its instance. `SecretProved` needs
that no connection outlives its instance. `ConfigurationSound` is about the loop
of `readServerConfig` for lists of any length: `LoopDefined` shows that its
recursive function exists, `RoundReads` that a round keeps what is to be said of
the rounds so far (`Read`). Both are inductions. The induction principle of the
library cannot be instantiated by the provers, since it is about an operator;
`Upwards` states it for a set of numbers and follows from the least number of
its complement (`WFMin`).

**SecureSession.** Assumptions: `Conns` is finite, `RotateAfter` is at least 1,
`NoSession` is not a session state, the bounds are natural numbers. `IInv` adds
to the properties that the attachment count is the number of attached
`SecurePeer`s (`Counted`), that root keys are numbered in the order of their
creation (`RootsKnown`), and that the packet counter is not behind the packets
of its epoch (`CounterAhead`). The argument: a count that is exact means that
only a session nobody uses expires, so `SharedSession` holds and whoever seals
finds the store's state; until the epochs of its root key wrap, the store's
counters are ahead of all that was sealed with it (`SealedBehind`), because
`Sync` starts an epoch after every one in use (`SyncEpochAfter`) and `Create`
takes a new root key; so each nonce is new. Nothing is assumed of the epochs that
the peer chooses: a step after the last epoch puts the root key into `wrapped`,
where the properties no longer speak of it. What the invariant says of a session's counters is stated once
(`Sound`), and `Join`, `Sync` and `Create` share the lemma `AnswerStep`.

The agreement on root keys has an invariant of its own (`RInv`): what is under
way carries the session's root key, and a peer holds either no key or the
session's, unless a message 2 with the session's key is on its way to a socket
that waits for it (`Holding`). `Join` names no root key; that it is answered to
a holder of the right one needs that whoever names a session still has a key
(`Greeting`), and that a peer that was joined is not one whose key was created
and lost: here `~LosesRoots` enters, and `secure_session_lossy` is what happens
without it.

**RouteSync.** The send states and the transactions are kept by two languages,
each with a timeout of its own. `Agree` says what they have in common, for any
set of present peers, and `Stranded` who waits for nothing. `sendRouteUpdate`
occurs in every event, so it has one lemma, `SendingAgrees`: it keeps agreement
and leaves nobody stranded if all who were are among its receivers. Each event
then only has to show that whom it strands (the peer whose transaction it ends,
those it gives up) it also sends to. `Silent`, that nothing is under way to or
from a peer that is gone, is needed because requests and answers do not look at
`present`.

Three more invariants rest on this one (`Base` adds the types to it). The bound
on topology versions is a budget: every connection pays for three when it is
made, and a present peer keeps one for its first information, until it uses it,
and one for its end (`Budget`). `Settled` says that a peer nothing is in flight
to was sent everything, and that a transaction without anything waiting covers
everything once it is answered; it needs `OwnSession`, that a peer's session is
that of its present instance, because an answer for another session would
forget what was saved. `Heard` is about what is under way: the updates on their
way to a client tell about each sender in the order of its versions, each
belongs to the transaction with its id as long as there is one, and whoever has
answered a transaction knows what it carried (`Fine`). With `Newest`, that the
server has nothing newer than the sender itself, this gives `UpToDate` when
versions never start again, that is, when no client restarts.

**Broadcast.** Assumptions: `Peers` is finite, the sentinels are no peer and no
state. Whoever is behind is served, that is, has a transaction in flight that
will send what waits, or some call on the stack has still to come to it
(`Promised`): a broadcast that has not visited it, a `cleanExpired` that has
collected its failure, the loop that will close it. A close promises everyone an
update, so what the interrupted loops still owed does not matter (`CloseKeeps`);
an update keeps all promises but the receiver's own (`UpdateKeeps`). The stack is
a number of broadcasts on what the event began with (`Form`), and each close
adds one and takes one ready peer away, which bounds it (`Bounded`).

**Forwarding.** Assumptions: the relay's own peer id is not a peer's, the
sentinel is no frame. `Sound` says of a frame that it has passed the relay no
more often than its counter says, that holder and author are in one network, and
that what was served as RPC was its author's. The counters frames are made with
are arbitrary, so the hop bound does not depend on clients.

**RpcMerge.** `IInv` is `TypeOK`, `MergesExact`, `CountersExact`, `PeerLimited`
and `OnlyPresent`. `Sum` is the cardinality of a set of units, so that what a
sum does when one term changes or a set of terms is removed follows from the
theorems on finite sets without induction. That the saturating
subtractions are exact is part of each step: what is taken away is a term of the
sum.

**PeerCenter.** Assumptions: the sentinel is neither an info nor a number, the
lifetime is positive, a report says an info or nothing of each destination. `DInv` (types and digest) is inductive; so is `PInv`, that
a report time stands behind every pair and is no older than it.
`CInv` adds `PolledMeansCurrent` to `DInv`: an answer leaves its client with the
map because the digest it is compared with is the map's, and what changes the map
empties `polled`.

**Receive.** Assumptions: the distances of one epoch's numbers fit a `usize`
(an epoch ends after 10^6 packets), at least one epoch ahead is accepted
(`MAX_ACCEPTED_RX_EPOCH_AHEAD` is 3), the sentinel is no slot. First the
bitmaps: a distance is one byte and one bit (`Division`, `DivisionUnique`), so
`shift_right` moves every bit exactly as far as it should, across the bytes and
for every width (`ShiftRightMoves`). Then the windows: `can_accept` is about the
set of remembered numbers (`WindowRefuses`), and `accept` adds one number and
makes the window refuse no less (`AcceptRecords`). Then the slots: `AgingKeeps`
and `CommitKeeps` say what an eviction and `commit_replay` leave of what is
refused. They need that no epoch has both a grace slot and another one
(`Apart`), since the grace is consulted first, and that the previous slot's
epoch is not after the current one's (`InOrder`). That order in turn needs that
a previous slot was followed by a packet of a later epoch (`Followed`) and
`Timely`. For `RejectedForCause` the invariant bounds how far the peer can have
gone: all it sealed is at most `EpochsAhead` beyond the current slot or the
server's own epoch (`InReach`). For `AtMostOnce` it says that each packet that is
known is refused (`Known`), and that a slot still has the epoch of each that no
eviction has left to the order of epochs (`Recorded`), so that Sync, which moves
the slots aside, goes on refusing it; both unless the peer has gone so far beyond
its epoch that it is not under way any more (`Passed`).

**SendWindow.** `Split` compares the history with the present window: what was
sent since it began is exactly what it has counted, and what is older and still
within a window's length was counted by one earlier window, hence twice the
limit and no more.
`WindowProofs` extends both `Receive` and `SendWindow`, whose specification
therefore has names of its own (`SWInit`, `SWNext`, `SWSpec`).

Only model-checked: liveness (`HandshakeResolves`, `Converges`, `CascadesEnd`,
`FramesSettle`, `AbandonedGivenUp`, `StaleForgotten`), which is out of the
prover's reach. Every invariant and every action property that a passing run
checks is stated by a theorem.

## 5. Not modelled

* Noise, AEAD, protobuf, the layout of headers and the digest's hash:
  conversions and external libraries without state, taken to work.
* `decrypt_fail_count`: no document says whose failures should count. The wrap
  of epochs is in `SecureSession` and not in `Receive`, whose peer goes through
  them one by one.
* Per-peer connection versions and the cached encodings of the connection
  information: interpreted by clients only; the model has the topology version
  they go with. The server's own route information, which never changes.
* RPC requests of other services or methods, which are answered with an error
  and change nothing, and the checks of an envelope, whose failure ends the
  connection, as a connection may end at any time in every model.
* Redirects, not-found answers and error texts of the worker.
* `scripts/build-wasm.mjs`, the generated glue, deployment scripts, compose
  files and units: they build the program or start an unmodified client.

## 6. Plan

An abstract specification of key binding, implemented by `SecureSession`, and one
of route synchronisation ("each receiver's view only moves towards the
senders' information"), implemented by `RouteSync`; for the latter the
invariant `Heard` already says what a client's knowledge may do.

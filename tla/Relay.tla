------------------------------- MODULE Relay -------------------------------
(***************************************************************************)
(* The connection life cycle of the EasyTierServer durable object          *)
(* (src/cloudflare/src/server.ts) together with the registries that every  *)
(* step of it must keep in agreement: the connection map, the room         *)
(* registry (runtime/rooms.ts), the route core's table of authenticated    *)
(* keys (wasm/src/route_state.rs) and the attachment counts and bound keys *)
(* of the secure-session store (wasm/src/secure.rs).                       *)
(*                                                                         *)
(* The durable object handles one event at a time and no handler awaits,   *)
(* so an event is one action.  It is not a small one: a send that fails    *)
(* while a route update is broadcast closes its receiver, which broadcasts *)
(* again.  The set F of an action is the set of connections that end up    *)
(* closed by such a cascade; it is any set of ready connections of the     *)
(* networks the cascade reaches, because a send may fail at any time.      *)
(*                                                                         *)
(* A member of Conns is a slot: phase "closed" is a connection object that *)
(* is gone or not there yet, and Fetch uses the slot for a new one.        *)
(***************************************************************************)
EXTENDS Naturals, FiniteSets

CONSTANTS
    Conns,           \* WebSocket connection slots
    Networks,        \* configured rooms (server.ts: this.config.rooms)
    Peers,           \* peer ids
    Keys,            \* Noise static public keys of clients
    NoConn, NoKey, NoId,
    MaxConnections,  \* MAX_CONNECTIONS, 2048 in the code
    MaxSessions      \* MAX_STORED_SESSIONS, 2048 in the code

\* What a peer is known by: SessionKey and the two-level room map both use
\* the pair of the network's name and the peer id.
Ids == Networks \X Peers

ASSUME FiniteConns == IsFiniteSet(Conns)
ASSUME FiniteIds   == IsFiniteSet(Networks) /\ IsFiniteSet(Peers)
ASSUME Sentinels   == NoConn \notin Conns /\ NoKey \notin Keys /\ NoId \notin Ids
ASSUME Capacities  == MaxConnections \in Nat /\ MaxSessions \in Nat

VARIABLES
    phase,             \* Connection.phase
    ident,             \* Connection.networkName and .peerId, set by message 1
    remoteKey,         \* Connection.remotePublicKey, set by message 3
    handshakeTimer,    \* connections whose handshakeTimer is armed
    connections,       \* EasyTierServer.connections
    maintenanceTimer,  \* whether EasyTierServer.maintenanceTimer is armed
    rooms,             \* RoomRegistry: the connection registered for an id
    peerKeys,          \* authenticated_peer_keys of the route core
    sessions,          \* keys of SESSION_STORE
    boundKey,          \* StoredSession.remote_public_key
    attachments        \* StoredSession.attachments

connVars    == <<phase, ident, remoteKey, handshakeTimer>>
serverVars  == <<connections, maintenanceTimer, rooms, peerKeys>>
sessionVars == <<sessions, boundKey, attachments>>
vars        == <<connVars, serverVars, sessionVars>>

Phases == {"msg1", "msg3", "ready", "closed"}

Init ==
    /\ phase = [c \in Conns |-> "closed"]
    /\ ident = [c \in Conns |-> NoId]
    /\ remoteKey = [c \in Conns |-> NoKey]
    /\ handshakeTimer = {}
    /\ connections = {}
    /\ maintenanceTimer = FALSE
    /\ rooms = [id \in Ids |-> NoConn]
    /\ peerKeys = [id \in Ids |-> NoKey]
    /\ sessions = {}
    /\ boundKey = [id \in Ids |-> NoKey]
    /\ attachments = [id \in Ids |-> 0]

-----------------------------------------------------------------------------
(* Faulty variants of definitions below, for checking that each property   *)
(* is sensitive to the code it is about.  No specification uses them.      *)

\* RoomRegistry.delete without the comparison with the stored connection.
RoomsWithoutUnchecked(r, D) ==
    [id \in Ids |-> IF \E c \in D : ident[c] = id THEN NoConn ELSE r[id]]

\* The retain of upsert_session without its test of attachments.
EvictableIgnoringAttachments == sessions

\* confirm_session_public_key without the comparison with the bound key.
AnyKeyConfirmed(id, k) == id \in sessions

\* SecurePeer::drop that releases the session only of an authenticated peer.
ReleasesWhenReady(c) == phase[c] = "ready"

\* A capacity test with > in the place of >=.
RoomForOneTooMany == Cardinality(connections) <= MaxConnections

\* scheduleMaintenance called only from the callback, not from fetch.
NoSchedule(C) == maintenanceTimer

\* createConnection without its setTimeout.
NoTimerCreated(c) == handshakeTimer

\* removePeer that leaves the authenticated key in the route core.
KeysKept(k, D) == k

-----------------------------------------------------------------------------
(* Reading the state.                                                      *)

Ready      == {c \in Conns : phase[c] = "ready"}
Network(c) == ident[c][1]
ReadyIn(nets) == {c \in Ready : Network(c) \in nets}

\* Has taken an attachment of its session (SecurePeer.session_attached).
Attached(c) == phase[c] \in {"msg3", "ready"}
Holders(id) == {c \in Conns : Attached(c) /\ ident[c] = id}

\* fetch: this.connections.size >= MAX_CONNECTIONS is answered with 503.
HasCapacity == Cardinality(connections) < MaxConnections

\* upsert_session drops sessions nobody is attached to once they are idle.
Evictable == {id \in sessions : attachments[id] = 0}

\* upsert_session creates the session it does not find while there is room.
StoreAdmits(id, S) == id \in S \/ Cardinality(S) < MaxSessions

\* confirm_session_public_key: the first key proved is the session's key.
KeyConfirmed(id, k) == id \in sessions /\ boundKey[id] \in {NoKey, k}

\* add_peer refuses an id whose key is still another one.
AddPeerAccepts(K, id, k) == K[id] \in {NoKey, k}

\* Connections that may fail while the members of D are removed: removing a
\* ready one broadcasts to the ready connections of its network.
CascadeFrom(D) == SUBSET (ReadyIn({Network(d) : d \in D \cap Ready}) \ D)

-----------------------------------------------------------------------------
(* What closing the connections D leaves.                                  *)

\* RoomRegistry.delete: only an entry that still is this very connection.
RoomsWithout(r, D) == [id \in Ids |->
    IF r[id] \in D /\ ident[r[id]] = id THEN NoConn ELSE r[id]]

\* rpc.removePeer, called for the connections that were ready.
KeysWithout(k, D) == [id \in Ids |->
    IF \E c \in D \cap Ready : ident[c] = id THEN NoKey ELSE k[id]]

\* disposeConnection frees the SecurePeer; its drop gives up the attachment
\* it holds, by a saturating subtraction.
Releases(c) == Attached(c)
AttachmentsWithout(D) == [id \in Ids |->
    LET released == Cardinality({c \in Holders(id) \cap D : Releases(c)})
    IN  IF released <= attachments[id] THEN attachments[id] - released ELSE 0]

\* The maintenance timer after the connection map became C: cleared by
\* removeConnection when the map is empty.
TimerAfterRemoval(C) == maintenanceTimer /\ C # {}

\* scheduleMaintenance: arms the timer unless there is nothing to maintain.
TimerScheduled(C) == maintenanceTimer \/ C # {}

\* createConnection arms the handshake timer of its connection.
TimerCreated(c) == handshakeTimer \cup {c}

Forget(f, D, none) == [c \in Conns |-> IF c \in D THEN none ELSE f[c]]

\* removeConnection for every member of D, in whatever order it came about.
CloseAll(D) ==
    /\ phase' = Forget(phase, D, "closed")
    /\ ident' = Forget(ident, D, NoId)
    /\ remoteKey' = Forget(remoteKey, D, NoKey)
    /\ handshakeTimer' = handshakeTimer \ D
    /\ connections' = connections \ D
    /\ maintenanceTimer' = TimerAfterRemoval(connections \ D)
    /\ rooms' = RoomsWithout(rooms, D)
    /\ peerKeys' = KeysWithout(peerKeys, D)
    /\ attachments' = AttachmentsWithout(D)
    /\ UNCHANGED <<sessions, boundKey>>

-----------------------------------------------------------------------------
(* The events.                                                             *)

\* fetch: a WebSocket upgrade is accepted.  createConnection arms the
\* handshake timer; the maintenance timer is armed for the first connection.
Fetch(c) ==
    /\ phase[c] = "closed"
    /\ HasCapacity
    /\ phase' = [phase EXCEPT ![c] = "msg1"]
    /\ handshakeTimer' = TimerCreated(c)
    /\ connections' = connections \cup {c}
    /\ maintenanceTimer' = TimerScheduled(connections')
    /\ UNCHANGED <<ident, remoteKey, rooms, peerKeys, sessionVars>>

\* upsert_session, which message 1 runs before anything is proved: the idle
\* sessions E are dropped and the session of id is found or created.
Upsert(id, E) ==
    /\ E \subseteq Evictable
    /\ StoreAdmits(id, sessions \ E)
    /\ sessions' = (sessions \ E) \cup {id}
    /\ boundKey' = [x \in Ids |-> IF x \in E THEN NoKey ELSE boundKey[x]]

\* handleHandshakeMessage1: the network is configured, message 2 is built,
\* the connection is attached to its session and message 2 is sent.
Msg1Accept(c, id, E) ==
    /\ phase[c] = "msg1"
    /\ Upsert(id, E)
    /\ phase' = [phase EXCEPT ![c] = "msg3"]
    /\ ident' = [ident EXCEPT ![c] = id]
    /\ attachments' = [attachments EXCEPT ![id] = @ + 1]
    /\ UNCHANGED <<remoteKey, handshakeTimer, serverVars>>

\* The session store was changed and then the handler failed: message 2 could
\* not be sent, and failConnection gave the attachment back.
Msg1Unsent(c, id, E) ==
    /\ phase[c] = "msg1"
    /\ Upsert(id, E)
    /\ phase' = [phase EXCEPT ![c] = "closed"]
    /\ handshakeTimer' = handshakeTimer \ {c}
    /\ connections' = connections \ {c}
    /\ maintenanceTimer' = TimerAfterRemoval(connections')
    /\ UNCHANGED <<ident, remoteKey, rooms, peerKeys, attachments>>

\* upsert_session drops the idle sessions E and then refuses: the store is
\* full, or the session it found uses another encryption algorithm.
Msg1Refused(c, id, E) ==
    /\ phase[c] = "msg1"
    /\ E \subseteq Evictable
    /\ id \in sessions \ E \/ ~StoreAdmits(id, sessions \ E)
    /\ sessions' = sessions \ E
    /\ boundKey' = [x \in Ids |-> IF x \in E THEN NoKey ELSE boundKey[x]]
    /\ phase' = [phase EXCEPT ![c] = "closed"]
    /\ handshakeTimer' = handshakeTimer \ {c}
    /\ connections' = connections \ {c}
    /\ maintenanceTimer' = TimerAfterRemoval(connections')
    /\ UNCHANGED <<ident, remoteKey, rooms, peerKeys, attachments>>

\* A handshake that ends before it touches a registry: a malformed or
\* unexpected packet, an unknown network (4403), a proof that does not verify
\* (4401), a peer that hangs up.
HandshakeFails(c) ==
    /\ phase[c] \in {"msg1", "msg3"}
    /\ CloseAll({c})

\* createConnection's timer: 4408.
HandshakeTimeout(c) ==
    /\ c \in handshakeTimer
    /\ CloseAll({c})

\* The connection registered for id, as a set.
Registered(id) == {rooms[id]} \ {NoConn}

\* Which connections a broadcast to id's network can close once c has taken
\* the place of the one registered for id; c itself is among them.
MayFailAfter(c, id) == (ReadyIn({id[1]}) \ Registered(id)) \cup {c}

\* handleHandshakeMessage3 with a valid proof: confirm_session_public_key,
\* registerConnection (which closes the connection it replaces before
\* rpc.addPeer), completeHandshake and the broadcast to the network.
Msg3Accept(c, k, F) ==
    LET id     == ident[c]
        closed == Registered(id) \cup F
    IN  /\ phase[c] = "msg3"
        /\ KeyConfirmed(id, k)
        /\ F \subseteq MayFailAfter(c, id)
        /\ AddPeerAccepts(KeysWithout(peerKeys, closed \ {c}), id, k)
        /\ phase' = Forget([phase EXCEPT ![c] = "ready"], closed, "closed")
        /\ ident' = Forget(ident, closed, NoId)
        /\ remoteKey' = Forget([remoteKey EXCEPT ![c] = k], closed, NoKey)
        /\ handshakeTimer' = handshakeTimer \ (closed \cup {c})
        /\ connections' = connections \ closed
        /\ maintenanceTimer' = TimerAfterRemoval(connections')
        /\ rooms' = RoomsWithout([rooms EXCEPT ![id] = c], closed)
        /\ peerKeys' = [KeysWithout(peerKeys, closed \ {c}) EXCEPT
                            ![id] = IF c \in F THEN NoKey ELSE k]
        /\ boundKey' = [boundKey EXCEPT ![id] = k]
        /\ attachments' = AttachmentsWithout(closed)
        /\ UNCHANGED sessions

\* A ready connection ends: its socket closes or fails, or a handler throws
\* (bad packet, failed decryption, rejected RPC, its own send window).
ReadyEnds(c, F) ==
    /\ phase[c] = "ready"
    /\ F \in CascadeFrom({c})
    /\ CloseAll({c} \cup F)

\* handleReadyPacket forwards to another peer and the target's send fails:
\* the target is closed (1013), whoever it is, the sender itself included.
ForwardRejected(c, p, F) ==
    LET target == rooms[<<Network(c), p>>]
    IN  /\ phase[c] = "ready"
        /\ target # NoConn
        /\ phase[target] = "ready"
        /\ F \in CascadeFrom({target})
        /\ CloseAll({target} \cup F)

\* handleRequest returned "route": the update goes to the others in the
\* network, and some of the sends fail.  The sender is excluded from this
\* broadcast but not from those that the failures start.
RouteChanged(c, F) ==
    /\ phase[c] = "ready"
    /\ F \subseteq ReadyIn({Network(c)})
    /\ F \ {c} # {}
    /\ CloseAll(F)

\* The maintenance callback: the failed retries of cleanExpired and the
\* failed refreshes of maintainPeer are closed, and the timer is armed again.
MaintenanceTick(F) ==
    /\ maintenanceTimer
    /\ F \subseteq Ready
    /\ CloseAll(F)

Next ==
    \/ \E c \in Conns : Fetch(c) \/ HandshakeFails(c) \/ HandshakeTimeout(c)
    \/ \E c \in Conns, id \in Ids, E \in SUBSET sessions :
           Msg1Accept(c, id, E) \/ Msg1Unsent(c, id, E) \/ Msg1Refused(c, id, E)
    \/ \E c \in Conns, k \in Keys, F \in SUBSET Conns : Msg3Accept(c, k, F)
    \/ \E c \in Conns, F \in SUBSET Conns : ReadyEnds(c, F) \/ RouteChanged(c, F)
    \/ \E c \in Conns, p \in Peers, F \in SUBSET Conns : ForwardRejected(c, p, F)
    \/ \E F \in SUBSET Conns : MaintenanceTick(F)

Spec == Init /\ [][Next]_vars

\* setTimeout: a handshake timer that is armed and not cleared fires.
Fairness == \A c \in Conns : WF_vars(HandshakeTimeout(c))

FairSpec == Spec /\ Fairness

-----------------------------------------------------------------------------
(* Correctness.                                                            *)

\* Identity and key of a connection are known exactly in the phases that have
\* learnt them (connection.ts: Connection).
Typed ==
    /\ phase \in [Conns -> Phases]
    /\ ident \in [Conns -> Ids \cup {NoId}]
    /\ remoteKey \in [Conns -> Keys \cup {NoKey}]
    /\ handshakeTimer \subseteq Conns
    /\ connections \subseteq Conns
    /\ maintenanceTimer \in BOOLEAN
    /\ rooms \in [Ids -> Conns \cup {NoConn}]
    /\ peerKeys \in [Ids -> Keys \cup {NoKey}]
    /\ sessions \subseteq Ids
    /\ boundKey \in [Ids -> Keys \cup {NoKey}]
    /\ attachments \in [Ids -> Nat]
    /\ \A c \in Conns : /\ ident[c] \in Ids <=> Attached(c)
                        /\ remoteKey[c] \in Keys <=> phase[c] = "ready"

\* Every variable has its type, and no session of the store counts more
\* attachments than there are connections (attach_session's checked_add).
TypeOK == Typed /\ \A id \in Ids : attachments[id] <= Cardinality(Conns)

\* The room registry lists the ready connections and nothing else, so at most
\* one connection speaks for a peer of a network.  The hazard: a replaced or
\* half-open connection that ends late must not unregister its successor
\* (RoomRegistry.delete), and a cascade must not leave a closed one behind.
RoomsExact ==
    \A id \in Ids, c \in Conns :
        rooms[id] = c <=> phase[c] = "ready" /\ ident[c] = id

\* The key of the connection registered for each id.
RegisteredKey == [id \in Ids |->
    IF rooms[id] = NoConn THEN NoKey ELSE remoteKey[rooms[id]]]

\* The route core authenticates an id by the key of the connection that is
\* registered for it, and by no key when there is none: removePeer of the
\* replaced connection must not undo addPeer of the new one.
PeerKeysExact ==
    \A id \in Ids :
        peerKeys[id] = RegisteredKey[id]

\* add_peer's refusal ("already bound to another authenticated public key")
\* cannot be met once confirm_session_public_key has accepted the key: the
\* replaced connection is removed first, and nothing stale stays behind.
AddPeerNeverRefuses ==
    \A c \in Conns, k \in Keys :
        phase[c] = "msg3" /\ KeyConfirmed(ident[c], k) =>
            AddPeerAccepts(KeysWithout(peerKeys, Registered(ident[c])), ident[c], k)

\* The three registries that handlers update one after the other agree: the
\* rooms, the keys of the route core, and the keys bound in the session store.
RegistriesExact == RoomsExact /\ PeerKeysExact /\ AddPeerNeverRefuses

\* A session counts exactly the connections that hold it, through failed
\* handshakes, replacements and cascades (attach_session, Drop).
AttachmentsExact ==
    \A id \in Ids : attachments[id] = Cardinality(Holders(id))

\* The store never drops a session that a connection is attached to, so the
\* "secure session disappeared" errors of secure.rs cannot be met.
SessionHeld ==
    \A c \in Conns : Attached(c) => ident[c] \in sessions

\* While a peer is connected its session stays bound to the key it proved,
\* so a reconnect is accepted from no other key.
BoundToLiveKey ==
    \A c \in Ready : boundKey[ident[c]] = remoteKey[c]

\* The session store follows the connections: who holds what, and that it is
\* still there and still bound to whom it was.
SessionsExact == TypeOK /\ AttachmentsExact /\ SessionHeld /\ BoundToLiveKey

\* connections.size is within MAX_CONNECTIONS and the store within
\* MAX_STORED_SESSIONS.
WithinCapacity ==
    /\ Cardinality(connections) <= MaxConnections
    /\ Cardinality(sessions) <= MaxSessions

\* The connection map holds the connections that are not closed, a handshake
\* timer is armed exactly during the handshake, and the maintenance timer is
\* armed exactly while there is a connection: expired route updates are
\* retried by nothing else, and no timer outlives what it is for.
TimersExact ==
    /\ connections = {c \in Conns : phase[c] # "closed"}
    /\ handshakeTimer = {c \in Conns : phase[c] \in {"msg1", "msg3"}}
    /\ maintenanceTimer <=> connections # {}

\* The rooms implement Directory: whoever takes the place of a registered
\* connection has proved the same key (registerConnection does not compare
\* them), one peer arrives at a time, and the cascade an arrival starts stays
\* in its network.
Dir == INSTANCE Directory WITH present <- RegisteredKey
ImplementsDirectory == Dir!Spec

\* A handshake never stays open: it completes or its connection is closed.
HandshakeResolves ==
    \A c \in Conns :
        phase[c] \in {"msg1", "msg3"} ~> phase[c] \in {"ready", "closed"}
=============================================================================

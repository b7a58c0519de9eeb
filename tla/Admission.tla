------------------------------ MODULE Admission ------------------------------
(***************************************************************************)
(* How a peer gets in: the configuration the environment gives (core/      *)
(* config.ts), the worker's health check and its forwarding of upgrades    *)
(* (index.ts), the one durable object it forwards to, which reads its      *)
(* configuration when it is constructed and never again (server.ts), and   *)
(* the two messages of the handshake as far as the configuration decides   *)
(* them (server.ts, runtime/messages.ts, read_msg1 and finish_msg3 of      *)
(* wasm/src/secure.rs).                                                    *)
(*                                                                         *)
(* The worker and the durable object are deployed together but do not      *)
(* change over together: a deployment replaces what the worker reads at    *)
(* once, and the durable object goes on until it is evicted, which closes  *)
(* its sockets.  Capacity, sessions and the registries are Relay's, from    *)
(* whose specification the prefix Adm tells this one apart.                *)
(***************************************************************************)
EXTENDS Naturals, Sequences

CONSTANTS
    Names,          \* JavaScript strings configured as network_name
    Texts,          \* UTF-8 texts, which clients send as a_network_name
    Encoded,        \* what TextEncoder makes of each of Names
    Decoded,        \* the JavaScript string that each of Texts becomes
    ByteLength,     \* the length in bytes of each of Texts
    MaxName,        \* 255
    Secrets,        \* network secrets as build_msg2 gets them, in UTF-8
    NoText,         \* the empty string, a member of Names and of Secrets
    NotText,        \* a JSON value that is not a string
    NotAnObject,    \* an entry of EASYTIER_NETWORKS that is not an object
    NotAnArray,     \* EASYTIER_NETWORKS that is no JSON or no array
    NotANumber,     \* MAX_FRAME_BYTES that Number cannot read
    MinFrame, MaxFrame,  \* 1024 and 16777216
    MaxPeerId,      \* 2^32 - 1
    Server,         \* SERVER_PEER_ID
    Sockets,        \* upgrade requests and the connections they become
    Envs,           \* environments that may be deployed first
    LaterEnvs,      \* those of them that may be deployed after another one
    Invalid,        \* readServerConfig throws
    NoRelay         \* the durable object has no instance

\* A string with an unpaired surrogate is encoded with U+FFFD in its place and
\* is no text's string; every other string is that of its own encoding.
ASSUME TextIsText == /\ NoText \in Names \cap Secrets
                     /\ NotText \notin Names \cup Secrets
                     /\ Encoded \in [Names -> Texts] /\ Decoded \in [Texts -> Names]
                     /\ \A t \in Texts : Encoded[Decoded[t]] = t
                     /\ ByteLength[Encoded[NoText]] = 0
ASSUME ServerId   == MaxPeerId \in Nat /\ Server \in 1 .. MaxPeerId
ASSUME Deployable == LaterEnvs \subseteq Envs
ASSUME ArraysRead == \A e \in Envs :
    e.networks # NotAnArray =>
        e.networks \in Seq({e.networks[i] : i \in DOMAIN e.networks})
ASSUME InvalidApart ==
    \A rooms \in SUBSET [name : Names, secret : Secrets] : Invalid # rooms

VARIABLES
    env,       \* the environment deployed last
    relay,     \* the instance of EasyTierServer: its environment and config
    conns,     \* the connections
    health,    \* what /healthz has said of the environment deployed
    upgrade    \* what became of the last upgrade under it and this instance

admvars == <<env, relay, conns, health, upgrade>>

-----------------------------------------------------------------------------
(* Faulty variants of definitions below, for checking that each property   *)
(* is sensitive to the code it is about.  No specification uses them.      *)

\* A limit on names that allows one byte more than read_msg1.
NameFitsLoosely(n) == n \in Names /\ ByteLength[Encoded[n]] \in 1 .. MaxName + 1

\* readServerConfig whose later entries replace earlier ones.
NothingIsDuplicate(rooms, n) == FALSE

\* A health check that reads the configuration and leaves out the keys.
HealthOfConfigOnly(e) ==
    /\ e.keys \in {"pair1", "pair2", "mismatched"}
    /\ e.networks # NotAnArray

\* A durable object that takes over the environment with every upgrade.
AlwaysReread(e, config) == [env |-> e, config |-> config]

\* removeConnection is not run for the sockets of an instance that is gone.
SocketsSurvive == conns

-----------------------------------------------------------------------------
(* readServerConfig.                                                       *)

\* A room's name is a string of 1 to 255 bytes, once encoded.
NameFits(n) == n \in Names /\ ByteLength[Encoded[n]] \in 1 .. MaxName

WellFormed(entry) ==
    /\ entry # NotAnObject
    /\ NameFits(entry.network_name)
    /\ entry.network_secret \in Secrets \ {NoText}

IsDuplicate(rooms, n) == \E r \in rooms : r.name = n

\* One round of the loop over EASYTIER_NETWORKS.
AddRoom(rooms, entry) ==
    IF rooms = Invalid \/ ~WellFormed(entry) THEN Invalid
    ELSE IF IsDuplicate(rooms, entry.network_name) THEN Invalid
    ELSE rooms \cup {[name |-> entry.network_name, secret |-> entry.network_secret]}

\* The rooms, or the failure, after the first n rounds.
RoomsAfter(networks) ==
    LET after[n \in 0 .. Len(networks)] ==
            IF n = 0 THEN {} ELSE AddRoom(after[n - 1], networks[n])
    IN  after

Rooms(networks) ==
    IF networks = NotAnArray \/ networks = <<>> THEN Invalid
    ELSE RoomsAfter(networks)[Len(networks)]

\* Both keys are there, are base64 of 32 bytes and are not all zero; whether
\* they belong together is not looked at here.
KeysRead(keys) == keys \in {"pair1", "pair2", "mismatched"}

FrameSizeRead(n) == n # NotANumber /\ n >= MinFrame /\ n <= MaxFrame

\* hostname: at most 255 bytes and not empty.
HostnameRead(e) == e.hostname = "valid"

ReadServerConfig(e) ==
    IF /\ KeysRead(e.keys) /\ Rooms(e.networks) # Invalid
       /\ FrameSizeRead(e.frame) /\ HostnameRead(e)
    THEN [rooms |-> Rooms(e.networks), keys |-> e.keys, maxFrameBytes |-> e.frame]
    ELSE Invalid

ASSUME InstanceApart ==
    \A e \in Envs : NoRelay # [env |-> e, config |-> ReadServerConfig(e)]

\* SecurePeer::new derives the public key from the private one.
KeysMatch(keys) == keys \in {"pair1", "pair2"}

-----------------------------------------------------------------------------
(* The worker and the durable object.                                      *)

Unconnected == [phase |-> "idle", net |-> NoText, peer |-> 0,
           secret |-> NoText, proved |-> NoText]

AdmInit ==
    /\ env \in Envs
    /\ relay = NoRelay
    /\ conns = [c \in Sockets |-> Unconnected]
    /\ health = "unknown"
    /\ upgrade = "unknown"

Idle(c) == conns' = [conns EXCEPT ![c] = Unconnected]

\* wrangler deploy, or a variable or secret changed.
Deploy(e) ==
    /\ e # env
    /\ env' = e
    /\ health' = "unknown"
    /\ upgrade' = "unknown"
    /\ UNCHANGED <<relay, conns>>

\* What becomes of the sockets of an instance that is gone.
SocketsClosed == [c \in Sockets |-> Unconnected]

\* The durable object is evicted or restarted.
Evict ==
    /\ relay # NoRelay
    /\ relay' = NoRelay
    /\ conns' = SocketsClosed
    /\ upgrade' = "unknown"
    /\ UNCHANGED <<env, health>>

\* GET /healthz.
Healthy(e) == ReadServerConfig(e) # Invalid /\ KeysMatch(e.keys)

Healthz ==
    /\ health' = IF Healthy(env) THEN "ok" ELSE "invalid"
    /\ UNCHANGED <<env, relay, conns, upgrade>>

\* An upgrade of / that the worker's environment lets through.
Forward(c) ==
    /\ conns[c].phase = "idle"
    /\ ReadServerConfig(env) # Invalid
    /\ conns' = [conns EXCEPT ![c].phase = "forwarded"]
    /\ UNCHANGED <<env, relay, health, upgrade>>

WorkerRefuses ==
    /\ ReadServerConfig(env) = Invalid
    /\ upgrade' = "unavailable"
    /\ UNCHANGED <<env, relay, conns, health>>

\* getByName finds the instance or constructs it from the environment of now.
Instance(e, config) == IF relay = NoRelay THEN [env |-> e, config |-> config] ELSE relay

\* The constructor throws: the worker's environment is not this one any more.
ConstructorThrows(c) ==
    /\ conns[c].phase = "forwarded"
    /\ relay = NoRelay
    /\ ReadServerConfig(env) = Invalid
    /\ upgrade' = "unavailable"
    /\ Idle(c)
    /\ UNCHANGED <<env, relay, health>>

\* fetch of the durable object.
RelayFetch(c) ==
    LET instance == Instance(env, ReadServerConfig(env))
    IN  /\ conns[c].phase = "forwarded"
        /\ instance.config # Invalid
        /\ relay' = instance
        /\ IF KeysMatch(instance.config.keys)
           THEN /\ conns' = [conns EXCEPT ![c].phase = "msg1"]
                /\ upgrade' = "accepted"
           ELSE /\ Idle(c)
                /\ upgrade' = "unavailable"
        /\ UNCHANGED <<env, health>>

-----------------------------------------------------------------------------
(* The handshake.                                                          *)

\* read_msg1 accepts the header's source and the text of the network's name.
NoiseAccepts(t, p) == /\ p \in 1 .. MaxPeerId /\ p # Server
                      /\ t \in Texts /\ ByteLength[t] \in 1 .. MaxName

\* parseHandshakeInfo and parseAuthenticationInfo accept what they are told, of
\* a name that is a JavaScript string again.
ReadsPeerId(p) == p > 0 /\ p <= MaxPeerId
Parses(n, p)   == n # NoText /\ ReadsPeerId(p)

Room(n) == {r \in relay.config.rooms : r.name = n}

\* handleHandshakeMessage1 for a configured network: its secret is selected.
Msg1(c, t, p) ==
    /\ conns[c].phase = "msg1"
    /\ NoiseAccepts(t, p) /\ Parses(Decoded[t], p)
    /\ \E r \in Room(Decoded[t]) :
           conns' = [conns EXCEPT ![c] = [@ EXCEPT !.phase = "msg3", !.net = r.name,
                                                   !.peer = p, !.secret = r.secret]]
    /\ UNCHANGED <<env, relay, health, upgrade>>

\* The network is not configured (4403), or message 1 is no good (4401).
Msg1Fails(c, t, p) ==
    /\ conns[c].phase = "msg1"
    /\ NoiseAccepts(t, p) /\ Parses(Decoded[t], p) => Room(Decoded[t]) = {}
    /\ Idle(c)
    /\ UNCHANGED <<env, relay, health, upgrade>>

\* handleHandshakeMessage3: the client proves the secret s that it has.
Msg3(c, s) ==
    /\ conns[c].phase = "msg3"
    /\ IF s = conns[c].secret /\ Parses(conns[c].net, conns[c].peer)
       THEN conns' = [conns EXCEPT ![c].phase = "ready", ![c].proved = s]
       ELSE Idle(c)
    /\ UNCHANGED <<env, relay, health, upgrade>>

Disconnect(c) ==
    /\ conns[c].phase # "idle"
    /\ Idle(c)
    /\ UNCHANGED <<env, relay, health, upgrade>>

AdmNext ==
    \/ \E e \in LaterEnvs : Deploy(e)
    \/ Evict \/ Healthz \/ WorkerRefuses
    \/ \E c \in Sockets : \/ Forward(c) \/ ConstructorThrows(c) \/ RelayFetch(c)
                        \/ Disconnect(c)
    \/ \E c \in Sockets, t \in Texts, p \in 0 .. MaxPeerId :
           Msg1(c, t, p) \/ Msg1Fails(c, t, p)
    \/ \E c \in Sockets, s \in Secrets : Msg3(c, s)

AdmSpec == AdmInit /\ [][AdmNext]_admvars

-----------------------------------------------------------------------------
(* Correctness.                                                            *)

Conn == [phase : {"idle", "forwarded", "msg1", "msg3", "ready"}, net : Names,
         peer : 0 .. MaxPeerId, secret : Secrets, proved : Secrets]

\* Every variable has its type; a connection in the handshake or after it
\* belongs to an instance that is there (Evict), and the instance has a
\* configuration that was read without an error.
AdmTypeOK ==
    /\ env \in Envs
    /\ relay # NoRelay => relay.env \in Envs /\ relay.config # Invalid
    /\ conns \in [Sockets -> Conn]
    /\ health \in {"unknown", "ok", "invalid"}
    /\ upgrade \in {"unknown", "accepted", "unavailable"}
    /\ \A c \in Sockets : conns[c].phase \in {"msg1", "msg3", "ready"} => relay # NoRelay

\* The loop of readServerConfig reads exactly the arrays that name each room
\* once, and gives every room the secret of its entry.
ConfigIsReference ==
    LET N == env.networks
    IN  IF N # NotAnArray /\ Rooms(N) # Invalid
        THEN /\ \A i, j \in 1 .. Len(N) :
                    N[i].network_name = N[j].network_name => i = j
             /\ Rooms(N) = {[name |-> N[i].network_name,
                             secret |-> N[i].network_secret] : i \in 1 .. Len(N)}
        ELSE \/ N = NotAnArray \/ N = <<>>
             \/ \E i \in 1 .. Len(N) : ~WellFormed(N[i])
             \/ \E i, j \in 1 .. Len(N) :
                    i # j /\ N[i].network_name = N[j].network_name

\* Which rooms a client can join with their secret: exactly those whose name is
\* the string of some text.  Such a name passes the test of read_msg1 and the
\* parsers of messages.ts if it passed that of readServerConfig, which also
\* accepts names with an unpaired surrogate, although no client can send them.
Joins(r, p) == \E t \in Texts : /\ NoiseAccepts(t, p) /\ Parses(Decoded[t], p)
                                /\ r \in Room(Decoded[t])

RoomsJoinable ==
    relay # NoRelay =>
        \A r \in relay.config.rooms, p \in 1 .. MaxPeerId \ {Server} :
            Joins(r, p) <=> Decoded[Encoded[r.name]] = r.name

\* What readServerConfig accepts is what the array says, and of use to clients
\* as far as its names can be sent.
ConfigSound == ConfigIsReference /\ RoomsJoinable

\* /healthz speaks for the relay: unless the instance still has an older
\* configuration, an upgrade is accepted exactly when it says "ok", although
\* it is the worker that answers it and the durable object that validates.
HealthMatchesUpgrade ==
    /\ health # "unknown" /\ upgrade # "unknown"
    /\ relay # NoRelay => relay.env = env
    => (health = "ok" <=> upgrade = "accepted")

\* A ready connection has proved the secret that the instance it is on has for
\* its network, however often the configuration was deployed in between.
ReadyProvedSecret ==
    \A c \in Sockets :
        conns[c].phase = "ready" =>
            \E r \in Room(conns[c].net) : r.secret = conns[c].proved

\* The instances and their connections are consistent.
Consistent == AdmTypeOK /\ ReadyProvedSecret
=============================================================================

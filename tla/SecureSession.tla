--------------------------- MODULE SecureSession ---------------------------
(***************************************************************************)
(* One entry of SESSION_STORE (src/cloudflare/wasm/src/secure.rs): the     *)
(* secure session of one peer of one network, the SecurePeer objects of    *)
(* the WebSockets that share it, and the peer itself as far as the session *)
(* protocol involves it.  Create / Sync / Join, epochs, nonces, the two    *)
(* receive-epoch slots and their grace copy are modelled; what a sequence  *)
(* number does to a replay window is not.                                  *)
(*                                                                         *)
(* Every SecurePeer works on a copy of the session's state, which          *)
(* load_session_state refreshes before each use and persist_session_state  *)
(* writes back after it.  The copies are part of the model, because        *)
(* several WebSockets of a peer are open at once while it reconnects.      *)
(*                                                                         *)
(* Only the server's sending direction and the client's sending direction  *)
(* are used, so one sequence counter and one pair of slots remain.         *)
(***************************************************************************)
EXTENDS Integers, FiniteSets

CONSTANTS
    Conns,         \* connection slots of this peer
    NoSession,     \* the store has no entry; a SecurePeer has no copy
    RotateAfter,   \* ROTATE_AFTER_PACKETS, 1000000 in the code
    EpochsAhead,   \* MAX_ACCEPTED_RX_EPOCH_AHEAD, 3 in the code
    LosesRoots,    \* whether a message 2 with a root key can be lost, too
    MaxRoots,      \* bound: root keys ever created
    MaxEpoch,      \* the last epoch, 2^32 - 1 in the code; after it comes 0 again
    MaxPackets     \* bound: packets ever sealed or opened

ASSUME FiniteConns == IsFiniteSet(Conns)
ASSUME Limits == /\ RotateAfter \in Nat \ {0}
                 /\ EpochsAhead \in Nat
                 /\ LosesRoots \in BOOLEAN
ASSUME Bounds == MaxRoots \in Nat /\ MaxEpoch \in Nat /\ MaxPackets \in Nat

VARIABLES
    phase,        \* "idle", "hello" (message 1 under way), "msg3" (attached), "ready"
    session,      \* StoredSession, or NoSession
    attachments,  \* StoredSession.attachments
    copy,         \* the session state each SecurePeer holds
    client,       \* the peer's end of each socket: "gone", "waiting", "answered"
    joins,        \* message 1 of each socket names a session generation
    msg2,         \* root key that message 2 under way carries, 0 for none
    waiting2,     \* sockets with a message 2 under way
    clientRoot,   \* root key the peer holds, 0 for none
    roots,        \* number of root keys created so far
    sealed,       \* history: the nonces used, with their root key
    reused,       \* history: the nonces used more than once
    wrapped,      \* history: root keys whose epochs have come round to 0 again
    packets       \* how many packets were sealed or opened, for the bound

serverVars == <<phase, session, attachments, copy>>
clientVars == <<client, joins, msg2, waiting2, clientRoot>>
history    == <<sealed, reused, wrapped, packets>>
vars       == <<serverVars, clientVars, roots, history>>

NoEpoch == -1   \* an EpochRxSlot that is not valid
Epochs  == 0 .. MaxEpoch
Slots   == Epochs \cup {NoEpoch}
Roots   == 1 .. MaxRoots

\* What a session and a SecurePeer both store.  cur and prev are rx_slots,
\* graceCur and gracePrev are sync_rx_grace.slots, of the peer's direction.
State == [root : Roots, epoch : Epochs, seq : Nat, since : Nat,
          cur : Slots, prev : Slots, graceCur : Slots, gracePrev : Slots]

Nonces == [root : Roots, epoch : Epochs, seq : Nat]

ASSUME NoSessionIsNone == NoSession \notin State

Init ==
    /\ phase = [c \in Conns |-> "idle"]
    /\ session = NoSession
    /\ attachments = 0
    /\ copy = [c \in Conns |-> NoSession]
    /\ client = [c \in Conns |-> "gone"]
    /\ joins = [c \in Conns |-> FALSE]
    /\ msg2 = [c \in Conns |-> 0]
    /\ waiting2 = {}
    /\ clientRoot = 0
    /\ roots = 0
    /\ sealed = {}
    /\ reused = {}
    /\ wrapped = {}
    /\ packets = 0

Largest(S) == CHOOSE x \in S : \A y \in S : x >= y

\* wrapping_add(1) of an epoch, a u32.
Following(e) == IF e = MaxEpoch THEN 0 ELSE e + 1

-----------------------------------------------------------------------------
(* Faulty variants, for checking the sensitivity of the properties.        *)

\* encrypt_packet without load_session_state.
NotLoaded(c) == copy[c]

\* Sync that starts over at the highest epoch instead of the next one.
SyncEpochReused(s) == Largest({s.epoch, s.cur, s.prev})

\* Sync that looks at the sending epoch only.
SyncEpochOfSender(s) == Following(s.epoch)

\* maybe_rotate_epoch comparing with <= instead of <.
DueLate(s) == s.since + 1 > RotateAfter

\* upsert_session joining whoever asks.
JoinsAnyone(c) == session # NoSession

\* The retain of upsert_session without its test of attachments.
ExpiresAnyway == session # NoSession

-----------------------------------------------------------------------------
(* The session state.                                                      *)

\* The session upsert_session creates when it finds none.
Created(root) == [root |-> root, epoch |-> 0, seq |-> 0, since |-> 0,
                  cur |-> NoEpoch, prev |-> NoEpoch,
                  graceCur |-> NoEpoch, gracePrev |-> NoEpoch]

\* The epoch after everything the session has sent in and holds a slot for.
\* The peer chooses the epochs of its packets, and the first one after a Sync
\* may be in any: one packet in the last epoch brings the next Sync back to 0.
LastEpoch(s) == Largest({s.epoch, s.cur, s.prev})
SyncEpoch(s) == Following(LastEpoch(s))

\* The Sync branch: new epoch, sequence numbers from 0, and the receive slots
\* moved aside into the grace slots.
Synced(s) == [s EXCEPT !.epoch = SyncEpoch(s), !.seq = 0, !.since = 0,
                       !.cur = NoEpoch, !.prev = NoEpoch,
                       !.graceCur = s.cur, !.gracePrev = s.prev]

\* upsert_session: a_session_generation equals the session's generation.  The
\* generation is 1 from Create on and Sync keeps it, so a peer that has a
\* session at all names the right one.
Joining(c) == session # NoSession /\ joins[c]

\* maybe_rotate_epoch: enough packets; the epoch may also have become old.
Due(s) == s.since + 1 >= RotateAfter
Rotated(s)  == [s EXCEPT !.epoch = Following(@), !.since = 0]
Continued(s) == [s EXCEPT !.since = @ + 1]
Candidates(s) == IF Due(s) THEN {Rotated(s)} ELSE {Rotated(s), Continued(s)}

\* evict_old_rx_slots: any slots may have become idle, the grace expired.
Aged(s) == {[s EXCEPT !.cur = a, !.prev = b, !.graceCur = d, !.gracePrev = e] :
              a \in {s.cur, NoEpoch}, b \in {s.prev, NoEpoch},
              d \in {s.graceCur, NoEpoch}, e \in {s.gracePrev, NoEpoch}}

\* precheck_replay: some window may accept a packet of epoch e.
MayAccept(s, e) ==
    \/ e \in {s.graceCur, s.gracePrev, s.cur, s.prev}
    \/ s.cur = NoEpoch
    \/ e > s.cur /\ e <= LastEpoch(s) + EpochsAhead

\* commit_replay: the slot the packet's epoch is recorded in.
Committed(s, e) ==
    IF e \in {s.graceCur, s.gracePrev} THEN s
    ELSE IF s.cur = NoEpoch THEN [s EXCEPT !.cur = e]
    ELSE IF e > s.cur /\ e # s.prev THEN [s EXCEPT !.cur = e, !.prev = s.cur]
    ELSE s

\* load_session_state: what a SecurePeer works on is what the store holds.
Loaded(c) == session

\* The history of wraps, when a root key's epoch e is followed by another.
Wrapped(root, e) == IF e = MaxEpoch THEN wrapped \cup {root} ELSE wrapped

\* SecurePeer.session_attached: drop gives up one attachment.
Releases(c) == phase[c] \in {"msg3", "ready"}

-----------------------------------------------------------------------------
(* Handshakes.                                                             *)

\* The peer opens a socket and sends message 1, naming the generation of the
\* session it holds, if it holds one.
Connect(c) ==
    /\ phase[c] = "idle" /\ c \notin waiting2
    /\ phase' = [phase EXCEPT ![c] = "hello"]
    /\ client' = [client EXCEPT ![c] = "waiting"]
    /\ joins' = [joins EXCEPT ![c] = clientRoot # 0]
    /\ UNCHANGED <<session, attachments, copy, msg2, waiting2, clientRoot,
                   roots, history>>

\* build_msg2 once upsert_session has left the session s: the SecurePeer is
\* attached, loads the session's state and answers.  What message 1 named is
\* not looked at again.
Answer(c, s, carried) ==
    /\ phase' = [phase EXCEPT ![c] = "msg3"]
    /\ session' = s
    /\ attachments' = attachments + 1
    /\ copy' = [copy EXCEPT ![c] = s]
    /\ msg2' = [msg2 EXCEPT ![c] = carried]
    /\ waiting2' = waiting2 \cup {c}
    /\ joins' = [joins EXCEPT ![c] = FALSE]
    /\ UNCHANGED <<client, clientRoot, sealed, reused, packets>>

\* upsert_session, Join: the peer keeps its root key and is sent none.
Join(c) ==
    /\ phase[c] = "hello"
    /\ Joining(c)
    /\ Answer(c, session, 0)
    /\ UNCHANGED <<roots, wrapped>>

\* upsert_session, Sync: the session's root key is sent with a new epoch.
Sync(c) ==
    /\ phase[c] = "hello"
    /\ session # NoSession /\ ~Joining(c)
    /\ Answer(c, Synced(session), session.root)
    /\ wrapped' = Wrapped(session.root, LastEpoch(session))
    /\ UNCHANGED roots

\* upsert_session, Create: a new random root key.
Create(c) ==
    /\ phase[c] = "hello"
    /\ session = NoSession
    /\ roots < MaxRoots
    /\ roots' = roots + 1
    /\ Answer(c, Created(roots'), roots')
    /\ UNCHANGED wrapped

\* The peer reads message 2, takes over the root key it carries, if any, and
\* sends message 3.  A socket the peer has given up changes nothing.
ReadMsg2(c) ==
    /\ c \in waiting2
    /\ waiting2' = waiting2 \ {c}
    /\ msg2' = [msg2 EXCEPT ![c] = 0]
    /\ IF client[c] = "waiting"
       THEN /\ client' = [client EXCEPT ![c] = "answered"]
            /\ clientRoot' = IF msg2[c] = 0 THEN clientRoot ELSE msg2[c]
       ELSE UNCHANGED <<client, clientRoot>>
    /\ UNCHANGED <<serverVars, joins, roots, history>>

\* The socket breaks before message 2 is read.
LoseMsg2(c) ==
    /\ c \in waiting2
    /\ msg2[c] = 0 \/ LosesRoots
    /\ waiting2' = waiting2 \ {c}
    /\ msg2' = [msg2 EXCEPT ![c] = 0]
    /\ client' = [client EXCEPT ![c] = "gone"]
    /\ UNCHANGED <<serverVars, joins, clientRoot, roots, history>>

\* finish_msg3: the proof is about the network secret and the Noise handshake;
\* the session's root key takes no part in it.
FinishMsg3(c) ==
    /\ phase[c] = "msg3" /\ client[c] = "answered"
    /\ phase' = [phase EXCEPT ![c] = "ready"]
    /\ UNCHANGED <<session, attachments, copy, clientVars, roots, history>>

-----------------------------------------------------------------------------
(* Traffic and ends.                                                       *)

\* encrypt_packet: load, rotate if due, seal with (epoch, sequence), persist.
Encrypt(c) ==
    /\ phase[c] = "ready"
    /\ packets < MaxPackets
    /\ \E s \in Candidates(Loaded(c)) :
          /\ session' = [s EXCEPT !.seq = @ + 1]
          /\ wrapped' = IF s = Rotated(Loaded(c))
                        THEN Wrapped(s.root, Loaded(c).epoch) ELSE wrapped
          /\ LET nonce == [root |-> s.root, epoch |-> s.epoch, seq |-> s.seq]
             IN  /\ sealed' = sealed \cup {nonce}
                 /\ reused' = reused \cup (sealed \cap {nonce})
    /\ copy' = [copy EXCEPT ![c] = session']
    /\ packets' = packets + 1
    /\ UNCHANGED <<phase, attachments, clientVars, roots>>

\* decrypt_packet of a packet the peer sealed with the root key in epoch e.
Decrypt(c, e) ==
    /\ phase[c] = "ready" /\ client[c] = "answered"
    /\ packets < MaxPackets
    /\ clientRoot = Loaded(c).root
    /\ \E s \in Aged(Loaded(c)) :
          /\ MayAccept(s, e)
          /\ session' = Committed(s, e)
          /\ copy' = [copy EXCEPT ![c] = session']
    /\ packets' = packets + 1
    /\ UNCHANGED <<phase, attachments, clientVars, roots, sealed, reused, wrapped>>

\* The connection ends, for whatever reason: disposeConnection frees the
\* SecurePeer, whose drop gives the attachment back.  What the server sent
\* before may still reach the peer.
Drop(c) ==
    /\ phase[c] # "idle"
    /\ phase' = [phase EXCEPT ![c] = "idle"]
    /\ copy' = [copy EXCEPT ![c] = NoSession]
    /\ attachments' = IF Releases(c) /\ attachments > 0
                      THEN attachments - 1 ELSE attachments
    /\ client' = [client EXCEPT ![c] = IF c \in waiting2 THEN @ ELSE "gone"]
    /\ joins' = [joins EXCEPT ![c] = FALSE]
    /\ UNCHANGED <<session, msg2, waiting2, clientRoot, roots, history>>

Expirable == session # NoSession /\ attachments = 0

\* upsert_session's retain, run by the handshake of any peer.  Nobody has been
\* attached for SESSION_IDLE_MS, six times HANDSHAKE_TIMEOUT_MS: a handshake
\* of this peer that began before that is over.  (When the retain is run by
\* this peer's own message 1, the session might as well have gone just before
\* the socket was opened.)
Expire ==
    /\ Expirable
    /\ waiting2 = {} /\ \A c \in Conns : phase[c] # "hello"
    /\ session' = NoSession
    /\ UNCHANGED <<phase, attachments, copy, clientVars, roots, history>>

\* The durable object is evicted or crashes: its memory and its sockets go.
ServerRestart ==
    /\ phase' = [c \in Conns |-> "idle"]
    /\ session' = NoSession
    /\ attachments' = 0
    /\ copy' = [c \in Conns |-> NoSession]
    /\ client' = [c \in Conns |-> "gone"]
    /\ msg2' = [c \in Conns |-> 0]
    /\ waiting2' = {}
    /\ joins' = [c \in Conns |-> FALSE]
    /\ UNCHANGED <<clientRoot, roots, history>>

\* The peer starts anew, with no session and no sockets.
ClientRestart ==
    /\ clientRoot' = 0
    /\ client' = [c \in Conns |-> "gone"]
    /\ UNCHANGED <<serverVars, joins, msg2, waiting2, roots, history>>

Next ==
    \/ \E c \in Conns : \/ Connect(c) \/ Join(c) \/ Sync(c) \/ Create(c)
                        \/ ReadMsg2(c) \/ LoseMsg2(c) \/ FinishMsg3(c)
                        \/ Drop(c)
    \/ \E c \in Conns : Encrypt(c)
    \/ \E c \in Conns, e \in Epochs : Decrypt(c, e)
    \/ Expire \/ ServerRestart \/ ClientRestart

Spec == Init /\ [][Next]_vars

-----------------------------------------------------------------------------
(* Correctness.                                                            *)

\* The SecurePeers that share the session.
Attached == {c \in Conns : phase[c] \in {"msg3", "ready"}}

\* Every variable has its type, and the session counts no more attachments
\* than the peer has sockets.
TypeOK ==
    /\ phase \in [Conns -> {"idle", "hello", "msg3", "ready"}]
    /\ session \in State \cup {NoSession}
    /\ attachments \in 0 .. Cardinality(Conns)
    /\ copy \in [Conns -> State \cup {NoSession}]
    /\ client \in [Conns -> {"gone", "waiting", "answered"}]
    /\ joins \in [Conns -> BOOLEAN]
    /\ msg2 \in [Conns -> 0 .. MaxRoots]
    /\ waiting2 \subseteq Conns
    /\ clientRoot \in 0 .. MaxRoots
    /\ roots \in 0 .. MaxRoots
    /\ sealed \subseteq Nonces /\ reused \subseteq sealed
    /\ wrapped \subseteq Roots
    /\ packets \in 0 .. MaxPackets

\* Every attached SecurePeer finds its session in the store and works with the
\* store's root key: a socket that is still open never meets "secure session
\* disappeared", however many others of the peer came and went.
SharedSession ==
    \A c \in Attached : session # NoSession /\ copy[c].root = session.root

\* No two packets are sealed with the same root key, epoch and sequence number
\* (encrypt_payload builds the AEAD nonce and the traffic key from them), by
\* whichever of the peer's SecurePeers, before and after Sync and rotation, as
\* long as the root key's epochs have not wrapped.  Afterwards they may be: Sync
\* restarts the sequence numbers in an epoch that was used before.
NonceUnique == \A n \in reused : n.root \in wrapped

\* There is a session, and its epochs have only gone up.
Ascending == session # NoSession /\ session.root \notin wrapped

\* Everything sealed with the present root key is behind the session's counters.
SealedBehind ==
    Ascending =>
        \A n \in sealed : n.root = session.root =>
            \/ n.epoch < session.epoch
            \/ n.epoch = session.epoch /\ n.seq < session.seq

\* maybe_rotate_epoch: no epoch's key seals more than ROTATE_AFTER_PACKETS
\* packets, the packet that starts the epoch included, until the epochs wrap.
EpochPacketsBounded ==
    \A m \in sealed : m.root \notin wrapped =>
        Cardinality({n \in sealed : n.root = m.root /\ n.epoch = m.epoch})
            <= RotateAfter

\* The windows kept aside by Sync are for epochs the session has left, so the
\* packets of an epoch that starts after it are never judged by them.
GraceBehind ==
    Ascending =>
        session.graceCur < session.epoch /\ session.gracePrev < session.epoch

\* Sync starts afresh, unless the epochs have wrapped: its sequence numbers
\* start over at 0 in an epoch that is ahead of all that the session has sealed,
\* and the windows it keeps aside judge nothing that is sealed from then on
\* (upsert_session).
SyncFresh == SealedBehind /\ GraceBehind

\* Once every message 2 that carries a root key has been read, a peer that is
\* ready on an open socket and the server hold the same root key.  README.md
\* says the Create / Sync / Join sessions are shared across reconnects.
Settled == \A c \in waiting2 : client[c] # "waiting" \/ msg2[c] = 0
RootAgreement ==
    Settled =>
        \A c \in Conns :
            phase[c] = "ready" /\ client[c] = "answered"
                => clientRoot = session.root
=============================================================================

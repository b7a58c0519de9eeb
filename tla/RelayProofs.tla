---------------------------- MODULE RelayProofs ----------------------------
(***************************************************************************)
(* Proofs about Relay, for any number of connections, networks, peers and  *)
(* keys and any capacities, and about Admission.                           *)
(*                                                                         *)
(* The registries justify one another, so the inductive invariant is their *)
(* conjunction: the rooms list the ready connections (RoomsExact), the     *)
(* route core knows the keys of those in the rooms (PeerKeysExact), the    *)
(* session of a connection exists because it is counted as attached        *)
(* (AttachmentsExact, SessionHeld), and its key stays bound because the    *)
(* session exists (BoundToLiveKey).                                        *)
(*                                                                         *)
(* The last part is about Admission, for lists of networks of any length:  *)
(* an instance has the configuration of its environment (Informed) and     *)
(* selects secrets from it (Selected), and the loop that reads the list    *)
(* has read, after every round, what it should have (Read).                *)
(***************************************************************************)
EXTENDS Relay, Admission, FiniteSetTheorems, WellFoundedInduction, TLAPS

\* The inductive invariant.
IInv ==
    /\ Typed
    /\ RoomsExact
    /\ PeerKeysExact
    /\ AttachmentsExact
    /\ SessionHeld
    /\ BoundToLiveKey
    /\ TimersExact

-----------------------------------------------------------------------------
(* The counts of attachments.                                              *)

\* The holders of a session are finitely many, so they can be counted.
LEMMA HoldersFinite ==
    ASSUME NEW id
    PROVE  /\ IsFiniteSet(Holders(id))
           /\ Cardinality(Holders(id)) \in Nat
           /\ Cardinality(Holders(id)) <= Cardinality(Conns)
<1>1. Holders(id) \in SUBSET Conns
  BY DEF Holders
<1>2. IsFiniteSet(Holders(id)) /\ Cardinality(Holders(id)) <= Cardinality(Conns)
  BY <1>1, FiniteConns, FS_Subset
<1> QED
  BY <1>2, FS_CardinalityType

\* Dropping the SecurePeers of the connections D leaves the count of the
\* holders that are not among them: the subtraction never saturates.
LEMMA ReleasedCount ==
    ASSUME AttachmentsExact, NEW D, NEW id \in Ids
    PROVE  AttachmentsWithout(D)[id] = Cardinality(Holders(id) \ D)
<1> DEFINE H == Holders(id)
           R == {c \in H \cap D : Releases(c)}
<1>1. R = H \cap D
  BY DEF Holders, Releases
<1>2. /\ IsFiniteSet(H) /\ Cardinality(H) \in Nat
  BY HoldersFinite
<1>3. /\ Cardinality(H \ D) = Cardinality(H) - Cardinality(H \cap D)
      /\ Cardinality(H \cap D) <= Cardinality(H)
  BY <1>2, FS_Difference, FS_Intersection
<1>4. attachments[id] = Cardinality(H)
  BY DEF AttachmentsExact
<1>5. AttachmentsWithout(D)[id] =
          IF Cardinality(R) <= attachments[id]
          THEN attachments[id] - Cardinality(R) ELSE 0
  BY DEF AttachmentsWithout
<1> HIDE DEF H, R
<1>6. /\ Cardinality(H) \in Nat /\ Cardinality(H \cap D) \in Nat
  BY <1>2, FS_Intersection, FS_CardinalityType
<1>7. AttachmentsWithout(D)[id] = Cardinality(H \ D)
  BY <1>1, <1>3, <1>4, <1>5, <1>6
<1> QED
  BY <1>7 DEF H

\* A session without attachments has no holder, so dropping it takes no
\* session away from a connection.
LEMMA EvictableUnheld ==
    ASSUME AttachmentsExact, NEW c \in Conns, Attached(c), ident[c] \in Ids
    PROVE  ident[c] \notin Evictable
<1> DEFINE id == ident[c]
<1>1. c \in Holders(id)
  BY DEF Holders
<1>2. Cardinality(Holders(id)) # 0
  BY <1>1, HoldersFinite, FS_EmptySet
<1> QED
  BY <1>2 DEF AttachmentsExact, Evictable

-----------------------------------------------------------------------------
(* Closing connections keeps the invariant.                                *)

\* The state after removeConnection of any set of connections.
LEMMA CloseAllInv ==
    ASSUME IInv, NEW D \in SUBSET Conns, CloseAll(D)
    PROVE  IInv'
<1> USE DEF IInv
<1>0. \A c \in Conns : /\ c \in D => phase'[c] = "closed" /\ ident'[c] = NoId
                                     /\ remoteKey'[c] = NoKey
                       /\ c \notin D => phase'[c] = phase[c] /\ ident'[c] = ident[c]
                                        /\ remoteKey'[c] = remoteKey[c]
  BY DEF CloseAll, Forget
<1>1. \A id \in Ids : Holders(id)' = Holders(id) \ D
  BY <1>0, Sentinels DEF Holders, Attached
<1>2. \A id \in Ids : attachments'[id] = Cardinality(Holders(id) \ D)
  BY ReleasedCount DEF CloseAll
<1>3. AttachmentsExact'
  BY <1>1, <1>2 DEF AttachmentsExact
<1>4. \A id \in Ids : rooms'[id] = IF rooms[id] \in D THEN NoConn ELSE rooms[id]
  BY DEF CloseAll, RoomsWithout, RoomsExact
<1>5. RoomsExact'
  BY <1>0, <1>4, Sentinels DEF RoomsExact, Typed
<1>6. \A id \in Ids : peerKeys'[id] = IF rooms[id] \in D THEN NoKey ELSE peerKeys[id]
  <2> SUFFICES ASSUME NEW id \in Ids
      PROVE peerKeys'[id] = IF rooms[id] \in D THEN NoKey ELSE peerKeys[id]
    OBVIOUS
  <2>1. (\E c \in D \cap Ready : ident[c] = id) <=> rooms[id] \in D
    BY DEF RoomsExact, Ready
  <2> QED
    BY <2>1 DEF CloseAll, KeysWithout
<1>7. PeerKeysExact'
  BY <1>0, <1>4, <1>6, Sentinels DEF PeerKeysExact, RegisteredKey, Typed
<1>8. SessionHeld' /\ BoundToLiveKey'
  BY <1>0 DEF SessionHeld, BoundToLiveKey, Ready, Attached, CloseAll
<1>9. TimersExact'
  BY <1>0 DEF TimersExact, CloseAll, TimerAfterRemoval
<1>10. Typed'
  <2>1. attachments' \in [Ids -> Nat]
    <3>1. \A id \in Ids : Cardinality(Holders(id) \ D) \in Nat
      BY HoldersFinite, FS_Difference, FS_CardinalityType
    <3> QED
      BY <3>1, <1>2 DEF CloseAll, AttachmentsWithout
  <2>2. /\ phase' \in [Conns -> Phases]
        /\ ident' \in [Conns -> Ids \cup {NoId}]
        /\ remoteKey' \in [Conns -> Keys \cup {NoKey}]
    BY <1>0 DEF CloseAll, Forget, Typed, Phases
  <2>3. rooms' \in [Ids -> Conns \cup {NoConn}]
    BY <1>4 DEF CloseAll, RoomsWithout, Typed
  <2>4. peerKeys' \in [Ids -> Keys \cup {NoKey}]
    BY <1>6 DEF CloseAll, KeysWithout, Typed
  <2>5. \A c \in Conns : /\ ident'[c] \in Ids <=> Attached(c)'
                         /\ remoteKey'[c] \in Keys <=> phase'[c] = "ready"
    BY <1>0, Sentinels DEF Typed, Attached
  <2>6. /\ handshakeTimer' \subseteq Conns /\ connections' \subseteq Conns
        /\ maintenanceTimer' \in BOOLEAN
        /\ sessions' \subseteq Ids /\ boundKey' \in [Ids -> Keys \cup {NoKey}]
    BY DEF CloseAll, Typed, TimerAfterRemoval
  <2> QED
    BY <2>1, <2>2, <2>3, <2>4, <2>5, <2>6 DEF Typed
<1> QED
  BY <1>3, <1>5, <1>7, <1>8, <1>9, <1>10

-----------------------------------------------------------------------------
(* The other steps.                                                        *)

LEMMA InitIInv ==
    ASSUME Init
    PROVE  IInv
<1>1. \A id \in Ids : Holders(id) = {}
  BY DEF Init, Holders, Attached
<1> QED
  BY <1>1, FS_EmptySet, Sentinels
     DEF Init, IInv, Typed, RoomsExact, PeerKeysExact, AttachmentsExact,
         SessionHeld, BoundToLiveKey, TimersExact, Phases, Attached, Ready,
         RegisteredKey

\* A new connection has no identity yet, so only the timers change.
LEMMA FetchInv ==
    ASSUME IInv, NEW c \in Conns, Fetch(c)
    PROVE  IInv'
<1> USE DEF IInv, Fetch
<1>1. \A d \in Conns : phase'[d] = IF d = c THEN "msg1" ELSE phase[d]
  BY DEF Typed
<1>2. \A id \in Ids : Holders(id)' = Holders(id)
  BY <1>1 DEF Holders, Attached
<1>3. AttachmentsExact'
  BY <1>2 DEF AttachmentsExact, sessionVars
<1>4. TimersExact'
  <2>1. connections' = {d \in Conns : phase'[d] # "closed"}
    BY <1>1 DEF TimersExact
  <2>2. handshakeTimer' = {d \in Conns : phase'[d] \in {"msg1", "msg3"}}
    BY <1>1 DEF TimersExact, TimerCreated
  <2>3. maintenanceTimer' /\ connections' # {}
    BY DEF TimerScheduled
  <2> QED
    BY <2>1, <2>2, <2>3 DEF TimersExact
<1>5. Typed'
  BY <1>1 DEF Typed, Phases, Attached, TimerScheduled, TimerCreated, sessionVars
<1>6. RoomsExact' /\ PeerKeysExact'
  BY <1>1 DEF RoomsExact, PeerKeysExact, RegisteredKey
<1>7. SessionHeld' /\ BoundToLiveKey'
  BY <1>1 DEF SessionHeld, BoundToLiveKey, Ready, Attached, sessionVars
<1> QED
  BY <1>3, <1>4, <1>5, <1>6, <1>7

\* What the three outcomes of message 1 share: sessions nobody holds go.
LEMMA EvictionInv ==
    ASSUME IInv, NEW E \in SUBSET Evictable, NEW c \in Conns, Attached(c)
    PROVE  ident[c] \in sessions \ E
BY EvictableUnheld DEF IInv, SessionHeld, Typed

\* Message 1 refused or unsent: the connection is closed before it is
\* attached, whatever became of the store.
LEMMA Msg1FailsInv ==
    ASSUME IInv, NEW c \in Conns, NEW id \in Ids, NEW E \in SUBSET sessions,
           Msg1Unsent(c, id, E) \/ Msg1Refused(c, id, E)
    PROVE  IInv'
<1> USE DEF IInv
<1>1. /\ phase[c] = "msg1"
      /\ E \subseteq Evictable
      /\ sessions \ E \subseteq sessions' /\ sessions' \subseteq Ids
      /\ boundKey' = [x \in Ids |-> IF x \in E THEN NoKey ELSE boundKey[x]]
      /\ phase' = [phase EXCEPT ![c] = "closed"]
      /\ handshakeTimer' = handshakeTimer \ {c}
      /\ connections' = connections \ {c}
      /\ maintenanceTimer' = TimerAfterRemoval(connections')
      /\ UNCHANGED <<ident, remoteKey, rooms, peerKeys, attachments>>
  BY DEF Msg1Unsent, Msg1Refused, Upsert, Typed
<1>2. \A d \in Conns : phase'[d] = IF d = c THEN "closed" ELSE phase[d]
  BY <1>1 DEF Typed
<1>3. \A x \in Ids : Holders(x)' = Holders(x)
  BY <1>1, <1>2 DEF Holders, Attached
<1>4. AttachmentsExact'
  BY <1>1, <1>3 DEF AttachmentsExact
<1>5. TimersExact'
  <2>1. connections' = {d \in Conns : phase'[d] # "closed"}
    BY <1>1, <1>2 DEF TimersExact
  <2>2. handshakeTimer' = {d \in Conns : phase'[d] \in {"msg1", "msg3"}}
    BY <1>1, <1>2 DEF TimersExact
  <2>3. maintenanceTimer' <=> connections' # {}
    BY <1>1 DEF TimersExact, TimerAfterRemoval
  <2> QED
    BY <2>1, <2>2, <2>3 DEF TimersExact
<1>6. Typed'
  BY <1>1, <1>2 DEF Typed, Phases, Attached, TimerAfterRemoval
<1>7. RoomsExact' /\ PeerKeysExact'
  BY <1>1, <1>2 DEF RoomsExact, PeerKeysExact, RegisteredKey
<1>8. SessionHeld'
  BY <1>1, <1>2, EvictionInv DEF SessionHeld, Attached
<1>9. BoundToLiveKey'
  <2>1. \A d \in Ready : ident[d] \in Ids \ E
    BY <1>1, EvictionInv DEF Ready, Attached, Typed
  <2> QED
    BY <2>1, <1>1, <1>2 DEF BoundToLiveKey, Ready
<1> QED
  BY <1>4, <1>5, <1>6, <1>7, <1>8, <1>9

\* Message 2 sent: the connection holds the session that was found or made.
LEMMA Msg1AcceptInv ==
    ASSUME IInv, NEW c \in Conns, NEW id \in Ids, NEW E \in SUBSET sessions,
           Msg1Accept(c, id, E)
    PROVE  IInv'
<1> USE DEF IInv
<1>1. /\ phase[c] = "msg1" /\ E \subseteq Evictable
      /\ sessions' = (sessions \ E) \cup {id}
      /\ boundKey' = [x \in Ids |-> IF x \in E THEN NoKey ELSE boundKey[x]]
      /\ UNCHANGED <<remoteKey, handshakeTimer, serverVars>>
  BY DEF Msg1Accept, Upsert
<1>2. \A d \in Conns : /\ phase'[d] = IF d = c THEN "msg3" ELSE phase[d]
                       /\ ident'[d] = IF d = c THEN id ELSE ident[d]
  BY DEF Msg1Accept, Typed
<1>3. \A x \in Ids : attachments'[x] = IF x = id THEN attachments[x] + 1
                                                ELSE attachments[x]
  BY DEF Msg1Accept, Typed
<1>4. ASSUME NEW x \in Ids
      PROVE  /\ x = id => Holders(x)' = Holders(x) \cup {c} /\ c \notin Holders(x)
             /\ x # id => Holders(x)' = Holders(x)
  BY <1>1, <1>2 DEF Holders, Attached
<1>5. AttachmentsExact'
  <2> SUFFICES ASSUME NEW x \in Ids
      PROVE attachments'[x] = Cardinality(Holders(x)')
    BY DEF AttachmentsExact
  <2>1. CASE x = id
    <3>1. Cardinality(Holders(x) \cup {c}) = Cardinality(Holders(x)) + 1
      BY <2>1, <1>4, HoldersFinite, FS_AddElement
    <3> QED
      BY <3>1, <2>1, <1>3, <1>4 DEF AttachmentsExact
  <2>2. CASE x # id
    BY <2>2, <1>3, <1>4 DEF AttachmentsExact
  <2> QED
    BY <2>1, <2>2
<1>6. TimersExact'
  BY <1>1, <1>2 DEF TimersExact, serverVars
<1>7. Typed'
  <2>1. attachments' \in [Ids -> Nat]
    BY <1>3 DEF Msg1Accept, Typed
  <2>2. phase' \in [Conns -> Phases] /\ ident' \in [Conns -> Ids \cup {NoId}]
    BY DEF Msg1Accept, Typed, Phases
  <2>3. \A d \in Conns : /\ ident'[d] \in Ids <=> Attached(d)'
                         /\ remoteKey'[d] \in Keys <=> phase'[d] = "ready"
    BY <1>1, <1>2 DEF Typed, Attached
  <2> QED
    BY <2>1, <2>2, <2>3, <1>1 DEF Typed, serverVars
<1>8. RoomsExact' /\ PeerKeysExact'
  BY <1>1, <1>2 DEF RoomsExact, PeerKeysExact, RegisteredKey, serverVars
<1>9. SessionHeld'
  BY <1>1, <1>2, EvictionInv DEF SessionHeld, Attached
<1>10. BoundToLiveKey'
  <2>1. \A d \in Ready : ident[d] \in Ids \ E
    BY <1>1, EvictionInv DEF Ready, Attached, Typed
  <2> QED
    BY <2>1, <1>1, <1>2 DEF BoundToLiveKey, Ready
<1> QED
  BY <1>5, <1>6, <1>7, <1>8, <1>9, <1>10

-----------------------------------------------------------------------------
(* Message 3: replacement and the cascade that follows it.                 *)

LEMMA Msg3AcceptInv ==
    ASSUME IInv, NEW c \in Conns, NEW k \in Keys, NEW F \in SUBSET Conns,
           Msg3Accept(c, k, F)
    PROVE  IInv'
<1> USE DEF IInv
<1> DEFINE id == ident[c]
           D  == Registered(id) \cup F
<1>1. /\ phase[c] = "msg3" /\ id \in Ids /\ id \in sessions
      /\ boundKey[id] \in {NoKey, k}
      /\ F \subseteq MayFailAfter(c, id)
  BY DEF Msg3Accept, KeyConfirmed, Typed, Attached
<1>2. D \subseteq Conns /\ \A d \in D : d = c \/ phase[d] = "ready"
  BY <1>1 DEF Registered, MayFailAfter, ReadyIn, Ready, Typed, RoomsExact
<1>3. c \in D <=> c \in F
  BY <1>1 DEF Registered, RoomsExact
<1>4. \A d \in Conns :
         /\ d \in D => /\ phase'[d] = "closed" /\ ident'[d] = NoId
                      /\ remoteKey'[d] = NoKey
         /\ d \notin D => /\ phase'[d] = IF d = c THEN "ready" ELSE phase[d]
                         /\ ident'[d] = ident[d]
                         /\ remoteKey'[d] = IF d = c THEN k ELSE remoteKey[d]
  BY DEF Msg3Accept, Forget, Typed
<1>5. \A x \in Ids : rooms'[x] =
         IF x = id THEN IF c \in D THEN NoConn ELSE c
         ELSE IF rooms[x] \in D THEN NoConn ELSE rooms[x]
  BY <1>1, <1>2 DEF Msg3Accept, RoomsWithout, RoomsExact, Typed
<1>6. RoomsExact'
  <2> SUFFICES ASSUME NEW x \in Ids, NEW d \in Conns
      PROVE rooms'[x] = d <=> phase'[d] = "ready" /\ ident'[d] = x
    BY DEF RoomsExact
  <2>1. CASE x = id
    <3>1. phase[d] = "ready" /\ ident[d] = id => d \in D
      BY <1>1, Sentinels DEF RoomsExact, Registered
    <3> QED
      BY <2>1, <3>1, <1>1, <1>4, <1>5, Sentinels
  <2>2. CASE x # id
    BY <2>2, <1>1, <1>4, <1>5, Sentinels DEF RoomsExact, Typed
  <2> QED
    BY <2>1, <2>2
<1>7. \A x \in Ids : peerKeys'[x] =
         IF x = id THEN IF c \in D THEN NoKey ELSE k
         ELSE IF rooms[x] \in D THEN NoKey ELSE peerKeys[x]
  <2> SUFFICES ASSUME NEW x \in Ids
      PROVE peerKeys'[x] = IF x = id THEN IF c \in D THEN NoKey ELSE k
                           ELSE IF rooms[x] \in D THEN NoKey ELSE peerKeys[x]
    OBVIOUS
  <2>1. CASE x = id
    BY <2>1, <1>1, <1>3 DEF Msg3Accept, KeysWithout
  <2>2. CASE x # id
    <3>1. (\E d \in (D \ {c}) \cap Ready : ident[d] = x) <=> rooms[x] \in D
      BY <2>2, <1>1, <1>2 DEF RoomsExact, Ready
    <3> QED
      BY <2>2, <3>1 DEF Msg3Accept, KeysWithout
  <2> QED
    BY <2>1, <2>2
<1>8. PeerKeysExact'
  BY <1>1, <1>4, <1>5, <1>7, Sentinels DEF PeerKeysExact, RegisteredKey, Typed, RoomsExact
<1>9. \A x \in Ids : Holders(x)' = Holders(x) \ D
  BY <1>1, <1>4, Sentinels DEF Holders, Attached
<1>10. \A x \in Ids : attachments'[x] = Cardinality(Holders(x) \ D)
  BY ReleasedCount DEF Msg3Accept
<1>11. AttachmentsExact'
  BY <1>9, <1>10 DEF AttachmentsExact
<1>12. /\ sessions' = sessions
       /\ \A x \in Ids : boundKey'[x] = IF x = id THEN k ELSE boundKey[x]
  BY <1>1 DEF Msg3Accept, Typed
<1>13. SessionHeld'
  BY <1>1, <1>4, <1>12 DEF SessionHeld, Attached
<1>14. BoundToLiveKey'
  BY <1>1, <1>4, <1>6, <1>12, Sentinels
     DEF BoundToLiveKey, Ready, Typed, Attached, RoomsExact
<1>15. TimersExact'
  BY <1>1, <1>2, <1>3, <1>4 DEF TimersExact, Msg3Accept, TimerAfterRemoval
<1>16. Typed'
  <2>1. attachments' \in [Ids -> Nat]
    <3>1. \A x \in Ids : Cardinality(Holders(x) \ D) \in Nat
      BY HoldersFinite, FS_Difference, FS_CardinalityType
    <3> QED
      BY <3>1, <1>10 DEF Msg3Accept, AttachmentsWithout
  <2>2. /\ phase' \in [Conns -> Phases]
        /\ ident' \in [Conns -> Ids \cup {NoId}]
        /\ remoteKey' \in [Conns -> Keys \cup {NoKey}]
    BY <1>4 DEF Msg3Accept, Forget, Typed, Phases
  <2>3. rooms' \in [Ids -> Conns \cup {NoConn}]
    BY <1>5 DEF Msg3Accept, RoomsWithout, Typed
  <2>4. peerKeys' \in [Ids -> Keys \cup {NoKey}]
    BY <1>7 DEF Msg3Accept, KeysWithout, Typed
  <2>5. \A d \in Conns : /\ ident'[d] \in Ids <=> Attached(d)'
                         /\ remoteKey'[d] \in Keys <=> phase'[d] = "ready"
    BY <1>1, <1>4, Sentinels DEF Typed, Attached
  <2>6. /\ handshakeTimer' \subseteq Conns /\ connections' \subseteq Conns
        /\ maintenanceTimer' \in BOOLEAN
        /\ sessions' \subseteq Ids /\ boundKey' \in [Ids -> Keys \cup {NoKey}]
    BY DEF Msg3Accept, Typed, TimerAfterRemoval
  <2> QED
    BY <2>1, <2>2, <2>3, <2>4, <2>5, <2>6 DEF Typed
<1> QED
  BY <1>6, <1>8, <1>11, <1>13, <1>14, <1>15, <1>16

-----------------------------------------------------------------------------
(* The theorems.                                                           *)

\* One step of the server keeps the invariant.
LEMMA NextIInv ==
    ASSUME IInv, [Next]_vars
    PROVE  IInv'
<1>1. CASE UNCHANGED vars
  BY <1>1 DEF vars, connVars, serverVars, sessionVars, IInv, Typed, RoomsExact,
     PeerKeysExact, RegisteredKey, AttachmentsExact, SessionHeld,
     BoundToLiveKey, TimersExact, Holders, Attached, Ready
<1>2. CASE Next
  <2>1. ASSUME NEW c \in Conns, Fetch(c)  PROVE IInv'
    BY <2>1, FetchInv
  <2>2. ASSUME NEW c \in Conns, HandshakeFails(c) \/ HandshakeTimeout(c)
        PROVE  IInv'
    BY <2>2, CloseAllInv DEF HandshakeFails, HandshakeTimeout
  <2>3. ASSUME NEW c \in Conns, NEW id \in Ids, NEW E \in SUBSET sessions,
               \/ Msg1Accept(c, id, E) \/ Msg1Unsent(c, id, E)
               \/ Msg1Refused(c, id, E)
        PROVE  IInv'
    BY <2>3, Msg1AcceptInv, Msg1FailsInv
  <2>4. ASSUME NEW c \in Conns, NEW k \in Keys, NEW F \in SUBSET Conns,
               Msg3Accept(c, k, F)
        PROVE  IInv'
    BY <2>4, Msg3AcceptInv
  <2>5. ASSUME NEW c \in Conns, NEW F \in SUBSET Conns,
               ReadyEnds(c, F) \/ RouteChanged(c, F)
        PROVE  IInv'
    BY <2>5, CloseAllInv DEF ReadyEnds, RouteChanged
  <2>6. ASSUME NEW c \in Conns, NEW p \in Peers, NEW F \in SUBSET Conns,
               ForwardRejected(c, p, F)
        PROVE  IInv'
    <3> DEFINE target == rooms[<<Network(c), p>>]
    <3>1. target \in Conns
      <4>1. phase[c] = "ready" /\ target # NoConn
        BY <2>6 DEF ForwardRejected
      <4>2. ident[c] \in Ids
        BY <4>1 DEF IInv, Typed, Attached
      <4>3. <<Network(c), p>> \in Ids
        BY <4>2 DEF Network, Ids
      <4> QED
        BY <4>1, <4>3 DEF IInv, Typed
    <3>2. CloseAll({target} \cup F)
      BY <2>6 DEF ForwardRejected
    <3> QED
      BY <3>1, <3>2, CloseAllInv
  <2>7. ASSUME NEW F \in SUBSET Conns, MaintenanceTick(F)  PROVE IInv'
    BY <2>7, CloseAllInv DEF MaintenanceTick
  <2> QED
    BY <1>2, <2>1, <2>2, <2>3, <2>4, <2>5, <2>6, <2>7 DEF Next
<1> QED
  BY <1>1, <1>2

\* The inductive invariant holds in every reachable state.
THEOREM Inductive == Spec => []IInv
BY InitIInv, NextIInv, PTL DEF Spec

\* Type correctness, with the bound on the attachments of a session.
THEOREM TypeCorrect == Spec => []TypeOK
<1>1. IInv => TypeOK
  BY HoldersFinite DEF IInv, TypeOK, AttachmentsExact
<1> QED
  BY <1>1, Inductive, PTL

\* A key that confirm_session_public_key accepted is never refused by add_peer.
LEMMA AddPeerAccepted ==
    ASSUME IInv
    PROVE  AddPeerNeverRefuses
<1> SUFFICES ASSUME NEW c \in Conns, NEW k \in Keys, phase[c] = "msg3"
    PROVE  KeysWithout(peerKeys, Registered(ident[c]))[ident[c]] = NoKey
  BY DEF AddPeerNeverRefuses, AddPeerAccepts
<1> DEFINE id == ident[c]
<1>1. id \in Ids
  BY DEF IInv, Typed, Attached
<1>2. CASE rooms[id] = NoConn
  <2>1. peerKeys[id] = NoKey
    BY <1>1, <1>2 DEF IInv, PeerKeysExact, RegisteredKey
  <2> QED
    BY <1>1, <2>1 DEF KeysWithout
<1>3. CASE rooms[id] # NoConn
  <2>1. rooms[id] \in Registered(id) \cap Ready /\ ident[rooms[id]] = id
    BY <1>1, <1>3 DEF IInv, Typed, RoomsExact, Registered, Ready
  <2> QED
    BY <1>1, <2>1 DEF KeysWithout
<1> QED
  BY <1>2, <1>3

\* The registries agree: the rooms are the ready connections, one at most per
\* peer of a network, the route core authenticates exactly their keys, and it
\* never refuses a key that the session store has accepted.
THEOREM RegistriesAgree == Spec => []RegistriesExact
<1>1. IInv => RegistriesExact
  BY AddPeerAccepted DEF IInv, RegistriesExact
<1> QED
  BY <1>1, Inductive, PTL

\* The attachments of a session count its connections, a connection's session
\* is in the store, and it is bound to the connected peer's key.
THEOREM SessionsFollowConnections == Spec => []SessionsExact
<1>1. IInv => SessionsExact
  BY HoldersFinite DEF IInv, TypeOK, AttachmentsExact, SessionsExact
<1> QED
  BY <1>1, Inductive, PTL

\* The timers run exactly while there is something for them to do.
THEOREM TimersFollowConnections == Spec => []TimersExact
<1>1. IInv => TimersExact
  BY DEF IInv
<1> QED
  BY <1>1, Inductive, PTL

-----------------------------------------------------------------------------
(* Capacity.                                                               *)

\* A step adds at most one connection, and only below the limit; a session is
\* added only to a store that has room for it after the eviction.
LEMMA CapacityStep ==
    ASSUME IInv, WithinCapacity, [Next]_vars
    PROVE  WithinCapacity'
<1>1. /\ connections \subseteq Conns /\ IsFiniteSet(connections)
      /\ Cardinality(connections) \in Nat
  BY FiniteConns, FS_Subset, FS_CardinalityType DEF IInv, Typed
<1>2. sessions \subseteq Ids /\ IsFiniteSet(sessions) /\ Cardinality(sessions) \in Nat
  BY FiniteIds, FS_Product, FS_Subset, FS_CardinalityType DEF IInv, Typed, Ids
<1>3. ASSUME NEW S, S \subseteq connections
      PROVE  Cardinality(S) <= MaxConnections
  <2>1. IsFiniteSet(S) /\ Cardinality(S) <= Cardinality(connections)
    BY <1>1, <1>3, FS_Subset
  <2> QED
    BY <2>1, <1>1, FS_CardinalityType, Capacities DEF WithinCapacity
<1>4. ASSUME NEW S, S \subseteq sessions
      PROVE  IsFiniteSet(S) /\ Cardinality(S) \in Nat /\ Cardinality(S) <= MaxSessions
  <2>1. IsFiniteSet(S) /\ Cardinality(S) <= Cardinality(sessions)
    BY <1>2, <1>4, FS_Subset
  <2> QED
    BY <2>1, <1>2, FS_CardinalityType, Capacities DEF WithinCapacity
<1>5. ASSUME NEW id, NEW E, E \subseteq Evictable, StoreAdmits(id, sessions \ E)
      PROVE  Cardinality((sessions \ E) \cup {id}) <= MaxSessions
  <2> DEFINE S == sessions \ E
  <2>1. IsFiniteSet(S) /\ Cardinality(S) \in Nat /\ Cardinality(S) <= MaxSessions
    BY <1>4
  <2>2. id \in S \/ Cardinality(S) < MaxSessions
    BY <1>5 DEF StoreAdmits
  <2> HIDE DEF S
  <2>3. Cardinality(S \cup {id}) = IF id \in S THEN Cardinality(S) ELSE Cardinality(S) + 1
    BY <2>1, FS_AddElement
  <2>4. Cardinality(S \cup {id}) <= MaxSessions
    BY <2>1, <2>2, <2>3, Capacities
  <2> QED
    BY <2>4 DEF S
<1>6. ASSUME NEW c \in Conns, Fetch(c)  PROVE WithinCapacity'
  <2>1. Cardinality(connections \cup {c}) =
            IF c \in connections THEN Cardinality(connections)
                                 ELSE Cardinality(connections) + 1
    BY <1>1, FS_AddElement
  <2>2. Cardinality(connections) < MaxConnections
    BY <1>6 DEF Fetch, HasCapacity
  <2>3. Cardinality(connections \cup {c}) \in Nat
    BY <1>1, FS_AddElement, FS_CardinalityType
  <2>4. Cardinality(connections \cup {c}) <= MaxConnections
    BY <2>1, <2>2, <2>3, <1>1, Capacities
  <2> QED
    BY <2>4, <1>6 DEF Fetch, WithinCapacity, sessionVars
<1>7. ASSUME connections' \subseteq connections, sessions' \subseteq sessions
      PROVE  WithinCapacity'
  BY <1>7, <1>3, <1>4 DEF WithinCapacity
<1>8. ASSUME NEW c \in Conns, NEW id \in Ids, NEW E \in SUBSET sessions,
             Msg1Accept(c, id, E) \/ Msg1Unsent(c, id, E)
      PROVE  WithinCapacity'
  <2>1. Cardinality(sessions') <= MaxSessions
    BY <1>5, <1>8 DEF Msg1Accept, Msg1Unsent, Upsert
  <2>2. connections' \subseteq connections
    BY <1>8 DEF Msg1Accept, Msg1Unsent, serverVars
  <2> QED
    BY <2>1, <2>2, <1>3 DEF WithinCapacity
<1>9. ASSUME NEW D, CloseAll(D)  PROVE WithinCapacity'
  BY <1>7, <1>9 DEF CloseAll
<1>10. CASE UNCHANGED vars
  BY <1>7, <1>10 DEF vars, serverVars, sessionVars
<1>11. CASE Next
  <2>1. ASSUME NEW c \in Conns, NEW id \in Ids, NEW E \in SUBSET sessions,
               Msg1Refused(c, id, E)
        PROVE  WithinCapacity'
    BY <2>1, <1>7 DEF Msg1Refused
  <2>2. ASSUME NEW c \in Conns, NEW k \in Keys, NEW F \in SUBSET Conns,
               Msg3Accept(c, k, F)
        PROVE  WithinCapacity'
    BY <2>2, <1>7 DEF Msg3Accept
  <2> QED
    BY <1>11, <1>6, <1>8, <1>9, <2>1, <2>2
       DEF Next, HandshakeFails, HandshakeTimeout, ReadyEnds, RouteChanged,
           ForwardRejected, MaintenanceTick
<1> QED
  BY <1>10, <1>11

\* Neither the connection map nor the session store outgrows its limit.
THEOREM CapacityRespected == Spec => []WithinCapacity
<1>1. Init => WithinCapacity
  BY FS_EmptySet, Capacities DEF Init, WithinCapacity
<1>2. IInv /\ WithinCapacity /\ [Next]_vars => WithinCapacity'
  BY CapacityStep
<1> QED
  BY <1>1, <1>2, Inductive, PTL DEF Spec

-----------------------------------------------------------------------------
(* Refinement.                                                             *)

\* The peers whose registered connection is among D.
Leaving(D) == {id \in Ids : rooms[id] \in D}

\* Closing connections makes the peers leave that they were registered for.
LEMMA CloseAllLeaves ==
    ASSUME IInv, NEW D \in SUBSET Conns, CloseAll(D)
    PROVE  Dir!Leave(Leaving(D))
<1>1. \A id \in Ids : rooms'[id] = IF rooms[id] \in D THEN NoConn ELSE rooms[id]
  BY DEF CloseAll, RoomsWithout, IInv, RoomsExact
<1>2. \A c \in Conns \ D : remoteKey'[c] = remoteKey[c]
  BY DEF CloseAll, Forget
<1> QED
  BY <1>1, <1>2, Sentinels
     DEF Dir!Leave, Dir!Ids, Ids, RegisteredKey, Leaving, IInv, Typed

\* A valid message 3 is the arrival of one peer, with the key it had if it was
\* there before, and the departures of its own network's cascade; or nothing
\* but departures, when the new connection itself fails in the broadcast.
LEMMA Msg3AcceptArrives ==
    ASSUME IInv, NEW c \in Conns, NEW k \in Keys, NEW F \in SUBSET Conns,
           Msg3Accept(c, k, F)
    PROVE  Dir!Next
<1> USE DEF IInv
<1> DEFINE id   == ident[c]
           D    == Registered(id) \cup F
           left == Leaving(F) \ {id}
<1>1. /\ phase[c] = "msg3" /\ id \in Ids
      /\ boundKey[id] \in {NoKey, k}
      /\ F \subseteq MayFailAfter(c, id)
  BY DEF Msg3Accept, KeyConfirmed, Typed, Attached
<1>2. \A x \in Ids : rooms'[x] =
         IF x = id THEN IF c \in F THEN NoConn ELSE c
         ELSE IF rooms[x] \in F THEN NoConn ELSE rooms[x]
  BY <1>1, Sentinels
     DEF Msg3Accept, RoomsWithout, RoomsExact, Typed, Registered
<1>3. \A x \in Ids : x # id /\ rooms[x] \in Conns \ F
                       => remoteKey'[rooms[x]] = remoteKey[rooms[x]]
  BY <1>1 DEF Msg3Accept, Forget, Registered, RoomsExact, Typed
<1>4. \A x \in Ids : RegisteredKey'[x] =
         IF x = id THEN IF c \in F THEN NoKey ELSE k
         ELSE IF x \in left THEN NoKey ELSE RegisteredKey[x]
  <2>1. c \notin F => remoteKey'[c] = k
    BY <1>1, Sentinels DEF Msg3Accept, Forget, Registered, RoomsExact, Typed
  <2> QED
    BY <1>1, <1>2, <1>3, <2>1, Sentinels DEF RegisteredKey, Leaving, Typed
<1>5. CASE c \in F
  <2>1. Dir!Leave(left \cup {id})
    BY <1>1, <1>4, <1>5 DEF Dir!Leave, Dir!Ids, Ids, RegisteredKey
  <2> QED
    BY <2>1, <1>1 DEF Dir!Next, Dir!Ids, Ids, Leaving
<1>6. CASE c \notin F
  <2>1. RegisteredKey[id] \in {NoKey, k}
    BY <1>1, Sentinels DEF RegisteredKey, Typed, RoomsExact, BoundToLiveKey, Ready
  <2>2. \A x \in left : x # id /\ x[1] = id[1]
    BY <1>1, <1>6 DEF Leaving, MayFailAfter, ReadyIn, Network, RoomsExact, Ready
  <2>3. Dir!Arrive(id, k, left)
    BY <1>1, <1>4, <1>6, <2>1, <2>2
       DEF Dir!Arrive, Dir!Ids, Ids, RegisteredKey
  <2> QED
    BY <2>3, <1>1 DEF Dir!Next, Dir!Ids, Ids, Leaving
<1> QED
  BY <1>5, <1>6

\* Every step of the server is a step of Directory, or none.
LEMMA StepRefines ==
    ASSUME IInv, [Next]_vars
    PROVE  [Dir!Next]_RegisteredKey
<1>1. ASSUME NEW D \in SUBSET Conns, CloseAll(D)  PROVE Dir!Next
  BY <1>1, CloseAllLeaves DEF Dir!Next, Dir!Ids, Ids, Leaving
<1>2. ASSUME UNCHANGED <<rooms, remoteKey>>  PROVE UNCHANGED RegisteredKey
  BY <1>2 DEF RegisteredKey
<1>3. CASE UNCHANGED vars
  BY <1>2, <1>3 DEF vars, serverVars, connVars
<1>4. CASE Next
  <2>1. ASSUME NEW c \in Conns, Fetch(c)  PROVE UNCHANGED RegisteredKey
    BY <2>1, <1>2 DEF Fetch
  <2>2. ASSUME NEW c \in Conns, NEW id \in Ids, NEW E \in SUBSET sessions,
               \/ Msg1Accept(c, id, E) \/ Msg1Unsent(c, id, E)
               \/ Msg1Refused(c, id, E)
        PROVE  UNCHANGED RegisteredKey
    BY <2>2, <1>2 DEF Msg1Accept, Msg1Unsent, Msg1Refused, serverVars
  <2>3. ASSUME NEW c \in Conns, HandshakeFails(c) \/ HandshakeTimeout(c)
        PROVE  Dir!Next
    BY <2>3, <1>1 DEF HandshakeFails, HandshakeTimeout
  <2>4. ASSUME NEW c \in Conns, NEW F \in SUBSET Conns,
               ReadyEnds(c, F) \/ RouteChanged(c, F)
        PROVE  Dir!Next
    BY <2>4, <1>1 DEF ReadyEnds, RouteChanged
  <2>5. ASSUME NEW c \in Conns, NEW p \in Peers, NEW F \in SUBSET Conns,
               ForwardRejected(c, p, F)
        PROVE  Dir!Next
    <3>1. rooms[<<Network(c), p>>] \in Conns
      BY <2>5 DEF ForwardRejected, IInv, Typed, Attached, Network, Ids
    <3> QED
      BY <2>5, <3>1, <1>1 DEF ForwardRejected
  <2>6. ASSUME NEW F \in SUBSET Conns, MaintenanceTick(F)  PROVE Dir!Next
    BY <2>6, <1>1 DEF MaintenanceTick
  <2> QED
    BY <1>4, <2>1, <2>2, <2>3, <2>4, <2>5, <2>6, Msg3AcceptArrives DEF Next
<1> QED
  BY <1>3, <1>4

\* The rooms implement the abstract directory of present peers.
THEOREM RelayImplementsDirectory == Spec => ImplementsDirectory
<1>1. Init => Dir!Init
  BY DEF Init, Dir!Init, Dir!Ids, Ids, RegisteredKey
<1>2. IInv /\ [Next]_vars => [Dir!Next]_RegisteredKey
  BY StepRefines
<1> QED
  BY <1>1, <1>2, Inductive, PTL DEF Spec, ImplementsDirectory, Dir!Spec
-----------------------------------------------------------------------------
(* Admission.                                                              *)

\* Every nonempty set of numbers has a least one.
LEMMA LeastNumber ==
    ASSUME NEW T \in SUBSET Nat, T # {}
    PROVE  \E x \in T : \A y \in T : x <= y
<1> DEFINE R == OpToRel(<, Nat)
<1>1. \A x, y \in Nat : x < y => <<x, y>> \in R
  BY DEF OpToRel
<1>2. IsWellFoundedOn(R, Nat)
  BY NatLessThanWellFounded
<1> HIDE DEF R
<1>3. PICK x \in T : \A y \in T : <<y, x>> \notin R
  BY <1>2, WFMin
<1>4. ASSUME NEW y \in T
      PROVE  x <= y
  <2>1. x \in Nat /\ y \in Nat /\ ~(y < x)
    BY <1>1, <1>3
  <2> QED
    BY <2>1
<1> QED
  BY <1>4

\* Induction, with the numbers for which the claim holds as a set.
LEMMA Upwards ==
    ASSUME NEW P, 0 \in P, \A k \in Nat : k \in P => k + 1 \in P
    PROVE  \A k \in Nat : k \in P
<1> DEFINE T == {k \in Nat : k \notin P}
<1>1. ASSUME T # {}
      PROVE  FALSE
  <2>1. PICK x \in T : \A y \in T : x <= y
    BY <1>1, LeastNumber
  <2>2. x \in Nat /\ x # 0
    BY <2>1
  <2>3. x - 1 \in Nat /\ ~(x <= x - 1) /\ (x - 1) + 1 = x
    BY <2>2
  <2>4. x - 1 \in P
    BY <2>1, <2>3
  <2> QED
    BY <2>1, <2>3, <2>4
<1> QED
  BY <1>1

\* The loop of readServerConfig is well defined for a list of any length.
LEMMA LoopDefined ==
    ASSUME NEW N, Len(N) \in Nat
    PROVE  /\ RoomsAfter(N)[0] = {}
           /\ \A n \in 1 .. Len(N) :
                 RoomsAfter(N)[n] = AddRoom(RoomsAfter(N)[n - 1], N[n])
<1> DEFINE Loop(g, k) ==
               g = [n \in 0 .. k |-> IF n = 0 THEN {} ELSE AddRoom(g[n - 1], N[n])]
           Runs == {k \in Nat : \E g : Loop(g, k)}
<1>1. 0 \in Runs
  <2>1. Loop([n \in 0 .. 0 |-> {}], 0)
    OBVIOUS
  <2> QED
    BY <2>1
<1>2. ASSUME NEW k \in Nat, k \in Runs
      PROVE  k + 1 \in Runs
  <2>1. PICK g : Loop(g, k)
    BY <1>2
  <2> DEFINE h == [n \in 0 .. k + 1 |-> IF n = k + 1 THEN AddRoom(g[k], N[k + 1])
                                        ELSE g[n]]
  <2>2. ASSUME NEW n \in 0 .. k + 1
        PROVE  h[n] = IF n = 0 THEN {} ELSE AddRoom(h[n - 1], N[n])
    <3>1. CASE n = k + 1
      BY <3>1
    <3>2. CASE n # k + 1
      <4>1. n \in 0 .. k /\ h[n] = g[n]
        BY <3>2
      <4>2. n # 0 => n - 1 \in 0 .. k /\ h[n - 1] = g[n - 1]
        BY <4>1
      <4> QED
        BY <2>1, <4>1, <4>2
    <3> QED
      BY <3>1, <3>2
  <2>3. Loop(h, k + 1)
    BY <2>2
  <2> HIDE DEF Loop, h
  <2> QED
    BY <2>3
<1>3. Len(N) \in Runs
  <2> HIDE DEF Runs
  <2> QED
    BY <1>1, <1>2, Upwards
<1>4. PICK g : Loop(g, Len(N))
  BY <1>3
<1>5. Loop(RoomsAfter(N), Len(N))
  BY <1>4 DEF RoomsAfter
<1> DEFINE after == RoomsAfter(N)
<1>6. after = [n \in 0 .. Len(N) |-> IF n = 0 THEN {} ELSE AddRoom(after[n - 1], N[n])]
  BY <1>5
<1> HIDE DEF after
<1>7. after[0] = {} /\ \A n \in 1 .. Len(N) : after[n] = AddRoom(after[n - 1], N[n])
  <2>1. 0 \in 0 .. Len(N) /\ \A n \in 1 .. Len(N) : n \in 0 .. Len(N) /\ n # 0
    OBVIOUS
  <2> QED
    BY <1>6, <2>1
<1> QED
  BY <1>7 DEF after

RoomOf(entry) == [name |-> entry.network_name, secret |-> entry.network_secret]

\* What is left after k rounds over N: rooms that are well formed and those of
\* k entries, or a failure that one of them is the cause of.
Read(N, k, got) ==
    IF got # Invalid
    THEN /\ \A i \in 1 .. k : WellFormed(N[i])
         /\ \A i, j \in 1 .. k : N[i].network_name = N[j].network_name => i = j
         /\ got = {RoomOf(N[i]) : i \in 1 .. k}
    ELSE \/ \E i \in 1 .. k : ~WellFormed(N[i])
         \/ \E i, j \in 1 .. k : i # j /\ N[i].network_name = N[j].network_name

LEMMA RoomsOfWellFormed ==
    ASSUME NEW N, NEW k \in Nat, \A i \in 1 .. k : WellFormed(N[i])
    PROVE  /\ {RoomOf(N[i]) : i \in 1 .. k} \in SUBSET [name : Names, secret : Secrets]
           /\ {RoomOf(N[i]) : i \in 1 .. k} # Invalid
           /\ \A r \in {RoomOf(N[i]) : i \in 1 .. k} : NameFits(r.name)
<1>1. ASSUME NEW i \in 1 .. k
      PROVE  /\ RoomOf(N[i]) \in [name : Names, secret : Secrets]
             /\ NameFits(RoomOf(N[i]).name)
  BY DEF WellFormed, NameFits, RoomOf
<1>2. {RoomOf(N[i]) : i \in 1 .. k} \in SUBSET [name : Names, secret : Secrets]
  BY <1>1
<1> QED
  BY <1>1, <1>2, InvalidApart

\* One round.
LEMMA RoundReads ==
    ASSUME NEW N, NEW k \in Nat, NEW got, Read(N, k, got)
    PROVE  Read(N, k + 1, AddRoom(got, N[k + 1]))
<1> DEFINE e == N[k + 1]
<1>1. 1 .. k + 1 = (1 .. k) \cup {k + 1} /\ k + 1 \notin 1 .. k
  OBVIOUS
<1>2. CASE got = Invalid
  BY <1>1, <1>2 DEF Read, AddRoom
<1>3. CASE got # Invalid /\ ~WellFormed(e)
  BY <1>1, <1>3 DEF Read, AddRoom
<1>4. CASE got # Invalid /\ WellFormed(e) /\ IsDuplicate(got, e.network_name)
  <2>1. PICK i \in 1 .. k : RoomOf(N[i]).name = e.network_name
    BY <1>4 DEF Read, IsDuplicate
  <2>2. i # k + 1 /\ N[i].network_name = N[k + 1].network_name
    BY <1>1, <2>1 DEF RoomOf
  <2> QED
    BY <1>1, <1>4, <2>2 DEF Read, AddRoom
<1>5. CASE got # Invalid /\ WellFormed(e) /\ ~IsDuplicate(got, e.network_name)
  <2>1. \A i \in 1 .. k + 1 : WellFormed(N[i])
    BY <1>1, <1>5 DEF Read
  <2>2. \A i \in 1 .. k : N[i].network_name # e.network_name
    <3>1. ASSUME NEW i \in 1 .. k
          PROVE  N[i].network_name # e.network_name
      <4>1. RoomOf(N[i]) \in got /\ RoomOf(N[i]).name = N[i].network_name
        BY <1>5 DEF Read, RoomOf
      <4> QED
        BY <1>5, <4>1 DEF IsDuplicate
    <3> QED
      BY <3>1
  <2>3. \A i, j \in 1 .. k + 1 : N[i].network_name = N[j].network_name => i = j
    BY <1>1, <1>5, <2>2 DEF Read
  <2>4. AddRoom(got, e) = {RoomOf(N[i]) : i \in 1 .. k + 1}
    BY <1>1, <1>5 DEF Read, AddRoom, RoomOf
  <2>5. AddRoom(got, e) # Invalid
    BY <2>1, <2>4, RoomsOfWellFormed
  <2> QED
    BY <2>1, <2>3, <2>4, <2>5 DEF Read
<1> QED
  BY <1>2, <1>3, <1>4, <1>5

\* The loop computes what it should, for a list of any length.
LEMMA LoopReads ==
    ASSUME NEW N, Len(N) \in Nat
    PROVE  Read(N, Len(N), RoomsAfter(N)[Len(N)])
<1> DEFINE after == RoomsAfter(N)
           P == {k \in Nat : k <= Len(N) => Read(N, k, after[k])}
<1>1. 0 \in P
  <2>1. after[0] = {}
    BY LoopDefined
  <2>2. {} # Invalid
    BY InvalidApart
  <2> QED
    BY <2>1, <2>2 DEF Read
<1>2. ASSUME NEW k \in Nat, k \in P
      PROVE  k + 1 \in P
  <2> SUFFICES ASSUME k + 1 <= Len(N) PROVE Read(N, k + 1, after[k + 1])
    OBVIOUS
  <2>1. Read(N, k, after[k])
    BY <1>2
  <2>2. after[k + 1] = AddRoom(after[k], N[k + 1])
    <3>1. k + 1 \in 1 .. Len(N) /\ (k + 1) - 1 = k
      OBVIOUS
    <3> QED
      BY <3>1, LoopDefined
  <2> QED
    BY <2>1, <2>2, RoundReads
<1>3. Len(N) \in P
  <2> HIDE DEF P
  <2> QED
    BY <1>1, <1>2, Upwards
<1> QED
  BY <1>3
\* What readServerConfig accepts, it has read as it should.
LEMMA ConfigReads ==
    ASSUME NEW e \in Envs
    PROVE  LET N == e.networks
           IN  /\ N # NotAnArray => Len(N) \in Nat
               /\ N # NotAnArray /\ N # <<>> => Read(N, Len(N), Rooms(N))
               /\ N = NotAnArray \/ N = <<>> => Rooms(N) = Invalid
<1> DEFINE N == e.networks
<1>1. N # NotAnArray => Len(N) \in Nat
  BY ArraysRead
<1>2. N = NotAnArray \/ N = <<>> => Rooms(N) = Invalid
  BY DEF Rooms
<1>3. ASSUME N # NotAnArray, N # <<>>
      PROVE  Read(N, Len(N), Rooms(N))
  BY <1>1, <1>3, LoopReads DEF Rooms
<1> QED
  BY <1>1, <1>2, <1>3

\* The rooms of a configuration are rooms, with names that fit.
LEMMA ConfigTyped ==
    ASSUME NEW e \in Envs, ReadServerConfig(e) # Invalid
    PROVE  LET config == ReadServerConfig(e)
           IN  /\ config.keys = e.keys
               /\ config.rooms \in SUBSET [name : Names, secret : Secrets]
               /\ \A r \in config.rooms : NameFits(r.name)
<1> DEFINE N == e.networks
<1>1. /\ ReadServerConfig(e).keys = e.keys
      /\ ReadServerConfig(e).rooms = Rooms(N)
      /\ Rooms(N) # Invalid
  BY DEF ReadServerConfig
<1>2. Len(N) \in Nat /\ Read(N, Len(N), Rooms(N))
  BY <1>1, ConfigReads
<1>3. /\ \A i \in 1 .. Len(N) : WellFormed(N[i])
      /\ Rooms(N) = {RoomOf(N[i]) : i \in 1 .. Len(N)}
  BY <1>1, <1>2 DEF Read
<1> QED
  BY <1>1, <1>2, <1>3, RoomsOfWellFormed

\* The instance has the configuration of its environment, and what is known of
\* the environment deployed is right unless the instance is older.
Informed ==
    /\ relay # NoRelay => relay.config = ReadServerConfig(relay.env)
    /\ health # "unknown" => (health = "ok" <=> Healthy(env))
    /\ upgrade # "unknown" => \/ relay # NoRelay /\ relay.env # env
                              \/ upgrade = "accepted" <=> Healthy(env)

\* A connection that is to prove a secret is to prove that of its network.
Selected ==
    \A c \in Sockets :
        conns[c].phase = "msg3" => \E r \in Room(conns[c].net) : r.secret = conns[c].secret

AdmInv == AdmTypeOK /\ Informed /\ Selected /\ ReadyProvedSecret

LEMMA UnconnectedTyped == Unconnected \in Conn
BY TextIsText, ServerId DEF Unconnected, Conn

LEMMA AdmInitInv == AdmInit => AdmInv
<1> SUFFICES ASSUME AdmInit PROVE AdmInv
  OBVIOUS
<1>1. AdmTypeOK
  BY UnconnectedTyped DEF AdmInit, AdmTypeOK, Unconnected
<1>2. Informed /\ Selected /\ ReadyProvedSecret
  BY DEF AdmInit, Informed, Selected, ReadyProvedSecret, Unconnected
<1> QED
  BY <1>1, <1>2 DEF AdmInv

\* A step that changes one connection and leaves the instance.
LEMMA OneConnection ==
    ASSUME AdmInv, NEW c \in Sockets, NEW r \in Conn, UNCHANGED <<env, relay>>,
           conns' = [conns EXCEPT ![c] = r],
           r.phase \in {"msg1", "msg3", "ready"} => relay # NoRelay,
           r.phase = "msg3" => \E m \in Room(r.net) : m.secret = r.secret,
           r.phase = "ready" => \E m \in Room(r.net) : m.secret = r.proved,
           health' \in {"unknown", "ok", "invalid"},
           upgrade' \in {"unknown", "accepted", "unavailable"},
           Informed'
    PROVE  AdmInv'
<1>1. conns \in [Sockets -> Conn]
  BY DEF AdmInv, AdmTypeOK
<1>2. /\ conns' \in [Sockets -> Conn] /\ conns'[c] = r
      /\ \A d \in Sockets \ {c} : conns'[d] = conns[d]
  BY <1>1
<1>3. AdmTypeOK'
  BY <1>2 DEF AdmInv, AdmTypeOK
<1>4. \A n : Room(n)' = Room(n)
  BY DEF Room
<1>5. Selected'
  BY <1>2, <1>4 DEF AdmInv, Selected
<1>6. ReadyProvedSecret'
  BY <1>2, <1>4 DEF AdmInv, ReadyProvedSecret
<1> QED
  BY <1>3, <1>5, <1>6 DEF AdmInv

\* A step that leaves the instance and the connections.
LEMMA SameConnections ==
    ASSUME AdmInv, UNCHANGED <<relay, conns>>, env' \in Envs,
           health' \in {"unknown", "ok", "invalid"},
           upgrade' \in {"unknown", "accepted", "unavailable"},
           Informed'
    PROVE  AdmInv'
BY DEF AdmInv, AdmTypeOK, Selected, ReadyProvedSecret, Room

LEMMA IdleInv ==
    ASSUME AdmInv, NEW c \in Sockets, Idle(c), UNCHANGED <<env, relay, health>>,
           upgrade' \in {"unknown", "accepted", "unavailable"}, Informed'
    PROVE  AdmInv'
<1>1. Unconnected.phase = "idle" /\ health' \in {"unknown", "ok", "invalid"}
  BY DEF Unconnected, AdmInv, AdmTypeOK
<1> QED
  BY <1>1, UnconnectedTyped, OneConnection DEF Idle

LEMMA SameInformed ==
    ASSUME AdmInv, UNCHANGED <<env, relay, health, upgrade>>
    PROVE  /\ Informed'
           /\ health' \in {"unknown", "ok", "invalid"}
           /\ upgrade' \in {"unknown", "accepted", "unavailable"}
BY DEF AdmInv, AdmTypeOK, Informed

LEMMA Msg1Inv ==
    ASSUME AdmInv, NEW c \in Sockets, NEW t \in Texts, NEW p \in 0 .. MaxPeerId, Msg1(c, t, p)
    PROVE  AdmInv'
<1>1. PICK r \in Room(Decoded[t]) :
          conns' = [conns EXCEPT ![c] = [@ EXCEPT !.phase = "msg3", !.net = r.name,
                                                  !.peer = p, !.secret = r.secret]]
  BY DEF Msg1
<1> DEFINE q == [conns[c] EXCEPT !.phase = "msg3", !.net = r.name,
                                 !.peer = p, !.secret = r.secret]
<1>2. conns[c] \in Conn /\ relay # NoRelay /\ relay.env \in Envs /\ relay.config # Invalid
  BY DEF AdmInv, AdmTypeOK, Msg1
<1>3. relay.config = ReadServerConfig(relay.env)
  BY <1>2 DEF AdmInv, Informed
<1>4. r.secret \in Secrets /\ r.name \in Names /\ r \in Room(r.name)
  BY <1>2, <1>3, ConfigTyped DEF Room
<1>5. q \in Conn /\ q.phase = "msg3" /\ q.net = r.name /\ q.secret = r.secret
  BY <1>2, <1>4 DEF Conn
<1>6. conns' = [conns EXCEPT ![c] = q]
  BY <1>1, <1>2
<1>7. UNCHANGED <<env, relay, health, upgrade>>
  BY DEF Msg1
<1> HIDE DEF q
<1> QED
  BY <1>2, <1>4, <1>5, <1>6, <1>7, SameInformed, OneConnection

LEMMA Msg3Inv ==
    ASSUME AdmInv, NEW c \in Sockets, NEW s \in Secrets, Msg3(c, s)
    PROVE  AdmInv'
<1>1. UNCHANGED <<env, relay, health, upgrade>>
  BY DEF Msg3
<1>2. CASE Idle(c)
  BY <1>1, <1>2, SameInformed, IdleInv
<1>3. CASE /\ s = conns[c].secret
           /\ conns' = [conns EXCEPT ![c].phase = "ready", ![c].proved = s]
  <2> DEFINE q == [conns[c] EXCEPT !.phase = "ready", !.proved = s]
  <2>1. conns \in [Sockets -> Conn] /\ relay # NoRelay
    BY DEF AdmInv, AdmTypeOK, Msg3
  <2>2. q \in Conn /\ q.phase = "ready" /\ q.net = conns[c].net /\ q.proved = s
    BY <2>1 DEF Conn
  <2>3. conns' = [conns EXCEPT ![c] = q]
    BY <1>3, <2>1 DEF Conn
  <2>4. \E r \in Room(conns[c].net) : r.secret = s
    BY <1>3 DEF Msg3, AdmInv, Selected
  <2> HIDE DEF q
  <2> QED
    BY <1>1, <2>1, <2>2, <2>3, <2>4, SameInformed, OneConnection
<1> QED
  BY <1>2, <1>3 DEF Msg3

\* The durable object answers an upgrade, having been constructed for it or not.
LEMMA RelayFetchInv ==
    ASSUME AdmInv, NEW c \in Sockets, RelayFetch(c)
    PROVE  AdmInv'
<1> DEFINE instance == Instance(env, ReadServerConfig(env))
<1>1. /\ relay' = instance /\ instance.config # Invalid
      /\ UNCHANGED <<env, health>> /\ env \in Envs
  BY DEF RelayFetch, AdmInv, AdmTypeOK
<1>2. /\ instance.env \in Envs /\ instance # NoRelay
      /\ instance.config = ReadServerConfig(instance.env)
  BY <1>1, InstanceApart DEF Instance, AdmInv, AdmTypeOK, Informed
<1>3. instance.config.keys = instance.env.keys
  BY <1>1, <1>2, ConfigTyped
<1>4. upgrade' = IF KeysMatch(instance.config.keys) THEN "accepted" ELSE "unavailable"
  BY DEF RelayFetch
<1> HIDE DEF instance
<1>5. Informed'
  BY <1>1, <1>2, <1>3, <1>4 DEF Informed, Healthy, AdmInv
<1>6. \E q \in Conn : q.phase \in {"idle", "msg1"} /\ conns' = [conns EXCEPT ![c] = q]
  <2>1. CASE Idle(c)
    BY <2>1, UnconnectedTyped DEF Idle, Unconnected
  <2>2. CASE conns' = [conns EXCEPT ![c].phase = "msg1"]
    <3> DEFINE q == [conns[c] EXCEPT !.phase = "msg1"]
    <3>1. conns \in [Sockets -> Conn]
      BY DEF AdmInv, AdmTypeOK
    <3>2. q \in Conn /\ q.phase = "msg1" /\ conns' = [conns EXCEPT ![c] = q]
      BY <2>2, <3>1 DEF Conn
    <3> QED
      BY <3>2
  <2> QED
    BY <2>1, <2>2 DEF RelayFetch
<1>7. PICK q \in Conn : q.phase \in {"idle", "msg1"} /\ conns' = [conns EXCEPT ![c] = q]
  BY <1>6
<1>8. /\ conns \in [Sockets -> Conn] /\ conns' \in [Sockets -> Conn] /\ conns'[c] = q
      /\ \A d \in Sockets \ {c} : conns'[d] = conns[d]
  BY <1>7 DEF AdmInv, AdmTypeOK
<1>9. AdmTypeOK'
  BY <1>1, <1>2, <1>4, <1>8 DEF AdmInv, AdmTypeOK
<1>10. \A d \in Sockets : conns'[d].phase \in {"msg3", "ready"} =>
           conns'[d] = conns[d] /\ relay' = relay
  BY <1>1, <1>7, <1>8 DEF AdmInv, AdmTypeOK, instance, Instance
<1>11. Selected'
  BY <1>10 DEF AdmInv, Selected, Room
<1>12. ReadyProvedSecret'
  BY <1>10 DEF AdmInv, ReadyProvedSecret, Room
<1> QED
  BY <1>5, <1>9, <1>11, <1>12 DEF AdmInv
\* Both ways to fail, or to go on, at the gate.
LEMMA GateInv ==
    ASSUME AdmInv,
           \/ \E e \in LaterEnvs : Deploy(e)
           \/ Healthz \/ WorkerRefuses
           \/ \E c \in Sockets : Forward(c) \/ ConstructorThrows(c) \/ Disconnect(c)
    PROVE  AdmInv'
<1>1. ASSUME NEW e \in LaterEnvs, Deploy(e) PROVE AdmInv'
  <2>1. env' \in Envs /\ health' = "unknown" /\ upgrade' = "unknown" /\ UNCHANGED <<relay, conns>>
    BY <1>1, Deployable DEF Deploy
  <2>2. Informed'
    BY <2>1 DEF Informed, AdmInv
  <2> QED
    BY <2>1, <2>2, SameConnections
<1>2. CASE Healthz
  <2>1. /\ UNCHANGED <<env, relay, conns, upgrade>> /\ health' \in {"unknown", "ok", "invalid"}
        /\ health' = "ok" <=> Healthy(env)
    BY <1>2 DEF Healthz
  <2>2. Informed'
    BY <2>1 DEF Informed, AdmInv
  <2> QED
    BY <2>1, <2>2, SameConnections DEF AdmInv, AdmTypeOK
<1>3. CASE WorkerRefuses
  <2>1. UNCHANGED <<env, relay, conns, health>> /\ upgrade' = "unavailable" /\ ~Healthy(env)
    BY <1>3 DEF WorkerRefuses, Healthy
  <2>2. Informed'
    BY <2>1 DEF Informed, AdmInv
  <2> QED
    BY <2>1, <2>2, SameConnections DEF AdmInv, AdmTypeOK
<1>4. ASSUME NEW c \in Sockets, Forward(c) PROVE AdmInv'
  <2> DEFINE q == [conns[c] EXCEPT !.phase = "forwarded"]
  <2>1. conns \in [Sockets -> Conn]
    BY DEF AdmInv, AdmTypeOK
  <2>2. q \in Conn /\ q.phase = "forwarded" /\ conns' = [conns EXCEPT ![c] = q]
    BY <1>4, <2>1 DEF Forward, Conn
  <2>3. UNCHANGED <<env, relay, health, upgrade>>
    BY <1>4 DEF Forward
  <2> HIDE DEF q
  <2> QED
    BY <2>2, <2>3, SameInformed, OneConnection
<1>5. ASSUME NEW c \in Sockets, ConstructorThrows(c) PROVE AdmInv'
  <2>1. /\ UNCHANGED <<env, relay, health>> /\ upgrade' = "unavailable" /\ Idle(c)
        /\ ~Healthy(env)
    BY <1>5 DEF ConstructorThrows, Healthy
  <2>2. Informed'
    BY <2>1 DEF Informed, AdmInv
  <2> QED
    BY <2>1, <2>2, IdleInv
<1>6. ASSUME NEW c \in Sockets, Disconnect(c) PROVE AdmInv'
  BY <1>6, SameInformed, IdleInv DEF Disconnect
<1> QED
  BY <1>1, <1>2, <1>3, <1>4, <1>5, <1>6

\* The end of the durable object is the end of its connections.
LEMMA EvictInv ==
    ASSUME AdmInv, Evict
    PROVE  AdmInv'
<1>1. conns' \in [Sockets -> Conn] /\ \A c \in Sockets : conns'[c].phase = "idle"
  BY UnconnectedTyped DEF Evict, SocketsClosed, Unconnected
<1>2. AdmTypeOK'
  BY <1>1 DEF Evict, AdmInv, AdmTypeOK
<1>3. Informed'
  BY DEF Evict, AdmInv, Informed
<1>4. Selected' /\ ReadyProvedSecret'
  BY <1>1 DEF Selected, ReadyProvedSecret
<1> QED
  BY <1>2, <1>3, <1>4 DEF AdmInv

LEMMA AdmNextInv == AdmInv /\ [AdmNext]_admvars => AdmInv'
<1> SUFFICES ASSUME AdmInv, [AdmNext]_admvars PROVE AdmInv'
  OBVIOUS
<1>1. ASSUME NEW c \in Sockets, NEW t \in Texts, NEW p \in 0 .. MaxPeerId, Msg1Fails(c, t, p)
      PROVE  AdmInv'
  BY <1>1, SameInformed, IdleInv DEF Msg1Fails
<1>2. CASE UNCHANGED admvars
  <2>1. UNCHANGED <<relay, conns, env, health, upgrade>>
    BY <1>2 DEF admvars
  <2>2. env' \in Envs
    BY <2>1 DEF AdmInv, AdmTypeOK
  <2> QED
    BY <2>1, <2>2, SameInformed, SameConnections
<1> QED
  BY <1>1, <1>2, GateInv, EvictInv, RelayFetchInv, Msg1Inv, Msg3Inv DEF AdmNext

LEMMA Admitted == AdmSpec => []AdmInv
BY AdmInitInv, AdmNextInv, PTL DEF AdmSpec

-----------------------------------------------------------------------------
\* A ready connection has proved the secret that its instance has for its
\* network (finish_msg3 with the secret that message 1 selected), however the
\* configuration changed meanwhile, because an instance never rereads it and
\* takes its connections along when it ends.
THEOREM SecretProved == AdmSpec => []Consistent
<1>1. AdmInv => Consistent
  BY DEF AdmInv, Consistent
<1> QED
  BY <1>1, Admitted, PTL

\* What /healthz answers is what becomes of an upgrade, unless the instance is
\* older than the environment: the two check the same, in the worker and in
\* the durable object.
THEOREM HealthIsTrue == AdmSpec => []HealthMatchesUpgrade
<1>1. AdmInv => HealthMatchesUpgrade
  BY DEF AdmInv, Informed, HealthMatchesUpgrade
<1> QED
  BY <1>1, Admitted, PTL

\* readServerConfig accepts lists of any length exactly when they are well
\* formed and name no network twice.  Of the rooms it accepts, those can be joined
\* whose names are strings of some text; they pass the test of read_msg1 and the
\* parsers of messages.ts, while a name with an unpaired surrogate never arrives.
THEOREM ConfigurationSound == AdmSpec => []ConfigSound
<1>1. AdmInv => ConfigIsReference
  <2> SUFFICES ASSUME AdmInv PROVE ConfigIsReference
    OBVIOUS
  <2> DEFINE N == env.networks
  <2>1. /\ N # NotAnArray => Len(N) \in Nat
        /\ N # NotAnArray /\ N # <<>> => Read(N, Len(N), Rooms(N))
        /\ N = NotAnArray \/ N = <<>> => Rooms(N) = Invalid
    BY ConfigReads DEF AdmInv, AdmTypeOK
  <2>2. CASE N # NotAnArray /\ Rooms(N) # Invalid
    BY <2>1, <2>2 DEF Read, RoomOf, ConfigIsReference
  <2>3. CASE N = NotAnArray \/ Rooms(N) = Invalid
    BY <2>1, <2>3 DEF Read, ConfigIsReference
  <2> QED
    BY <2>2, <2>3
<1>2. AdmInv => RoomsJoinable
  <2> SUFFICES ASSUME AdmInv, relay # NoRelay, NEW r \in relay.config.rooms,
                      NEW p \in 1 .. MaxPeerId \ {Server}
               PROVE  Joins(r, p) <=> Decoded[Encoded[r.name]] = r.name
    BY DEF RoomsJoinable
  <2>1. NameFits(r.name)
    BY ConfigTyped DEF AdmInv, AdmTypeOK, Informed
  <2>2. r.name # NoText
    BY <2>1, TextIsText DEF NameFits
  <2>3. p \in Nat /\ p > 0 /\ p <= MaxPeerId
    BY ServerId
  <2>4. ASSUME Joins(r, p) PROVE Decoded[Encoded[r.name]] = r.name
    BY <2>4, TextIsText DEF Joins, Room
  <2>5. ASSUME Decoded[Encoded[r.name]] = r.name PROVE Joins(r, p)
    <3>1. r.name \in Names /\ Encoded[r.name] \in Texts
      BY <2>1, TextIsText DEF NameFits
    <3>2. NoiseAccepts(Encoded[r.name], p)
      BY <2>1, <2>3, <3>1 DEF NameFits, NoiseAccepts
    <3> QED
      BY <2>2, <2>3, <2>5, <3>1, <3>2 DEF Joins, Room, Parses, ReadsPeerId
  <2> QED
    BY <2>4, <2>5
<1>3. AdmInv => ConfigSound
  BY <1>1, <1>2 DEF ConfigSound
<1> QED
  BY <1>3, Admitted, PTL
=============================================================================

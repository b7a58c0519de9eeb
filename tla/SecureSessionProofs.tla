------------------------ MODULE SecureSessionProofs ------------------------
(***************************************************************************)
(* Proofs about SecureSession, for any number of sockets, any rotation     *)
(* limit and any bounds: the session outlives the sockets that use it, no  *)
(* nonce is used twice until the root key's epochs wrap, and the two ends  *)
(* agree on the root key unless a message 2 that carries one is lost.      *)
(*                                                                         *)
(* Nonces are new because the counters of the session are ahead of all     *)
(* that was sealed with its root key (SealedBehind), which is so as long   *)
(* as its epochs have only gone up (Ascending), and needs that a           *)
(* SecurePeer works on the store's state, that is, that its session exists *)
(* (SharedSession), which holds because attachments are counted exactly.   *)
(* Root keys agree because the newest key is the session's or is under way *)
(* to the peer on a socket that is still open (Holding).                   *)
(***************************************************************************)
EXTENDS SecureSession, FiniteSetTheorems, TLAPS

\* The variables have their types; TypeOK without the bound on attachments.
Typed ==
    /\ phase \in [Conns -> {"idle", "hello", "msg3", "ready"}]
    /\ session \in State \cup {NoSession}
    /\ attachments \in Nat
    /\ copy \in [Conns -> State \cup {NoSession}]
    /\ client \in [Conns -> {"gone", "waiting", "answered"}]
    /\ joins \in [Conns -> BOOLEAN]
    /\ msg2 \in [Conns -> 0 .. MaxRoots]
    /\ waiting2 \subseteq Conns
    /\ clientRoot \in 0 .. MaxRoots
    /\ roots \in 0 .. MaxRoots
    /\ sealed \subseteq Nonces /\ reused \subseteq sealed
    /\ wrapped \subseteq Roots
    /\ packets \in 0 .. MaxPackets

\* The session counts the SecurePeers that are attached to it.
Counted == attachments = Cardinality(Attached)

\* Root keys are numbered in the order of their creation.
RootsKnown ==
    /\ session # NoSession => session.root <= roots
    /\ \A n \in sealed : n.root <= roots

\* The nonces used are finitely many.
FiniteSealed == IsFiniteSet(sealed)

\* The nonces used with root key r in epoch e.
InEpoch(r, e) == {n \in sealed : n.root = r /\ n.epoch = e}

\* The session's packet counter is not behind the packets of its epoch; the
\* packet that rotated into the epoch is not counted.
CounterAhead ==
    session # NoSession =>
        /\ session.since < RotateAfter
        /\ session.root \notin wrapped =>
              Cardinality(InEpoch(session.root, session.epoch)) <= session.since + 1

IInv ==
    /\ Typed
    /\ Counted
    /\ SharedSession
    /\ RootsKnown
    /\ SealedBehind
    /\ FiniteSealed
    /\ NonceUnique
    /\ GraceBehind
    /\ CounterAhead
    /\ EpochPacketsBounded

-----------------------------------------------------------------------------
(* The operators on the session state.                                     *)

\* Largest of three numbers is one of them and no smaller than any.
LEMMA LargestOfThree ==
    ASSUME NEW a \in Int, NEW b \in Int, NEW d \in Int
    PROVE  /\ Largest({a, b, d}) \in {a, b, d}
           /\ Largest({a, b, d}) >= a
           /\ Largest({a, b, d}) >= b
           /\ Largest({a, b, d}) >= d
<1>1. \E x \in {a, b, d} : \A y \in {a, b, d} : x >= y
  <2>1. CASE a >= b /\ a >= d
    BY <2>1
  <2>2. CASE b >= a /\ b >= d
    BY <2>2
  <2>3. CASE d >= a /\ d >= b
    BY <2>3
  <2> QED
    BY <2>1, <2>2, <2>3
<1> QED
  BY <1>1 DEF Largest

\* The next epoch is an epoch, and a later one unless the epochs wrap.
LEMMA FollowingEpoch ==
    ASSUME NEW e \in Epochs
    PROVE  /\ Following(e) \in Epochs
           /\ e # MaxEpoch => Following(e) = e + 1
BY Bounds DEF Following, Epochs

\* The epoch of a Sync is after the sending epoch and both receive slots,
\* unless one of these is the last epoch.
LEMMA SyncEpochAfter ==
    ASSUME NEW s \in State
    PROVE  /\ LastEpoch(s) \in Epochs /\ SyncEpoch(s) \in Epochs
           /\ LastEpoch(s) # MaxEpoch =>
                 SyncEpoch(s) > s.epoch /\ SyncEpoch(s) > s.cur /\ SyncEpoch(s) > s.prev
<1>1. /\ s.epoch \in Int /\ s.cur \in Int /\ s.prev \in Int /\ s.epoch >= 0
      /\ s.epoch <= MaxEpoch /\ s.cur <= MaxEpoch /\ s.prev <= MaxEpoch /\ MaxEpoch \in Nat
  BY Bounds DEF State, Epochs, Slots, NoEpoch
<1>2. /\ LastEpoch(s) \in {s.epoch, s.cur, s.prev}
      /\ LastEpoch(s) >= s.epoch /\ LastEpoch(s) >= s.cur /\ LastEpoch(s) >= s.prev
  BY <1>1, LargestOfThree DEF LastEpoch
<1>3. LastEpoch(s) \in Epochs
  BY <1>1, <1>2 DEF Epochs
<1>4. SyncEpoch(s) \in Epochs /\ (LastEpoch(s) # MaxEpoch => SyncEpoch(s) = LastEpoch(s) + 1)
  BY <1>3, FollowingEpoch DEF SyncEpoch
<1> QED
  BY <1>1, <1>2, <1>3, <1>4 DEF Epochs

\* A Sync leaves a session state.
LEMMA SyncedState ==
    ASSUME NEW s \in State
    PROVE  /\ Synced(s) \in State
           /\ Synced(s).root = s.root /\ Synced(s).epoch = SyncEpoch(s)
           /\ Synced(s).seq = 0 /\ Synced(s).since = 0
           /\ Synced(s).graceCur = s.cur /\ Synced(s).gracePrev = s.prev
<1>1. SyncEpoch(s) \in Epochs
  BY SyncEpochAfter
<1> QED
  BY <1>1 DEF Synced, State, Slots

LEMMA CreatedState ==
    ASSUME NEW r \in Roots
    PROVE  /\ Created(r) \in State
           /\ Created(r).root = r /\ Created(r).epoch = 0
           /\ Created(r).since = 0
           /\ Created(r).graceCur = NoEpoch /\ Created(r).gracePrev = NoEpoch
<1> QED
  BY Bounds DEF Created, State, Slots, Epochs

\* Before a packet is sealed the session is rotated or goes on; its root key,
\* its sequence number and its grace slots stay.
LEMMA CandidateState ==
    ASSUME NEW s \in State, NEW t \in Candidates(s)
    PROVE  /\ t \in State
           /\ t.root = s.root /\ t.seq = s.seq
           /\ t.graceCur = s.graceCur /\ t.gracePrev = s.gracePrev
           /\ \/ t.epoch = Following(s.epoch) /\ t.since = 0 /\ t = Rotated(s)
              \/ t.epoch = s.epoch /\ t.since = s.since + 1
                 /\ s.since + 1 < RotateAfter
<1>1. t = Rotated(s) \/ (t = Continued(s) /\ ~Due(s))
  BY DEF Candidates
<1>2. CASE t = Rotated(s)
  <2>1. Following(s.epoch) \in Epochs
    BY FollowingEpoch DEF State
  <2> QED
    BY <1>2, <2>1 DEF Rotated, State
<1>3. CASE t = Continued(s) /\ ~Due(s)
  <2>1. s.since \in Nat
    BY DEF State
  <2> QED
    BY <1>3, <2>1, Limits DEF Continued, Due, State
<1> QED
  BY <1>1, <1>2, <1>3

\* Evicting old slots touches the slots only, each of which keeps its epoch or
\* is dropped.
LEMMA AgedState ==
    ASSUME NEW s \in State, NEW t \in Aged(s)
    PROVE  /\ t \in State
           /\ t.root = s.root /\ t.epoch = s.epoch
           /\ t.seq = s.seq /\ t.since = s.since
           /\ t.graceCur \in {s.graceCur, NoEpoch}
           /\ t.gracePrev \in {s.gracePrev, NoEpoch}
<1>1. PICK a \in {s.cur, NoEpoch}, b \in {s.prev, NoEpoch},
           d \in {s.graceCur, NoEpoch}, e \in {s.gracePrev, NoEpoch} :
        t = [s EXCEPT !.cur = a, !.prev = b, !.graceCur = d, !.gracePrev = e]
  BY DEF Aged
<1>2. /\ a \in Slots /\ b \in Slots /\ d \in Slots /\ e \in Slots
  BY DEF State, Slots
<1> QED
  BY <1>1, <1>2 DEF State

\* So does recording a packet's epoch, which leaves the grace slots alone.
LEMMA OpenedState ==
    ASSUME NEW s \in State, NEW e \in Epochs, NEW t \in Aged(s)
    PROVE  /\ Committed(t, e) \in State
           /\ Committed(t, e).root = s.root /\ Committed(t, e).epoch = s.epoch
           /\ Committed(t, e).seq = s.seq /\ Committed(t, e).since = s.since
           /\ Committed(t, e).graceCur \in {s.graceCur, NoEpoch}
           /\ Committed(t, e).gracePrev \in {s.gracePrev, NoEpoch}
<1>1. /\ t \in State
      /\ t.root = s.root /\ t.epoch = s.epoch
      /\ t.seq = s.seq /\ t.since = s.since
      /\ t.graceCur \in {s.graceCur, NoEpoch}
      /\ t.gracePrev \in {s.gracePrev, NoEpoch}
  BY AgedState
<1> QED
  BY <1>1 DEF Committed, State, Slots

-----------------------------------------------------------------------------
(* What the invariant says of a session, and who is attached to it.        *)

\* The part of the invariant that is about the session's counters, when the
\* root keys in W have wrapped.
Sound(s, W) ==
    /\ s.since < RotateAfter
    /\ s.root \notin W =>
          /\ \A n \in sealed : n.root = s.root =>
                n.epoch < s.epoch \/ (n.epoch = s.epoch /\ n.seq < s.seq)
          /\ s.graceCur < s.epoch /\ s.gracePrev < s.epoch
          /\ Cardinality(InEpoch(s.root, s.epoch)) <= s.since + 1

LEMMA SoundSession ==
    (SealedBehind /\ GraceBehind /\ CounterAhead)
        <=> (session # NoSession => Sound(session, wrapped))
BY DEF SealedBehind, GraceBehind, CounterAhead, Ascending, Sound

\* A session none of whose packets is in its epoch yet is sound.
LEMMA SoundAtStart ==
    ASSUME Typed, NEW W, NEW s \in State,
           s.since = 0,
           s.root \notin W =>
               /\ s.graceCur < s.epoch /\ s.gracePrev < s.epoch
               /\ \A n \in sealed : n.root = s.root => n.epoch < s.epoch
    PROVE  Sound(s, W)
<1> SUFFICES ASSUME s.root \notin W
             PROVE  Cardinality(InEpoch(s.root, s.epoch)) = 0
  BY Limits DEF Sound
<1>1. InEpoch(s.root, s.epoch) = {}
  <2> SUFFICES ASSUME NEW n \in sealed, n.root = s.root, n.epoch = s.epoch
               PROVE  FALSE
    BY DEF InEpoch
  <2>1. n.epoch < s.epoch /\ s.epoch \in Int
    BY DEF State, Epochs
  <2> QED
    BY <2>1
<1> QED
  BY <1>1, FS_EmptySet

LEMMA AttachedFinite == IsFiniteSet(Attached)
<1>1. Attached \subseteq Conns
  BY DEF Attached
<1> QED
  BY <1>1, FiniteConns, FS_Subset

\* With no attachment counted no SecurePeer is attached.
LEMMA NobodyAttached ==
    ASSUME Counted, attachments = 0
    PROVE  Attached = {}
<1> QED
  BY AttachedFinite, FS_EmptySet DEF Counted

\* The initial state.
LEMMA InitIInv == Init => IInv
<1> SUFFICES ASSUME Init
             PROVE  IInv
  OBVIOUS
<1>1. Typed
  BY Bounds DEF Init, Typed
<1>2. Attached = {}
  BY DEF Init, Attached
<1>3. Counted /\ SharedSession
  BY <1>2, FS_EmptySet DEF Init, Counted, SharedSession
<1>4. SealedBehind /\ GraceBehind /\ CounterAhead /\ RootsKnown
  BY DEF Init, SealedBehind, GraceBehind, CounterAhead, Ascending, RootsKnown
<1>5. FiniteSealed /\ NonceUnique /\ EpochPacketsBounded
  BY FS_EmptySet DEF Init, FiniteSealed, NonceUnique, EpochPacketsBounded
<1> QED
  BY <1>1, <1>3, <1>4, <1>5 DEF IInv

\* What a step that seals nothing keeps, though it may wrap the epochs.
LEMMA HistoryKept ==
    ASSUME IInv, UNCHANGED <<sealed, reused>>, wrapped \subseteq wrapped'
    PROVE  (FiniteSealed /\ NonceUnique /\ EpochPacketsBounded)'
BY DEF IInv, FiniteSealed, NonceUnique, EpochPacketsBounded

\* What a step keeps that leaves the session as well.
LEMMA SessionKept ==
    ASSUME IInv, UNCHANGED <<session, roots, history>>
    PROVE  (/\ RootsKnown /\ SealedBehind /\ GraceBehind /\ CounterAhead
            /\ FiniteSealed /\ NonceUnique /\ EpochPacketsBounded)'
<1>1. /\ sealed' = sealed /\ reused' = reused /\ wrapped' = wrapped
      /\ session' = session /\ roots' = roots
  BY DEF history
<1>2. (FiniteSealed /\ NonceUnique /\ EpochPacketsBounded)'
  BY <1>1, HistoryKept
<1> QED
  BY <1>1, <1>2
     DEF IInv, RootsKnown, SealedBehind, GraceBehind, CounterAhead, Ascending, InEpoch

\* Everything but the types, of a step that moves no SecurePeer and leaves the
\* session: the client's own steps.
LEMMA ServerKept ==
    ASSUME IInv, UNCHANGED <<serverVars, roots, history>>, Typed'
    PROVE  IInv'
<1>1. /\ phase' = phase /\ session' = session
      /\ attachments' = attachments /\ copy' = copy
  BY DEF serverVars
<1>2. (Counted /\ SharedSession)'
  BY <1>1 DEF IInv, Counted, SharedSession, Attached
<1>3. (/\ RootsKnown /\ SealedBehind /\ GraceBehind /\ CounterAhead
       /\ FiniteSealed /\ NonceUnique /\ EpochPacketsBounded)'
  BY <1>1, SessionKept
<1> QED
  BY <1>2, <1>3 DEF IInv

-----------------------------------------------------------------------------
(* Handshakes keep the invariant.                                          *)

LEMMA ConnectStep ==
    ASSUME IInv, NEW c \in Conns, Connect(c)
    PROVE  IInv'
<1>1. Typed'
  BY DEF Connect, IInv, Typed, history
<1>2. Attached' = Attached
  BY DEF Connect, IInv, Typed, Attached
<1>3. (Counted /\ SharedSession)'
  BY <1>2 DEF Connect, IInv, Counted, SharedSession
<1>4. (/\ RootsKnown /\ SealedBehind /\ GraceBehind /\ CounterAhead
       /\ FiniteSealed /\ NonceUnique /\ EpochPacketsBounded)'
  BY SessionKept DEF Connect
<1> QED
  BY <1>1, <1>3, <1>4 DEF IInv

\* Attaching a SecurePeer to a sound session s that has the root key of the
\* session in the store, if there is one: the common part of Join, Sync and
\* Create.
LEMMA AnswerStep ==
    ASSUME IInv, NEW c \in Conns, phase[c] = "hello",
           NEW s \in State, NEW k \in 0 .. MaxRoots, Answer(c, s, k),
           wrapped \subseteq wrapped', wrapped' \subseteq Roots,
           Sound(s, wrapped'),
           session # NoSession => s.root = session.root,
           roots' \in 0 .. MaxRoots, roots <= roots', s.root <= roots'
    PROVE  IInv'
<1>1. sealed' = sealed /\ session' = s /\ session' # NoSession
  BY NoSessionIsNone DEF Answer
<1>2. Typed'
  BY <1>1 DEF Answer, IInv, Typed
<1>3. Attached' = Attached \cup {c} /\ c \notin Attached
  BY DEF Answer, IInv, Typed, Attached
<1>4. Counted'
  <2>1. /\ Cardinality(Attached \cup {c}) = Cardinality(Attached) + 1
    BY <1>3, AttachedFinite, FS_AddElement
  <2> QED
    BY <1>3, <2>1 DEF Answer, IInv, Counted
<1>5. SharedSession'
  <2> SUFFICES ASSUME NEW x \in Attached'
               PROVE  copy'[x].root = session'.root
    BY <1>1 DEF SharedSession
  <2>1. CASE x = c
    BY <1>1, <2>1 DEF Answer, IInv, Typed
  <2>2. CASE x # c
    <3>1. x \in Attached /\ x \in Conns
      BY <1>3, <2>2 DEF Attached
    <3>2. session # NoSession /\ copy[x].root = session.root
      BY <3>1 DEF IInv, SharedSession
    <3> QED
      BY <1>1, <2>2, <3>1, <3>2 DEF Answer, IInv, Typed
  <2> QED
    BY <2>1, <2>2
<1>6. RootsKnown'
  <2>1. \A n \in sealed : n.root \in Int
    BY DEF IInv, Typed, Nonces, Roots
  <2>2. roots \in Int /\ roots' \in Int
    BY DEF IInv, Typed
  <2> QED
    BY <1>1, <2>1, <2>2 DEF IInv, RootsKnown
<1>7. (SealedBehind /\ GraceBehind /\ CounterAhead)'
  BY <1>1 DEF Sound, SealedBehind, GraceBehind, CounterAhead, Ascending, InEpoch
<1>8. (FiniteSealed /\ NonceUnique /\ EpochPacketsBounded)'
  BY HistoryKept DEF Answer
<1> QED
  BY <1>2, <1>4, <1>5, <1>6, <1>7, <1>8 DEF IInv

\* Join leaves the session as it is.
LEMMA JoinStep ==
    ASSUME IInv, NEW c \in Conns, Join(c)
    PROVE  IInv'
<1>1. session # NoSession /\ session \in State
  BY DEF Join, Joining, IInv, Typed
<1>2. /\ Sound(session, wrapped') /\ wrapped' = wrapped /\ wrapped \subseteq Roots
  BY <1>1, SoundSession DEF IInv, Typed, Join
<1>3. /\ roots' = roots /\ roots \in 0 .. MaxRoots
      /\ session.root <= roots
  BY <1>1 DEF Join, IInv, Typed, RootsKnown
<1>4. 0 \in 0 .. MaxRoots
  BY Bounds
<1> QED
  BY <1>1, <1>2, <1>3, <1>4, AnswerStep DEF Join

\* Sync moves on to an epoch in which nothing was sealed.
LEMMA SyncStep ==
    ASSUME IInv, NEW c \in Conns, Sync(c)
    PROVE  IInv'
<1>1. session # NoSession /\ session \in State
  BY DEF Sync, IInv, Typed
<1> DEFINE s == Synced(session)
<1>2. /\ s \in State /\ s.root = session.root /\ s.epoch = SyncEpoch(session)
      /\ s.seq = 0 /\ s.since = 0
      /\ s.graceCur = session.cur /\ s.gracePrev = session.prev
  BY <1>1, SyncedState
<1>3. wrapped' = IF LastEpoch(session) = MaxEpoch
                 THEN wrapped \cup {session.root} ELSE wrapped
  BY DEF Sync, Wrapped
<1>4. wrapped \subseteq wrapped' /\ wrapped' \subseteq Roots
  BY <1>1, <1>3 DEF IInv, Typed, State
<1> HIDE DEF s
<1>5. ASSUME s.root \notin wrapped'
      PROVE  /\ s.graceCur < s.epoch /\ s.gracePrev < s.epoch
             /\ \A n \in sealed : n.root = s.root => n.epoch < s.epoch
  <2>1. Ascending /\ LastEpoch(session) # MaxEpoch
    BY <1>1, <1>2, <1>3, <1>5 DEF Ascending
  <2>2. /\ SyncEpoch(session) \in Int /\ SyncEpoch(session) > session.epoch
        /\ SyncEpoch(session) > session.cur /\ SyncEpoch(session) > session.prev
    BY <1>1, <2>1, SyncEpochAfter DEF Epochs
  <2>3. /\ session.cur \in Int /\ session.prev \in Int /\ session.epoch \in Int
        /\ \A n \in sealed : n.epoch \in Int
    BY <1>1 DEF State, Slots, Epochs, NoEpoch, IInv, Typed, Nonces
  <2>4. \A n \in sealed : n.root = s.root => n.epoch <= session.epoch
    BY <1>2, <2>1, <2>3 DEF IInv, SealedBehind
  <2> QED
    BY <1>2, <2>2, <2>3, <2>4
<1>6. Sound(s, wrapped')
  BY <1>2, <1>5, SoundAtStart DEF IInv
<1>7. /\ roots' = roots /\ roots \in 0 .. MaxRoots /\ roots <= roots
      /\ session.root <= roots
  BY <1>1 DEF Sync, IInv, Typed, RootsKnown
<1>8. session.root \in 0 .. MaxRoots
  BY <1>1 DEF State, Roots
<1>9. phase[c] = "hello" /\ Answer(c, s, session.root)
  BY DEF Sync, s
<1> QED
  BY <1>2, <1>4, <1>6, <1>7, <1>8, <1>9, AnswerStep

\* Create takes a root key nothing was sealed with; nobody is attached.
LEMMA CreateStep ==
    ASSUME IInv, NEW c \in Conns, Create(c)
    PROVE  IInv'
<1>1. session = NoSession /\ phase[c] = "hello"
  BY DEF Create
<1>2. /\ roots \in 0 .. MaxRoots /\ roots' = roots + 1
      /\ roots' \in Roots /\ roots' \in 0 .. MaxRoots /\ roots <= roots'
  BY Bounds DEF Create, IInv, Typed, Roots
<1> DEFINE s == Created(roots')
<1>3. /\ s \in State /\ s.root = roots' /\ s.epoch = 0 /\ s.since = 0
      /\ s.graceCur = NoEpoch /\ s.gracePrev = NoEpoch
  BY <1>2, CreatedState
<1>4. Answer(c, s, roots')
  BY DEF Create
<1> HIDE DEF s
<1>5. \A n \in sealed : n.root # s.root
  <2>1. \A n \in sealed : n.root \in Int
    BY DEF IInv, Typed, Nonces, Roots
  <2> QED
    BY <1>2, <1>3, <2>1 DEF IInv, RootsKnown
<1>6. /\ Sound(s, wrapped') /\ wrapped' = wrapped /\ wrapped \subseteq Roots
  BY <1>3, <1>5, SoundAtStart DEF IInv, Typed, NoEpoch, Create
<1>7. s.root <= roots'
  BY <1>2, <1>3
<1> QED
  BY <1>1, <1>2, <1>3, <1>4, <1>6, <1>7, AnswerStep

\* The peer's own steps leave the server alone.
LEMMA ReadMsg2Step ==
    ASSUME IInv, NEW c \in Conns, ReadMsg2(c)
    PROVE  IInv'
<1>1. Typed'
  <2>1. client' \in [Conns -> {"gone", "waiting", "answered"}]
    BY DEF ReadMsg2, IInv, Typed
  <2>2. clientRoot' \in 0 .. MaxRoots
    BY DEF ReadMsg2, IInv, Typed
  <2>3. msg2' \in [Conns -> 0 .. MaxRoots] /\ waiting2' \subseteq Conns
    BY Bounds DEF ReadMsg2, IInv, Typed
  <2> QED
    BY <2>1, <2>2, <2>3 DEF ReadMsg2, IInv, Typed, serverVars, history
<1> QED
  BY <1>1, ServerKept DEF ReadMsg2

LEMMA LoseMsg2Step ==
    ASSUME IInv, NEW c \in Conns, LoseMsg2(c)
    PROVE  IInv'
<1>1. Typed'
  BY Bounds DEF LoseMsg2, IInv, Typed, serverVars, history
<1> QED
  BY <1>1, ServerKept DEF LoseMsg2

LEMMA ClientRestartStep ==
    ASSUME IInv, ClientRestart
    PROVE  IInv'
<1>1. Typed'
  BY Bounds DEF ClientRestart, IInv, Typed, serverVars, history
<1> QED
  BY <1>1, ServerKept DEF ClientRestart

LEMMA FinishMsg3Step ==
    ASSUME IInv, NEW c \in Conns, FinishMsg3(c)
    PROVE  IInv'
<1>1. Typed'
  BY DEF FinishMsg3, IInv, Typed, clientVars, history
<1>2. Attached' = Attached
  BY DEF FinishMsg3, IInv, Typed, Attached
<1>3. (Counted /\ SharedSession)'
  BY <1>2 DEF FinishMsg3, IInv, Counted, SharedSession
<1>4. (/\ RootsKnown /\ SealedBehind /\ GraceBehind /\ CounterAhead
       /\ FiniteSealed /\ NonceUnique /\ EpochPacketsBounded)'
  BY SessionKept DEF FinishMsg3
<1> QED
  BY <1>1, <1>3, <1>4 DEF IInv

-----------------------------------------------------------------------------
(* Traffic and ends keep the invariant.                                    *)

\* A ready SecurePeer that persists a state with the same root key: who is
\* attached, and what they share, stays.
LEMMA CopyWritten ==
    ASSUME IInv, NEW c \in Conns, phase[c] = "ready",
           NEW s \in State, s.root = session.root,
           session' = s, copy' = [copy EXCEPT ![c] = s],
           UNCHANGED <<phase, attachments>>
    PROVE  (Counted /\ SharedSession)'
<1>1. Attached' = Attached
  BY DEF Attached
<1>2. Counted'
  BY <1>1 DEF IInv, Counted
<1>3. SharedSession'
  <2> SUFFICES ASSUME NEW x \in Attached
               PROVE  session' # NoSession /\ copy'[x].root = session'.root
    BY <1>1 DEF SharedSession
  <2>1. x \in Conns /\ session # NoSession /\ copy[x].root = session.root
    BY DEF IInv, SharedSession, Attached
  <2>2. copy'[x] = IF x = c THEN s ELSE copy[x]
    BY <2>1 DEF IInv, Typed
  <2> QED
    BY <2>1, <2>2, NoSessionIsNone
<1> QED
  BY <1>2, <1>3

\* A ready SecurePeer finds its session in the store, and it is sound.
LEMMA ReadyHasSession ==
    ASSUME IInv, NEW c \in Conns, phase[c] = "ready"
    PROVE  session # NoSession /\ session \in State /\ Sound(session, wrapped)
<1>1. c \in Attached
  BY DEF Attached
<1>2. session # NoSession
  BY <1>1 DEF IInv, SharedSession
<1> QED
  BY <1>2, SoundSession DEF IInv, Typed

\* Sealing takes the next nonce of the session, which was never used unless the
\* epochs have wrapped.
LEMMA EncryptStep ==
    ASSUME IInv, NEW c \in Conns, Encrypt(c)
    PROVE  IInv'
<1>1. session # NoSession /\ session \in State /\ Sound(session, wrapped)
  BY ReadyHasSession DEF Encrypt
<1>2. PICK s \in Candidates(session) :
         /\ session' = [s EXCEPT !.seq = @ + 1]
         /\ wrapped' = IF s = Rotated(session)
                       THEN Wrapped(s.root, session.epoch) ELSE wrapped
         /\ sealed' = sealed \cup {[root |-> s.root, epoch |-> s.epoch, seq |-> s.seq]}
         /\ reused' = reused \cup
               (sealed \cap {[root |-> s.root, epoch |-> s.epoch, seq |-> s.seq]})
  BY DEF Encrypt, Loaded
<1> DEFINE n == [root |-> s.root, epoch |-> s.epoch, seq |-> s.seq]
<1>3. /\ s \in State
      /\ s.root = session.root /\ s.seq = session.seq
      /\ s.graceCur = session.graceCur /\ s.gracePrev = session.gracePrev
      /\ \/ s.epoch = Following(session.epoch) /\ s.since = 0 /\ s = Rotated(session)
         \/ s.epoch = session.epoch /\ s.since = session.since + 1
            /\ session.since + 1 < RotateAfter
  BY <1>1, CandidateState
<1>4. /\ session' \in State
      /\ session'.root = s.root /\ session'.epoch = s.epoch
      /\ session'.seq = s.seq + 1 /\ session'.since = s.since
      /\ session'.graceCur = s.graceCur /\ session'.gracePrev = s.gracePrev
  BY <1>2, <1>3 DEF State
<1>5. n \in Nonces /\ n.root = s.root /\ n.epoch = s.epoch /\ n.seq = s.seq
  BY <1>3 DEF State, Nonces
<1>6. sealed' = sealed \cup {n} /\ reused' = reused \cup (sealed \cap {n})
  BY <1>2
<1>7. /\ session.epoch \in Int /\ session.seq \in Int /\ session.since \in Nat
      /\ s.epoch \in Int /\ s.seq \in Int /\ s.since \in Nat
      /\ session.graceCur \in Int /\ session.gracePrev \in Int
      /\ \A m \in sealed : m.epoch \in Int /\ m.seq \in Int
  BY <1>1, <1>3 DEF State, Slots, Epochs, NoEpoch, IInv, Typed, Nonces
<1> HIDE DEF n
<1>8. wrapped \subseteq wrapped' /\ wrapped' \subseteq Roots /\ s.since < RotateAfter
  BY <1>2, <1>3, Limits DEF Wrapped, IInv, Typed, State
\* As long as the epochs have not wrapped, the session has gone on or up.
<1>9. ASSUME s.root \notin wrapped'
      PROVE  /\ s.root \notin wrapped
             /\ \/ s.epoch = session.epoch + 1 /\ s.since = 0
                \/ s.epoch = session.epoch /\ s.since = session.since + 1
                   /\ session.since + 1 < RotateAfter
  <2>1. s = Rotated(session) => session.epoch # MaxEpoch
    BY <1>2, <1>9 DEF Wrapped
  <2>2. session.epoch # MaxEpoch => Following(session.epoch) = session.epoch + 1
    BY <1>1, FollowingEpoch DEF State
  <2> QED
    BY <1>3, <1>8, <1>9, <2>1, <2>2
<1>10. s.root \notin wrapped' => n \notin sealed
  BY <1>1, <1>3, <1>5, <1>7, <1>9 DEF Sound
<1>11. Typed'
  <2>1. sealed' \subseteq Nonces /\ reused' \subseteq sealed'
    BY <1>5, <1>6 DEF IInv, Typed
  <2>2. copy' \in [Conns -> State \cup {NoSession}]
    BY <1>4 DEF Encrypt, IInv, Typed
  <2>3. packets' \in 0 .. MaxPackets
    BY Bounds DEF Encrypt, IInv, Typed
  <2> QED
    BY <1>4, <1>8, <2>1, <2>2, <2>3 DEF Encrypt, IInv, Typed, clientVars
<1>12. (Counted /\ SharedSession)'
  BY <1>3, <1>4, CopyWritten DEF Encrypt
<1>13. RootsKnown'
  BY <1>1, <1>3, <1>4, <1>5, <1>6 DEF Encrypt, IInv, RootsKnown
<1>14. SealedBehind'
  <2> SUFFICES ASSUME s.root \notin wrapped', NEW m \in sealed', m.root = session'.root
               PROVE  \/ m.epoch < session'.epoch
                      \/ m.epoch = session'.epoch /\ m.seq < session'.seq
    BY <1>4 DEF SealedBehind, Ascending
  <2>1. CASE m = n
    BY <2>1, <1>4, <1>5, <1>7
  <2>2. CASE m \in sealed
    BY <2>2, <1>1, <1>3, <1>4, <1>7, <1>9 DEF Sound
  <2> QED
    BY <2>1, <2>2, <1>6
<1>15. FiniteSealed' /\ NonceUnique'
  <2>1. IsFiniteSet(sealed')
    BY <1>6, FS_AddElement DEF IInv, FiniteSealed
  <2>2. \A m \in reused' : m.root \in wrapped'
    BY <1>5, <1>6, <1>8, <1>10 DEF IInv, NonceUnique
  <2> QED
    BY <2>1, <2>2 DEF FiniteSealed, NonceUnique
<1>16. GraceBehind'
  BY <1>1, <1>3, <1>4, <1>7, <1>9 DEF Sound, GraceBehind, Ascending
<1>17. ASSUME s.root \notin wrapped'
       PROVE  Cardinality(InEpoch(s.root, s.epoch)') <= s.since + 1
  <2>1. InEpoch(s.root, s.epoch)' = InEpoch(s.root, s.epoch) \cup {n}
    BY <1>5, <1>6 DEF InEpoch
  <2>2. n \notin InEpoch(s.root, s.epoch)
    BY <1>10, <1>17 DEF InEpoch
  <2>3. InEpoch(s.root, s.epoch) \subseteq sealed
    BY DEF InEpoch
  <2>4. IsFiniteSet(InEpoch(s.root, s.epoch))
    BY <2>3, FS_Subset DEF IInv, FiniteSealed
  <2>5. Cardinality(InEpoch(s.root, s.epoch)')
          = Cardinality(InEpoch(s.root, s.epoch)) + 1
    BY <2>1, <2>2, <2>4, FS_AddElement
  <2>6. CASE s.epoch = session.epoch + 1 /\ s.since = 0
    <3>1. InEpoch(s.root, s.epoch) = {}
      BY <2>6, <1>1, <1>3, <1>7, <1>9, <1>17 DEF Sound, InEpoch
    <3>2. Cardinality(InEpoch(s.root, s.epoch)) = 0
      BY <3>1, FS_EmptySet
    <3> QED
      BY <2>5, <2>6, <3>2
  <2>7. CASE s.epoch = session.epoch /\ s.since = session.since + 1
    <3>1. /\ Cardinality(InEpoch(s.root, s.epoch)) <= session.since + 1
          /\ Cardinality(InEpoch(s.root, s.epoch)) \in Nat
      BY <2>4, <2>7, <1>1, <1>3, <1>9, <1>17, FS_CardinalityType DEF Sound
    <3> QED
      BY <2>5, <2>7, <3>1, <1>7
  <2> QED
    BY <1>9, <1>17, <2>6, <2>7
<1>18. CounterAhead'
  <2>1. InEpoch(session.root, session.epoch)' = InEpoch(s.root, s.epoch)'
    BY <1>4 DEF InEpoch
  <2> QED
    BY <1>4, <1>8, <1>17, <2>1 DEF CounterAhead
<1>19. EpochPacketsBounded'
  <2> SUFFICES ASSUME NEW m \in sealed', m.root \notin wrapped'
               PROVE  Cardinality({x \in sealed' : x.root = m.root /\ x.epoch = m.epoch})
                        <= RotateAfter
    BY DEF EpochPacketsBounded
  <2>1. CASE m.root = s.root /\ m.epoch = s.epoch
    <3>1. {x \in sealed' : x.root = m.root /\ x.epoch = m.epoch}
            = InEpoch(s.root, s.epoch)'
      BY <2>1 DEF InEpoch
    <3>2. InEpoch(s.root, s.epoch)' \subseteq sealed'
      BY DEF InEpoch
    <3>3. Cardinality(InEpoch(s.root, s.epoch)') \in Nat
      BY <1>15, <3>2, FS_Subset, FS_CardinalityType DEF FiniteSealed
    <3>4. RotateAfter \in Nat
      BY Limits
    <3>5. Cardinality(InEpoch(s.root, s.epoch)') <= s.since + 1
      BY <2>1, <1>17
    <3>6. Cardinality(InEpoch(s.root, s.epoch)') <= RotateAfter
      BY <1>7, <1>8, <3>3, <3>4, <3>5
    <3> QED
      BY <3>1, <3>6
  <2>2. CASE ~(m.root = s.root /\ m.epoch = s.epoch)
    <3>1. {x \in sealed' : x.root = m.root /\ x.epoch = m.epoch}
            = {x \in sealed : x.root = m.root /\ x.epoch = m.epoch}
      BY <2>2, <1>5, <1>6
    <3>2. m \in sealed /\ m.root \notin wrapped
      BY <2>2, <1>5, <1>6, <1>8
    <3>3. Cardinality({x \in sealed : x.root = m.root /\ x.epoch = m.epoch})
            <= RotateAfter
      BY <3>2 DEF IInv, EpochPacketsBounded
    <3> QED
      BY <3>1, <3>3
  <2> QED
    BY <2>1, <2>2
<1> QED
  BY <1>11, <1>12, <1>13, <1>14, <1>15, <1>16, <1>18, <1>19 DEF IInv

\* Opening a packet moves the slots; counters and root key stay.
LEMMA DecryptStep ==
    ASSUME IInv, NEW c \in Conns, NEW e \in Epochs, Decrypt(c, e)
    PROVE  IInv'
<1>1. session # NoSession /\ session \in State /\ Sound(session, wrapped)
  BY ReadyHasSession DEF Decrypt
<1>2. PICK t \in Aged(session) :
         session' = Committed(t, e) /\ copy' = [copy EXCEPT ![c] = session']
  BY DEF Decrypt, Loaded
<1>3. /\ session' \in State
      /\ session'.root = session.root /\ session'.epoch = session.epoch
      /\ session'.seq = session.seq /\ session'.since = session.since
      /\ session'.graceCur \in {session.graceCur, NoEpoch}
      /\ session'.gracePrev \in {session.gracePrev, NoEpoch}
  BY <1>1, <1>2, OpenedState
<1>4. sealed' = sealed /\ reused' = reused /\ wrapped' = wrapped /\ roots' = roots
  BY DEF Decrypt
<1>5. Typed'
  <2>1. copy' \in [Conns -> State \cup {NoSession}]
    BY <1>2, <1>3 DEF IInv, Typed
  <2>2. packets' \in 0 .. MaxPackets
    BY Bounds DEF Decrypt, IInv, Typed
  <2> QED
    BY <1>3, <1>4, <2>1, <2>2 DEF Decrypt, IInv, Typed, clientVars
<1>6. (Counted /\ SharedSession)'
  BY <1>2, <1>3, CopyWritten DEF Decrypt
<1>7. RootsKnown'
  BY <1>1, <1>3, <1>4 DEF IInv, RootsKnown
<1>8. SealedBehind' /\ CounterAhead'
  BY <1>1, <1>3, <1>4 DEF Sound, SealedBehind, CounterAhead, Ascending, InEpoch
<1>9. GraceBehind'
  <2>1. session.epoch \in Int /\ NoEpoch < session.epoch
    BY <1>1, Bounds DEF State, Epochs, NoEpoch
  <2> QED
    BY <2>1, <1>1, <1>3, <1>4 DEF Sound, GraceBehind, Ascending
<1>10. (FiniteSealed /\ NonceUnique /\ EpochPacketsBounded)'
  BY <1>4, HistoryKept
<1> QED
  BY <1>5, <1>6, <1>7, <1>8, <1>9, <1>10 DEF IInv

\* Dropping an attached SecurePeer gives its attachment back.
LEMMA DropStep ==
    ASSUME IInv, NEW c \in Conns, Drop(c)
    PROVE  IInv'
<1>1. Typed'
  BY DEF Drop, IInv, Typed, history
<1>2. Attached' = Attached \ {c}
  BY DEF Drop, IInv, Typed, Attached
<1>3. Counted'
  <2>1. CASE Releases(c)
    <3>1. c \in Attached
      BY <2>1 DEF Releases, Attached
    <3>2. Cardinality(Attached) \in Nat /\ Cardinality(Attached) # 0
      BY <3>1, AttachedFinite, FS_EmptySet, FS_CardinalityType
    <3>3. Cardinality(Attached \ {c}) = Cardinality(Attached) - 1
      BY <3>1, AttachedFinite, FS_RemoveElement
    <3>4. attachments' = attachments - 1
      BY <2>1, <3>2 DEF Drop, IInv, Counted
    <3> QED
      BY <1>2, <3>3, <3>4 DEF IInv, Counted
  <2>2. CASE ~Releases(c)
    <3>1. Attached \ {c} = Attached
      BY <2>2 DEF Releases, Attached
    <3> QED
      BY <2>2, <3>1, <1>2 DEF Drop, IInv, Counted
  <2> QED
    BY <2>1, <2>2
<1>4. SharedSession'
  <2> SUFFICES ASSUME NEW x \in Attached \ {c}
               PROVE  session' # NoSession /\ copy'[x].root = session'.root
    BY <1>2 DEF SharedSession
  <2>1. x \in Conns /\ x # c
    BY DEF Attached
  <2> QED
    BY <2>1 DEF Drop, IInv, Typed, SharedSession
<1>5. (/\ RootsKnown /\ SealedBehind /\ GraceBehind /\ CounterAhead
       /\ FiniteSealed /\ NonceUnique /\ EpochPacketsBounded)'
  BY SessionKept DEF Drop
<1> QED
  BY <1>1, <1>3, <1>4, <1>5 DEF IInv

\* Without a session nothing is left to say of it but that nobody needs it.
LEMMA SessionGone ==
    ASSUME IInv, session' = NoSession, UNCHANGED <<roots, history>>, Typed',
           Attached' = {}, attachments' = 0
    PROVE  IInv'
<1>1. (Counted /\ SharedSession)'
  BY FS_EmptySet DEF Counted, SharedSession
<1>2. (RootsKnown /\ SealedBehind /\ GraceBehind /\ CounterAhead)'
  BY DEF IInv, RootsKnown, SealedBehind, GraceBehind, CounterAhead, Ascending, history
<1>3. (FiniteSealed /\ NonceUnique /\ EpochPacketsBounded)'
  BY HistoryKept DEF history
<1> QED
  BY <1>1, <1>2, <1>3 DEF IInv

LEMMA ExpireStep ==
    ASSUME IInv, Expire
    PROVE  IInv'
<1>1. Typed'
  BY DEF Expire, IInv, Typed, clientVars, history
<1>2. attachments = 0 /\ Attached = {}
  BY NobodyAttached DEF Expire, Expirable, IInv
<1>3. Attached' = {} /\ attachments' = 0
  BY <1>2 DEF Expire, Attached
<1> QED
  BY <1>1, <1>3, SessionGone DEF Expire

LEMMA ServerRestartStep ==
    ASSUME IInv, ServerRestart
    PROVE  IInv'
<1>1. Typed'
  BY Bounds DEF ServerRestart, IInv, Typed, history
<1>2. Attached' = {} /\ attachments' = 0
  BY DEF ServerRestart, Attached
<1> QED
  BY <1>1, <1>2, SessionGone DEF ServerRestart

LEMMA StutterStep ==
    ASSUME IInv, UNCHANGED vars
    PROVE  IInv'
<1>1. Typed'
  BY DEF IInv, Typed, vars, serverVars, clientVars, history
<1> QED
  BY <1>1, ServerKept DEF vars

\* Every step keeps the invariant.
LEMMA NextIInv == IInv /\ [Next]_vars => IInv'
<1> SUFFICES ASSUME IInv, [Next]_vars
             PROVE  IInv'
  OBVIOUS
<1>1. ASSUME NEW c \in Conns, Connect(c)    PROVE IInv'
  BY <1>1, ConnectStep
<1>2. ASSUME NEW c \in Conns, Join(c)       PROVE IInv'
  BY <1>2, JoinStep
<1>3. ASSUME NEW c \in Conns, Sync(c)       PROVE IInv'
  BY <1>3, SyncStep
<1>4. ASSUME NEW c \in Conns, Create(c)     PROVE IInv'
  BY <1>4, CreateStep
<1>5. ASSUME NEW c \in Conns, ReadMsg2(c)   PROVE IInv'
  BY <1>5, ReadMsg2Step
<1>6. ASSUME NEW c \in Conns, LoseMsg2(c)   PROVE IInv'
  BY <1>6, LoseMsg2Step
<1>7. ASSUME NEW c \in Conns, FinishMsg3(c) PROVE IInv'
  BY <1>7, FinishMsg3Step
<1>8. ASSUME NEW c \in Conns, Drop(c)       PROVE IInv'
  BY <1>8, DropStep
<1>9. ASSUME NEW c \in Conns, Encrypt(c)    PROVE IInv'
  BY <1>9, EncryptStep
<1>10. ASSUME NEW c \in Conns, NEW e \in Epochs, Decrypt(c, e) PROVE IInv'
  BY <1>10, DecryptStep
<1>11. CASE Expire
  BY <1>11, ExpireStep
<1>12. CASE ServerRestart
  BY <1>12, ServerRestartStep
<1>13. CASE ClientRestart
  BY <1>13, ClientRestartStep
<1>14. CASE UNCHANGED vars
  BY <1>14, StutterStep
<1> QED
  BY <1>1, <1>2, <1>3, <1>4, <1>5, <1>6, <1>7, <1>8, <1>9, <1>10, <1>11, <1>12,
     <1>13, <1>14 DEF Next

LEMMA Invariance == Spec => []IInv
<1> QED
  BY InitIInv, NextIInv, PTL DEF Spec

-----------------------------------------------------------------------------
(* The theorems.                                                           *)

\* Every variable of the session store, the SecurePeers and the peer has its
\* type, and StoredSession.attachments never exceeds the peer's sockets.
THEOREM SessionTypeCorrect == Spec => []TypeOK
<1>1. IInv => TypeOK
  <2> SUFFICES ASSUME IInv
               PROVE  TypeOK
    OBVIOUS
  <2>1. Attached \subseteq Conns
    BY DEF Attached
  <2>2. /\ Cardinality(Attached) <= Cardinality(Conns)
        /\ Cardinality(Attached) \in Nat /\ Cardinality(Conns) \in Nat
    BY <2>1, FiniteConns, FS_Subset, FS_CardinalityType
  <2> QED
    BY <2>2 DEF IInv, Counted, Typed, TypeOK
<1> QED
  BY <1>1, Invariance, PTL

\* The retain of upsert_session and the drops of SecurePeers never take the
\* session from a SecurePeer that is still attached to it, nor change its root
\* key under it.
THEOREM SessionOutlivesItsPeers == Spec => []SharedSession
<1>1. IInv => SharedSession
  BY DEF IInv
<1> QED
  BY <1>1, Invariance, PTL

\* encrypt_packet never seals two packets with the same root key, epoch and
\* sequence number, across all sockets of the peer, Sync and rotation, unless
\* wrapping_add has brought the epochs of that root key back to 0.
THEOREM NoNonceTwice == Spec => []NonceUnique
<1>1. IInv => NonceUnique
  BY DEF IInv
<1> QED
  BY <1>1, Invariance, PTL

\* maybe_rotate_epoch keeps every epoch's key below ROTATE_AFTER_PACKETS + 1
\* packets, until the epochs of its root key wrap.
THEOREM EpochsBounded == Spec => []EpochPacketsBounded
<1>1. IInv => EpochPacketsBounded
  BY DEF IInv
<1> QED
  BY <1>1, Invariance, PTL

\* All that was sealed is behind the session's counters, which Sync moves to a
\* new epoch, and its grace slots are for epochs the session has left, whatever
\* epochs the peer's packets were in, unless upsert_session's or
\* maybe_rotate_epoch's wrapping_add has come round to epoch 0.
THEOREM SyncStartsAfresh == Spec => []SyncFresh
<1>1. IInv => SyncFresh
  BY DEF IInv, SyncFresh
<1> QED
  BY <1>1, Invariance, PTL

-----------------------------------------------------------------------------
(* The peer's root key, as long as no message 2 with a root key is lost.   *)

\* Message 2 with a root key is on its way to a socket that waits for it.
Keyed(c) == c \in waiting2 /\ client[c] = "waiting" /\ msg2[c] # 0

\* Whatever is under way is the present session's, and carries its root key.
UnderWay ==
    /\ session = NoSession => waiting2 = {}
    /\ \A c \in Conns : msg2[c] # 0 => c \in waiting2 /\ msg2[c] = session.root

\* Message 1 on an open socket is from a peer that holds a root key still if it
\* names a session, and waits for the answer if it is to create one.
Greeting == \A c \in Conns :
    /\ phase[c] = "hello" => c \notin waiting2 /\ client[c] # "answered"
    /\ phase[c] = "hello" /\ session = NoSession /\ clientRoot # 0 => client[c] = "waiting"
    /\ joins[c] => phase[c] = "hello" /\ (client[c] = "gone" \/ clientRoot # 0)

\* A peer that was or will be answered without a root key has one, and it is
\* the session's or the session's is under way to it.
Holding ==
    /\ \A c \in Conns : client[c] = "answered" => clientRoot # 0
    /\ \A c \in waiting2 : client[c] = "waiting" /\ msg2[c] = 0 => clientRoot # 0
    /\ session # NoSession =>
           clientRoot \in {0, session.root} \/ \E c \in Conns : Keyed(c)

RInv == UnderWay /\ Greeting /\ Holding

LEMMA InitRInv == Init => RInv
BY DEF Init, RInv, UnderWay, Greeting, Holding

\* A step of the server that leaves a session with its root key.
LEMMA RootKept ==
    ASSUME RInv, UNCHANGED <<phase, clientVars>>,
           session # NoSession, session' # NoSession, session'.root = session.root
    PROVE  RInv'
BY DEF RInv, UnderWay, Greeting, Holding, Keyed, clientVars

\* Joining or syncing a session that there is.
LEMMA RootAnswered ==
    ASSUME Typed, RInv, NEW c \in Conns, phase[c] = "hello", session # NoSession,
           NEW s \in State, s.root = session.root, NEW k \in {0, s.root},
           k = 0 => joins[c], Answer(c, s, k)
    PROVE  RInv'
<1>1. /\ phase' = [phase EXCEPT ![c] = "msg3"] /\ session' = s
      /\ msg2' = [msg2 EXCEPT ![c] = k] /\ waiting2' = waiting2 \cup {c}
      /\ joins' = [joins EXCEPT ![c] = FALSE] /\ UNCHANGED <<client, clientRoot>>
  BY DEF Answer
<1>2. c \notin waiting2 /\ s # NoSession /\ s.root # 0
  BY NoSessionIsNone DEF RInv, Greeting, State, Roots
<1>3. UnderWay'
  BY <1>1, <1>2 DEF RInv, UnderWay, Typed
<1>4. Greeting'
  BY <1>1, <1>2 DEF RInv, Greeting, Typed
<1>5. ASSUME NEW d \in Conns, Keyed(d)
      PROVE  Keyed(d)'
  <2>1. d # c
    BY <1>2, <1>5 DEF Keyed
  <2> QED
    BY <1>1, <1>5, <2>1 DEF Keyed, Typed
<1>6. ASSUME NEW d \in waiting2', client'[d] = "waiting", msg2'[d] = 0
      PROVE  clientRoot' # 0
  <2>1. CASE d = c
    BY <1>1, <1>6, <2>1 DEF RInv, Greeting, Typed
  <2>2. CASE d # c
    BY <1>1, <1>6, <2>2 DEF RInv, Holding, Typed
  <2> QED
    BY <2>1, <2>2
<1>7. Holding'
  BY <1>1, <1>5, <1>6 DEF RInv, Holding
<1> QED
  BY <1>3, <1>4, <1>7 DEF RInv

LEMMA RootConnect ==
    ASSUME Typed, RInv, NEW c \in Conns, Connect(c)
    PROVE  RInv'
<1>1. /\ phase' = [phase EXCEPT ![c] = "hello"] /\ c \notin waiting2
      /\ client' = [client EXCEPT ![c] = "waiting"]
      /\ joins' = [joins EXCEPT ![c] = clientRoot # 0]
      /\ UNCHANGED <<session, msg2, waiting2, clientRoot>>
  BY DEF Connect
<1>2. UnderWay'
  BY <1>1 DEF RInv, UnderWay
<1>3. ASSUME NEW d \in Conns
      PROVE  /\ phase'[d] = "hello" => d \notin waiting2' /\ client'[d] # "answered"
             /\ phase'[d] = "hello" /\ session' = NoSession /\ clientRoot' # 0
                    => client'[d] = "waiting"
             /\ joins'[d] => phase'[d] = "hello" /\ (client'[d] = "gone" \/ clientRoot' # 0)
  <2>1. CASE d = c
    BY <1>1, <2>1 DEF Typed
  <2>2. CASE d # c
    BY <1>1, <2>2 DEF RInv, Greeting, Typed
  <2> QED
    BY <2>1, <2>2
<1>4. ASSUME NEW d \in Conns, Keyed(d)
      PROVE  Keyed(d)'
  BY <1>1, <1>4 DEF Keyed, Typed
<1>5. /\ \A d \in Conns : client'[d] = "answered" => client[d] = "answered"
      /\ \A d \in waiting2 : client'[d] = client[d]
  BY <1>1 DEF Typed
<1>6. Holding'
  BY <1>1, <1>4, <1>5 DEF RInv, Holding
<1> QED
  BY <1>2, <1>3, <1>6 DEF RInv, Greeting

\* The only message 2 there is carries the new root key.
LEMMA RootCreated ==
    ASSUME Typed, RInv, NEW c \in Conns, Create(c)
    PROVE  RInv'
<1>1. /\ phase[c] = "hello" /\ session = NoSession /\ roots' = roots + 1
      /\ phase' = [phase EXCEPT ![c] = "msg3"] /\ session' = Created(roots')
      /\ msg2' = [msg2 EXCEPT ![c] = roots'] /\ waiting2' = waiting2 \cup {c}
      /\ joins' = [joins EXCEPT ![c] = FALSE] /\ UNCHANGED <<client, clientRoot>>
  BY DEF Create, Answer
<1>2. roots' \in Roots /\ roots' # 0
  BY <1>1, Bounds DEF Create, Typed, Roots
<1>3. session' # NoSession /\ session'.root = roots'
  BY <1>1, <1>2, CreatedState, NoSessionIsNone
<1>4. waiting2 = {} /\ \A d \in Conns : msg2[d] = 0
  BY <1>1 DEF RInv, UnderWay
<1>5. UnderWay'
  BY <1>1, <1>3, <1>4 DEF UnderWay, Typed
<1>6. Greeting'
  BY <1>1, <1>3, <1>4 DEF RInv, Greeting, Typed
<1>7. clientRoot = 0 \/ Keyed(c)'
  BY <1>1, <1>2 DEF RInv, Greeting, Keyed, Typed
<1>8. Holding'
  BY <1>1, <1>2, <1>3, <1>4, <1>7 DEF RInv, Holding, Typed
<1> QED
  BY <1>5, <1>6, <1>8 DEF RInv

LEMMA RootRead ==
    ASSUME Typed, RInv, NEW c \in Conns, ReadMsg2(c)
    PROVE  RInv'
<1>1. /\ c \in waiting2 /\ waiting2' = waiting2 \ {c}
      /\ msg2' = [msg2 EXCEPT ![c] = 0] /\ UNCHANGED <<phase, session, joins>>
  BY DEF ReadMsg2, serverVars
<1>2. session # NoSession /\ UnderWay'
  BY <1>1 DEF RInv, UnderWay, Typed
<1>3. ASSUME NEW d \in Conns, d # c, Keyed(d), client'[d] = client[d]
      PROVE  Keyed(d)'
  BY <1>1, <1>3 DEF Keyed, Typed
<1>4. CASE client[c] # "waiting"
  <2>1. client' = client /\ clientRoot' = clientRoot
    BY <1>4 DEF ReadMsg2
  <2>2. Greeting'
    BY <1>1, <2>1 DEF RInv, Greeting
  <2>3. ASSUME NEW d \in Conns, Keyed(d)
        PROVE  Keyed(d)'
    BY <1>3, <1>4, <2>1, <2>3 DEF Keyed
  <2>4. \A d \in waiting2' : d \in waiting2 /\ msg2'[d] = msg2[d]
    BY <1>1 DEF Typed
  <2>5. Holding'
    BY <1>1, <2>1, <2>3, <2>4 DEF RInv, Holding
  <2> QED
    BY <1>2, <2>2, <2>5 DEF RInv
<1>5. CASE client[c] = "waiting"
  <2>1. /\ client' = [client EXCEPT ![c] = "answered"]
        /\ clientRoot' = IF msg2[c] = 0 THEN clientRoot ELSE msg2[c]
    BY <1>5 DEF ReadMsg2
  <2>2. /\ clientRoot' # 0
        /\ msg2[c] # 0 => clientRoot' = session'.root
        /\ msg2[c] = 0 => clientRoot' = clientRoot
    BY <1>1, <1>5, <2>1 DEF RInv, UnderWay, Holding
  <2>3. Greeting'
    BY <1>1, <1>2, <2>1, <2>2 DEF RInv, Greeting, Typed
  <2>4. ASSUME NEW d \in Conns, Keyed(d), msg2[c] = 0
        PROVE  Keyed(d)'
    <3>1. d # c
      BY <2>4 DEF Keyed
    <3> QED
      BY <1>3, <2>1, <2>4, <3>1 DEF Typed
  <2>5. Holding'
    BY <1>1, <2>2, <2>4 DEF RInv, Holding
  <2> QED
    BY <1>2, <2>3, <2>5 DEF RInv
<1> QED
  BY <1>4, <1>5

\* Only a message 2 without a root key is lost.
LEMMA RootLost ==
    ASSUME ~LosesRoots, Typed, RInv, NEW c \in Conns, LoseMsg2(c)
    PROVE  RInv'
<1>1. /\ c \in waiting2 /\ waiting2' = waiting2 \ {c} /\ msg2[c] = 0
      /\ msg2' = [msg2 EXCEPT ![c] = 0] /\ client' = [client EXCEPT ![c] = "gone"]
      /\ UNCHANGED <<phase, session, joins, clientRoot>>
  BY DEF LoseMsg2, serverVars
<1>2. session # NoSession /\ UnderWay'
  BY <1>1 DEF RInv, UnderWay, Typed
<1>3. Greeting'
  BY <1>1, <1>2 DEF RInv, Greeting, Typed
<1>4. ASSUME NEW d \in Conns, Keyed(d)
      PROVE  Keyed(d)'
  BY <1>1, <1>4 DEF Keyed, Typed
<1>5. /\ \A d \in Conns : client'[d] = "answered" => client[d] = "answered"
      /\ \A d \in waiting2' : client'[d] = client[d] /\ msg2'[d] = msg2[d]
  BY <1>1 DEF Typed
<1>6. Holding'
  BY <1>1, <1>4, <1>5 DEF RInv, Holding
<1> QED
  BY <1>2, <1>3, <1>6 DEF RInv

LEMMA RootDrop ==
    ASSUME Typed, RInv, NEW c \in Conns, Drop(c)
    PROVE  RInv'
<1>1. /\ phase' = [phase EXCEPT ![c] = "idle"]
      /\ client' = [client EXCEPT ![c] = IF c \in waiting2 THEN @ ELSE "gone"]
      /\ joins' = [joins EXCEPT ![c] = FALSE]
      /\ UNCHANGED <<session, msg2, waiting2, clientRoot>>
  BY DEF Drop
<1>2. /\ \A d \in waiting2 : client'[d] = client[d]
      /\ \A d \in Conns : client'[d] = client[d] \/ client'[d] = "gone"
      /\ \A d \in Conns \ {c} : client'[d] = client[d]
  BY <1>1 DEF Typed
<1>3. UnderWay'
  BY <1>1 DEF RInv, UnderWay
<1>4. Greeting'
  BY <1>1, <1>2 DEF RInv, Greeting, Typed
<1>5. ASSUME NEW d \in Conns, Keyed(d)
      PROVE  Keyed(d)'
  BY <1>1, <1>2, <1>5 DEF Keyed
<1>6. Holding'
  BY <1>1, <1>2, <1>5 DEF RInv, Holding
<1> QED
  BY <1>3, <1>4, <1>6 DEF RInv

LEMMA RootGone ==
    ASSUME Typed, RInv, Expire \/ ServerRestart \/ ClientRestart
    PROVE  RInv'
<1>1. CASE Expire
  BY <1>1 DEF Expire, RInv, UnderWay, Greeting, Holding, clientVars
<1>2. CASE ServerRestart
  BY <1>2 DEF ServerRestart, RInv, UnderWay, Greeting, Holding
<1>3. CASE ClientRestart
  <2>1. /\ clientRoot' = 0 /\ \A d \in Conns : client'[d] = "gone"
        /\ UNCHANGED <<phase, session, joins, msg2, waiting2>>
    BY <1>3 DEF ClientRestart, serverVars
  <2>2. \A d \in waiting2' : d \in Conns
    BY <2>1 DEF Typed
  <2> QED
    BY <2>1, <2>2 DEF RInv, UnderWay, Greeting, Holding
<1> QED
  BY <1>1, <1>2, <1>3

LEMMA NextRInv == ~LosesRoots /\ IInv /\ RInv /\ [Next]_vars => RInv'
<1> SUFFICES ASSUME ~LosesRoots, IInv, Typed, RInv, [Next]_vars
             PROVE  RInv'
  BY DEF IInv
<1>1. session # NoSession => session \in State
  BY DEF Typed
<1>2. ASSUME NEW c \in Conns, Join(c)
      PROVE  RInv'
  BY <1>1, <1>2, RootAnswered DEF Join, Joining
<1>3. ASSUME NEW c \in Conns, Sync(c)
      PROVE  RInv'
  <2> DEFINE s == Synced(session)
  <2>1. /\ phase[c] = "hello" /\ session # NoSession /\ session \in State
        /\ Answer(c, s, session.root) /\ s \in State /\ s.root = session.root
    BY <1>1, <1>3, SyncedState DEF Sync
  <2>2. session.root # 0
    BY <2>1 DEF State, Roots
  <2> HIDE DEF s
  <2> QED
    BY <2>1, <2>2, RootAnswered
<1>4. ASSUME NEW c \in Conns, FinishMsg3(c)
      PROVE  RInv'
  <2>1. /\ phase' = [phase EXCEPT ![c] = "ready"] /\ phase[c] = "msg3"
        /\ UNCHANGED <<session, client, joins, msg2, waiting2, clientRoot>>
    BY <1>4 DEF FinishMsg3, clientVars
  <2>2. \A d \in Conns : phase'[d] = "hello" <=> phase[d] = "hello"
    BY <2>1 DEF Typed
  <2> QED
    BY <2>1, <2>2 DEF RInv, UnderWay, Greeting, Holding, Keyed
<1>5. ASSUME NEW c \in Conns, Encrypt(c)
      PROVE  RInv'
  <2>1. session # NoSession /\ session \in State
    BY <1>5, ReadyHasSession DEF Encrypt
  <2>2. PICK s \in Candidates(session) :
            session' = [s EXCEPT !.seq = @ + 1]
    BY <1>5 DEF Encrypt, Loaded
  <2>3. s \in State /\ s.root = session.root
    BY <2>1, <2>2, CandidateState
  <2>4. session' \in State /\ session'.root = session.root
    BY <2>2, <2>3 DEF State
  <2> QED
    BY <1>5, <2>1, <2>4, RootKept, NoSessionIsNone DEF Encrypt
<1>6. ASSUME NEW c \in Conns, NEW e \in Epochs, Decrypt(c, e)
      PROVE  RInv'
  <2>1. session # NoSession /\ session \in State
    BY <1>6, ReadyHasSession DEF Decrypt
  <2>2. PICK t \in Aged(session) : session' = Committed(t, e)
    BY <1>6 DEF Decrypt, Loaded
  <2>3. session' \in State /\ session'.root = session.root
    BY <2>1, <2>2, OpenedState
  <2> QED
    BY <1>6, <2>1, <2>3, RootKept, NoSessionIsNone DEF Decrypt
<1>7. CASE UNCHANGED vars
  BY <1>7 DEF vars, serverVars, clientVars, RInv, UnderWay, Greeting, Holding, Keyed
<1> QED
  BY <1>2, <1>3, <1>4, <1>5, <1>6, <1>7, RootConnect, RootCreated, RootRead, RootLost,
     RootDrop, RootGone DEF Next

\* As long as no message 2 with a root key is lost, a peer that is ready on an
\* open socket holds the root key of the session it shares with its other
\* sockets, whatever mixture of Create, Sync and Join its reconnections, its
\* restarts and the server's have led to (upsert_session).  If one is lost the
\* two may disagree for good: see MCSecureSessionLossy.cfg.
THEOREM RootsAgree ==
    ASSUME ~LosesRoots
    PROVE  Spec => []RootAgreement
<1>1. IInv /\ RInv => RootAgreement
  <2> SUFFICES ASSUME IInv, RInv, Settled, NEW c \in Conns,
                      phase[c] = "ready", client[c] = "answered"
               PROVE  clientRoot = session.root
    BY DEF RootAgreement
  <2>1. session # NoSession
    BY ReadyHasSession
  <2>2. ~\E d \in Conns : Keyed(d)
    BY DEF Settled, Keyed
  <2> QED
    BY <2>1, <2>2 DEF RInv, Holding
<1>2. Spec => []RInv
  BY InitRInv, NextRInv, Invariance, PTL DEF Spec
<1> QED
  BY <1>1, <1>2, Invariance, PTL

=============================================================================

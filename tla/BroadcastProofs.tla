-------------------------- MODULE BroadcastProofs --------------------------
(***************************************************************************)
(* Proofs about Broadcast for any number of peers: whoever fails at        *)
(* whatever turn of whichever loop, nobody that stays is forgotten, nothing *)
(* is left of those that go, and calls nest no deeper than there are peers. *)
(*                                                                         *)
(* The argument: whoever is behind is either served, that is, a            *)
(* transaction in flight will send what waits, or some call on the stack   *)
(* has still to come to it.  Each close pushes one broadcast and takes one  *)
(* peer away, which bounds the stack.                                      *)
(***************************************************************************)
EXTENDS Broadcast, FiniteSetTheorems, SequenceTheorems, TLAPS

\* The calls st: n broadcasts inside each other over what the event began with,
\* which is nothing, the rest of a registration, or the maintenance.
Form(st, n) ==
    /\ n \in 0 .. Len(st) /\ Len(st) <= n + 2
    /\ \A i \in 1 .. Len(st) :
          /\ i <= n <=> st[i].op = "broadcast"
          /\ i > n => (i = Len(st) <=> st[i].op \in {"arrive", "maintain"})
          /\ st[i].op = "arrive" => i = n + 1
          /\ st[i].op = "clean" => i = 1

\* Peers that are registered by a call of st, and not ready before it goes on.
Arriving(st) == {st[i].peer : i \in {j \in 1 .. Len(st) : st[j].op = "arrive"}}

\* Room for the closes that are left: one for each ready peer.
Bounded(st, n, rd) ==
    n + Cardinality(rd) <= Cardinality(Peers) + IF Len(st) = n THEN 1 ELSE 0

\* What remains of st when the room is rm and its ready connections rd.
Shaped(st, rm, rd) ==
    /\ st \in Seq(Calls)
    /\ rm \ rd = Arriving(st)
    /\ \E n \in Nat : Form(st, n) /\ Bounded(st, n, rd)

\* Peers with a state are ready.
Stated(sy, rd) ==
    /\ sy \in [Peers -> SyncStates \cup {NoState}]
    /\ \A a \in Peers : sy[a] # NoState => a \in rd

\* What waits for a peer in state s is sent when its transaction ends.
Served(s) == s # NoState /\ s.inFlight /\ (s.dirty \/ s.full)

\* The call c, one of st, has still to send a its update, or to close its
\* connection.
Promises(c, a) ==
    \/ c.op = "broadcast" /\ a \notin c.done /\ a # c.peer
    \/ c.op = "clean" /\ a \in c.done
    \/ c.op = "close" /\ a \in c.todo
Promised(st, a) == \E i \in 1 .. Len(st) : Promises(st[i], a)

\* cleanExpired retries peers whose states it has found.
Cleaning(st, sy) == \A i \in 1 .. Len(st) : st[i].op = "clean" =>
    \A a \in st[i].todo : sy[a] # NoState

IInv ==
    /\ ready \subseteq room /\ room \subseteq Peers /\ behind \subseteq ready
    /\ Stated(sync, ready)
    /\ Shaped(stack, room, ready)
    /\ Cleaning(stack, sync)
    /\ \A a \in behind : Served(sync[a]) \/ Promised(stack, a)

-----------------------------------------------------------------------------
(* Stacks.                                                                 *)

LEMMA CallType ==
    ASSUME NEW op \in {"broadcast", "arrive", "clean", "close", "maintain"},
           NEW a \in Peers \cup {NoPeer}, NEW D \in SUBSET Peers, NEW E \in SUBSET Peers
    PROVE  Call(op, a, D, E) \in Calls
BY DEF Call, Calls

LEMMA Pushed ==
    ASSUME NEW st \in Seq(Calls), NEW c \in Calls
    PROVE  /\ <<c>> \o st \in Seq(Calls)
           /\ Len(<<c>> \o st) = Len(st) + 1
           /\ (<<c>> \o st)[1] = c
           /\ \A i \in 1 .. Len(st) : (<<c>> \o st)[i + 1] = st[i]
           /\ \A i \in 2 .. Len(st) + 1 : (<<c>> \o st)[i] = st[i - 1]
<1>1. <<c>> \in Seq(Calls) /\ Len(<<c>>) = 1 /\ <<c>>[1] = c
  OBVIOUS
<1>2. Len(st) \in Nat
  BY LenProperties
<1>3. /\ <<c>> \o st \in Seq(Calls)
      /\ Len(<<c>> \o st) = 1 + Len(st)
      /\ \A i \in 1 .. 1 + Len(st) : (<<c>> \o st)[i] =
             IF i <= 1 THEN <<c>>[i] ELSE st[i - 1]
  BY <1>1, ConcatProperties
<1> HIDE <1>1
<1>4. (<<c>> \o st)[1] = c
  BY <1>1, <1>2, <1>3
<1>5. \A i \in 2 .. Len(st) + 1 : (<<c>> \o st)[i] = st[i - 1]
  BY <1>2, <1>3
<1>6. ASSUME NEW i \in 1 .. Len(st) PROVE (<<c>> \o st)[i + 1] = st[i]
  <2>1. i + 1 \in 2 .. Len(st) + 1 /\ (i + 1) - 1 = i
    BY <1>2
  <2> QED
    BY <1>5, <2>1
<1> QED
  BY <1>2, <1>3, <1>4, <1>5, <1>6

LEMMA Popped ==
    ASSUME NEW st \in Seq(Calls), st # <<>>
    PROVE  /\ Len(st) \in Nat \ {0} /\ Head(st) \in Calls /\ Head(st) = st[1]
           /\ Tail(st) \in Seq(Calls) /\ Len(Tail(st)) = Len(st) - 1
           /\ \A i \in 1 .. Len(Tail(st)) : Tail(st)[i] = st[i + 1]
           /\ \A i \in 2 .. Len(st) : st[i] = Tail(st)[i - 1]
<1>1. /\ Len(st) \in Nat /\ Head(st) \in Calls /\ Tail(st) \in Seq(Calls)
      /\ Len(Tail(st)) = Len(st) - 1
      /\ \A i \in 1 .. Len(Tail(st)) : Tail(st)[i] = st[i + 1]
  BY HeadTailProperties, LenProperties
<1>2. Len(st) # 0 /\ Head(st) = st[1]
  BY EmptySeq
<1>3. ASSUME NEW i \in 2 .. Len(st) PROVE st[i] = Tail(st)[i - 1]
  <2>1. i - 1 \in 1 .. Len(Tail(st)) /\ (i - 1) + 1 = i
    BY <1>1
  <2> QED
    BY <1>1, <2>1
<1> QED
  BY <1>1, <1>2, <1>3

\* The call on top takes its turn: it stays what it is, or cleanExpired hands
\* over to the loop that closes.
LEMMA TurnShaped ==
    ASSUME NEW st, NEW rm, NEW rd, Shaped(st, rm, rd), st # <<>>, NEW c \in Calls,
           \/ c.op = Head(st).op /\ c.peer = Head(st).peer
           \/ Head(st).op = "clean" /\ c.op = "close"
    PROVE  Shaped(<<c>> \o Tail(st), rm, rd)
<1> DEFINE q == <<c>> \o Tail(st)
<1>1. /\ st \in Seq(Calls) /\ Len(st) \in Nat \ {0} /\ Head(st) = st[1]
      /\ q \in Seq(Calls) /\ Len(q) = Len(st) /\ q[1] = c
      /\ \A i \in 2 .. Len(st) : q[i] = st[i]
  BY Popped, Pushed DEF Shaped
<1> HIDE DEF q
<1>2. Arriving(q) = Arriving(st)
  BY <1>1 DEF Arriving
<1>3. ASSUME NEW n \in Nat, Form(st, n) PROVE Form(q, n)
  BY <1>1, <1>3 DEF Form
<1> QED
  BY <1>1, <1>2, <1>3 DEF Shaped, Bounded, q

\* The call on top is over.
LEMMA EndShaped ==
    ASSUME NEW st, NEW rm, NEW rd, Shaped(st, rm, rd), st # <<>>,
           Head(st).op # "arrive", Head(st).op # "clean", rd \subseteq Peers
    PROVE  Shaped(Tail(st), rm, rd)
<1> DEFINE q == Tail(st)
<1>1. /\ st \in Seq(Calls) /\ Len(st) \in Nat \ {0} /\ Head(st) = st[1]
      /\ q \in Seq(Calls) /\ Len(q) = Len(st) - 1
      /\ \A i \in 1 .. Len(q) : q[i] = st[i + 1]
      /\ \A i \in 2 .. Len(st) : st[i] = q[i - 1]
  BY Popped DEF Shaped
<1> HIDE DEF q
<1>2. Arriving(q) = Arriving(st)
  <2>1. Arriving(q) \subseteq Arriving(st)
    BY <1>1 DEF Arriving
  <2>2. Arriving(st) \subseteq Arriving(q)
    <3> SUFFICES ASSUME NEW i \in 1 .. Len(st), st[i].op = "arrive"
                 PROVE  st[i].peer \in Arriving(q)
      BY DEF Arriving
    <3>1. i \in 2 .. Len(st) /\ i - 1 \in 1 .. Len(q) /\ st[i] = q[i - 1]
      BY <1>1
    <3> QED
      BY <3>1 DEF Arriving
  <2> QED
    BY <2>1, <2>2
<1>3. PICK n \in Nat : Form(st, n) /\ Bounded(st, n, rd)
  BY DEF Shaped
<1>4. Cardinality(rd) \in Nat /\ Cardinality(Peers) \in Nat
      /\ Cardinality(rd) <= Cardinality(Peers)
  BY FinitePeers, FS_Subset, FS_CardinalityType
<1>5. CASE n = 0
  <2>1. Form(q, 0)
    BY <1>1, <1>3, <1>5 DEF Form
  <2>2. Bounded(q, 0, rd)
    BY <1>1, <1>4 DEF Bounded
  <2>3. rm \ rd = Arriving(q) /\ 0 \in Nat
    BY <1>2 DEF Shaped
  <2> QED
    BY <1>1, <2>1, <2>2, <2>3 DEF Shaped, q
<1>6. CASE n > 0
  <2>1. n - 1 \in Nat /\ Form(q, n - 1)
    BY <1>1, <1>3, <1>6 DEF Form
  <2>2. Bounded(q, n - 1, rd)
    BY <1>1, <1>3, <1>4, <1>6 DEF Bounded
  <2> QED
    BY <1>1, <1>2, <2>1, <2>2 DEF Shaped, q
<1> QED
  BY <1>5, <1>6

\* A close begins a broadcast and takes one ready peer away.
LEMMA CloseShaped ==
    ASSUME NEW st, NEW rm, NEW rd, Shaped(st, rm, rd),
           \A i \in 1 .. Len(st) : st[i].op # "clean",
           rd \subseteq rm, rd \subseteq Peers, NEW a \in rd
    PROVE  Shaped(<<ToAll>> \o st, rm \ {a}, rd \ {a})
<1> DEFINE q == <<ToAll>> \o st
<1>1. ToAll \in Calls /\ ToAll.op = "broadcast"
  BY CallType DEF ToAll, ToAllBut, Call
<1>2. /\ st \in Seq(Calls) /\ Len(st) \in Nat
      /\ q \in Seq(Calls) /\ Len(q) = Len(st) + 1 /\ q[1] = ToAll
      /\ \A i \in 1 .. Len(st) : q[i + 1] = st[i]
      /\ \A i \in 2 .. Len(q) : q[i] = st[i - 1]
  BY <1>1, Pushed, LenProperties DEF Shaped
<1> HIDE DEF q
<1>3. Arriving(q) = Arriving(st)
  <2>1. Arriving(st) \subseteq Arriving(q)
    <3> SUFFICES ASSUME NEW i \in 1 .. Len(st), st[i].op = "arrive"
                 PROVE  st[i].peer \in Arriving(q)
      BY DEF Arriving
    <3>1. i + 1 \in 1 .. Len(q) /\ q[i + 1] = st[i]
      BY <1>2
    <3> QED
      BY <3>1 DEF Arriving
  <2>2. Arriving(q) \subseteq Arriving(st)
    <3> SUFFICES ASSUME NEW i \in 1 .. Len(q), q[i].op = "arrive"
                 PROVE  q[i].peer \in Arriving(st)
      BY DEF Arriving
    <3>1. i - 1 \in 1 .. Len(st) /\ q[i] = st[i - 1]
      BY <1>1, <1>2
    <3> QED
      BY <3>1 DEF Arriving
  <2> QED
    BY <2>1, <2>2
<1>4. PICK n \in Nat : Form(st, n) /\ Bounded(st, n, rd)
  BY DEF Shaped
<1>5. Form(q, n + 1)
  <2>1. n + 1 \in 0 .. Len(q) /\ Len(q) <= (n + 1) + 2
    BY <1>2, <1>4 DEF Form
  <2>2. ASSUME NEW i \in 1 .. Len(q)
        PROVE  /\ i <= n + 1 <=> q[i].op = "broadcast"
               /\ i > n + 1 => (i = Len(q) <=> q[i].op \in {"arrive", "maintain"})
               /\ q[i].op = "arrive" => i = n + 2
               /\ q[i].op # "clean"
    <3>1. CASE i = 1
      BY <1>1, <1>2, <1>4, <3>1
    <3>2. CASE i # 1
      <4> DEFINE j == i - 1
      <4>1. j \in 1 .. Len(st) /\ q[i] = st[j] /\ i = j + 1
        BY <1>2, <3>2
      <4> HIDE DEF j
      <4> QED
        BY <1>2, <1>4, <4>1 DEF Form
    <3> QED
      BY <3>1, <3>2
  <2> QED
    BY <1>4, <2>1, <2>2 DEF Form
<1>6. Cardinality(rd) \in Nat /\ Cardinality(Peers) \in Nat
      /\ Cardinality(rd \ {a}) = Cardinality(rd) - 1
  BY FinitePeers, FS_Subset, FS_CardinalityType, FS_RemoveElement
<1>7. Bounded(q, n + 1, rd \ {a})
  BY <1>2, <1>4, <1>6 DEF Bounded
<1>8. (rm \ {a}) \ (rd \ {a}) = Arriving(q)
  BY <1>3 DEF Shaped
<1> QED
  BY <1>2, <1>5, <1>7, <1>8 DEF Shaped, q

\* A call that begins a stack.
LEMMA FirstShaped ==
    ASSUME NEW rd \in SUBSET Peers, NEW a \in Peers \cup {NoPeer}
    PROVE  Shaped(<<ToAllBut(a)>>, rd, rd)
<1> DEFINE c == ToAllBut(a)
           q == <<c>>
<1>1. c \in Calls /\ c.op = "broadcast"
  BY CallType DEF ToAllBut, Call
<1> HIDE DEF c
<1>2. q \in Seq(Calls) /\ Len(q) = 1 /\ q[1] = c
  BY <1>1
<1> HIDE DEF q
<1>3. Form(q, 1)
  BY <1>1, <1>2 DEF Form
<1>4. Arriving(q) = {}
  BY <1>1, <1>2 DEF Arriving
<1>5. Cardinality(rd) \in Nat /\ Cardinality(Peers) \in Nat
      /\ Cardinality(rd) <= Cardinality(Peers)
  BY FinitePeers, FS_Subset, FS_CardinalityType
<1>6. Bounded(q, 1, rd)
  BY <1>2, <1>5 DEF Bounded
<1> QED
  BY <1>2, <1>3, <1>4, <1>6 DEF Shaped, c, q

-----------------------------------------------------------------------------
(* Promises.                                                               *)

LEMMA TurnPromised ==
    ASSUME NEW st \in Seq(Calls), st # <<>>, NEW c \in Calls, NEW b,
           Promised(st, b), Promises(Head(st), b) => Promises(c, b)
    PROVE  Promised(<<c>> \o Tail(st), b)
<1>1. PICK i \in 1 .. Len(st) : Promises(st[i], b)
  BY DEF Promised
<1>2. /\ Len(<<c>> \o Tail(st)) = Len(st) /\ Len(st) \in Nat \ {0}
      /\ Head(st) = st[1] /\ (<<c>> \o Tail(st))[1] = c
      /\ \A j \in 2 .. Len(st) : (<<c>> \o Tail(st))[j] = st[j]
  BY Popped, Pushed
<1> QED
  BY <1>1, <1>2 DEF Promised

LEMMA EndPromised ==
    ASSUME NEW st \in Seq(Calls), st # <<>>, NEW b,
           Promised(st, b), ~Promises(Head(st), b)
    PROVE  Promised(Tail(st), b)
<1>1. PICK i \in 1 .. Len(st) : Promises(st[i], b)
  BY DEF Promised
<1>2. /\ Len(st) \in Nat \ {0} /\ Head(st) = st[1] /\ Len(Tail(st)) = Len(st) - 1
      /\ \A j \in 2 .. Len(st) : st[j] = Tail(st)[j - 1]
  BY Popped
<1>3. i \in 2 .. Len(st) /\ i - 1 \in 1 .. Len(Tail(st))
  BY <1>1, <1>2
<1> QED
  BY <1>1, <1>2, <1>3 DEF Promised

\* A broadcast to all that begins promises everyone an update.
LEMMA AllPromised ==
    ASSUME NEW st \in Seq(Calls), NEW b \in Peers
    PROVE  Promised(<<ToAll>> \o st, b)
<1>1. ToAll \in Calls /\ Promises(ToAll, b)
  BY CallType, Sentinel DEF ToAll, ToAllBut, Call, Promises
<1>2. /\ (<<ToAll>> \o st)[1] = ToAll /\ Len(<<ToAll>> \o st) = Len(st) + 1
      /\ Len(st) \in Nat
  BY <1>1, Pushed, LenProperties
<1> QED
  BY <1>1, <1>2 DEF Promised

-----------------------------------------------------------------------------
(* Closes and updates, whatever goes on after them.                        *)

\* What the calls of st have to satisfy to go on after a close or an update.
Continues(st) == Shaped(st, room, ready) /\ \A i \in 1 .. Len(st) : st[i].op # "clean"

LEMMA CloseKeeps ==
    ASSUME ready \subseteq room, room \subseteq Peers, NEW a \in ready, NEW s, NEW rest,
           Stated(s, ready), Continues(rest), CloseThen(a, s, rest)
    PROVE  IInv'
<1>1. /\ room' = room \ {a} /\ ready' = ready \ {a} /\ behind' = ready'
      /\ sync' = [s EXCEPT ![a] = NoState] /\ stack' = <<ToAll>> \o rest
  BY DEF CloseThen, RoomWithout, ReadyWithout, Without
<1>2. Stated(sync', ready')
  BY <1>1 DEF Stated
<1>3. Shaped(stack', room', ready')
  BY <1>1, CloseShaped DEF Continues
<1>4. Cleaning(stack', sync')
  <2>1. ToAll \in Calls /\ ToAll.op = "broadcast"
    BY CallType DEF ToAll, ToAllBut, Call
  <2>2. /\ Len(rest) \in Nat /\ Len(stack') = Len(rest) + 1 /\ stack'[1] = ToAll
        /\ \A i \in 2 .. Len(rest) + 1 : stack'[i] = rest[i - 1]
    BY <1>1, <2>1, Pushed, LenProperties DEF Continues, Shaped
  <2>3. \A i \in 2 .. Len(rest) + 1 : i - 1 \in 1 .. Len(rest)
    BY <2>2
  <2>4. \A i \in 1 .. Len(stack') : i = 1 \/ i \in 2 .. Len(rest) + 1
    BY <2>2
  <2> QED
    BY <2>1, <2>2, <2>3, <2>4 DEF Cleaning, Continues
<1>5. \A b \in behind' : Promised(stack', b)
  BY <1>1, AllPromised DEF Continues, Shaped
<1> QED
  BY <1>1, <1>2, <1>3, <1>4, <1>5 DEF IInv

\* flushRouteUpdate of a peer that may be behind only if its flags say so.
LEMMA FlushServes ==
    ASSUME NEW a \in Peers, NEW s \in SyncStates, NEW o \in Outcomes(a, s)
    PROVE  /\ o.next \in SyncStates /\ o.next # NoState
           /\ o.current \in BOOLEAN /\ o.throws \in BOOLEAN
           /\ o.current => ~o.throws
           /\ ~s.inFlight /\ s.dirty => o.current \/ o.throws
           /\ ~o.current /\ ~o.throws => o.next = s
           /\ ~o.current /\ ~o.throws /\ (s.dirty \/ s.full) => Served(o.next)
BY NoStateApart DEF Outcomes, Flush, Waits, Served

LEMMA UpdateKeeps ==
    ASSUME ready \subseteq room, room \subseteq Peers, behind \subseteq ready,
           Stated(sync, ready), NEW a \in ready, NEW s \in SyncStates, NEW rest,
           Continues(rest), UpdateThen(a, s, rest),
           a \in behind => s.dirty \/ s.full,
           \A b \in behind \ {a} : Served(sync[b]) \/ Promised(rest, b)
    PROVE  IInv'
<1>1. PICK o \in Outcomes(a, s) :
          IF o.throws THEN CloseThen(a, [sync EXCEPT ![a] = o.next], rest)
          ELSE /\ sync' = [sync EXCEPT ![a] = o.next]
               /\ behind' = IF o.current THEN behind \ {a} ELSE behind
               /\ stack' = rest
               /\ UNCHANGED <<room, ready>>
  BY DEF UpdateThen
<1>2. /\ o.next \in SyncStates
      /\ ~o.current /\ ~o.throws /\ (s.dirty \/ s.full) => Served(o.next)
  BY FlushServes
<1>3. Stated([sync EXCEPT ![a] = o.next], ready)
  BY <1>2 DEF Stated
<1>4. CASE o.throws
  BY <1>1, <1>3, <1>4, CloseKeeps
<1>5. CASE ~o.throws
  <2>1. /\ sync' = [sync EXCEPT ![a] = o.next] /\ stack' = rest
        /\ room' = room /\ ready' = ready
        /\ behind' = IF o.current THEN behind \ {a} ELSE behind
    BY <1>1, <1>5
  <2>2. ASSUME NEW b \in behind' PROVE Served(sync'[b]) \/ Promised(stack', b)
    <3>1. CASE b = a
      BY <1>2, <1>5, <2>1, <2>2, <3>1 DEF Stated
    <3>2. CASE b # a
      <4>1. b \in behind \ {a} /\ sync'[b] = sync[b]
        BY <2>1, <2>2, <3>2 DEF Stated
      <4> QED
        BY <2>1, <4>1
    <3> QED
      BY <3>1, <3>2
  <2>3. Cleaning(stack', sync')
    BY <2>1 DEF Cleaning, Continues
  <2> QED
    BY <1>3, <2>1, <2>2, <2>3 DEF IInv, Continues
<1> QED
  BY <1>4, <1>5

-----------------------------------------------------------------------------
(* The steps of the call on top of the stack.                              *)

\* The call on top, and the shape of what it leaves.
LEMMA OnTop ==
    ASSUME IInv, stack # <<>>
    PROVE  /\ stack \in Seq(Calls) /\ Top \in Calls /\ Top = stack[1] /\ Rest \in Seq(Calls)
           /\ Len(stack) \in Nat \ {0} /\ Len(Rest) = Len(stack) - 1
           /\ \A i \in 2 .. Len(stack) : stack[i] = Rest[i - 1]
           /\ \A i \in 1 .. Len(Rest) : Rest[i] = stack[i + 1] /\ Rest[i].op # "clean"
<1>1. stack \in Seq(Calls)
  BY DEF IInv, Shaped
<1>2. PICK n \in Nat : Form(stack, n)
  BY DEF IInv, Shaped
<1>3. /\ Len(stack) \in Nat \ {0} /\ Top \in Calls /\ Top = stack[1]
      /\ Rest \in Seq(Calls) /\ Len(Rest) = Len(stack) - 1
      /\ \A i \in 1 .. Len(Rest) : Rest[i] = stack[i + 1]
      /\ \A i \in 2 .. Len(stack) : stack[i] = Rest[i - 1]
  BY <1>1, Popped DEF Top, Rest
<1>4. ASSUME NEW i \in 1 .. Len(Rest) PROVE Rest[i].op # "clean"
  <2>1. i + 1 \in 1 .. Len(stack) /\ i + 1 # 1 /\ Rest[i] = stack[i + 1]
    BY <1>3
  <2> QED
    BY <1>2, <2>1 DEF Form
<1> QED
  BY <1>1, <1>3, <1>4

LEMMA TurnContinues ==
    ASSUME IInv, stack # <<>>, Top.op # "clean", NEW c \in Calls,
           c.op = Top.op, c.peer = Top.peer
    PROVE  Continues(<<c>> \o Rest)
<1>1. Shaped(<<c>> \o Rest, room, ready)
  BY TurnShaped DEF IInv, Top, Rest
<1>2. /\ Rest \in Seq(Calls) /\ Len(Rest) \in Nat
      /\ \A i \in 1 .. Len(Rest) : Rest[i].op # "clean"
  BY OnTop, LenProperties
<1>3. /\ Len(<<c>> \o Rest) = Len(Rest) + 1 /\ (<<c>> \o Rest)[1] = c
      /\ \A i \in 2 .. Len(Rest) + 1 : (<<c>> \o Rest)[i] = Rest[i - 1]
  BY <1>2, Pushed
<1>4. ASSUME NEW i \in 1 .. Len(Rest) + 1 PROVE (<<c>> \o Rest)[i].op # "clean"
  <2>1. CASE i = 1
    BY <1>3, <2>1
  <2>2. CASE i # 1
    <3>1. i \in 2 .. Len(Rest) + 1 /\ i - 1 \in 1 .. Len(Rest)
      BY <1>2, <2>2
    <3> QED
      BY <1>2, <1>3, <3>1
  <2> QED
    BY <2>1, <2>2
<1> QED
  BY <1>1, <1>3, <1>4 DEF Continues

LEMMA EndContinues ==
    ASSUME IInv, stack # <<>>, Top.op \notin {"clean", "arrive"}
    PROVE  Continues(Rest)
<1>1. Shaped(Rest, room, ready)
  BY EndShaped DEF IInv, Top, Rest
<1> QED
  BY <1>1, OnTop DEF Continues

\* A step that changes nothing but the stack.
LEMMA StackKeeps ==
    ASSUME IInv, UNCHANGED <<room, ready, sync, behind>>, Continues(stack'),
           \A b \in behind : Served(sync[b]) \/ Promised(stack', b)
    PROVE  IInv'
<1>1. Shaped(stack', room', ready') /\ Cleaning(stack', sync')
  BY DEF Continues, Cleaning
<1> QED
  BY <1>1 DEF IInv

LEMMA BroadcastKeeps ==
    ASSUME IInv, BroadcastStep
    PROVE  IInv'
<1>1. /\ stack # <<>> /\ Top.op = "broadcast" /\ stack \in Seq(Calls)
      /\ Top \in Calls /\ Top = Head(stack) /\ Rest = Tail(stack)
  BY OnTop DEF BroadcastStep, Doing, Top, Rest
<1>2. ASSUME NEW a \in room \ Top.done,
             LET loop == <<[Top EXCEPT !.done = Visited(@, a)]>> \o Rest
             IN  IF a = Top.peer \/ a \notin ready
                 THEN stack' = loop /\ UNCHANGED <<room, ready, sync, behind>>
                 ELSE UpdateThen(a, Dirty(StateOf(a)), loop)
      PROVE  IInv'
  <2> DEFINE c == [Top EXCEPT !.done = Visited(@, a)]
             loop == <<c>> \o Rest
  <2>1. a \in Peers /\ room \subseteq Peers /\ behind \subseteq ready
    BY DEF IInv
  <2>2. c \in Calls /\ c.op = Top.op /\ c.peer = Top.peer /\ c.done = Top.done \cup {a}
    BY <1>1, <2>1 DEF Calls, Visited
  <2>3. IF a = Top.peer \/ a \notin ready
        THEN stack' = loop /\ UNCHANGED <<room, ready, sync, behind>>
        ELSE UpdateThen(a, Dirty(StateOf(a)), loop)
    BY <1>2
  <2> HIDE DEF c
  <2>4. Continues(loop)
    BY <1>1, <2>2, TurnContinues
  <2>5. ASSUME NEW b \in behind, b # a \/ a = Top.peer \/ a \notin ready
        PROVE  Served(sync[b]) \/ Promised(loop, b)
    <3>1. Promises(Top, b) => Promises(c, b)
      BY <1>1, <2>1, <2>2, <2>5 DEF Promises
    <3>2. Promised(stack, b) => Promised(loop, b)
      BY <1>1, <2>2, <3>1, TurnPromised
    <3> QED
      BY <3>2 DEF IInv
  <2> HIDE DEF loop
  <2>6. CASE a = Top.peer \/ a \notin ready
    BY <2>3, <2>4, <2>5, <2>6, StackKeeps
  <2>7. CASE ~(a = Top.peer \/ a \notin ready)
    <3>1. Dirty(StateOf(a)) \in SyncStates /\ Dirty(StateOf(a)).dirty
      BY <2>1 DEF IInv, Stated, StateOf, Dirty, Idle, SyncStates
    <3>2. UpdateThen(a, Dirty(StateOf(a)), loop)
      BY <2>3, <2>7
    <3> QED
      BY <2>4, <2>5, <2>7, <3>1, <3>2, UpdateKeeps DEF IInv
  <2> QED
    BY <2>6, <2>7
<1>3. ASSUME room \subseteq Top.done, stack' = Rest, UNCHANGED <<room, ready, sync, behind>>
      PROVE  IInv'
  <2>1. Continues(stack')
    BY <1>1, <1>3, EndContinues
  <2>2. ASSUME NEW b \in behind PROVE Served(sync[b]) \/ Promised(stack', b)
    <3>1. ~Promises(Top, b)
      BY <1>1, <1>3 DEF Promises, IInv
    <3> QED
      BY <1>1, <1>3, <3>1, EndPromised DEF IInv
  <2> QED
    BY <1>3, <2>1, <2>2, StackKeeps
<1> QED
  BY <1>2, <1>3 DEF BroadcastStep

LEMMA ArriveKeeps ==
    ASSUME IInv, ArriveStep
    PROVE  IInv'
<1>1. /\ stack # <<>> /\ Top.op = "arrive" /\ Top = stack[1]
      /\ Len(stack) \in Nat \ {0} /\ Len(Rest) = Len(stack) - 1 /\ Rest \in Seq(Calls)
  BY OnTop DEF ArriveStep, Doing
<1>2. PICK n \in Nat : Form(stack, n)
  BY DEF IInv, Shaped
<1>3. Len(stack) = 1
  BY <1>1, <1>2 DEF Form
<1>4. Rest = <<>>
  BY <1>1, <1>3, EmptySeq
<1>5. room \ ready = {Top.peer}
  BY <1>1, <1>3 DEF IInv, Shaped, Arriving
<1>6. /\ ready' = room /\ room' = room /\ behind' = ready'
      /\ sync' = [sync EXCEPT ![Top.peer] = NoState] /\ Top.peer \in Peers
      /\ room \subseteq Peers
  BY <1>5 DEF IInv, ArriveStep, Without
<1>7. ToAll \in Calls /\ ToAll.op = "broadcast"
  BY CallType DEF ToAll, ToAllBut, Call
<1>8. stack' = <<ToAll>> \o Rest /\ stack' = <<ToAll>>
  <2>1. <<ToAll>> \in Seq(Calls)
    BY <1>7
  <2> QED
    BY <1>4, <2>1, ConcatEmptySeq DEF ArriveStep
<1>9. Shaped(stack', room', ready')
  BY <1>6, <1>8, FirstShaped DEF ToAll
<1>10. Cleaning(stack', sync')
  <2>1. Len(stack') = 1 /\ stack'[1] = ToAll
    <3>1. Len(<<ToAll>>) = 1 /\ <<ToAll>>[1] = ToAll
      OBVIOUS
    <3>2. stack' = <<ToAll>>
      BY <1>8
    <3> HIDE <1>8
    <3> QED
      BY <3>1, <3>2, Zenon
  <2> QED
    BY <1>7, <2>1 DEF Cleaning
<1>11. Stated(sync', ready')
  BY <1>5, <1>6 DEF IInv, Stated
<1>12. \A b \in behind' : Promised(stack', b)
  BY <1>1, <1>6, <1>8, AllPromised
<1> QED
  BY <1>6, <1>9, <1>10, <1>11, <1>12 DEF IInv

LEMMA CleanKeeps ==
    ASSUME IInv, CleanStep
    PROVE  IInv'
<1>1. /\ stack # <<>> /\ Top.op = "clean" /\ stack \in Seq(Calls) /\ Top \in Calls
      /\ Top = stack[1] /\ Top = Head(stack) /\ Rest = Tail(stack) /\ Rest \in Seq(Calls)
      /\ Len(stack) \in Nat \ {0} /\ Len(Rest) = Len(stack) - 1
      /\ \A i \in 1 .. Len(Rest) : Rest[i].op # "clean"
  BY OnTop DEF CleanStep, Doing, Top, Rest
\* What the call on top becomes is the only one that may still clean.
<1>2. ASSUME NEW c \in Calls, NEW sy, c.op # "clean" \/ \A b \in c.todo : sy[b] # NoState
      PROVE  Cleaning(<<c>> \o Rest, sy)
  <2>1. /\ Len(<<c>> \o Rest) = Len(Rest) + 1 /\ (<<c>> \o Rest)[1] = c
        /\ \A i \in 2 .. Len(Rest) + 1 : (<<c>> \o Rest)[i] = Rest[i - 1]
    BY <1>1, Pushed
  <2>2. Len(Rest) \in Nat
    BY <1>1
  <2> SUFFICES ASSUME NEW i \in 1 .. Len(Rest) + 1, (<<c>> \o Rest)[i].op = "clean"
               PROVE  \A b \in (<<c>> \o Rest)[i].todo : sy[b] # NoState
    BY <2>1 DEF Cleaning
  <2>3. i = 1
    <3> SUFFICES ASSUME i # 1 PROVE FALSE
      OBVIOUS
    <3>1. i \in 2 .. Len(Rest) + 1 /\ i - 1 \in 1 .. Len(Rest)
      BY <2>2
    <3> QED
      BY <1>1, <2>1, <3>1
  <2> QED
    BY <1>2, <2>1, <2>3
<1>3. ASSUME NEW a \in Top.todo, NEW o \in Outcomes(a, Retried(sync[a])),
             sync' = [sync EXCEPT ![a] = o.next],
             behind' = IF o.current THEN behind \ {a} ELSE behind \cup {a},
             stack' = <<[Top EXCEPT !.todo = @ \ {a},
                                    !.done = IF o.throws THEN @ \cup {a} ELSE @]>> \o Rest,
             UNCHANGED <<room, ready>>
      PROVE  IInv'
  <2> DEFINE c == [Top EXCEPT !.todo = @ \ {a},
                              !.done = IF o.throws THEN @ \cup {a} ELSE @]
  <2>1. a \in Peers /\ sync[a] \in SyncStates /\ a \in ready
        /\ \A b \in Top.todo : b \in Peers /\ sync[b] # NoState
    <3>1. 1 \in 1 .. Len(stack)
      BY <1>1
    <3>2. \A b \in Top.todo : b \in Peers /\ sync[b] # NoState
      BY <1>1, <3>1 DEF IInv, Cleaning, Calls
    <3> QED
      BY <3>2 DEF IInv, Stated
  <2>2. /\ Retried(sync[a]) \in SyncStates /\ Retried(sync[a]).dirty
        /\ ~Retried(sync[a]).inFlight
    BY <2>1 DEF Retried, SyncStates
  <2>3. /\ o.next \in SyncStates /\ o.next # NoState
        /\ o.throws \in BOOLEAN /\ o.current \in BOOLEAN
        /\ ~o.current => o.throws
    BY <2>1, <2>2, FlushServes
  <2>4. /\ c \in Calls /\ c.op = "clean" /\ c.peer = Top.peer
        /\ c.todo = Top.todo \ {a}
        /\ c.done = IF o.throws THEN Top.done \cup {a} ELSE Top.done
    BY <1>1, <2>1, <2>3 DEF Calls
  <2>5. stack' = <<c>> \o Rest
    BY <1>3
  <2> HIDE DEF c
  <2>6. Shaped(stack', room', ready')
    BY <1>1, <1>3, <2>4, <2>5, TurnShaped DEF IInv
  <2>7. Stated(sync', ready')
    BY <1>3, <2>1, <2>3 DEF IInv, Stated
  <2>8. Cleaning(stack', sync')
    <3>1. \A b \in c.todo : sync'[b] # NoState
      BY <1>3, <2>1, <2>3, <2>4 DEF IInv, Stated
    <3> QED
      BY <1>2, <2>4, <2>5, <3>1
  <2>9. ASSUME NEW b \in behind' PROVE Served(sync'[b]) \/ Promised(stack', b)
    <3>1. CASE b = a
      <4>1. o.throws /\ Promises(c, a)
        BY <1>3, <2>3, <2>4, <2>9, <3>1 DEF Promises
      <4>2. (<<c>> \o Rest)[1] = c /\ Len(<<c>> \o Rest) = Len(Rest) + 1
            /\ 1 \in 1 .. Len(Rest) + 1
        BY <1>1, <2>4, Pushed
      <4> QED
        BY <2>5, <3>1, <4>1, <4>2 DEF Promised
    <3>2. CASE b # a
      <4>1. b \in behind /\ b \in Peers
        BY <1>3, <2>9, <3>2 DEF IInv
      <4>2. sync'[b] = sync[b]
        BY <1>3, <3>2, <4>1 DEF IInv, Stated
      <4>3. Promises(Top, b) => Promises(c, b)
        BY <1>1, <2>4 DEF Promises
      <4>4. Promised(stack, b) => Promised(stack', b)
        BY <1>1, <2>4, <2>5, <4>3, TurnPromised
      <4> QED
        BY <4>1, <4>2, <4>4 DEF IInv
    <3> QED
      BY <3>1, <3>2
  <2>10. behind' \subseteq ready' /\ ready' \subseteq room' /\ room' \subseteq Peers
    BY <1>3, <2>1 DEF IInv
  <2> QED
    BY <2>6, <2>7, <2>8, <2>9, <2>10 DEF IInv
<1>4. ASSUME stack' = <<Call("close", NoPeer, {}, ToClose(Top.done))>> \o Rest,
             UNCHANGED <<room, ready, sync, behind>>
      PROVE  IInv'
  <2> DEFINE c == Call("close", NoPeer, {}, ToClose(Top.done))
  <2>1. c \in Calls /\ c.op = "close" /\ c.todo = Top.done
    BY <1>1, CallType DEF Call, ToClose, Calls
  <2>2. stack' = <<c>> \o Rest
    BY <1>4
  <2> HIDE DEF c
  <2>3. Shaped(stack', room', ready')
    BY <1>1, <1>4, <2>1, <2>2, TurnShaped DEF IInv
  <2>4. Cleaning(stack', sync')
    BY <1>2, <2>1, <2>2
  <2>5. ASSUME NEW b \in behind, Promised(stack, b) PROVE Promised(stack', b)
    <3>1. Promises(Top, b) => Promises(c, b)
      BY <1>1, <2>1 DEF Promises
    <3> QED
      BY <1>1, <2>1, <2>2, <2>5, <3>1, TurnPromised
  <2> QED
    BY <1>4, <2>3, <2>4, <2>5 DEF IInv
<1> QED
  BY <1>3, <1>4 DEF CleanStep

LEMMA CloseStepKeeps ==
    ASSUME IInv, CloseStep
    PROVE  IInv'
<1>1. /\ stack # <<>> /\ Top.op = "close" /\ stack \in Seq(Calls) /\ Top \in Calls
      /\ Top = stack[1] /\ Top = Head(stack) /\ Rest = Tail(stack)
      /\ Len(stack) \in Nat \ {0}
  BY OnTop DEF CloseStep, Doing, Top, Rest
<1>2. room = ready
  <2>1. PICK n \in Nat : Form(stack, n)
    BY DEF IInv, Shaped
  <2>2. n = 0 /\ \A i \in 1 .. Len(stack) : stack[i].op # "arrive"
    BY <1>1, <2>1 DEF Form
  <2> QED
    BY <2>2 DEF IInv, Shaped, Arriving
<1>3. ASSUME NEW a \in Top.todo,
             LET loop == <<[Top EXCEPT !.todo = @ \ {a}]>> \o Rest
             IN  IF a \in room THEN CloseThen(a, sync, loop)
                 ELSE stack' = loop /\ UNCHANGED <<room, ready, sync, behind>>
      PROVE  IInv'
  <2> DEFINE c == [Top EXCEPT !.todo = @ \ {a}]
             loop == <<c>> \o Rest
  <2>1. /\ c \in Calls /\ c.op = Top.op /\ c.peer = Top.peer /\ c.todo = Top.todo \ {a}
    BY <1>1 DEF Calls
  <2>2. IF a \in room THEN CloseThen(a, sync, loop)
        ELSE stack' = loop /\ UNCHANGED <<room, ready, sync, behind>>
    BY <1>3
  <2> HIDE DEF c
  <2>3. Continues(loop)
    BY <1>1, <2>1, TurnContinues
  <2>4. CASE a \in room
    <3>1. CloseThen(a, sync, loop)
      BY <2>2, <2>4
    <3> HIDE DEF loop
    <3> QED
      BY <1>2, <2>3, <2>4, <3>1, CloseKeeps DEF IInv
  <2>5. CASE a \notin room
    <3>1. ASSUME NEW b \in behind PROVE Served(sync[b]) \/ Promised(loop, b)
      <4>1. b # a
        BY <2>5, <3>1 DEF IInv
      <4>2. Promises(Top, b) => Promises(c, b)
        BY <1>1, <2>1, <4>1 DEF Promises
      <4>3. Promised(stack, b) => Promised(loop, b)
        BY <1>1, <2>1, <4>2, TurnPromised
      <4> QED
        BY <3>1, <4>3 DEF IInv
    <3> HIDE DEF loop
    <3> QED
      BY <2>2, <2>3, <2>5, <3>1, StackKeeps
  <2> QED
    BY <2>4, <2>5
<1>4. ASSUME Top.todo = {}, stack' = Rest, UNCHANGED <<room, ready, sync, behind>>
      PROVE  IInv'
  <2>1. Continues(stack')
    BY <1>1, <1>4, EndContinues
  <2>2. ASSUME NEW b \in behind PROVE Served(sync[b]) \/ Promised(stack', b)
    <3>1. ~Promises(Top, b)
      BY <1>1, <1>4 DEF Promises
    <3> QED
      BY <1>1, <1>4, <3>1, EndPromised DEF IInv
  <2> QED
    BY <1>4, <2>1, <2>2, StackKeeps
<1> QED
  BY <1>3, <1>4 DEF CloseStep

LEMMA MaintainKeeps ==
    ASSUME IInv, MaintainStep
    PROVE  IInv'
<1>1. /\ stack # <<>> /\ Top.op = "maintain" /\ stack \in Seq(Calls) /\ Top \in Calls
      /\ Top = Head(stack) /\ Rest = Tail(stack)
  BY OnTop DEF MaintainStep, Doing, Top, Rest
<1>2. \A b : ~Promises(Top, b)
  BY <1>1 DEF Promises
<1>3. ASSUME NEW a \in Top.todo,
             LET loop == <<[Top EXCEPT !.todo = @ \ {a}]>> \o Rest
             IN  IF a \in ready /\ sync[a] # NoState /\ ~StateOf(a).inFlight
                 THEN UpdateThen(a, Dirty(sync[a]), loop)
                 ELSE stack' = loop /\ UNCHANGED <<room, ready, sync, behind>>
      PROVE  IInv'
  <2> DEFINE c == [Top EXCEPT !.todo = @ \ {a}]
             loop == <<c>> \o Rest
  <2>1. c \in Calls /\ c.op = Top.op /\ c.peer = Top.peer
    BY <1>1 DEF Calls
  <2>2. IF a \in ready /\ sync[a] # NoState /\ ~StateOf(a).inFlight
        THEN UpdateThen(a, Dirty(sync[a]), loop)
        ELSE stack' = loop /\ UNCHANGED <<room, ready, sync, behind>>
    BY <1>3
  <2> HIDE DEF c
  <2>3. Continues(loop)
    BY <1>1, <2>1, TurnContinues
  <2>4. ASSUME NEW b \in behind PROVE Served(sync[b]) \/ Promised(loop, b)
    <3>1. Promised(stack, b) => Promised(loop, b)
      BY <1>1, <1>2, <2>1, TurnPromised
    <3> QED
      BY <3>1 DEF IInv
  <2> HIDE DEF loop
  <2>5. CASE a \in ready /\ sync[a] # NoState /\ ~StateOf(a).inFlight
    <3>1. Dirty(sync[a]) \in SyncStates /\ Dirty(sync[a]).dirty
      BY <2>5 DEF IInv, Stated, Dirty, SyncStates
    <3>2. UpdateThen(a, Dirty(sync[a]), loop)
      BY <2>2, <2>5
    <3> QED
      BY <2>3, <2>4, <2>5, <3>1, <3>2, UpdateKeeps DEF IInv
  <2>6. CASE ~(a \in ready /\ sync[a] # NoState /\ ~StateOf(a).inFlight)
    BY <2>2, <2>3, <2>4, <2>6, StackKeeps
  <2> QED
    BY <2>5, <2>6
<1>4. ASSUME stack' = Rest, UNCHANGED <<room, ready, sync, behind>>
      PROVE  IInv'
  <2>1. Continues(stack')
    BY <1>1, <1>4, EndContinues
  <2>2. ASSUME NEW b \in behind PROVE Served(sync[b]) \/ Promised(stack', b)
    BY <1>1, <1>2, <1>4, EndPromised DEF IInv
  <2> QED
    BY <1>4, <2>1, <2>2, StackKeeps
<1> QED
  BY <1>3, <1>4 DEF MaintainStep

-----------------------------------------------------------------------------
(* The events, which begin with an empty stack.                            *)

LEMMA Resting ==
    ASSUME IInv, AtRest
    PROVE  /\ room = ready /\ Continues(<<>>)
           /\ \A a \in behind : Served(sync[a])
<1>1. stack = <<>> /\ Len(<<>>) = 0
  BY DEF AtRest
<1>2. room = ready
  <2>1. Len(stack) = 0
    BY <1>1
  <2>2. Arriving(stack) = {}
    BY <2>1 DEF Arriving
  <2> QED
    BY <2>2 DEF IInv, Shaped
<1>3. Continues(<<>>)
  BY <1>1 DEF IInv, Continues
<1>4. \A a \in behind : ~Promised(stack, a)
  BY <1>1 DEF Promised
<1> QED
  BY <1>2, <1>3, <1>4 DEF IInv

\* An event that leaves one broadcast to do, which passes over a only if a is
\* served.
LEMMA FirstKeeps ==
    ASSUME NEW a \in Peers \cup {NoPeer}, stack' = <<ToAllBut(a)>>,
           room' = ready', ready' \subseteq Peers, behind' \subseteq ready',
           Stated(sync', ready'), a \in behind' => Served(sync'[a])
    PROVE  IInv'
<1> DEFINE c == ToAllBut(a)
<1>1. c \in Calls /\ c.op = "broadcast" /\ c.peer = a /\ c.done = {}
  BY CallType DEF ToAllBut, Call
<1>2. Len(<<c>>) = 1 /\ <<c>>[1] = c
  OBVIOUS
<1>3. stack' = <<c>>
  OBVIOUS
<1>4. Shaped(stack', room', ready')
  BY FirstShaped
<1> HIDE DEF c
<1>5. Len(stack') = 1 /\ stack'[1] = c
  BY <1>2, <1>3, Zenon
<1>6. Cleaning(stack', sync')
  BY <1>1, <1>5 DEF Cleaning
<1>7. ASSUME NEW b \in behind' PROVE Served(sync'[b]) \/ Promised(stack', b)
  <2>1. CASE b = a
    BY <1>7, <2>1
  <2>2. CASE b # a
    BY <1>1, <1>5, <2>2 DEF Promised, Promises
  <2> QED
    BY <2>1, <2>2
<1> QED
  BY <1>4, <1>6, <1>7 DEF IInv

LEMMA JoinKeeps ==
    ASSUME IInv, NEW a \in Peers, Join(a)
    PROVE  IInv'
<1>1. AtRest /\ room = ready /\ room \subseteq Peers
  BY Resting DEF Join, IInv
<1>2. /\ room' = ready' /\ ready' = ready \cup {a} /\ behind' = ready'
      /\ stack' = <<ToAllBut(NoPeer)>>
  BY <1>1 DEF Join, ToAll
<1>3. Stated(sync', ready')
  BY <1>2 DEF Join, IInv, Stated, Without
<1>4. NoPeer \notin behind'
  BY <1>1, <1>2, Sentinel
<1> QED
  BY <1>1, <1>2, <1>3, <1>4, FirstKeeps

LEMMA LeaveKeeps ==
    ASSUME IInv, NEW a \in Peers, Leave(a)
    PROVE  IInv'
BY Resting, CloseKeeps DEF Leave, IInv

LEMMA ReconnectKeeps ==
    ASSUME IInv, NEW a \in Peers, Reconnect(a)
    PROVE  IInv'
<1> DEFINE c == ToAllBut(NoPeer)
           e == Call("arrive", a, {}, {})
           q == <<c, e>>
<1>1. AtRest /\ room = ready /\ room \subseteq Peers /\ a \in ready
  BY Resting DEF Reconnect, IInv
<1>2. /\ c \in Calls /\ c.op = "broadcast" /\ c.peer = NoPeer /\ c.done = {}
      /\ e \in Calls /\ e.op = "arrive" /\ e.peer = a
  BY CallType DEF ToAllBut, Call
<1>3. stack' = q /\ room' = room /\ ready' = ready \ {a} /\ behind' = ready'
  BY <1>1 DEF Reconnect, ToAll
<1> HIDE DEF c, e
<1>4. q \in Seq(Calls) /\ Len(q) = 2 /\ q[1] = c /\ q[2] = e
  BY <1>2
<1> HIDE DEF q
<1>5. Form(q, 1)
  BY <1>2, <1>4 DEF Form
<1>6. Arriving(q) = {a}
  BY <1>2, <1>4 DEF Arriving
<1>7. Bounded(q, 1, ready \ {a})
  <2>1. Cardinality(ready) \in Nat /\ Cardinality(Peers) \in Nat
        /\ Cardinality(ready) <= Cardinality(Peers)
        /\ Cardinality(ready \ {a}) = Cardinality(ready) - 1
    BY <1>1, FinitePeers, FS_Subset, FS_CardinalityType, FS_RemoveElement
  <2> QED
    BY <1>4, <2>1 DEF Bounded
<1>8. Shaped(stack', room', ready')
  BY <1>1, <1>3, <1>4, <1>5, <1>6, <1>7 DEF Shaped
<1>9. Stated(sync', ready')
  BY <1>3 DEF Reconnect, IInv, Stated, Without
<1>10. Cleaning(stack', sync')
  BY <1>2, <1>3, <1>4 DEF Cleaning
<1>11. ASSUME NEW b \in behind' PROVE Promised(stack', b)
  <2>1. b # NoPeer
    BY <1>1, <1>3, <1>11, Sentinel
  <2> QED
    BY <1>2, <1>3, <1>4, <2>1 DEF Promised, Promises
<1> QED
  BY <1>1, <1>3, <1>8, <1>9, <1>10, <1>11 DEF IInv

\* An update for a that a request of its own brought about.
LEMMA RequestFlush ==
    ASSUME IInv, NEW a \in ready, NEW o \in Outcomes(a, Dirty(StateOf(a)))
    PROVE  /\ Stated([sync EXCEPT ![a] = o.next], ready)
           /\ o.current \/ o.throws \/ Served(o.next)
<1>1. a \in Peers /\ Dirty(StateOf(a)) \in SyncStates /\ Dirty(StateOf(a)).dirty
  BY DEF IInv, Stated, StateOf, Dirty, Idle, SyncStates
<1>2. o.next \in SyncStates /\ (o.current \/ o.throws \/ Served(o.next))
  BY <1>1, FlushServes
<1> QED
  BY <1>2 DEF IInv, Stated

LEMMA RouteRequestKeeps ==
    ASSUME IInv, NEW a \in Peers, RouteRequest(a)
    PROVE  IInv'
<1>1. /\ AtRest /\ a \in ready /\ room = ready /\ ready \subseteq Peers
      /\ Continues(<<>>)
  BY Resting DEF RouteRequest, IInv
<1>2. PICK o \in Outcomes(a, Dirty(StateOf(a))) :
          IF o.throws THEN CloseThen(a, [sync EXCEPT ![a] = o.next], <<>>)
          ELSE /\ sync' = [sync EXCEPT ![a] = o.next]
               /\ behind' = IF o.current THEN ready \ {a} ELSE ready
               /\ stack' = <<ToAllBut(a)>>
               /\ UNCHANGED <<room, ready>>
  BY DEF RouteRequest
<1>3. /\ Stated([sync EXCEPT ![a] = o.next], ready)
      /\ o.current \/ o.throws \/ Served(o.next)
  BY <1>1, RequestFlush
<1>4. CASE o.throws
  BY <1>1, <1>2, <1>3, <1>4, CloseKeeps
<1>5. CASE ~o.throws
  <2>1. /\ sync' = [sync EXCEPT ![a] = o.next] /\ stack' = <<ToAllBut(a)>>
        /\ behind' = IF o.current THEN ready \ {a} ELSE ready
        /\ room' = room /\ ready' = ready
    BY <1>2, <1>5
  <2>2. a \in behind' => Served(sync'[a])
    BY <1>3, <1>5, <2>1 DEF IInv, Stated
  <2> QED
    BY <1>1, <1>3, <2>1, <2>2, FirstKeeps
<1> QED
  BY <1>4, <1>5

LEMMA SessionRequestKeeps ==
    ASSUME IInv, NEW a \in Peers, SessionRequest(a)
    PROVE  IInv'
<1>1. /\ AtRest /\ a \in ready /\ room = ready /\ ready \subseteq Peers
      /\ Continues(<<>>) /\ \A b \in behind : Served(sync[b])
  BY Resting DEF SessionRequest, IInv
<1>2. PICK o \in Outcomes(a, Dirty(StateOf(a))) :
          IF o.throws THEN CloseThen(a, [sync EXCEPT ![a] = o.next], <<>>)
          ELSE /\ sync' = [sync EXCEPT ![a] = o.next]
               /\ behind' = IF o.current THEN behind \ {a} ELSE behind \cup {a}
               /\ UNCHANGED <<room, ready, stack>>
  BY DEF SessionRequest
<1>3. /\ Stated([sync EXCEPT ![a] = o.next], ready)
      /\ o.current \/ o.throws \/ Served(o.next)
  BY <1>1, RequestFlush
<1>4. CASE o.throws
  BY <1>1, <1>2, <1>3, <1>4, CloseKeeps
<1>5. CASE ~o.throws
  <2>1. /\ sync' = [sync EXCEPT ![a] = o.next] /\ stack' = stack /\ stack = <<>>
        /\ behind' = IF o.current THEN behind \ {a} ELSE behind \cup {a}
        /\ room' = room /\ ready' = ready
    BY <1>1, <1>2, <1>5 DEF AtRest
  <2>2. ASSUME NEW b \in behind' PROVE Served(sync'[b])
    BY <1>1, <1>3, <1>5, <2>1, <2>2 DEF IInv, Stated
  <2>3. Cleaning(stack', sync')
    BY <2>1 DEF Cleaning
  <2>4. Stated(sync', ready') /\ behind' \subseteq ready'
    BY <1>1, <1>3, <2>1 DEF IInv
  <2> QED
    BY <2>1, <2>2, <2>3, <2>4 DEF IInv
<1> QED
  BY <1>4, <1>5

LEMMA ResponseKeeps ==
    ASSUME IInv, NEW a \in Peers, Response(a)
    PROVE  IInv'
<1> DEFINE s == [sync[a] EXCEPT !.inFlight = FALSE]
<1>1. /\ a \in ready /\ Continues(<<>>) /\ \A b \in behind : Served(sync[b])
  BY Resting DEF Response
<1>2. /\ s \in SyncStates /\ s.dirty = sync[a].dirty /\ s.full = sync[a].full
      /\ UpdateThen(a, s, <<>>)
  BY DEF Response, IInv, Stated, SyncStates
<1> HIDE DEF s
<1>3. a \in behind => s.dirty \/ s.full
  BY <1>1, <1>2 DEF Served
<1> QED
  BY <1>1, <1>2, <1>3, UpdateKeeps DEF IInv

LEMMA MaintenanceKeeps ==
    ASSUME IInv, NEW overdue \in SUBSET Peers, NEW due \in SUBSET Peers,
           Maintenance(overdue, due)
    PROVE  IInv'
<1> DEFINE c == Call("clean", NoPeer, {}, overdue)
           e == Call("maintain", NoPeer, {}, due)
           q == <<c, e>>
<1>1. /\ room = ready /\ room \subseteq Peers /\ \A b \in behind : Served(sync[b])
      /\ \A b \in overdue : sync[b] # NoState
  BY Resting DEF Maintenance, IInv
<1>2. /\ c \in Calls /\ c.op = "clean" /\ c.todo = overdue
      /\ e \in Calls /\ e.op = "maintain"
  BY CallType DEF Call
<1>3. stack' = q /\ UNCHANGED <<room, ready, sync, behind>>
  BY DEF Maintenance
<1> HIDE DEF c, e
<1>4. q \in Seq(Calls) /\ Len(q) = 2 /\ q[1] = c /\ q[2] = e
  BY <1>2
<1> HIDE DEF q
<1>5. Form(q, 0)
  BY <1>2, <1>4 DEF Form
<1>6. Arriving(q) = {}
  BY <1>2, <1>4 DEF Arriving
<1>7. Bounded(q, 0, ready)
  <2>1. Cardinality(ready) \in Nat /\ Cardinality(Peers) \in Nat
        /\ Cardinality(ready) <= Cardinality(Peers)
    BY <1>1, FinitePeers, FS_Subset, FS_CardinalityType
  <2> QED
    BY <1>4, <2>1 DEF Bounded
<1>8. Shaped(stack', room', ready')
  BY <1>1, <1>3, <1>4, <1>5, <1>6, <1>7 DEF Shaped
<1>9. Cleaning(stack', sync')
  BY <1>1, <1>2, <1>3, <1>4 DEF Cleaning
<1> QED
  BY <1>1, <1>3, <1>8, <1>9 DEF IInv

-----------------------------------------------------------------------------
(* The invariant.                                                          *)

LEMMA InitHolds == Init => IInv
<1> SUFFICES ASSUME Init PROVE IInv
  OBVIOUS
<1>1. stack = <<>> /\ Len(<<>>) = 0 /\ <<>> \in Seq(Calls)
  BY DEF Init
<1>2. Cardinality({}) = 0 /\ Cardinality(Peers) \in Nat
  BY FinitePeers, FS_EmptySet, FS_CardinalityType
<1>3. Form(<<>>, 0) /\ Arriving(<<>>) = {}
  BY <1>1 DEF Form, Arriving
<1>4. Bounded(<<>>, 0, {})
  BY <1>1, <1>2 DEF Bounded
<1>5. Shaped(stack, room, ready)
  BY <1>1, <1>3, <1>4 DEF Init, Shaped
<1>6. Cleaning(stack, sync)
  BY <1>1 DEF Cleaning
<1> QED
  BY <1>5, <1>6 DEF Init, IInv, Stated

LEMMA StepKeeps == IInv /\ [Next]_vars => IInv'
<1> SUFFICES ASSUME IInv, [Next]_vars PROVE IInv'
  OBVIOUS
<1>1. ASSUME NEW a \in Peers,
             \/ Join(a) \/ Reconnect(a) \/ Leave(a) \/ RouteUnanswered(a)
             \/ RouteRequest(a) \/ SessionRequest(a) \/ Response(a)
      PROVE  IInv'
  BY <1>1, JoinKeeps, ReconnectKeeps, LeaveKeeps, RouteRequestKeeps,
     SessionRequestKeeps, ResponseKeeps DEF RouteUnanswered
<1>2. ASSUME NEW overdue \in SUBSET Peers, NEW due \in SUBSET Peers,
             Maintenance(overdue, due)
      PROVE  IInv'
  BY <1>2, MaintenanceKeeps
<1>3. CASE Step
  BY <1>3, BroadcastKeeps, ArriveKeeps, CleanKeeps, CloseStepKeeps, MaintainKeeps DEF Step
<1>4. CASE UNCHANGED vars
  BY <1>4 DEF vars, IInv, Shaped, Stated, Cleaning
<1> QED
  BY <1>1, <1>2, <1>3, <1>4 DEF Next

LEMMA Inductive == Spec => []IInv
BY InitHolds, StepKeeps, PTL DEF Spec

\* Calls nest no deeper than one for each peer and two for the event.
LEMMA DepthBounded ==
    ASSUME IInv
    PROVE  Len(stack) <= Cardinality(Peers) + 2
<1>1. PICK n \in Nat : Form(stack, n) /\ Bounded(stack, n, ready)
  BY DEF IInv, Shaped
<1>2. Cardinality(ready) \in Nat /\ Cardinality(Peers) \in Nat
      /\ Cardinality(ready) <= Cardinality(Peers)
  BY FinitePeers, FS_Subset, FS_CardinalityType DEF IInv
<1>3. Len(stack) \in Nat /\ Len(stack) <= n + 2
  BY <1>1, LenProperties DEF IInv, Shaped, Form
<1>4. CASE Len(stack) = n
  BY <1>1, <1>2, <1>4 DEF Bounded
<1>5. CASE Len(stack) # n
  BY <1>1, <1>2, <1>3, <1>5 DEF Bounded
<1> QED
  BY <1>4, <1>5

-----------------------------------------------------------------------------
\* Whoever fails in whichever loop of broadcastRouteUpdate, cleanExpired and
\* the maintenance callback, once an event is handled each peer that stays and
\* lacks a change has a transaction in flight whose end sends it.
THEOREM NobodyIsForgotten == Spec => []NobodyForgotten
<1>1. IInv => NobodyForgotten
  BY Resting DEF NobodyForgotten, Served
<1> QED
  BY <1>1, Inductive, PTL

\* The nesting of broadcasts and closes is bounded by the number of peers, and
\* once an event is handled the room lists ready connections and EasyTierRpc
\* keeps states of theirs only.
THEOREM StatesStayExact == Spec => []StatesExact
<1>1. IInv => TypeOK
  <2> SUFFICES ASSUME IInv PROVE TypeOK
    OBVIOUS
  <2> QED
    BY DepthBounded DEF TypeOK, IInv, Stated, Shaped
<1>2. IInv => StatesOfPresent
  <2> SUFFICES ASSUME IInv, AtRest
               PROVE  room = ready /\ \A a \in Peers : sync[a] # NoState => a \in ready
    BY DEF StatesOfPresent
  <2> QED
    BY Resting DEF IInv, Stated
<1>3. IInv => StatesExact
  BY <1>1, <1>2 DEF StatesExact
<1> QED
  BY <1>3, Inductive, PTL
=============================================================================

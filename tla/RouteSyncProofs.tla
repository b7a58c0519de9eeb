-------------------------- MODULE RouteSyncProofs --------------------------
(***************************************************************************)
(* Proofs about RouteSync, for any number of peers, restarts and lost or   *)
(* late answers: the send states of EasyTierRpc and the transactions of    *)
(* WasmRpcCore agree, what had to wait has something that sends it, a peer *)
(* that nothing is in flight to was sent everything, and, unless clients   *)
(* restart, an update leaves nothing out that its peer lacks.              *)
(***************************************************************************)
EXTENDS RouteSync, TLAPS, FiniteSetTheorems

\* What holds of the send states and transactions while `here` are present:
\* there is at most one transaction to a peer, it is known to both sides unless
\* it is overdue, and it is a present peer's.
Agree(s, o, here) ==
    /\ s \in [Peers -> SyncStates]
    /\ DOMAIN o = Peers
    /\ \A a \in Peers :
          /\ \A x, y \in o[a] : x = y
          /\ o[a] # {} => s[a].inFlight
          /\ s[a].inFlight /\ ~s[a].overdue => o[a] # {}
          /\ s[a].inFlight => a \in here

\* The peers that wait although nothing is in flight to them.
Stranded(s) == {a \in Peers : (s[a].dirty \/ s[a].full) /\ ~s[a].inFlight}

IInv == present \subseteq Peers /\ Agree(sync, out, present) /\ Stranded(sync) = {}

\* Nothing is under way to or from a peer that is not present.
Silent ==
    /\ DOMAIN down = Peers /\ DOMAIN up = Peers
    /\ \A a \in Peers \ present : down[a] = <<>> /\ up[a] = <<>>

LEMMA InitInv == Init => IInv /\ Silent
BY DEF Init, IInv, Agree, Stranded, Idle, SyncStates, Silent

\* sendRouteUpdate for the peers P of `here`: agreement stays, and whoever is
\* stranded has been sent its update if it is one of P.
LEMMA SendingAgrees ==
    ASSUME NEW P \in SUBSET Peers, NEW here, P \subseteq here, NEW old, NEW v, NEW io,
           Agree(io.sync, io.out, here), Stranded(io.sync) \subseteq P
    PROVE  /\ Agree(Sending(P, old, v, io).sync, Sending(P, old, v, io).out, here)
           /\ Stranded(Sending(P, old, v, io).sync) = {}
<1> DEFINE now == CanSend(P, io.sync)
           kept == [a \in Peers |->
                       IF now # {} /\ io.sync[a].overdue THEN {} ELSE io.out[a]]
           tx(a) == Update(a, io.sync[a].full, old, v, kept, io.down)
           s == Sending(P, old, v, io).sync
           o == Sending(P, old, v, io).out
<1>1. /\ s = [a \in Peers |-> IF a \in now THEN Sent
                              ELSE IF a \in P THEN Marked(io.sync[a])
                              ELSE io.sync[a]]
      /\ o = [a \in Peers |->
                 IF a \in now THEN kept[a] \cup {tx(a)} ELSE kept[a]]
  BY DEF Sending
<1> HIDE DEF s, o, tx
<1>2. \A a \in Peers : /\ io.sync[a] \in SyncStates
                       /\ Marked(io.sync[a]) \in SyncStates
                       /\ Marked(io.sync[a]).inFlight = io.sync[a].inFlight
                       /\ Marked(io.sync[a]).overdue = io.sync[a].overdue
  BY DEF Agree, Marked, SyncStates
<1>3. Sent \in SyncStates /\ Sent.inFlight /\ ~Sent.dirty /\ ~Sent.full
  BY DEF Sent, Idle, SyncStates
<1>4. ASSUME NEW a \in now
      PROVE  /\ a \in P /\ ~io.sync[a].inFlight /\ kept[a] = {}
             /\ s[a] = Sent /\ o[a] = {tx(a)}
  <2>1. a \in P /\ a \in Peers /\ ~io.sync[a].inFlight
    BY DEF CanSend
  <2>2. io.out[a] = {}
    BY <2>1 DEF Agree
  <2> QED
    BY <1>1, <2>1, <2>2
<1>5. ASSUME NEW a \in P, a \notin now
      PROVE  io.sync[a].inFlight /\ s[a] = Marked(io.sync[a]) /\ o[a] = kept[a]
  BY <1>1, <1>5 DEF CanSend
<1>6. ASSUME NEW a \in Peers, a \notin P
      PROVE  s[a] = io.sync[a] /\ o[a] = kept[a] /\ a \notin Stranded(io.sync)
  BY <1>1, <1>6 DEF CanSend
<1>7. s \in [Peers -> SyncStates] /\ DOMAIN o = Peers
  BY <1>1, <1>2, <1>3
<1>8. ASSUME NEW a \in Peers
      PROVE  /\ \A x, y \in o[a] : x = y
             /\ o[a] # {} => s[a].inFlight
             /\ s[a].inFlight /\ ~s[a].overdue => o[a] # {}
             /\ s[a].inFlight => a \in here
  <2>1. CASE a \in now
    BY <1>3, <1>4, <2>1
  <2>2. CASE a \notin now
    <3>1. /\ o[a] = kept[a]
          /\ s[a].inFlight = io.sync[a].inFlight
          /\ s[a].overdue = io.sync[a].overdue
      BY <1>2, <1>5, <1>6, <2>2
    <3>2. kept[a] = io.out[a] \/ (kept[a] = {} /\ io.sync[a].overdue)
      OBVIOUS
    <3> HIDE DEF kept, now
    <3> QED
      BY <3>1, <3>2 DEF Agree
  <2> QED
    BY <2>1, <2>2
<1>9. ASSUME NEW a \in Peers
      PROVE  a \notin Stranded(s)
  <2>1. CASE a \in now
    BY <1>3, <1>4, <2>1 DEF Stranded
  <2>2. CASE a \in P /\ a \notin now
    BY <1>2, <1>5, <2>2 DEF Stranded
  <2>3. CASE a \notin P
    BY <1>6, <2>3 DEF Stranded
  <2> QED
    BY <2>1, <2>2, <2>3
<1>10. Agree(s, o, here)
  BY <1>7, <1>8 DEF Agree
<1>11. Stranded(s) = {}
  BY <1>9 DEF Stranded
<1> QED
  BY <1>10, <1>11 DEF s, o
-----------------------------------------------------------------------------
\* What a step of sendRouteUpdate for P does, from what io had become.
LEMMA SendUpdatesAgrees ==
    ASSUME NEW P \in SUBSET Peers, P \subseteq present', present' \subseteq Peers, NEW io,
           Agree(io.sync, io.out, present'), Stranded(io.sync) \subseteq P,
           SendUpdates(P, io)
    PROVE  IInv'
<1>1. PICK old \in SUBSET MayBeOld(P) : Becomes(Sending(P, old, topology', io))
  BY DEF SendUpdates
<1>2. /\ sync' = Sending(P, old, topology', io).sync
      /\ out' = Sending(P, old, topology', io).out
  BY <1>1 DEF Becomes
<1>3. Agree(sync', out', present') /\ Stranded(sync') = {}
  <2> DEFINE here == present'
             v == topology'
  <2>1. P \subseteq here /\ Agree(io.sync, io.out, here)
    OBVIOUS
  <2> HIDE DEF here, v
  <2>2. /\ Agree(Sending(P, old, v, io).sync, Sending(P, old, v, io).out, here)
        /\ Stranded(Sending(P, old, v, io).sync) = {}
    BY <2>1, SendingAgrees
  <2> QED
    BY <1>2, <2>2 DEF here, v
<1> QED
  BY <1>3 DEF IInv, Agree, Stranded

\* removePeer leaves no trace of a in the send states and transactions.
LEMMA WithoutPeerAgrees ==
    ASSUME IInv, NEW a \in Peers
    PROVE  /\ Agree(WithoutPeer(a).sync, WithoutPeer(a).out, present \ {a})
           /\ Stranded(WithoutPeer(a).sync) = {}
<1> DEFINE s == WithoutPeer(a).sync
           o == WithoutPeer(a).out
<1>1. s = [sync EXCEPT ![a] = Idle] /\ o = [out EXCEPT ![a] = {}]
  BY DEF WithoutPeer
<1>2. Idle \in SyncStates /\ ~Idle.inFlight /\ ~Idle.dirty /\ ~Idle.full
  BY DEF Idle, SyncStates
<1>3. s \in [Peers -> SyncStates] /\ DOMAIN o = Peers
  BY <1>1, <1>2 DEF IInv, Agree
<1>4. s[a] = Idle /\ o[a] = {}
  BY <1>1 DEF IInv, Agree
<1>5. \A b \in Peers \ {a} : s[b] = sync[b] /\ o[b] = out[b]
  BY <1>1 DEF IInv, Agree
<1> HIDE DEF s, o
<1>6. Agree(s, o, present \ {a})
  BY <1>2, <1>3, <1>4, <1>5 DEF IInv, Agree
<1>7. Stranded(s) = {}
  BY <1>2, <1>4, <1>5 DEF IInv, Stranded
<1> QED
  BY <1>6, <1>7 DEF s, o

LEMMA JoinInv ==
    ASSUME IInv, NEW a \in Peers, NEW i, Join(a, i)
    PROVE  IInv'
<1> DEFINE io == [sync |-> sync, out |-> out, down |-> down]
<1>1. present' = present \cup {a} /\ SendUpdates(present', io)
  BY DEF Join
<1>2. Agree(io.sync, io.out, present') /\ Stranded(io.sync) = {}
  BY <1>1 DEF IInv, Agree
<1>3. present' \in SUBSET Peers
  BY <1>1 DEF IInv
<1> HIDE DEF io
<1> QED
  BY <1>1, <1>2, <1>3, SendUpdatesAgrees

LEMMA LeaveInv ==
    ASSUME IInv, NEW a \in Peers, Leave(a)
    PROVE  IInv'
<1>1. present' = present \ {a} /\ SendUpdates(present', WithoutPeer(a))
  BY DEF Leave
<1>2. present' \in SUBSET Peers
  BY <1>1 DEF IInv
<1>3. /\ Agree(WithoutPeer(a).sync, WithoutPeer(a).out, present')
      /\ Stranded(WithoutPeer(a).sync) \subseteq present'
  BY <1>1, WithoutPeerAgrees
<1> QED
  BY <1>1, <1>2, <1>3, SendUpdatesAgrees

LEMMA ReconnectInv ==
    ASSUME IInv, NEW a \in Peers, NEW i, Reconnect(a, i)
    PROVE  IInv'
<1>1. a \in present /\ present' = present
  BY DEF Reconnect
<1>2. PICK old \in SUBSET MayBeOld(present \ {a}) :
          Becomes(Sending(present, old, topology',
                          Sending(present \ {a}, old, topology + 1, WithoutPeer(a))))
  BY DEF Reconnect
<1> DEFINE v == topology'
           w == topology + 1
           io == Sending(present \ {a}, old, w, WithoutPeer(a))
<1>3. Becomes(Sending(present, old, v, io))
  BY <1>2
<1> HIDE DEF v, w
<1>4. present \in SUBSET Peers /\ present \ {a} \in SUBSET Peers
  BY DEF IInv
<1>5. Agree(io.sync, io.out, present \ {a}) /\ Stranded(io.sync) = {}
  BY <1>4, WithoutPeerAgrees, SendingAgrees
<1> HIDE DEF io
<1>6. Agree(io.sync, io.out, present)
  BY <1>5 DEF Agree
<1>7. /\ Agree(Sending(present, old, v, io).sync, Sending(present, old, v, io).out, present)
      /\ Stranded(Sending(present, old, v, io).sync) = {}
  BY <1>4, <1>5, <1>6, SendingAgrees
<1>8. /\ sync' = Sending(present, old, v, io).sync
      /\ out' = Sending(present, old, v, io).out
  BY <1>3 DEF Becomes
<1> QED
  BY <1>1, <1>4, <1>7, <1>8 DEF IInv, Agree, Stranded

LEMMA RequestInv ==
    ASSUME IInv, NEW a \in Peers, a \in present, Request(a)
    PROVE  IInv'
<1> DEFINE io == [sync |-> sync, out |-> out, down |-> down]
<1>1. present' = present
  BY DEF Request, clientVars
<1>2. PICK P \in {present, {a}, {}} : SendUpdates(P, io)
  BY DEF Request
<1>3. Agree(io.sync, io.out, present') /\ Stranded(io.sync) = {}
  BY <1>1 DEF IInv, Agree
<1>4. P \in SUBSET Peers /\ P \subseteq present' /\ present' \subseteq Peers
  BY <1>1, <1>2 DEF IInv
<1> HIDE DEF io
<1> QED
  BY <1>2, <1>3, <1>4, SendUpdatesAgrees

\* The answer ends the transaction, and what had to wait is sent to a alone.
LEMMA ResponseInv ==
    ASSUME IInv, NEW a \in Peers, a \in present, Response(a)
    PROVE  IInv'
<1>1. PICK tx \in Answered(a) :
          /\ UNCHANGED present
          /\ SendUpdates(IF Waiting(a) THEN {a} ELSE {},
                         [sync |-> [sync EXCEPT ![a].inFlight = FALSE],
                          out  |-> [out EXCEPT ![a] = @ \ {tx}],
                          down |-> down])
  BY DEF Response
<1> DEFINE P == IF Waiting(a) THEN {a} ELSE {}
           io == [sync |-> [sync EXCEPT ![a].inFlight = FALSE],
                  out  |-> [out EXCEPT ![a] = @ \ {tx}],
                  down |-> down]
<1>2. tx \in out[a] /\ ~sync[a].overdue
  BY <1>1 DEF Answered, Response
<1>3. /\ io.sync \in [Peers -> SyncStates] /\ DOMAIN io.out = Peers
      /\ ~io.sync[a].inFlight /\ io.out[a] = {}
      /\ \A b \in Peers \ {a} : io.sync[b] = sync[b] /\ io.out[b] = out[b]
  <2>1. sync \in [Peers -> SyncStates] /\ DOMAIN out = Peers /\ out[a] = {tx}
    BY <1>2 DEF IInv, Agree
  <2>2. [sync EXCEPT ![a].inFlight = FALSE] \in [Peers -> SyncStates]
    BY <2>1 DEF SyncStates
  <2>3. ~[sync EXCEPT ![a].inFlight = FALSE][a].inFlight
    BY <2>1 DEF SyncStates
  <2> QED
    BY <2>1, <2>2, <2>3
<1>4. Agree(io.sync, io.out, present')
  <2> HIDE DEF io
  <2> QED
    BY <1>1, <1>3 DEF IInv, Agree
<1>5. Stranded(io.sync) \subseteq P
  <2>1. io.sync[a].dirty = sync[a].dirty /\ io.sync[a].full = sync[a].full
    BY DEF IInv, Agree, SyncStates
  <2> HIDE DEF io
  <2> QED
    BY <1>3, <2>1 DEF IInv, Stranded, Waiting
<1>6. P \in SUBSET Peers /\ P \subseteq present' /\ present' \subseteq Peers
  BY <1>1 DEF IInv
<1>7. SendUpdates(P, io)
  BY <1>1
<1> HIDE DEF P, io
<1> QED
  BY <1>4, <1>5, <1>6, <1>7, SendUpdatesAgrees

\* What is given up is sent again at once.
LEMMA TickInv ==
    ASSUME IInv, NEW S \in SUBSET Peers, Tick(S)
    PROVE  IInv'
<1> DEFINE G == {a \in Peers : GivenUp(a)}
           s == [a \in Peers |-> IF a \in G THEN [Idle EXCEPT !.full = TRUE] ELSE sync[a]]
           o == [a \in Peers |-> IF sync[a].overdue THEN {} ELSE out[a]]
           io == [sync |-> s, out |-> o, down |-> down]
<1>1. /\ S \subseteq present /\ present' = present
      /\ SendUpdates(G \cup S, io)
  BY DEF Tick
<1>2. [Idle EXCEPT !.full = TRUE] \in SyncStates /\ ~[Idle EXCEPT !.full = TRUE].inFlight
  BY DEF Idle, SyncStates
<1>3. s \in [Peers -> SyncStates] /\ DOMAIN o = Peers
  BY <1>2 DEF IInv, Agree
<1>4. ASSUME NEW a \in Peers
      PROVE  /\ \A x, y \in o[a] : x = y
             /\ o[a] # {} => s[a].inFlight
             /\ s[a].inFlight /\ ~s[a].overdue => o[a] # {}
             /\ s[a].inFlight => a \in present
  <2>1. CASE a \in G
    BY <1>2, <2>1 DEF GivenUp
  <2>2. CASE a \notin G
    BY <2>2 DEF GivenUp, IInv, Agree
  <2> QED
    BY <2>1, <2>2
<1>5. Agree(s, o, present)
  BY <1>3, <1>4 DEF Agree
<1>6. Stranded(s) \subseteq G
  BY DEF Stranded, IInv
<1>7. G \subseteq present
  BY DEF GivenUp, IInv, Agree
<1>8. /\ G \cup S \in SUBSET Peers /\ G \cup S \subseteq present' /\ present' \subseteq Peers
      /\ Agree(io.sync, io.out, present') /\ Stranded(io.sync) \subseteq G \cup S
  BY <1>1, <1>5, <1>6, <1>7 DEF IInv
<1> HIDE DEF io, G
<1> QED
  BY <1>1, <1>8, SendUpdatesAgrees

LEMMA ElapseInv ==
    ASSUME IInv, NEW a \in Peers, Elapse(a)
    PROVE  IInv'
<1>1. /\ sync' = [sync EXCEPT ![a].overdue = TRUE]
      /\ out' = out /\ present' = present /\ sync[a].inFlight
  BY DEF Elapse
<1>2. /\ sync' \in [Peers -> SyncStates]
      /\ sync'[a].inFlight /\ sync'[a].overdue
      /\ \A b \in Peers \ {a} : sync'[b] = sync[b]
  BY <1>1 DEF IInv, Agree, SyncStates
<1>3. Agree(sync', out', present')
  BY <1>1, <1>2 DEF IInv, Agree
<1>4. Stranded(sync') = {}
  BY <1>1, <1>2 DEF IInv, Stranded
<1> QED
  BY <1>1, <1>3, <1>4 DEF IInv, Agree, Stranded

-----------------------------------------------------------------------------
\* An update goes to those it is sent to.
LEMMA SendingSilent ==
    ASSUME NEW P \in SUBSET Peers, NEW old, NEW v, NEW io, NEW a \in Peers, a \notin P
    PROVE  Sending(P, old, v, io).down[a] = io.down[a]
BY DEF Sending, CanSend

LEMMA SendUpdatesSilent ==
    ASSUME NEW P \in SUBSET Peers, P \subseteq present', NEW io, DOMAIN up' = Peers,
           \A a \in Peers \ present' : io.down[a] = <<>> /\ up'[a] = <<>>,
           SendUpdates(P, io)
    PROVE  Silent'
<1>1. PICK old \in SUBSET MayBeOld(P) : Becomes(Sending(P, old, topology', io))
  BY DEF SendUpdates
<1> DEFINE v == topology'
<1>2. down' = Sending(P, old, v, io).down
  BY <1>1 DEF Becomes
<1> HIDE DEF v
<1>3. \A a \in Peers \ present' : down'[a] = io.down[a]
  BY <1>2, SendingSilent
<1>4. DOMAIN down' = Peers
  BY <1>2 DEF Sending
<1> QED
  BY <1>3, <1>4 DEF Silent

LEMMA JoinSilent ==
    ASSUME IInv, Silent, NEW a \in Peers, NEW i, Join(a, i)
    PROVE  Silent'
<1> DEFINE io == [sync |-> sync, out |-> out, down |-> down]
<1>1. present' = present \cup {a} /\ up' = up /\ SendUpdates(present', io)
  BY DEF Join
<1>2. /\ present' \in SUBSET Peers /\ DOMAIN up' = Peers
      /\ \A b \in Peers \ present' : io.down[b] = <<>> /\ up'[b] = <<>>
  BY <1>1 DEF IInv, Silent
<1> HIDE DEF io
<1> QED
  BY <1>1, <1>2, SendUpdatesSilent

\* With a's socket goes what was under way on it.
LEMMA LeaveSilent ==
    ASSUME IInv, Silent, NEW a \in Peers, Leave(a)
    PROVE  Silent'
<1>1. /\ present' = present \ {a} /\ up' = [up EXCEPT ![a] = <<>>]
      /\ SendUpdates(present', WithoutPeer(a))
  BY DEF Leave
<1>2. WithoutPeer(a).down = [down EXCEPT ![a] = <<>>]
  BY DEF WithoutPeer
<1>3. /\ present' \in SUBSET Peers /\ DOMAIN up' = Peers
      /\ \A b \in Peers \ present' : WithoutPeer(a).down[b] = <<>> /\ up'[b] = <<>>
  BY <1>1, <1>2 DEF IInv, Silent
<1> QED
  BY <1>1, <1>3, SendUpdatesSilent

LEMMA ReconnectSilent ==
    ASSUME IInv, Silent, NEW a \in Peers, NEW i, Reconnect(a, i)
    PROVE  Silent'
<1>1. a \in present /\ present' = present /\ up' = [up EXCEPT ![a] = <<>>]
  BY DEF Reconnect
<1>2. PICK old \in SUBSET MayBeOld(present \ {a}) :
          Becomes(Sending(present, old, topology',
                          Sending(present \ {a}, old, topology + 1, WithoutPeer(a))))
  BY DEF Reconnect
<1> DEFINE v == topology'
           w == topology + 1
           io == Sending(present \ {a}, old, w, WithoutPeer(a))
<1>3. down' = Sending(present, old, v, io).down
  BY <1>2 DEF Becomes
<1> HIDE DEF v, w
<1>4. present \in SUBSET Peers /\ present \ {a} \in SUBSET Peers
  BY DEF IInv
<1>5. \A b \in Peers \ present : WithoutPeer(a).down[b] = <<>>
  BY <1>1 DEF WithoutPeer, Silent
<1>6. \A b \in Peers \ present : io.down[b] = <<>>
  BY <1>4, <1>5, SendingSilent
<1>7. DOMAIN down' = Peers
  BY <1>3 DEF Sending
<1> HIDE DEF io
<1>8. \A b \in Peers \ present : down'[b] = <<>>
  BY <1>3, <1>4, <1>6, SendingSilent
<1> QED
  BY <1>1, <1>7, <1>8 DEF Silent

\* The server answers or sends to present peers.
LEMMA HandlingSilent ==
    ASSUME IInv, Silent, NEW a \in Peers, a \in present, Request(a) \/ Response(a)
    PROVE  Silent'
<1>1. present' = present /\ up' = [up EXCEPT ![a] = Tail(@)]
  BY DEF Request, Response, clientVars
<1>2. PICK P \in {present, {a}, {}} : \E io : io.down = down /\ SendUpdates(P, io)
  <2>1. CASE Request(a)
    <3> DEFINE io == [sync |-> sync, out |-> out, down |-> down]
    <3>1. PICK P \in {present, {a}, {}} : SendUpdates(P, io)
      BY <2>1 DEF Request
    <3>2. io.down = down
      OBVIOUS
    <3> HIDE DEF io
    <3> QED
      BY <3>1, <3>2
  <2>2. CASE Response(a)
    <3>1. PICK tx \in Answered(a) :
              SendUpdates(IF Waiting(a) THEN {a} ELSE {},
                          [sync |-> [sync EXCEPT ![a].inFlight = FALSE],
                           out  |-> [out EXCEPT ![a] = @ \ {tx}],
                           down |-> down])
      BY <2>2 DEF Response
    <3> DEFINE io == [sync |-> [sync EXCEPT ![a].inFlight = FALSE],
                      out  |-> [out EXCEPT ![a] = @ \ {tx}],
                      down |-> down]
    <3>2. SendUpdates(IF Waiting(a) THEN {a} ELSE {}, io) /\ io.down = down
      BY <3>1
    <3> HIDE DEF io
    <3> QED
      BY <3>2
  <2> QED
    BY <2>1, <2>2
<1>3. PICK io : io.down = down /\ SendUpdates(P, io)
  BY <1>2
<1>4. P \in SUBSET Peers /\ P \subseteq present' /\ DOMAIN up' = Peers
  BY <1>1, <1>2 DEF IInv, Silent
<1>5. \A b \in Peers \ present' : io.down[b] = <<>> /\ up'[b] = <<>>
  BY <1>1, <1>3 DEF Silent
<1> QED
  BY <1>3, <1>4, <1>5, SendUpdatesSilent

LEMMA TickSilent ==
    ASSUME IInv, Silent, NEW S \in SUBSET Peers, Tick(S)
    PROVE  Silent'
<1> DEFINE G == {a \in Peers : GivenUp(a)}
           io == [sync |-> [a \in Peers |-> IF a \in G THEN [Idle EXCEPT !.full = TRUE]
                                           ELSE sync[a]],
                  out  |-> [a \in Peers |-> IF sync[a].overdue THEN {} ELSE out[a]],
                  down |-> down]
<1>1. /\ S \subseteq present /\ present' = present /\ up' = up
      /\ SendUpdates(G \cup S, io) /\ io.down = down
  BY DEF Tick
<1>2. G \cup S \in SUBSET Peers /\ G \cup S \subseteq present'
  BY <1>1 DEF GivenUp, IInv, Agree
<1> HIDE DEF io, G
<1> QED
  BY <1>1, <1>2, SendUpdatesSilent DEF Silent

\* What the clients do concerns the frames of present peers only.
LEMMA ClientInv ==
    ASSUME IInv, Silent, NEW a \in Peers,
           (\E v \in 1 .. MaxVersion : Publish(a, v)) \/ Learn(a) \/ Ignore(a)
    PROVE  IInv' /\ Silent'
<1>1. UNCHANGED <<present, sync, out>>
  BY DEF Publish, Learn, Ignore, serverVars
<1>2. IInv'
  BY <1>1 DEF IInv, Agree, Stranded
<1>3. CASE \E v \in 1 .. MaxVersion : Publish(a, v)
  <2>1. PICK v \in 1 .. MaxVersion : Publish(a, v)
    BY <1>3
  <2>2. /\ a \in present /\ down' = down
        /\ \E m : up' = [up EXCEPT ![a] = Append(@, m)]
    BY <2>1 DEF Publish
  <2> QED
    BY <1>1, <1>2, <2>2 DEF Silent
<1>4. CASE Learn(a)
  <2>1. a \in present
    BY <1>4 DEF Learn, Silent
  <2>2. /\ down' = [down EXCEPT ![a] = Tail(@)]
        /\ \E m : up' = [up EXCEPT ![a] = Append(@, m)]
    BY <1>4 DEF Learn
  <2> QED
    BY <1>1, <1>2, <2>1, <2>2 DEF Silent
<1>5. CASE Ignore(a)
  <2>1. a \in present
    BY <1>5 DEF Ignore, Silent
  <2>2. down' = [down EXCEPT ![a] = Tail(@)] /\ up' = up
    BY <1>5 DEF Ignore
  <2> QED
    BY <1>1, <1>2, <2>1, <2>2 DEF Silent
<1> QED
  BY <1>3, <1>4, <1>5

LEMMA StepInv == IInv /\ Silent /\ [Next]_vars => IInv' /\ Silent'
<1> SUFFICES ASSUME IInv, Silent, [Next]_vars
             PROVE  IInv' /\ Silent'
  OBVIOUS
<1>1. ASSUME NEW a \in Peers, NEW i, Join(a, i)
      PROVE  IInv' /\ Silent'
  BY <1>1, JoinInv, JoinSilent
<1>2. ASSUME NEW a \in Peers, NEW i, Reconnect(a, i)
      PROVE  IInv' /\ Silent'
  BY <1>2, ReconnectInv, ReconnectSilent
<1>3. ASSUME NEW a \in Peers, Leave(a) \/ LateResponse(a)
      PROVE  IInv' /\ Silent'
  <2>1. Leave(a)
    BY <1>3 DEF LateResponse
  <2> QED
    BY <2>1, LeaveInv, LeaveSilent
<1>4. ASSUME NEW a \in Peers, Request(a) \/ Response(a)
      PROVE  IInv' /\ Silent'
  <2>1. a \in present
    BY <1>4 DEF Request, Response, Silent
  <2> QED
    BY <1>4, <2>1, RequestInv, ResponseInv, HandlingSilent
<1>5. ASSUME NEW a \in Peers, Elapse(a)
      PROVE  IInv' /\ Silent'
  <2>1. UNCHANGED <<present, down, up>>
    BY <1>5 DEF Elapse
  <2> QED
    BY <1>5, <2>1, ElapseInv DEF Silent
<1>6. ASSUME NEW S \in SUBSET Peers, Tick(S)
      PROVE  IInv' /\ Silent'
  BY <1>6, TickInv, TickSilent
<1>7. CASE UNCHANGED vars
  BY <1>7 DEF vars, serverVars, IInv, Silent, Agree, Stranded
<1> QED
  BY <1>1, <1>2, <1>3, <1>4, <1>5, <1>6, <1>7, ClientInv DEF Next, Step

LEMMA Inductive == Spec => [](IInv /\ Silent)
<1>1. Init => IInv /\ Silent
  BY InitInv
<1> QED
  BY <1>1, StepInv, PTL DEF Spec

-----------------------------------------------------------------------------
\* An update that could not be sent to a busy peer always has the answer or the
\* timeout of the transaction in flight to send it: flushRouteUpdate,
\* handleResponse and cleanExpired leave no peer waiting for nothing.
THEOREM PendingTriggered == Spec => []PendingHasTrigger
<1>1. IInv => PendingHasTrigger
  BY DEF IInv, Stranded, PendingHasTrigger
<1> QED
  BY <1>1, Inductive, PTL

\* EasyTierRpc and WasmRpcCore, which time their halves of a route transaction
\* separately, agree about it, and there is one to a peer at a time and none to
\* a peer that left.
THEOREM OneAtATime == Spec => []OneTransaction
<1>1. IInv => OneTransaction
  <2> SUFFICES ASSUME IInv, NEW a \in Peers
               PROVE  Cardinality(out[a]) <= 1
    BY DEF IInv, Agree, OneTransaction
  <2>1. CASE out[a] = {}
    BY <2>1, FS_EmptySet
  <2>2. CASE out[a] # {}
    <3>1. PICK x : out[a] = {x}
      BY <2>2 DEF IInv, Agree
    <3> QED
      BY <3>1, FS_Singleton
  <2> QED
    BY <2>1, <2>2
<1> QED
  BY <1>1, Inductive, PTL

-----------------------------------------------------------------------------
(* Updates and their frames.                                               *)

\* Updates on their way to a client, and what a client sends.
Updates  == [id : Nat, infos : Told, topology : Nat]
Messages == [type : {"publish"}, id : Nat, run : 1 .. MaxRuns, info : Infos] \cup
            [type : {"answer"}, id : Nat, run : 1 .. MaxRuns, info : {NoInfo}]

LEMMA IdsBounded ==
    ASSUME NEW S, NEW s \in Seq(S)
    PROVE  LET ids == {s[i].id : i \in DOMAIN s}
           IN  IsFiniteSet(ids) /\ Cardinality(ids) <= Len(s)
<1> DEFINE D == 1 .. Len(s)
           T == {s[i].id : i \in D}
           g == [i \in D |-> s[i].id]
<1>1. Len(s) \in Nat /\ DOMAIN s = D
  OBVIOUS
<1>2. IsFiniteSet(D) /\ Cardinality(D) = Len(s)
  <2>1. 1 \in Int /\ Len(s) \in Int
    BY <1>1
  <2>2. IsFiniteSet(D) /\ Cardinality(D) = IF 1 > Len(s) THEN 0 ELSE Len(s) - 1 + 1
    BY <2>1, FS_Interval
  <2> QED
    BY <1>1, <2>2
<1>3. g \in Surjection(D, T)
  BY DEF Surjection
<1>4. IsFiniteSet(T) /\ Cardinality(T) <= Cardinality(D)
  BY <1>2, <1>3, FS_Surjection
<1> QED
  BY <1>1, <1>2, <1>4

\* next_transaction_id: of one number more than are in use, one is free.
LEMMA FreshIdIsFree ==
    ASSUME NEW a, NEW o, NEW d, NEW S, NEW T, o[a] = {}, d[a] \in Seq(S), up[a] \in Seq(T)
    PROVE  /\ FreshId(a, o, d) \in Nat
           /\ \A i \in DOMAIN d[a] : d[a][i].id # FreshId(a, o, d)
           /\ \A i \in DOMAIN up[a] : up[a][i].id # FreshId(a, o, d)
<1> DEFINE ld == Len(d[a])
           lu == Len(up[a])
           n == Cardinality(o[a]) + ld + lu + 1
           D == {d[a][i].id : i \in DOMAIN d[a]}
           U == {up[a][i].id : i \in DOMAIN up[a]}
           Free(id) == /\ \A tx \in o[a] : tx.id # id
                       /\ \A i \in DOMAIN d[a] : d[a][i].id # id
                       /\ \A i \in DOMAIN up[a] : up[a][i].id # id
<1>1. ld \in Nat /\ lu \in Nat
  OBVIOUS
<1>2. IsFiniteSet(D) /\ Cardinality(D) \in Nat /\ Cardinality(D) <= ld
  BY IdsBounded, FS_CardinalityType
<1>3. IsFiniteSet(U) /\ Cardinality(U) \in Nat /\ Cardinality(U) <= lu
  BY IdsBounded, FS_CardinalityType
<1>4. Cardinality(o[a]) = 0
  BY FS_EmptySet
<1>5. /\ IsFiniteSet(D \cup U) /\ Cardinality(D \cup U) \in Nat
      /\ n \in Nat /\ n > Cardinality(D \cup U)
      /\ IsFiniteSet(1 .. n) /\ Cardinality(1 .. n) = n
  <2> DEFINE o0 == Cardinality(o[a])
  <2>1. o0 = 0
    BY <1>4
  <2> HIDE DEF D, U, ld, lu, o0
  <2>2. /\ IsFiniteSet(D \cup U)
        /\ Cardinality(D \cup U) = Cardinality(D) + Cardinality(U) - Cardinality(D \cap U)
    BY <1>2, <1>3, FS_Union
  <2>3. Cardinality(D \cap U) \in Nat /\ Cardinality(D \cup U) \in Nat
    BY <1>2, <2>2, FS_Intersection, FS_CardinalityType
  <2>4. n \in Nat /\ n > Cardinality(D \cup U) /\ n >= 1
    BY <1>1, <1>2, <1>3, <2>1, <2>2, <2>3 DEF o0
  <2> HIDE DEF n
  <2>5. IsFiniteSet(1 .. n) /\ Cardinality(1 .. n) = IF 1 > n THEN 0 ELSE n - 1 + 1
    BY <2>4, FS_Interval
  <2> QED
    BY <2>2, <2>3, <2>4, <2>5
<1>6. \E id \in 1 .. n : id \notin D \cup U
  <2> SUFFICES ASSUME 1 .. n \subseteq D \cup U PROVE FALSE
    OBVIOUS
  <2>1. Cardinality(1 .. n) <= Cardinality(D \cup U)
    BY <1>5, FS_Subset
  <2> HIDE DEF D, U, n
  <2> QED
    BY <1>5, <2>1
<1>7. \E id \in 1 .. n : Free(id)
  BY <1>6
<1>8. FreshId(a, o, d) = CHOOSE id \in 1 .. n : Free(id)
  BY DEF FreshId
<1> HIDE DEF Free, n
<1>9. FreshId(a, o, d) \in 1 .. n /\ Free(FreshId(a, o, d))
  BY <1>7, <1>8
<1> QED
  BY <1>5, <1>9 DEF Free

\* What build_route_update puts into an update for a at topology version v.
Carries(tx, a, v) ==
    /\ tx \in Updates
    /\ tx.infos[a] = NoInfo
    /\ \A x \in Peers : tx.infos[x] \in {NoInfo, info'[x]}
    /\ \A x \in Peers \ {a} : info'[x] # NoInfo /\ tx.infos[x] = NoInfo =>
           ~(info'[x].ver > session'[a].seen[x])
    /\ tx.topology = IF session'[a].topology = v THEN 0 ELSE v

\* What sendRouteUpdate for P makes of a's send state, transactions and frames.
GetsUpdate(a, P, v, io, r) ==
    /\ a \in P /\ ~io.sync[a].inFlight
    /\ r.sync[a] = Sent
    /\ \E tx \in Updates :
          /\ Carries(tx, a, v)
          /\ \A i \in DOMAIN io.down[a] : io.down[a][i].id # tx.id
          /\ \A i \in DOMAIN up[a] : up[a][i].id # tx.id
          /\ r.out[a] = {tx}
          /\ r.down[a] = Append(io.down[a], tx)

GetsNone(a, P, io, r) ==
    /\ a \in P => io.sync[a].inFlight
    /\ r.sync[a] = IF a \in P THEN Marked(io.sync[a]) ELSE io.sync[a]
    /\ r.out[a] \subseteq io.out[a]
    /\ r.down[a] = io.down[a]

\* State before an update is built: types of what goes into it.
CanBuild(io) ==
    /\ io.sync \in [Peers -> SyncStates]
    /\ session' \in [Peers -> Sessions] /\ info' \in [Peers -> Infos \cup {NoInfo}]
    /\ \A a \in Peers : io.sync[a].inFlight \/ io.out[a] = {}
    /\ io.down \in [Peers -> Seq(Updates)] /\ up \in [Peers -> Seq(Messages)]

LEMMA SendingEffect ==
    ASSUME NEW P \in SUBSET Peers, NEW old, NEW v \in Nat, NEW io, CanBuild(io),
           NEW a \in Peers
    PROVE  \/ GetsUpdate(a, P, v, io, Sending(P, old, v, io))
           \/ GetsNone(a, P, io, Sending(P, old, v, io))
<1> DEFINE now == CanSend(P, io.sync)
           kept == [b \in Peers |->
                       IF now # {} /\ io.sync[b].overdue THEN {} ELSE io.out[b]]
           tx(b) == Update(b, io.sync[b].full, old, v, kept, io.down)
           r == Sending(P, old, v, io)
<1>1. /\ r.sync[a] = IF a \in now THEN Sent
                     ELSE IF a \in P THEN Marked(io.sync[a]) ELSE io.sync[a]
      /\ r.out[a] = IF a \in now THEN kept[a] \cup {tx(a)} ELSE kept[a]
      /\ r.down[a] = IF a \in now THEN Append(io.down[a], tx(a)) ELSE io.down[a]
  BY DEF Sending
<1>2. kept[a] \subseteq io.out[a]
  OBVIOUS
<1>3. a \in now <=> a \in P /\ ~io.sync[a].inFlight
  BY DEF CanSend
<1>4. CASE a \notin now
  <2> HIDE DEF r, now, kept, tx
  <2> QED
    BY <1>1, <1>2, <1>3, <1>4 DEF r, GetsNone
<1>5. CASE a \in now
  <2>1. kept[a] = {} /\ io.down[a] \in Seq(Updates) /\ up[a] \in Seq(Messages)
    BY <1>2, <1>3, <1>5 DEF CanBuild
  <2> DEFINE id == FreshId(a, kept, io.down)
  <2>2. /\ id \in Nat
        /\ \A i \in DOMAIN io.down[a] : io.down[a][i].id # id
        /\ \A i \in DOMAIN up[a] : up[a][i].id # id
    <3> HIDE DEF kept
    <3> QED
      BY <2>1, FreshIdIsFree
  <2> DEFINE c == Contents(a, io.sync[a].full, old)
             t == Topology(a, v)
  <2>3. tx(a) = [id |-> id, infos |-> c, topology |-> t]
    BY DEF Update
  <2>4. /\ c \in Told /\ c[a] = NoInfo
        /\ \A x \in Peers : c[x] \in {NoInfo, info'[x]}
        /\ \A x \in Peers \ {a} : info'[x] # NoInfo /\ c[x] = NoInfo =>
               ~(info'[x].ver > session'[a].seen[x])
    BY DEF Contents, Told, CanBuild
  <2>5. t \in Nat /\ t = IF session'[a].topology = v THEN 0 ELSE v
    BY DEF Topology
  <2> HIDE DEF id, c, t
  <2> DEFINE u == [id |-> id, infos |-> c, topology |-> t]
  <2>6. Carries(u, a, v) /\ u \in Updates /\ u.id = id
    BY <2>2, <2>4, <2>5 DEF Carries, Updates
  <2> HIDE DEF u
  <2>7. r.out[a] = {u} /\ r.down[a] = Append(io.down[a], u) /\ r.sync[a] = Sent
    <3> HIDE DEF now, kept, r
    <3> QED
      BY <1>1, <1>5, <2>1, <2>3 DEF u
  <2> HIDE DEF now, kept, r
  <2> QED
    BY <1>3, <1>5, <2>2, <2>6, <2>7 DEF GetsUpdate, r
<1> QED
  BY <1>4, <1>5

\* The frames and transactions have their types, at topology version v.
Sendable(io, v) ==
    /\ CanBuild(io)
    /\ \A a \in Peers : io.out[a] \subseteq Updates
    /\ \A a \in Peers : \A tx \in io.out[a] : tx.topology <= v

LEMMA SendingTyped ==
    ASSUME NEW P \in SUBSET Peers, NEW old, NEW v \in Nat, NEW io, Sendable(io, v)
    PROVE  Sendable(Sending(P, old, v, io), v)
<1> DEFINE r == Sending(P, old, v, io)
<1>1. ASSUME NEW a \in Peers
      PROVE  /\ r.sync[a] \in SyncStates
             /\ r.sync[a].inFlight \/ r.out[a] = {}
             /\ r.down[a] \in Seq(Updates)
             /\ r.out[a] \subseteq Updates
             /\ \A tx \in r.out[a] : tx.topology <= v
  <2>1. GetsUpdate(a, P, v, io, r) \/ GetsNone(a, P, io, r)
    BY SendingEffect DEF Sendable
  <2>2. /\ io.sync[a] \in SyncStates /\ io.down[a] \in Seq(Updates)
        /\ io.sync[a].inFlight \/ io.out[a] = {}
        /\ io.out[a] \subseteq Updates
        /\ \A tx \in io.out[a] : tx.topology <= v
    BY DEF Sendable, CanBuild
  <2> HIDE DEF r
  <2>3. CASE GetsUpdate(a, P, v, io, r)
    <3>1. Sent \in SyncStates /\ Sent.inFlight
      BY DEF Sent, Idle, SyncStates
    <3>2. PICK tx \in Updates : /\ Carries(tx, a, v)
                                /\ r.out[a] = {tx}
                                /\ r.down[a] = Append(io.down[a], tx)
      BY <2>3 DEF GetsUpdate
    <3>3. tx.topology <= v
      BY <3>2 DEF Carries
    <3>4. r.sync[a] = Sent
      BY <2>3 DEF GetsUpdate
    <3>5. r.down[a] \in Seq(Updates)
      BY <2>2, <3>2
    <3> QED
      BY <3>1, <3>2, <3>3, <3>4, <3>5
  <2>4. CASE GetsNone(a, P, io, r)
    <3>1. Marked(io.sync[a]) \in SyncStates /\ Marked(io.sync[a]).inFlight = io.sync[a].inFlight
      BY <2>2 DEF Marked, SyncStates
    <3> QED
      BY <2>2, <2>4, <3>1 DEF GetsNone
  <2> QED
    BY <2>1, <2>3, <2>4
<1>2. /\ r.sync = [a \in Peers |-> r.sync[a]]
      /\ r.down = [a \in Peers |-> r.down[a]]
  BY DEF Sending
<1> HIDE DEF r
<1>3. r.sync \in [Peers -> SyncStates] /\ r.down \in [Peers -> Seq(Updates)]
  BY <1>1, <1>2
<1> QED
  BY <1>1, <1>3 DEF Sendable, CanBuild, r

\* The new send states, transactions and frames.
After == [sync |-> sync', out |-> out', down |-> down']

LEMMA SendUpdatesEffect ==
    ASSUME NEW P \in SUBSET Peers, NEW io, topology' \in Nat, Sendable(io, topology'),
           SendUpdates(P, io)
    PROVE  /\ Sendable(After, topology')
           /\ \A a \in Peers : \/ GetsUpdate(a, P, topology', io, After)
                                \/ GetsNone(a, P, io, After)
<1>1. PICK old \in SUBSET MayBeOld(P) : Becomes(Sending(P, old, topology', io))
  BY DEF SendUpdates
<1> DEFINE v == topology'
           r == Sending(P, old, v, io)
<1>2. v \in Nat /\ Sendable(io, v)
  OBVIOUS
<1>3. After.sync = r.sync /\ After.out = r.out /\ After.down = r.down
  BY <1>1 DEF Becomes, After
<1> HIDE DEF v
<1>4. Sendable(r, v)
  BY <1>2, SendingTyped
<1>5. \A a \in Peers : GetsUpdate(a, P, v, io, r) \/ GetsNone(a, P, io, r)
  BY <1>2, SendingEffect DEF Sendable
<1> HIDE DEF r
<1>6. Sendable(After, v)
  BY <1>3, <1>4 DEF Sendable, CanBuild
<1>7. \A a \in Peers : GetsUpdate(a, P, v, io, After) \/ GetsNone(a, P, io, After)
  BY <1>3, <1>5 DEF GetsUpdate, GetsNone
<1> QED
  BY <1>6, <1>7 DEF v

-----------------------------------------------------------------------------
(* Types.                                                                  *)

StateTyped ==
    /\ info \in [Peers -> Infos \cup {NoInfo}] /\ own \in [Peers -> Infos]
    /\ know \in [Peers -> Told]
    /\ session \in [Peers -> Sessions]
    /\ topology \in Nat /\ topology >= 1 /\ joins \in 0 .. MaxJoins
    /\ \A a \in Peers \ present : info[a] = NoInfo /\ session[a] = NewSession

FramesTyped ==
    /\ down \in [Peers -> Seq(Updates)] /\ up \in [Peers -> Seq(Messages)]
    /\ \A a \in Peers : out[a] \subseteq Updates
    /\ \A a \in Peers : \A tx \in out[a] : tx.topology <= topology

Typed == StateTyped /\ FramesTyped

\* The server's part as it is.
Before == [sync |-> sync, out |-> out, down |-> down]

LEMMA BeforeSendable ==
    ASSUME IInv, Typed, session' \in [Peers -> Sessions],
           info' \in [Peers -> Infos \cup {NoInfo}],
           topology' \in Nat, topology <= topology'
    PROVE  Sendable(Before, topology')
<1>1. CanBuild(Before)
  BY DEF Before, CanBuild, IInv, Agree, Typed, FramesTyped
<1>2. ASSUME NEW a \in Peers, NEW tx \in out[a]
      PROVE  tx \in Updates /\ tx.topology <= topology'
  <2>1. tx \in Updates /\ tx.topology <= topology /\ tx.topology \in Nat /\ topology \in Nat
    BY DEF Typed, FramesTyped, StateTyped, Updates
  <2> QED
    BY <2>1
<1> QED
  BY <1>1, <1>2 DEF Sendable, Before

LEMMA WithoutSendable ==
    ASSUME IInv, Typed, NEW a \in Peers, session' \in [Peers -> Sessions],
           info' \in [Peers -> Infos \cup {NoInfo}],
           NEW v \in Nat, topology <= v
    PROVE  Sendable(WithoutPeer(a), v)
<1> DEFINE io == WithoutPeer(a)
<1>1. io.sync \in [Peers -> SyncStates] /\ io.down \in [Peers -> Seq(Updates)]
  BY DEF WithoutPeer, IInv, Agree, Typed, FramesTyped, Idle, SyncStates
<1>2. io.out[a] = {} /\ \A b \in Peers \ {a} : io.out[b] = out[b] /\ io.sync[b] = sync[b]
  BY DEF WithoutPeer, IInv, Agree
<1>3. ASSUME NEW b \in Peers \ {a}, NEW tx \in out[b]
      PROVE  tx \in Updates /\ tx.topology <= v /\ sync[b].inFlight
  <2>1. tx \in Updates /\ tx.topology <= topology /\ tx.topology \in Nat /\ topology \in Nat
    BY DEF Typed, FramesTyped, StateTyped, Updates
  <2> QED
    BY <2>1 DEF IInv, Agree
<1> HIDE DEF io
<1>4. up \in [Peers -> Seq(Messages)]
  BY DEF Typed, FramesTyped
<1>5. CanBuild(io)
  BY <1>1, <1>2, <1>3, <1>4 DEF CanBuild
<1>6. Sendable(io, v)
  BY <1>2, <1>3, <1>5 DEF Sendable
<1> QED
  BY <1>6 DEF io

LEMMA SentTyped ==
    ASSUME Sendable(After, topology'), StateTyped', up' \in [Peers -> Seq(Messages)]
    PROVE  Typed'
BY DEF Sendable, CanBuild, After, Typed, FramesTyped

LEMMA BoundFacts ==
    MaxVersion \in Nat /\ MaxVersion >= 1 /\ MaxRuns \in Nat /\ MaxRuns >= 1 /\ MaxJoins \in Nat
BY Bounds

LEMMA NewSessionTyped == NewSession \in Sessions
BY BoundFacts DEF NewSession, Sessions

\* What is forgotten about a in one session.
Unseen(s, a) == [s EXCEPT !.seen[a] = 0, !.topology = 0]

LEMMA UnseenTyped ==
    ASSUME NEW s \in Sessions, NEW a \in Peers
    PROVE  /\ Unseen(s, a) \in Sessions
           /\ Unseen(s, a).dst = s.dst /\ Unseen(s, a).topology = 0
           /\ Unseen(s, a).seen[a] = 0
           /\ \A x \in Peers \ {a} : Unseen(s, a).seen[x] = s.seen[x]
           /\ s = NewSession => Unseen(s, a) = NewSession
<1>1. s.seen \in [Peers -> 0 .. MaxVersion] /\ s.dst \in 0 .. MaxRuns
  BY DEF Sessions
<1>2. s = [dst |-> s.dst, seen |-> s.seen, topology |-> s.topology]
  BY DEF Sessions
<1> DEFINE f == [s.seen EXCEPT ![a] = 0]
<1>3. Unseen(s, a) = [dst |-> s.dst, seen |-> f, topology |-> 0]
  <2>1. Unseen(s, a) = [[s EXCEPT !.seen = f] EXCEPT !.topology = 0]
    BY DEF Unseen
  <2> QED
    BY <1>2, <2>1
<1>4. /\ f \in [Peers -> 0 .. MaxVersion] /\ f[a] = 0
      /\ \A x \in Peers \ {a} : f[x] = s.seen[x]
  BY <1>1, BoundFacts
<1>5. s = NewSession => Unseen(s, a) = NewSession
  <2> SUFFICES ASSUME s = NewSession PROVE Unseen(s, a) = NewSession
    OBVIOUS
  <2>1. s.seen = [x \in Peers |-> 0] /\ s.dst = 0
    BY DEF NewSession
  <2>2. f = [x \in Peers |-> 0]
    BY <2>1
  <2> QED
    BY <1>3, <2>1, <2>2 DEF NewSession
<1> HIDE DEF f
<1> QED
  BY <1>1, <1>3, <1>4, <1>5 DEF Sessions

LEMMA ForgottenTyped ==
    ASSUME Typed, NEW a \in Peers
    PROVE  /\ Forgotten(a) \in [Peers -> Sessions]
           /\ Forgotten(a)[a] = NewSession
           /\ \A b \in Peers \ {a} : Forgotten(a)[b] = Unseen(session[b], a)
<1>1. ASSUME NEW b \in Peers
      PROVE  Unseen(session[b], a) \in Sessions
  BY UnseenTyped DEF Typed, StateTyped
<1>2. Forgotten(a) = [b \in Peers |-> IF b = a THEN NewSession ELSE Unseen(session[b], a)]
  BY DEF Forgotten, Unseen
<1> QED
  BY <1>1, <1>2, NewSessionTyped

LEMMA InstanceTyped ==
    ASSUME Typed, NEW a \in Peers, NEW i \in Instances(a)
    PROVE  i \in Infos
<1>1. own[a] \in Infos
  BY DEF Typed, StateTyped
<1>2. CASE i = [run |-> own[a].run + 1, ver |-> 1] /\ own[a].run < MaxRuns
  BY <1>1, <1>2, Bounds DEF Infos
<1> QED
  BY <1>1, <1>2 DEF Instances

LEMMA ConnectsTyped ==
    ASSUME Typed, NEW a \in Peers, NEW i \in Instances(a), Connects(a, i)
    PROVE  /\ own' \in [Peers -> Infos] /\ know' \in [Peers -> Told]
           /\ joins' \in 0 .. MaxJoins
<1>1. own' \in [Peers -> Infos]
  BY InstanceTyped DEF Connects, Typed, StateTyped
<1>2. [x \in Peers |-> NoInfo] \in Told
  BY DEF Told
<1>3. know' \in [Peers -> Told]
  BY <1>2 DEF Connects, Typed, StateTyped
<1>4. joins' \in 0 .. MaxJoins
  BY Bounds DEF Connects, Typed, StateTyped
<1> QED
  BY <1>1, <1>3, <1>4

LEMMA InitTyped == Init => Typed
<1> SUFFICES ASSUME Init PROVE Typed
  OBVIOUS
<1>1. [run |-> 1, ver |-> 1] \in Infos
  BY Bounds DEF Infos
<1>2. [x \in Peers |-> NoInfo] \in Told
  BY DEF Told
<1>3. StateTyped
  BY <1>1, <1>2, NewSessionTyped, Bounds DEF Init, StateTyped
<1>4. <<>> \in Seq(Updates) /\ <<>> \in Seq(Messages)
  OBVIOUS
<1>5. FramesTyped
  BY <1>4 DEF Init, FramesTyped
<1> QED
  BY <1>3, <1>5 DEF Typed

-----------------------------------------------------------------------------
(* What each action of the server does, and that it keeps the types.       *)

\* sendRouteUpdate for the peers P has made the new state from io.
Handed(P, io) ==
    /\ Sendable(io, topology') /\ Sendable(After, topology')
    /\ \A b \in Peers : \/ GetsUpdate(b, P, topology', io, After)
                         \/ GetsNone(b, P, io, After)

LEMMA JoinEffect ==
    ASSUME IInv, Typed, NEW a \in Peers, NEW i \in Instances(a), Join(a, i)
    PROVE  Typed' /\ Handed(present', Before)
<1>1. /\ present' = present \cup {a} /\ topology' = topology + 1 /\ Connects(a, i)
      /\ info' = info /\ session' = session /\ up' = up
      /\ SendUpdates(present', Before)
  BY DEF Join, Before
<1>2. StateTyped'
  BY <1>1, ConnectsTyped DEF Typed, StateTyped
<1>3. topology' \in Nat /\ topology <= topology' /\ present' \in SUBSET Peers
  BY <1>1 DEF Typed, StateTyped, IInv
<1>4. Sendable(Before, topology')
  BY <1>1, <1>3, BeforeSendable DEF Typed, StateTyped
<1>5. Handed(present', Before)
  BY <1>1, <1>3, <1>4, SendUpdatesEffect DEF Handed
<1> QED
  BY <1>1, <1>2, <1>5, SentTyped DEF Handed, Typed, FramesTyped

LEMMA LeaveEffect ==
    ASSUME IInv, Typed, NEW a \in Peers, Leave(a)
    PROVE  Typed' /\ Handed(present', WithoutPeer(a))
<1>1. /\ present' = present \ {a} /\ topology' = topology + 1
      /\ UNCHANGED <<own, know, joins>>
      /\ info' = [info EXCEPT ![a] = NoInfo] /\ session' = Forgotten(a)
      /\ up' = [up EXCEPT ![a] = <<>>]
      /\ SendUpdates(present', WithoutPeer(a))
  BY DEF Leave
<1>2. info' \in [Peers -> Infos \cup {NoInfo}] /\ session' \in [Peers -> Sessions]
  BY <1>1, ForgottenTyped DEF Typed, StateTyped
<1>3. ASSUME NEW b \in Peers \ present'
      PROVE  info'[b] = NoInfo /\ session'[b] = NewSession
  <2>1. CASE b = a
    BY <1>1, <2>1, ForgottenTyped DEF Typed, StateTyped
  <2>2. CASE b # a
    <3>1. session[b] = NewSession /\ info'[b] = NoInfo /\ session'[b] = Unseen(session[b], a)
      BY <1>1, <2>2, ForgottenTyped DEF Typed, StateTyped
    <3> QED
      BY <3>1, NewSessionTyped, UnseenTyped
  <2> QED
    BY <2>1, <2>2
<1>4. topology' \in Nat /\ topology <= topology' /\ present' \in SUBSET Peers
  BY <1>1 DEF Typed, StateTyped, IInv
<1>5. StateTyped'
  BY <1>1, <1>2, <1>3, <1>4 DEF Typed, StateTyped
<1>6. Sendable(WithoutPeer(a), topology')
  <2> DEFINE v == topology'
  <2>1. v \in Nat /\ topology <= v
    BY <1>4
  <2> HIDE DEF v
  <2>2. Sendable(WithoutPeer(a), v)
    BY <1>2, <2>1, WithoutSendable
  <2> QED
    BY <2>2 DEF v
<1>7. Handed(present', WithoutPeer(a))
  <2> DEFINE io == WithoutPeer(a)
  <2>1. Sendable(io, topology') /\ SendUpdates(present', io)
    BY <1>1, <1>6
  <2> HIDE DEF io
  <2>2. Handed(present', io)
    BY <1>4, <2>1, SendUpdatesEffect DEF Handed
  <2> QED
    BY <2>2 DEF io
<1>8. up' \in [Peers -> Seq(Messages)]
  BY <1>1 DEF Typed, FramesTyped
<1> QED
  BY <1>5, <1>7, <1>8, SentTyped DEF Handed

\* Both broadcasts: without a, and with its new connection.
LEMMA ReconnectEffect ==
    ASSUME IInv, Typed, NEW a \in Peers, NEW i \in Instances(a), Reconnect(a, i)
    PROVE  /\ Typed'
           /\ \E io : /\ Sendable(WithoutPeer(a), topology + 1)
                      /\ \A b \in Peers :
                            \/ GetsUpdate(b, present \ {a}, topology + 1, WithoutPeer(a), io)
                            \/ GetsNone(b, present \ {a}, WithoutPeer(a), io)
                      /\ Handed(present, io)
<1>1. /\ a \in present /\ present' = present /\ topology' = topology + 2
      /\ Connects(a, i)
      /\ info' = [info EXCEPT ![a] = NoInfo] /\ session' = Forgotten(a)
      /\ up' = [up EXCEPT ![a] = <<>>]
  BY DEF Reconnect
<1>2. info' \in [Peers -> Infos \cup {NoInfo}] /\ session' \in [Peers -> Sessions]
  BY <1>1, ForgottenTyped DEF Typed, StateTyped
<1>3. ASSUME NEW b \in Peers \ present'
      PROVE  info'[b] = NoInfo /\ session'[b] = NewSession
  <2>1. /\ b # a /\ session[b] = NewSession
        /\ info'[b] = NoInfo /\ session'[b] = Unseen(session[b], a)
    BY <1>1, ForgottenTyped DEF Typed, StateTyped
  <2> QED
    BY <2>1, NewSessionTyped, UnseenTyped
<1>4. topology' \in Nat /\ topology + 1 \in Nat /\ topology <= topology + 1
      /\ topology + 1 <= topology' /\ topology' >= 1
      /\ present \in SUBSET Peers /\ present \ {a} \in SUBSET Peers
  BY <1>1 DEF Typed, StateTyped, IInv
<1>5. StateTyped'
  BY <1>1, <1>2, <1>3, <1>4, ConnectsTyped DEF Typed, StateTyped
<1>6. PICK old \in SUBSET MayBeOld(present \ {a}) :
          Becomes(Sending(present, old, topology',
                          Sending(present \ {a}, old, topology + 1, WithoutPeer(a))))
  BY DEF Reconnect
<1> DEFINE v == topology'
           w == topology + 1
           P == present \ {a}
           io == Sending(P, old, w, WithoutPeer(a))
           r == Sending(present, old, v, io)
<1>7. After.sync = r.sync /\ After.out = r.out /\ After.down = r.down
  BY <1>6 DEF Becomes, After
<1>8. v \in Nat /\ w \in Nat /\ topology <= w /\ w <= v /\ P \in SUBSET Peers
  BY <1>4
<1> HIDE DEF v, w, P
<1>9. Sendable(WithoutPeer(a), w)
  BY <1>2, <1>8, WithoutSendable
<1>10. /\ Sendable(io, w)
       /\ \A b \in Peers : \/ GetsUpdate(b, P, w, WithoutPeer(a), io)
                            \/ GetsNone(b, P, WithoutPeer(a), io)
  BY <1>8, <1>9, SendingTyped, SendingEffect DEF Sendable
<1> HIDE DEF io
<1>11. Sendable(io, v)
  <2>1. ASSUME NEW b \in Peers, NEW tx \in io.out[b]
        PROVE  tx.topology <= v
    <3>1. tx \in Updates /\ tx.topology <= w
      BY <1>10 DEF Sendable
    <3>2. tx.topology \in Nat
      BY <3>1 DEF Updates
    <3> QED
      BY <1>8, <3>1, <3>2
  <2> QED
    BY <1>10, <2>1 DEF Sendable
<1>12. /\ Sendable(r, v)
       /\ \A b \in Peers : GetsUpdate(b, present, v, io, r) \/ GetsNone(b, present, io, r)
  BY <1>4, <1>8, <1>11, SendingTyped, SendingEffect DEF Sendable
<1> HIDE DEF r
<1>13. /\ Sendable(After, v)
       /\ \A b \in Peers : \/ GetsUpdate(b, present, v, io, After)
                            \/ GetsNone(b, present, io, After)
  <2>1. Sendable(After, v)
    BY <1>7, <1>12 DEF Sendable, CanBuild
  <2> QED
    BY <1>7, <1>12, <2>1 DEF GetsUpdate, GetsNone
<1>14. Handed(present, io)
  BY <1>11, <1>13 DEF Handed, v
<1>15. up' \in [Peers -> Seq(Messages)]
  BY <1>1 DEF Typed, FramesTyped
<1>16. Typed'
  BY <1>5, <1>14, <1>15, SentTyped DEF Handed
<1> QED
  BY <1>9, <1>10, <1>14, <1>16 DEF w, P

\* What a client's frames hold.
LEMMA HeadTyped ==
    ASSUME Typed, NEW a \in Peers, up[a] # <<>>
    PROVE  /\ Head(up[a]) \in Messages
           /\ Head(up[a]).type = "publish" => Head(up[a]).info \in Infos
           /\ Head(up[a]).run \in 1 .. MaxRuns
           /\ [up EXCEPT ![a] = Tail(@)] \in [Peers -> Seq(Messages)]
<1>1. up[a] \in Seq(Messages) /\ up \in [Peers -> Seq(Messages)]
  BY DEF Typed, FramesTyped
<1>2. Head(up[a]) \in Messages /\ Tail(up[a]) \in Seq(Messages)
  BY <1>1
<1>3. [up EXCEPT ![a] = Tail(@)] \in [Peers -> Seq(Messages)]
  BY <1>1, <1>2
<1>4. ASSUME NEW m \in Messages
      PROVE  m.run \in 1 .. MaxRuns /\ (m.type = "publish" => m.info \in Infos)
  BY DEF Messages
<1> QED
  BY <1>2, <1>3, <1>4

LEMMA PeerSessionTyped ==
    ASSUME NEW s \in Sessions, NEW id \in 1 .. MaxRuns
    PROVE  /\ WithPeerSession(s, id) \in Sessions
           /\ WithPeerSession(s, id).dst = id
           /\ WithPeerSession(s, id).seen = IF s.dst = id THEN s.seen ELSE NewSession.seen
           /\ WithPeerSession(s, id).topology = IF s.dst = id THEN s.topology ELSE 0
<1>1. [NewSession EXCEPT !.dst = id] = [dst |-> id, seen |-> NewSession.seen, topology |-> 0]
  BY DEF NewSession
<1>2. NewSession.seen \in [Peers -> 0 .. MaxVersion]
  BY NewSessionTyped DEF Sessions
<1>3. id \in 0 .. MaxRuns
  BY BoundFacts
<1> QED
  BY <1>1, <1>2, <1>3 DEF WithPeerSession, Sessions

LEMMA CommittedTyped ==
    ASSUME NEW s \in Sessions, NEW tx \in Updates
    PROVE  /\ Committed(s, tx) \in Sessions
           /\ Committed(s, tx).dst = s.dst
           /\ Committed(s, tx).topology = Larger(s.topology, tx.topology)
           /\ \A x \in Peers : Committed(s, tx).seen[x] =
                  IF tx.infos[x] = NoInfo THEN s.seen[x]
                  ELSE Larger(s.seen[x], tx.infos[x].ver)
<1> DEFINE f == [x \in Peers |-> IF tx.infos[x] = NoInfo THEN s.seen[x]
                                 ELSE Larger(s.seen[x], tx.infos[x].ver)]
<1>1. s = [dst |-> s.dst, seen |-> s.seen, topology |-> s.topology]
  BY DEF Sessions
<1>2. Committed(s, tx) = [dst |-> s.dst, seen |-> f, topology |-> Larger(s.topology, tx.topology)]
  <2>1. Committed(s, tx) =
            [[s EXCEPT !.seen = f] EXCEPT !.topology = Larger(@, tx.topology)]
    BY DEF Committed
  <2> HIDE DEF f
  <2> QED
    BY <1>1, <2>1
<1>3. s.dst \in 0 .. MaxRuns /\ s.seen \in [Peers -> 0 .. MaxVersion] /\ s.topology \in Nat
  BY DEF Sessions
<1>4. ASSUME NEW x \in Peers
      PROVE  f[x] \in 0 .. MaxVersion
  <2>1. tx.infos[x] \in Infos \cup {NoInfo}
    BY DEF Updates, Told
  <2>2. tx.infos[x] # NoInfo => tx.infos[x].ver \in 1 .. MaxVersion
    BY <2>1 DEF Infos
  <2>3. s.seen[x] \in 0 .. MaxVersion
    BY <1>3
  <2> QED
    BY <2>2, <2>3, BoundFacts DEF Larger
<1>5. Larger(s.topology, tx.topology) \in Nat
  BY <1>3 DEF Larger, Updates
<1>6. f \in [Peers -> 0 .. MaxVersion]
  BY <1>4
<1>7. \A x \in Peers : f[x] = IF tx.infos[x] = NoInfo THEN s.seen[x]
                               ELSE Larger(s.seen[x], tx.infos[x].ver)
  OBVIOUS
<1> HIDE DEF f
<1> QED
  BY <1>2, <1>3, <1>5, <1>6, <1>7 DEF Sessions

\* A session in which what was sent of a is forgotten.
Cleared(s, a) == [s EXCEPT !.seen[a] = 0]

LEMMA ClearedTyped ==
    ASSUME NEW s \in Sessions, NEW a \in Peers
    PROVE  /\ Cleared(s, a) \in Sessions
           /\ Cleared(s, a).dst = s.dst /\ Cleared(s, a).topology = s.topology
           /\ Cleared(s, a).seen[a] = 0
           /\ \A x \in Peers \ {a} : Cleared(s, a).seen[x] = s.seen[x]
           /\ s = NewSession => Cleared(s, a) = NewSession
<1> DEFINE f == [s.seen EXCEPT ![a] = 0]
<1>1. s.seen \in [Peers -> 0 .. MaxVersion]
  BY DEF Sessions
<1>2. s = [dst |-> s.dst, seen |-> s.seen, topology |-> s.topology]
  BY DEF Sessions
<1>3. Cleared(s, a) = [dst |-> s.dst, seen |-> f, topology |-> s.topology]
  <2>1. Cleared(s, a) = [s EXCEPT !.seen = f]
    BY DEF Cleared
  <2> QED
    BY <1>2, <2>1
<1>4. /\ f \in [Peers -> 0 .. MaxVersion] /\ f[a] = 0
      /\ \A x \in Peers \ {a} : f[x] = s.seen[x]
  BY <1>1, BoundFacts
<1>5. s = NewSession => Cleared(s, a) = NewSession
  <2> SUFFICES ASSUME s = NewSession PROVE Cleared(s, a) = NewSession
    OBVIOUS
  <2>1. s.seen = [x \in Peers |-> 0] /\ s.dst = 0 /\ s.topology = 0
    BY DEF NewSession
  <2>2. f = [x \in Peers |-> 0]
    BY <2>1
  <2> QED
    BY <1>3, <2>1, <2>2 DEF NewSession
<1> HIDE DEF f
<1> QED
  BY <1>3, <1>4, <1>5 DEF Sessions

\* The sessions once a has named its own.
Named(a) == [b \in Peers |->
    IF b = a THEN WithPeerSession(session[a], Head(up[a]).run) ELSE session[b]]

\* The two ways handle_sync_route_info_request goes.
Accepts(a) ==
    LET m == Head(up[a])
    IN  /\ info[a] = NoInfo \/ info[a].run # m.info.run \/ m.info.ver > info[a].ver
        /\ info' = [info EXCEPT ![a] = m.info]
        /\ topology' = IF info[a] = NoInfo THEN topology + 1 ELSE topology
        /\ \/ session' = Named(a)
           \/ session' = [b \in Peers |-> Cleared(Named(a)[b], a)]
        /\ SendUpdates(present, Before)

Repeats(a) ==
    /\ UNCHANGED <<info, topology>>
    /\ session' = Named(a)
    /\ SendUpdates(IF session[a].dst # Head(up[a]).run THEN {a} ELSE {}, Before)

LEMMA RequestCases ==
    ASSUME NEW a \in Peers, Request(a)
    PROVE  /\ up[a] # <<>> /\ Head(up[a]).type = "publish"
           /\ UNCHANGED <<present, own, know, joins>>
           /\ up' = [up EXCEPT ![a] = Tail(@)]
           /\ Accepts(a) \/ Repeats(a)
<1> DEFINE m       == Head(up[a])
           new     == info[a] = NoInfo \/ info[a].run # m.info.run
                          \/ m.info.ver > info[a].ver
           swapped == info[a] # NoInfo /\ info[a].run # m.info.run
           changed == session[a].dst # m.run
           P       == CASE new -> present
                        [] ~new /\ changed -> {a}
                        [] OTHER -> {}
<1>1. /\ up[a] # <<>> /\ m.type = "publish"
      /\ UNCHANGED <<present, own, know, joins>>
      /\ up' = [up EXCEPT ![a] = Tail(@)]
      /\ info' = IF new THEN [info EXCEPT ![a] = m.info] ELSE info
      /\ topology' = IF new /\ info[a] = NoInfo THEN topology + 1 ELSE topology
      /\ SendUpdates(P, Before)
  BY DEF Request, NeedsBump, Before, clientVars
<1>2. session' = [b \in Peers |-> IF new /\ swapped THEN Cleared(Named(a)[b], a)
                                 ELSE Named(a)[b]]
  BY DEF Request, Named, Cleared
<1>3. P = IF new THEN present ELSE IF changed THEN {a} ELSE {}
  <2> HIDE DEF new, changed
  <2> QED
    OBVIOUS
<1>4. Named(a) = [b \in Peers |-> Named(a)[b]]
  BY DEF Named
<1>5. CASE new
  BY <1>1, <1>2, <1>3, <1>4, <1>5 DEF Accepts
<1>6. CASE ~new
  <2>1. info' = info /\ topology' = topology /\ session' = Named(a)
    BY <1>1, <1>2, <1>4, <1>6
  <2> QED
    BY <1>1, <1>3, <1>6, <2>1 DEF Repeats
<1> QED
  BY <1>1, <1>5, <1>6

LEMMA RequestEffect ==
    ASSUME IInv, Typed, NEW a \in Peers, a \in present, Request(a)
    PROVE  /\ Typed'
           /\ Accepts(a) => Handed(present, Before)
           /\ Repeats(a) =>
                  Handed(IF session[a].dst # Head(up[a]).run THEN {a} ELSE {}, Before)
<1> DEFINE m == Head(up[a])
<1>1. /\ up[a] # <<>> /\ m.type = "publish"
      /\ UNCHANGED <<present, own, know, joins>>
      /\ up' = [up EXCEPT ![a] = Tail(@)]
      /\ Accepts(a) \/ Repeats(a)
  BY RequestCases
<1>2. /\ m.info \in Infos /\ m.run \in 1 .. MaxRuns
      /\ up' \in [Peers -> Seq(Messages)]
  BY <1>1, HeadTyped
<1>3. /\ info' \in [Peers -> Infos \cup {NoInfo}]
      /\ \A b \in Peers \ present : info'[b] = NoInfo
      /\ topology' \in Nat /\ topology <= topology' /\ topology' >= 1
  BY <1>1, <1>2 DEF Accepts, Repeats, Typed, StateTyped
<1>4. /\ Named(a) \in [Peers -> Sessions]
      /\ \A b \in Peers \ present : Named(a)[b] = NewSession
  BY <1>2, PeerSessionTyped DEF Named, Typed, StateTyped
<1>5. /\ session' \in [Peers -> Sessions]
      /\ \A b \in Peers \ present : session'[b] = NewSession
  BY <1>1, <1>4, ClearedTyped, NewSessionTyped DEF Accepts, Repeats
<1>6. StateTyped'
  BY <1>1, <1>3, <1>5 DEF Typed, StateTyped
<1>7. Sendable(Before, topology')
  BY <1>3, <1>5, BeforeSendable
<1>8. ASSUME NEW P \in SUBSET Peers, SendUpdates(P, Before)
      PROVE  Typed' /\ Handed(P, Before)
  <2>1. Handed(P, Before)
    BY <1>3, <1>7, <1>8, SendUpdatesEffect DEF Handed
  <2> QED
    BY <1>2, <1>6, <2>1, SentTyped DEF Handed
<1>9. present \in SUBSET Peers
  BY DEF IInv
<1> QED
  BY <1>1, <1>8, <1>9 DEF Accepts, Repeats

\* From what handleResponse sends what had to wait.
AfterAnswer(a, tx) ==
    [sync |-> [sync EXCEPT ![a].inFlight = FALSE],
     out  |-> [out EXCEPT ![a] = @ \ {tx}],
     down |-> down]

LEMMA ResponseEffect ==
    ASSUME IInv, Typed, NEW a \in Peers, a \in present, Response(a)
    PROVE  /\ Typed'
           /\ \E tx \in Answered(a) :
                 /\ session' = [session EXCEPT
                        ![a] = Committed(WithPeerSession(@, Head(up[a]).run), tx)]
                 /\ out[a] = {tx} /\ AfterAnswer(a, tx).out[a] = {}
                 /\ Handed(IF Waiting(a) THEN {a} ELSE {}, AfterAnswer(a, tx))
<1>1. PICK tx \in Answered(a) :
          /\ session' = [session EXCEPT
                 ![a] = Committed(WithPeerSession(@, Head(up[a]).run), tx)]
          /\ up' = [up EXCEPT ![a] = Tail(@)]
          /\ UNCHANGED <<present, info, topology, own, know, joins>>
          /\ SendUpdates(IF Waiting(a) THEN {a} ELSE {}, AfterAnswer(a, tx))
  BY DEF Response, AfterAnswer, clientVars
<1>2. up[a] # <<>> /\ tx \in out[a]
  BY <1>1 DEF Response, Answered
<1>3. /\ Head(up[a]).run \in 1 .. MaxRuns /\ tx \in Updates
      /\ up' \in [Peers -> Seq(Messages)]
  BY <1>1, <1>2, HeadTyped DEF Typed, FramesTyped
<1>4. session' \in [Peers -> Sessions]
  <2>1. session[a] \in Sessions
    BY DEF Typed, StateTyped
  <2>2. Committed(WithPeerSession(session[a], Head(up[a]).run), tx) \in Sessions
    BY <1>3, <2>1, PeerSessionTyped, CommittedTyped
  <2> QED
    BY <1>1, <2>2 DEF Typed, StateTyped
<1>5. StateTyped'
  BY <1>1, <1>4 DEF Typed, StateTyped
<1>6. topology' \in Nat /\ topology <= topology' /\ info' \in [Peers -> Infos \cup {NoInfo}]
  BY <1>1 DEF Typed, StateTyped
<1> DEFINE io == AfterAnswer(a, tx)
<1>7. out[a] = {tx} /\ io.out[a] = {}
  BY <1>2 DEF IInv, Agree, AfterAnswer
<1>8. Sendable(io, topology')
  <2>1. /\ io.sync \in [Peers -> SyncStates] /\ io.down = down
        /\ \A b \in Peers \ {a} : io.sync[b] = sync[b] /\ io.out[b] = out[b]
    <3>1. sync \in [Peers -> SyncStates] /\ DOMAIN out = Peers
      BY DEF IInv, Agree
    <3>2. [sync EXCEPT ![a].inFlight = FALSE] \in [Peers -> SyncStates]
      BY <3>1 DEF SyncStates
    <3> QED
      BY <3>1, <3>2 DEF AfterAnswer
  <2>2. Sendable(Before, topology')
    BY <1>4, <1>6, BeforeSendable
  <2> HIDE DEF io
  <2>3. CanBuild(io)
    BY <1>7, <2>1, <2>2 DEF Sendable, CanBuild, Before
  <2> QED
    BY <1>7, <2>1, <2>2, <2>3 DEF Sendable, Before
<1>9. Handed(IF Waiting(a) THEN {a} ELSE {}, io)
  <2> DEFINE P == IF Waiting(a) THEN {a} ELSE {}
  <2>1. P \in SUBSET Peers /\ SendUpdates(P, io)
    BY <1>1
  <2> HIDE DEF P, io
  <2>2. Handed(P, io)
    BY <1>6, <1>8, <2>1, SendUpdatesEffect DEF Handed
  <2> QED
    BY <2>2 DEF P
<1>10. Typed'
  BY <1>3, <1>5, <1>9, SentTyped DEF Handed
<1> QED
  BY <1>1, <1>7, <1>9, <1>10

\* From what the maintenance callback sends.
GivingUp == {a \in Peers : GivenUp(a)}
AfterGivingUp ==
    [sync |-> [a \in Peers |-> IF a \in GivingUp THEN [Idle EXCEPT !.full = TRUE]
                               ELSE sync[a]],
     out  |-> [a \in Peers |-> IF sync[a].overdue THEN {} ELSE out[a]],
     down |-> down]

LEMMA TickEffect ==
    ASSUME IInv, Typed, NEW S \in SUBSET Peers, Tick(S)
    PROVE  Typed' /\ Handed(GivingUp \cup S, AfterGivingUp)
<1> DEFINE P == GivingUp \cup S
           io == AfterGivingUp
<1>1. /\ UNCHANGED <<present, info, topology, session, up, own, know, joins>>
      /\ P \in SUBSET Peers /\ SendUpdates(P, io)
  BY DEF Tick, AfterGivingUp, GivingUp, clientVars
<1>2. /\ topology' \in Nat /\ topology <= topology'
      /\ info' \in [Peers -> Infos \cup {NoInfo}] /\ session' \in [Peers -> Sessions]
  BY <1>1 DEF Typed, StateTyped
<1>3. Sendable(Before, topology')
  BY <1>2, BeforeSendable
<1>4. io.sync \in [Peers -> SyncStates] /\ io.down = down
  BY DEF AfterGivingUp, IInv, Agree, Idle, SyncStates
<1>5. ASSUME NEW a \in Peers
      PROVE  io.out[a] \subseteq out[a] /\ (io.sync[a].inFlight \/ io.out[a] = {})
  <2>1. CASE a \in GivingUp
    BY <2>1 DEF AfterGivingUp, GivingUp, GivenUp
  <2>2. CASE a \notin GivingUp
    <3>1. io.sync[a] = sync[a] /\ io.out[a] \subseteq out[a]
      BY <2>2 DEF AfterGivingUp
    <3> QED
      BY <3>1 DEF IInv, Agree
  <2> QED
    BY <2>1, <2>2
<1> HIDE DEF io, P
<1>6. Sendable(io, topology')
  <2>1. CanBuild(io)
    BY <1>3, <1>4, <1>5 DEF Sendable, CanBuild, Before
  <2> QED
    BY <1>3, <1>5, <2>1 DEF Sendable, Before
<1>7. Handed(P, io)
  BY <1>1, <1>2, <1>6, SendUpdatesEffect DEF Handed
<1>8. StateTyped' /\ up' \in [Peers -> Seq(Messages)]
  BY <1>1 DEF Typed, StateTyped, FramesTyped
<1>9. Typed'
  BY <1>7, <1>8, SentTyped DEF Handed
<1> QED
  BY <1>7, <1>9 DEF io, P

LEMMA PublishEffect ==
    ASSUME Typed, NEW a \in Peers, NEW v \in 1 .. MaxVersion, Publish(a, v)
    PROVE  /\ Typed'
           /\ a \in present /\ own' = [own EXCEPT ![a].ver = v] /\ v >= own[a].ver
           /\ own'[a] \in Infos /\ own'[a].run = own[a].run /\ own'[a].ver = v
           /\ \A i \in DOMAIN up[a] : up[a][i].type # "publish"
           /\ up' = [up EXCEPT ![a] = Append(@,
                  [type |-> "publish", id |-> 0, run |-> own[a].run, info |-> own'[a]])]
           /\ UNCHANGED <<present, info, topology, session, sync, out, down, know, joins>>
<1>1. /\ a \in present /\ own' = [own EXCEPT ![a].ver = v]
      /\ v \in {own[a].ver, own[a].ver + 1}
      /\ \A i \in DOMAIN up[a] : up[a][i].type # "publish"
      /\ up' = [up EXCEPT ![a] = Append(@,
             [type |-> "publish", id |-> 0, run |-> own[a].run, info |-> own'[a]])]
      /\ UNCHANGED <<present, info, topology, session, sync, out, down, know, joins>>
  BY DEF Publish, serverVars
<1>2. own[a] \in Infos /\ own \in [Peers -> Infos]
  BY DEF Typed, StateTyped
<1>3. /\ own' \in [Peers -> Infos] /\ own'[a].run = own[a].run /\ own'[a].ver = v
      /\ v >= own[a].ver
  BY <1>1, <1>2 DEF Infos
<1> DEFINE m == [type |-> "publish", id |-> 0, run |-> own[a].run, info |-> own'[a]]
<1>4. m \in Messages
  BY <1>2, <1>3 DEF Messages, Infos
<1> HIDE DEF m
<1>5. up' \in [Peers -> Seq(Messages)]
  BY <1>1, <1>4 DEF Typed, FramesTyped, m
<1>6. Typed'
  BY <1>1, <1>3, <1>5 DEF Typed, StateTyped, FramesTyped
<1> QED
  BY <1>1, <1>3, <1>6

LEMMA LearnEffect ==
    ASSUME Typed, NEW a \in Peers, Learn(a)
    PROVE  /\ Typed'
           /\ down[a] # <<>> /\ down' = [down EXCEPT ![a] = Tail(@)]
           /\ know' = [know EXCEPT ![a] = [x \in Peers |->
                  IF Head(down[a]).infos[x] = NoInfo THEN know[a][x]
                  ELSE Head(down[a]).infos[x]]]
           /\ up' = [up EXCEPT ![a] = Append(@,
                  [type |-> "answer", id |-> Head(down[a]).id, run |-> own[a].run,
                   info |-> NoInfo])]
           /\ UNCHANGED <<present, info, topology, session, sync, out, own, joins>>
<1>1. /\ down[a] # <<>> /\ down' = [down EXCEPT ![a] = Tail(@)]
      /\ know' = [know EXCEPT ![a] = [x \in Peers |->
             IF Head(down[a]).infos[x] = NoInfo THEN know[a][x]
             ELSE Head(down[a]).infos[x]]]
      /\ up' = [up EXCEPT ![a] = Append(@,
             [type |-> "answer", id |-> Head(down[a]).id, run |-> own[a].run,
              info |-> NoInfo])]
      /\ UNCHANGED <<present, info, topology, session, sync, out, own, joins>>
  BY DEF Learn, serverVars
<1>2. down[a] \in Seq(Updates) /\ own[a] \in Infos /\ know[a] \in Told
  BY DEF Typed, FramesTyped, StateTyped
<1>3. Head(down[a]) \in Updates /\ Tail(down[a]) \in Seq(Updates)
  BY <1>1, <1>2
<1>4. /\ Head(down[a]).infos \in Told /\ Head(down[a]).id \in Nat
      /\ own[a].run \in 1 .. MaxRuns
  BY <1>2, <1>3 DEF Updates, Infos
<1>5. know' \in [Peers -> Told]
  <2>1. [x \in Peers |-> IF Head(down[a]).infos[x] = NoInfo THEN know[a][x]
                         ELSE Head(down[a]).infos[x]] \in Told
    BY <1>2, <1>4 DEF Told
  <2> QED
    BY <1>1, <2>1 DEF Typed, StateTyped
<1> DEFINE m == [type |-> "answer", id |-> Head(down[a]).id, run |-> own[a].run,
                 info |-> NoInfo]
<1>6. m \in Messages
  BY <1>4 DEF Messages
<1> HIDE DEF m
<1>7. up' \in [Peers -> Seq(Messages)] /\ down' \in [Peers -> Seq(Updates)]
  BY <1>1, <1>3, <1>6 DEF Typed, FramesTyped, m
<1>8. Typed'
  BY <1>1, <1>5, <1>7 DEF Typed, StateTyped, FramesTyped
<1> QED
  BY <1>1, <1>8

LEMMA IgnoreEffect ==
    ASSUME Typed, NEW a \in Peers, Ignore(a)
    PROVE  /\ Typed'
           /\ down[a] # <<>> /\ down' = [down EXCEPT ![a] = Tail(@)]
           /\ UNCHANGED <<present, info, topology, session, sync, out, up, own, know, joins>>
<1>1. /\ down[a] # <<>> /\ down' = [down EXCEPT ![a] = Tail(@)]
      /\ UNCHANGED <<present, info, topology, session, sync, out, up, own, know, joins>>
  BY DEF Ignore, serverVars, clientVars
<1>2. Tail(down[a]) \in Seq(Updates)
  BY <1>1 DEF Typed, FramesTyped
<1> QED
  BY <1>1, <1>2 DEF Typed, StateTyped, FramesTyped

LEMMA ElapseEffect ==
    ASSUME Typed, NEW a \in Peers, Elapse(a)
    PROVE  /\ Typed'
           /\ sync' = [sync EXCEPT ![a].overdue = TRUE]
           /\ UNCHANGED <<present, info, topology, session, out, down, up, own, know, joins>>
BY DEF Elapse, clientVars, Typed, StateTyped, FramesTyped

LEMMA TypedStep == IInv /\ Silent /\ Typed /\ [Next]_vars => Typed'
<1> SUFFICES ASSUME IInv, Silent, Typed, [Next]_vars
             PROVE  Typed'
  OBVIOUS
<1>1. ASSUME NEW a \in Peers, NEW i \in Instances(a), Join(a, i) \/ Reconnect(a, i)
      PROVE  Typed'
  BY <1>1, JoinEffect, ReconnectEffect
<1>2. ASSUME NEW a \in Peers, Leave(a) \/ LateResponse(a)
      PROVE  Typed'
  BY <1>2, LeaveEffect DEF LateResponse
<1>3. ASSUME NEW a \in Peers, Request(a) \/ Response(a)
      PROVE  Typed'
  <2>1. a \in present
    BY <1>3 DEF Request, Response, Silent
  <2> QED
    BY <1>3, <2>1, RequestEffect, ResponseEffect
<1>4. ASSUME NEW a \in Peers, NEW v \in 1 .. MaxVersion, Publish(a, v)
      PROVE  Typed'
  BY <1>4, PublishEffect
<1>5. ASSUME NEW a \in Peers, Learn(a) \/ Ignore(a) \/ Elapse(a)
      PROVE  Typed'
  BY <1>5, LearnEffect, IgnoreEffect, ElapseEffect
<1>6. ASSUME NEW S \in SUBSET Peers, Tick(S)
      PROVE  Typed'
  BY <1>6, TickEffect
<1>7. CASE UNCHANGED vars
  BY <1>7 DEF vars, serverVars, clientVars, Typed, StateTyped, FramesTyped
<1> QED
  BY <1>1, <1>2, <1>3, <1>4, <1>5, <1>6, <1>7 DEF Next, Step

Base == IInv /\ Silent /\ Typed

LEMMA BaseInvariant == Spec => []Base
<1>1. Init => Base
  BY InitInv, InitTyped DEF Base
<1>2. Base /\ [Next]_vars => Base'
  BY StepInv, TypedStep DEF Base
<1> QED
  BY <1>1, <1>2, PTL DEF Spec

-----------------------------------------------------------------------------
(* Topology versions are used up by connections.                           *)

Informed == {a \in Peers : info[a] # NoInfo}

\* A connection that is made pays for three versions: one is used, a present
\* peer keeps one for its first information, or has used it, and one for its end.
Budget ==
    topology + 2 * Cardinality(present) <= 1 + 3 * joins + Cardinality(Informed)

LEMMA Counts ==
    ASSUME Base
    PROVE  /\ IsFiniteSet(present) /\ IsFiniteSet(Informed) /\ Informed \subseteq present
           /\ Cardinality(present) \in Nat /\ Cardinality(Informed) \in Nat
           /\ Cardinality(Informed) <= Cardinality(present)
           /\ topology \in Nat /\ joins \in Nat
<1>1. IsFiniteSet(present)
  BY FinitePeers, FS_Subset DEF Base, IInv
<1>2. Informed \subseteq present
  BY DEF Base, Typed, StateTyped, Informed
<1>3. topology \in Nat /\ joins \in Nat
  BY DEF Base, Typed, StateTyped
<1> QED
  BY <1>1, <1>2, <1>3, FS_Subset, FS_CardinalityType

LEMMA BudgetStep == Base /\ Base' /\ Budget /\ [Next]_vars => Budget'
<1> SUFFICES ASSUME Base, Base', Budget, [Next]_vars
             PROVE  Budget'
  OBVIOUS
<1> DEFINE c == Cardinality(present)
           k == Cardinality(Informed)
<1>1. /\ IsFiniteSet(present) /\ IsFiniteSet(Informed) /\ Informed \subseteq present
      /\ c \in Nat /\ k \in Nat /\ topology \in Nat /\ joins \in Nat
  BY Counts
<1>2. topology + 2 * c <= 1 + 3 * joins + k
  BY DEF Budget
<1> HIDE DEF c, k
<1>3. ASSUME NEW a \in Peers, info' = [info EXCEPT ![a] = NoInfo]
      PROVE  Cardinality(Informed') \in Nat /\ Cardinality(Informed') >= k - 1
  <2>1. Informed' = Informed \ {a}
    BY <1>3 DEF Informed, Base, Typed, StateTyped
  <2>2. Cardinality(Informed \ {a}) = IF a \in Informed THEN k - 1 ELSE k
    BY <1>1, FS_RemoveElement DEF k
  <2>3. Cardinality(Informed \ {a}) \in Nat
    BY <1>1, FS_RemoveElement, FS_CardinalityType
  <2> QED
    BY <1>1, <2>1, <2>2, <2>3
<1>4. ASSUME NEW a \in Peers, NEW i \in Instances(a), Join(a, i)
      PROVE  Budget'
  <2>1. /\ a \notin present /\ present' = present \cup {a} /\ info' = info
        /\ topology' = topology + 1 /\ joins' = joins + 1
    BY <1>4 DEF Join, Connects
  <2>2. Cardinality(present') = c + 1 /\ Cardinality(Informed') = k
    BY <1>1, <2>1, FS_AddElement DEF c, k, Informed
  <2>3. (topology + 1) + 2 * (c + 1) <= 1 + 3 * (joins + 1) + k
    BY <1>1, <1>2
  <2> QED
    BY <2>1, <2>2, <2>3 DEF Budget
<1>5. ASSUME NEW a \in Peers, Leave(a) \/ LateResponse(a)
      PROVE  Budget'
  <2>1. /\ a \in present /\ present' = present \ {a}
        /\ info' = [info EXCEPT ![a] = NoInfo]
        /\ topology' = topology + 1 /\ joins' = joins
    BY <1>5 DEF LateResponse, Leave
  <2>2. Cardinality(present') = c - 1
    BY <1>1, <2>1, FS_RemoveElement DEF c
  <2>3. Cardinality(Informed') \in Nat /\ Cardinality(Informed') >= k - 1
    BY <1>3, <2>1
  <2> DEFINE k1 == Cardinality(Informed')
  <2> HIDE DEF k1
  <2>4. (topology + 1) + 2 * (c - 1) <= 1 + 3 * joins + k1
    BY <1>1, <1>2, <2>3 DEF k1
  <2> QED
    BY <2>1, <2>2, <2>4 DEF Budget, k1
<1>6. ASSUME NEW a \in Peers, NEW i \in Instances(a), Reconnect(a, i)
      PROVE  Budget'
  <2>1. /\ present' = present /\ info' = [info EXCEPT ![a] = NoInfo]
        /\ topology' = topology + 2 /\ joins' = joins + 1
    BY <1>6 DEF Reconnect, Connects
  <2>2. Cardinality(Informed') \in Nat /\ Cardinality(Informed') >= k - 1
    BY <1>3, <2>1
  <2> DEFINE k1 == Cardinality(Informed')
  <2> HIDE DEF k1
  <2>3. (topology + 2) + 2 * c <= 1 + 3 * (joins + 1) + k1
    BY <1>1, <1>2, <2>2 DEF k1
  <2>4. Cardinality(present') = c
    BY <2>1 DEF c
  <2> QED
    BY <2>1, <2>3, <2>4 DEF Budget, k1
<1>7. ASSUME UNCHANGED <<present, info, topology, joins>>
      PROVE  Budget'
  BY <1>7 DEF Budget, Informed
<1>8. ASSUME NEW a \in Peers, Request(a)
      PROVE  Budget'
  <2>1. /\ up[a] # <<>> /\ Head(up[a]).type = "publish"
        /\ present' = present /\ joins' = joins
        /\ Accepts(a) \/ Repeats(a)
    BY <1>8, RequestCases
  <2>2. CASE Repeats(a)
    BY <1>7, <2>1, <2>2 DEF Repeats
  <2>3. CASE Accepts(a)
    <3>1. /\ info' = [info EXCEPT ![a] = Head(up[a]).info]
          /\ topology' = IF info[a] = NoInfo THEN topology + 1 ELSE topology
      BY <2>3 DEF Accepts
    <3>2. Head(up[a]).info # NoInfo
      BY <2>1, HeadTyped, NoInfoApart DEF Base
    <3>3. Informed' = Informed \cup {a}
      BY <3>1, <3>2 DEF Informed, Base, Typed, StateTyped
    <3>4. Cardinality(Informed') = IF info[a] = NoInfo THEN k + 1 ELSE k
      BY <1>1, <3>3, FS_AddElement DEF k, Informed
    <3>5. Cardinality(present') = c
      BY <2>1 DEF c
    <3>6. topology' + 2 * c <= 1 + 3 * joins + Cardinality(Informed')
      <4>1. CASE info[a] = NoInfo
        BY <1>1, <1>2, <3>1, <3>4, <4>1
      <4>2. CASE info[a] # NoInfo
        BY <1>1, <1>2, <3>1, <3>4, <4>2
      <4> QED
        BY <4>1, <4>2
    <3> QED
      BY <2>1, <3>5, <3>6 DEF Budget
  <2> QED
    BY <2>1, <2>2, <2>3
<1>9. ASSUME NEW a \in Peers, \/ Response(a) \/ Elapse(a) \/ Learn(a) \/ Ignore(a)
                              \/ \E v \in 1 .. MaxVersion : Publish(a, v)
      PROVE  UNCHANGED <<present, info, topology, joins>>
  BY <1>9 DEF Response, Elapse, Learn, Ignore, Publish, serverVars, clientVars
<1>10. ASSUME NEW S \in SUBSET Peers, Tick(S)
       PROVE  UNCHANGED <<present, info, topology, joins>>
  BY <1>10 DEF Tick, clientVars
<1>11. CASE UNCHANGED vars
  BY <1>7, <1>11 DEF vars, serverVars, clientVars
<1> QED
  BY <1>4, <1>5, <1>6, <1>7, <1>8, <1>9, <1>10, <1>11 DEF Next, Step

LEMMA BudgetInvariant == Spec => [](Base /\ Budget)
<1>1. Init => Budget
  <2> SUFFICES ASSUME Init PROVE Budget
    OBVIOUS
  <2>1. present = {} /\ Informed = {} /\ topology = 1 /\ joins = 0
    BY DEF Init, Informed
  <2>2. Cardinality(present) = 0 /\ Cardinality(Informed) = 0
    BY <2>1, FS_EmptySet
  <2> QED
    BY <2>1, <2>2 DEF Budget
<1>2. Base /\ Base' /\ Budget /\ [Next]_vars => Budget'
  BY BudgetStep
<1> QED
  BY <1>1, <1>2, BaseInvariant, PTL DEF Spec

\* The server's state is consistent in every reachable state: the types, with
\* the bound on topology versions, and one transaction at a time.
THEOREM StaysConsistent == Spec => []Consistent
<1>1. Base /\ Budget => TypeOK
  <2> SUFFICES ASSUME Base, Budget PROVE TypeOK
    OBVIOUS
  <2>1. topology \in 1 .. (3 * MaxJoins + 1)
    <3> DEFINE c == Cardinality(present)
               k == Cardinality(Informed)
    <3>1. c \in Nat /\ k \in Nat /\ k <= c /\ topology \in Nat
      BY Counts
    <3>2. topology + 2 * c <= 1 + 3 * joins + k
      BY DEF Budget
    <3>3. joins \in Nat /\ joins <= MaxJoins /\ MaxJoins \in Nat /\ topology >= 1
      BY BoundFacts DEF Base, Typed, StateTyped
    <3> HIDE DEF c, k
    <3> QED
      BY <3>1, <3>2, <3>3
  <2>2. ASSUME NEW a \in Peers, NEW tx \in out[a]
        PROVE  tx.infos \in Told /\ tx.topology \in 0 .. topology
    <3>1. tx \in Updates /\ tx.topology <= topology /\ topology \in Nat
      BY DEF Base, Typed, FramesTyped, StateTyped
    <3> QED
      BY <3>1 DEF Updates
  <2> QED
    BY <2>1, <2>2 DEF TypeOK, Base, IInv, Agree, Typed, StateTyped
<1> QED
  BY <1>1, BudgetInvariant, OneAtATime, PTL DEF Consistent

-----------------------------------------------------------------------------
(* What a peer was sent.                                                   *)

LEMMA HeadElement ==
    ASSUME NEW S, NEW s \in Seq(S), s # <<>>
    PROVE  1 \in DOMAIN s /\ Head(s) = s[1] /\ Head(s) \in S /\ Tail(s) \in Seq(S)
OBVIOUS

LEMMA TailElement ==
    ASSUME NEW S, NEW s \in Seq(S), s # <<>>, NEW i \in DOMAIN Tail(s)
    PROVE  i \in Nat /\ i + 1 \in DOMAIN s /\ i + 1 > 1 /\ Tail(s)[i] = s[i + 1]
OBVIOUS

LEMMA AppendElement ==
    ASSUME NEW S, NEW s \in Seq(S), NEW e \in S, NEW i \in DOMAIN Append(s, e)
    PROVE  \/ i \in DOMAIN s /\ Append(s, e)[i] = s[i]
           \/ i = Len(s) + 1 /\ Append(s, e)[i] = e
OBVIOUS

\* A peer's session is the one of its client's instance, or is unknown and then
\* nothing is saved in it; and no version is saved that was not given yet.
OwnSession(a) ==
    /\ session[a].dst \in {0, own[a].run}
    /\ session[a].dst = 0 => session[a] = NewSession
    /\ session[a].topology <= topology
    /\ \A i \in DOMAIN up[a] : up[a][i].run = own[a].run

OwnSessions == \A a \in Peers : OwnSession(a)

LEMMA OwnSessionsStep == Base /\ Base' /\ OwnSessions /\ [Next]_vars => OwnSessions'
<1> SUFFICES ASSUME Base, Base', OwnSessions, [Next]_vars, NEW b \in Peers
             PROVE  OwnSession(b)'
  BY DEF OwnSessions
<1>1. /\ session[b] \in Sessions /\ session[b].topology \in Nat
      /\ session'[b] \in Sessions /\ session'[b].topology \in Nat
      /\ topology \in Nat /\ topology' \in Nat
      /\ up[b] \in Seq(Messages) /\ OwnSession(b)
  BY DEF Base, Typed, StateTyped, FramesTyped, Sessions, OwnSessions
<1>2. ASSUME own'[b] = own[b], up'[b] = up[b], session'[b] = session[b],
             topology <= topology'
      PROVE  OwnSession(b)'
  BY <1>1, <1>2 DEF OwnSession
<1>3. ASSUME session'[b] = NewSession, up'[b] = <<>>
      PROVE  OwnSession(b)'
  BY <1>1, <1>3 DEF OwnSession, NewSession
<1>4. ASSUME NEW a \in Peers, own'[b] = own[b], up'[b] = up[b],
             session'[b] = Unseen(session[b], a)
      PROVE  OwnSession(b)'
  <2>1. /\ session'[b].dst = session[b].dst /\ session'[b].topology = 0
        /\ session[b] = NewSession => session'[b] = NewSession
    BY <1>1, <1>4, UnseenTyped
  <2> QED
    BY <1>1, <1>4, <2>1 DEF OwnSession
<1>5. ASSUME NEW a \in Peers, NEW i \in Instances(a), Join(a, i)
      PROVE  OwnSession(b)'
  <2>1. /\ a \notin present /\ own' = [own EXCEPT ![a] = i] /\ topology' = topology + 1
        /\ session' = session /\ up' = up
    BY <1>5 DEF Join, Connects
  <2>2. CASE b = a
    <3>1. session[a] = NewSession /\ up[a] = <<>>
      BY <2>1 DEF Base, Typed, StateTyped, Silent
    <3> QED
      BY <1>3, <2>1, <2>2, <3>1
  <2>3. CASE b # a
    <3>1. own'[b] = own[b] /\ topology <= topology'
      BY <1>1, <2>1, <2>3 DEF Base, Typed, StateTyped
    <3> QED
      BY <1>2, <2>1, <3>1
  <2> QED
    BY <2>2, <2>3
<1>6. ASSUME NEW a \in Peers, \/ Leave(a) \/ LateResponse(a)
                              \/ \E i \in Instances(a) : Reconnect(a, i)
      PROVE  OwnSession(b)'
  <2>1. /\ session' = Forgotten(a) /\ up' = [up EXCEPT ![a] = <<>>]
        /\ own' = own \/ \E i : own' = [own EXCEPT ![a] = i]
    BY <1>6 DEF LateResponse, Leave, Reconnect, Connects
  <2>2. CASE b = a
    <3>1. session'[a] = NewSession /\ up'[a] = <<>>
      BY <2>1, ForgottenTyped DEF Base, Typed, FramesTyped
    <3> QED
      BY <1>3, <2>2, <3>1
  <2>3. CASE b # a
    <3>1. own'[b] = own[b] /\ up'[b] = up[b] /\ session'[b] = Unseen(session[b], a)
      BY <2>1, <2>3, ForgottenTyped DEF Base, Typed, StateTyped, FramesTyped
    <3> QED
      BY <1>4, <3>1
  <2> QED
    BY <2>2, <2>3
<1>7. ASSUME NEW a \in Peers, up[a] # <<>>, up' = [up EXCEPT ![a] = Tail(@)], own' = own
      PROVE  \A i \in DOMAIN up'[b] : up'[b][i].run = own'[b].run
  <2>1. CASE b = a
    <3>1. up[b] # <<>> /\ up'[b] = Tail(up[b]) /\ own'[b] = own[b]
      BY <1>7, <2>1 DEF Base, Typed, FramesTyped
    <3>2. ASSUME NEW i \in DOMAIN Tail(up[b])
          PROVE  Tail(up[b])[i].run = own[b].run
      BY <1>1, <3>1, TailElement DEF OwnSession
    <3> QED
      BY <3>1, <3>2
  <2>2. CASE b # a
    BY <1>1, <1>7, <2>2 DEF OwnSession, Base, Typed, FramesTyped
  <2> QED
    BY <2>1, <2>2
<1>8. ASSUME NEW a \in Peers, up[a] # <<>>
      PROVE  Head(up[a]).run = own[a].run /\ Head(up[a]).run >= 1
  <2>1. up[a] \in Seq(Messages) /\ OwnSession(a) /\ own[a] \in Infos
    BY DEF Base, Typed, StateTyped, FramesTyped, OwnSessions
  <2>2. 1 \in DOMAIN up[a] /\ Head(up[a]) = up[a][1]
    BY <1>8, <2>1, HeadElement
  <2> QED
    BY <2>1, <2>2 DEF OwnSession, Infos
<1>9. ASSUME NEW a \in Peers, up[a] # <<>>,
             NEW s, s = WithPeerSession(session[a], Head(up[a]).run)
      PROVE  /\ s \in Sessions /\ s.dst = own[a].run /\ s.dst # 0
             /\ s.topology <= topology /\ s.topology \in Nat
  <2>1. Head(up[a]).run \in 1 .. MaxRuns
    BY <1>9, HeadTyped DEF Base
  <2>2. session[a] \in Sessions /\ session[a].topology \in Nat /\ session[a].topology <= topology
    BY DEF Base, Typed, StateTyped, Sessions, OwnSessions, OwnSession
  <2>3. /\ s \in Sessions /\ s.dst = Head(up[a]).run
        /\ s.topology = session[a].topology \/ s.topology = 0
    BY <1>9, <2>1, <2>2, PeerSessionTyped
  <2> QED
    BY <1>1, <1>8, <1>9, <2>2, <2>3
<1>10. ASSUME NEW a \in Peers, Request(a)
       PROVE  OwnSession(b)'
  <2>1. /\ up[a] # <<>> /\ own' = own /\ up' = [up EXCEPT ![a] = Tail(@)]
        /\ Accepts(a) \/ Repeats(a)
    BY <1>10, RequestCases
  <2>2. /\ topology <= topology'
        /\ session'[b] = Named(a)[b] \/ session'[b] = Cleared(Named(a)[b], a)
    BY <1>1, <2>1 DEF Accepts, Repeats
  <2>3. /\ Named(a)[b] \in Sessions /\ Named(a)[b].dst \in {0, own[b].run}
        /\ Named(a)[b].dst = 0 => Named(a)[b] = NewSession
        /\ Named(a)[b].topology <= topology /\ Named(a)[b].topology \in Nat
    <3>1. CASE b = a
      <4>1. Named(a)[b] = WithPeerSession(session[a], Head(up[a]).run)
        BY <3>1 DEF Named
      <4> QED
        BY <1>9, <2>1, <3>1, <4>1
    <3>2. CASE b # a
      BY <1>1, <3>2 DEF Named, OwnSession
    <3> QED
      BY <3>1, <3>2
  <2>4. /\ session'[b].dst = Named(a)[b].dst
        /\ session'[b].topology = Named(a)[b].topology
        /\ Named(a)[b] = NewSession => session'[b] = NewSession
    BY <2>2, <2>3, ClearedTyped
  <2>5. session'[b].topology <= topology'
    BY <1>1, <2>2, <2>3, <2>4
  <2> QED
    BY <1>7, <2>1, <2>3, <2>4, <2>5 DEF OwnSession
<1>11. ASSUME NEW a \in Peers, a \in present, Response(a)
       PROVE  OwnSession(b)'
  <2>1. up[a] # <<>> /\ UNCHANGED <<own, topology>> /\ up' = [up EXCEPT ![a] = Tail(@)]
    BY <1>11 DEF Response, clientVars
  <2>2. PICK tx \in out[a] : session' = [session EXCEPT
            ![a] = Committed(WithPeerSession(@, Head(up[a]).run), tx)]
    BY <1>11 DEF Response, Answered
  <2>3. /\ session'[b].dst \in {0, own[b].run} /\ session'[b].topology <= topology
        /\ session'[b].dst = 0 => session'[b] = NewSession
    <3>1. CASE b = a
      <4> DEFINE s == WithPeerSession(session[a], Head(up[a]).run)
      <4>1. /\ s \in Sessions /\ s.dst = own[a].run /\ s.dst # 0
            /\ s.topology <= topology /\ s.topology \in Nat
        BY <1>9, <2>1
      <4>2. session'[b] = Committed(s, tx)
        BY <2>2, <3>1 DEF Base, Typed, StateTyped
      <4>3. tx \in Updates /\ tx.topology <= topology
        BY DEF Base, Typed, FramesTyped
      <4> HIDE DEF s
      <4>4. Larger(s.topology, tx.topology) <= topology
        BY <4>1, <4>3 DEF Larger
      <4> QED
        BY <3>1, <4>1, <4>2, <4>3, <4>4, CommittedTyped
    <3>2. CASE b # a
      BY <1>1, <2>2, <3>2 DEF OwnSession, Base, Typed, StateTyped
    <3> QED
      BY <3>1, <3>2
  <2> QED
    BY <1>7, <2>1, <2>3 DEF OwnSession
<1>12. ASSUME NEW a \in Peers, NEW m \in Messages, m.run = own[a].run,
              up' = [up EXCEPT ![a] = Append(@, m)],
              own'[b].run = own[b].run, UNCHANGED <<session, topology>>
       PROVE  OwnSession(b)'
  <2>1. CASE b = a
    <3>1. up'[b] = Append(up[b], m)
      BY <1>12, <2>1 DEF Base, Typed, FramesTyped
    <3>2. ASSUME NEW i \in DOMAIN Append(up[b], m)
          PROVE  Append(up[b], m)[i].run = own[b].run
      <4>1. \/ i \in DOMAIN up[b] /\ Append(up[b], m)[i] = up[b][i]
            \/ Append(up[b], m)[i] = m
        BY <1>1, AppendElement
      <4> QED
        BY <1>1, <1>12, <2>1, <4>1 DEF OwnSession
    <3> QED
      BY <1>1, <1>12, <3>1, <3>2 DEF OwnSession
  <2>2. CASE b # a
    <3>1. up'[b] = up[b]
      BY <1>12, <2>2 DEF Base, Typed, FramesTyped
    <3> QED
      BY <1>1, <1>12, <3>1 DEF OwnSession
  <2> QED
    BY <2>1, <2>2
<1>13. ASSUME NEW a \in Peers, NEW v \in 1 .. MaxVersion, Publish(a, v)
       PROVE  OwnSession(b)'
  <2> DEFINE m == [type |-> "publish", id |-> 0, run |-> own[a].run, info |-> own'[a]]
  <2>1. /\ own' = [own EXCEPT ![a].ver = v] /\ own'[a].run = own[a].run
        /\ own'[a] \in Infos /\ up' = [up EXCEPT ![a] = Append(@, m)]
        /\ UNCHANGED <<session, topology>>
    BY <1>13, PublishEffect DEF Base
  <2>2. own'[b].run = own[b].run
    BY <2>1 DEF Base, Typed, StateTyped
  <2>3. m \in Messages /\ m.run = own[a].run
    BY <2>1 DEF Messages, Infos
  <2> HIDE DEF m
  <2> QED
    BY <1>12, <2>1, <2>2, <2>3
<1>14. ASSUME NEW a \in Peers, Learn(a)
       PROVE  OwnSession(b)'
  <2> DEFINE m == [type |-> "answer", id |-> Head(down[a]).id, run |-> own[a].run,
                   info |-> NoInfo]
  <2>1. /\ down[a] # <<>> /\ up' = [up EXCEPT ![a] = Append(@, m)]
        /\ UNCHANGED <<own, session, topology>>
    BY <1>14, LearnEffect DEF Base
  <2>2. down[a] \in Seq(Updates) /\ own[a] \in Infos
    BY DEF Base, Typed, StateTyped, FramesTyped
  <2>3. Head(down[a]) \in Updates
    BY <2>1, <2>2
  <2>4. m \in Messages /\ m.run = own[a].run
    BY <2>2, <2>3 DEF Messages, Updates, Infos
  <2> HIDE DEF m
  <2> QED
    BY <1>12, <2>1, <2>4
<1>15. ASSUME UNCHANGED <<own, up, session, topology>>
       PROVE  OwnSession(b)'
  BY <1>1, <1>2, <1>15
<1>16. ASSUME NEW a \in Peers, Ignore(a) \/ Elapse(a)
       PROVE  UNCHANGED <<own, up, session, topology>>
  BY <1>16 DEF Ignore, Elapse, serverVars, clientVars
<1>17. ASSUME NEW S \in SUBSET Peers, Tick(S)
       PROVE  UNCHANGED <<own, up, session, topology>>
  BY <1>17 DEF Tick, clientVars
<1>18. ASSUME NEW a \in Peers, Response(a)
       PROVE  a \in present
  BY <1>18 DEF Response, Base, Silent
<1>19. CASE UNCHANGED vars
  BY <1>15, <1>19 DEF vars, serverVars, clientVars
<1> QED
  BY <1>5, <1>6, <1>10, <1>11, <1>13, <1>14, <1>15, <1>16, <1>17, <1>18, <1>19
     DEF Next, Step

\* What is saved in a session of a covers everything the server has for a.
Covers(s, a) ==
    /\ s.topology = topology
    /\ \A x \in present \ {a} : info[x] # NoInfo => s.seen[x] >= info[x].ver

\* a was sent everything, or will be: by the transaction in flight if nothing
\* waits for its end.
Settled(a) ==
    /\ ~sync[a].inFlight => Covers(session[a], a)
    /\ ~sync[a].dirty /\ ~sync[a].full =>
           \A tx \in out[a] : Covers(Committed(session[a], tx), a)

AllSettled == \A a \in present : Settled(a)

\* An update, once it is acknowledged, leaves nothing to be sent.
LEMMA UpdateCovers ==
    ASSUME Base', NEW a \in Peers, NEW tx \in Updates, Carries(tx, a, topology'),
           session'[a].topology <= topology'
    PROVE  Covers(Committed(session[a], tx), a)'
<1> DEFINE s == session'[a]
           t == topology'
<1>1. s \in Sessions /\ s.topology \in Nat /\ t \in Nat /\ s.topology <= t
  BY DEF Base, Typed, StateTyped, Sessions
<1>2. tx.topology = IF s.topology = t THEN 0 ELSE t
  BY DEF Carries
<1>3. ASSUME NEW x \in present' \ {a}, info'[x] # NoInfo
      PROVE  Committed(s, tx).seen[x] >= info'[x].ver
  <2>1. x \in Peers
    BY DEF Base, IInv
  <2>2. s.seen[x] \in Nat /\ info'[x].ver \in Nat
    BY <1>1, <1>3, <2>1 DEF Base, Typed, StateTyped, Sessions, Infos
  <2>3. \/ tx.infos[x] = info'[x]
        \/ tx.infos[x] = NoInfo /\ ~(info'[x].ver > s.seen[x])
    BY <1>3, <2>1 DEF Carries
  <2>4. Committed(s, tx).seen[x] = IF tx.infos[x] = NoInfo THEN s.seen[x]
                                   ELSE Larger(s.seen[x], tx.infos[x].ver)
    BY <1>1, <2>1, CommittedTyped
  <2> HIDE DEF s
  <2> QED
    BY <1>3, <2>2, <2>3, <2>4 DEF Larger
<1>4. Committed(s, tx).topology = Larger(s.topology, tx.topology)
  BY <1>1, CommittedTyped
<1> HIDE DEF s, t
<1>5. Committed(s, tx).topology = t
  BY <1>1, <1>2, <1>4 DEF Larger
<1>6. Committed(s, tx) = Committed(session[a], tx)'
  BY DEF s, Committed, Larger
<1> QED
  BY <1>3, <1>5, <1>6 DEF Covers, t

LEMMA HandedSettles ==
    ASSUME Base', NEW P \in SUBSET Peers, NEW io, Handed(P, io), NEW a \in Peers,
           session'[a].topology <= topology',
           \/ a \in P
           \/ /\ ~io.sync[a].inFlight => Covers(session[a], a)'
              /\ ~io.sync[a].dirty /\ ~io.sync[a].full =>
                     \A tx \in io.out[a] : Covers(Committed(session[a], tx), a)'
    PROVE  Settled(a)'
<1>1. /\ After.sync[a] = sync'[a] /\ After.out[a] = out'[a]
      /\ io.sync[a] \in SyncStates
  BY DEF After, Handed, Sendable, CanBuild
<1>2. CASE GetsUpdate(a, P, topology', io, After)
  <2>1. PICK tx \in Updates : Carries(tx, a, topology') /\ out'[a] = {tx}
    BY <1>1, <1>2 DEF GetsUpdate
  <2>2. sync'[a].inFlight
    BY <1>1, <1>2 DEF GetsUpdate, Sent, Idle
  <2>3. Covers(Committed(session[a], tx), a)'
    BY <2>1, UpdateCovers
  <2> QED
    BY <2>1, <2>2, <2>3 DEF Settled
<1>3. CASE GetsNone(a, P, io, After)
  <2>1. CASE a \in P
    <3>1. sync'[a].inFlight /\ sync'[a].dirty
      BY <1>1, <1>3, <2>1 DEF GetsNone, Marked, SyncStates
    <3> QED
      BY <3>1 DEF Settled
  <2>2. CASE a \notin P
    <3>1. sync'[a] = io.sync[a] /\ out'[a] \subseteq io.out[a]
      BY <1>1, <1>3, <2>2 DEF GetsNone
    <3> QED
      BY <2>2, <3>1 DEF Settled
  <2> QED
    BY <2>1, <2>2
<1> QED
  BY <1>2, <1>3 DEF Handed

\* A session that the server knows under the client's id stays as it is.
LEMMA NamedSame ==
    ASSUME Base, OwnSessions, NEW a \in Peers, up[a] # <<>>
    PROVE  LET s == WithPeerSession(session[a], Head(up[a]).run)
           IN  /\ s \in Sessions /\ s.seen = session[a].seen /\ s.topology = session[a].topology
               /\ session[a].dst = Head(up[a]).run => s = session[a]
<1>1. up[a] \in Seq(Messages) /\ session[a] \in Sessions /\ OwnSession(a)
  BY DEF Base, Typed, StateTyped, FramesTyped, OwnSessions
<1>2. 1 \in DOMAIN up[a] /\ Head(up[a]) = up[a][1]
  BY <1>1, HeadElement
<1>3. Head(up[a]).run = own[a].run /\ Head(up[a]).run \in 1 .. MaxRuns
  BY <1>1, <1>2, HeadTyped DEF OwnSession, Base
<1>4. session[a].dst = Head(up[a]).run \/ session[a] = NewSession
  BY <1>1, <1>3 DEF OwnSession
<1> QED
  BY <1>1, <1>3, <1>4, PeerSessionTyped, NewSessionTyped DEF WithPeerSession, NewSession

LEMMA CommittedSame ==
    ASSUME NEW s \in Sessions, NEW r \in Sessions, NEW tx \in Updates, NEW a \in Peers,
           s.seen = r.seen, s.topology = r.topology, present \subseteq Peers,
           Covers(Committed(s, tx), a)
    PROVE  Covers(Committed(r, tx), a)
<1>1. Committed(s, tx).topology = Committed(r, tx).topology
  BY CommittedTyped
<1>2. \A x \in Peers : Committed(s, tx).seen[x] = Committed(r, tx).seen[x]
  BY CommittedTyped
<1> QED
  BY <1>1, <1>2 DEF Covers

LEMMA SettledStep ==
    Base /\ Base' /\ OwnSessions /\ OwnSessions' /\ AllSettled /\ [Next]_vars => AllSettled'
<1> SUFFICES ASSUME Base, Base', OwnSessions, OwnSessions', AllSettled, [Next]_vars,
                    NEW b \in present'
             PROVE  Settled(b)'
  BY DEF AllSettled
<1>1. /\ b \in Peers /\ session'[b].topology <= topology'
      /\ present \in SUBSET Peers /\ present' \in SUBSET Peers
  BY DEF Base, IInv, OwnSessions, OwnSession
<1>2. ASSUME NEW io, Handed(present', io)
      PROVE  Settled(b)'
  BY <1>1, <1>2, HandedSettles
<1>3. ASSUME NEW a \in Peers, NEW i \in Instances(a), Join(a, i)
      PROVE  Settled(b)'
  BY <1>2, <1>3, JoinEffect DEF Base
<1>4. ASSUME NEW a \in Peers, Leave(a) \/ LateResponse(a)
      PROVE  Settled(b)'
  BY <1>2, <1>4, LeaveEffect DEF Base, LateResponse
<1>5. ASSUME NEW a \in Peers, NEW i \in Instances(a), Reconnect(a, i)
      PROVE  Settled(b)'
  <2>1. present' = present
    BY <1>5 DEF Reconnect
  <2> QED
    BY <1>2, <1>5, <2>1, ReconnectEffect DEF Base
<1>6. ASSUME UNCHANGED <<present, info, topology>>,
             session'[b] = session[b], b \in present
      PROVE  /\ Covers(session[b], b)' <=> Covers(session[b], b)
             /\ \A tx : Covers(Committed(session[b], tx), b)' <=>
                        Covers(Committed(session[b], tx), b)
  BY <1>6 DEF Covers, Committed, Larger
<1>7. ASSUME UNCHANGED <<present, info, topology>>, session'[b] = session[b],
             sync'[b] = sync[b], out'[b] \subseteq out[b]
      PROVE  Settled(b)'
  <2>1. b \in present /\ Settled(b)
    BY <1>7 DEF AllSettled
  <2> QED
    BY <1>6, <1>7, <2>1 DEF Settled
<1>8. ASSUME NEW a \in Peers, Request(a)
      PROVE  Settled(b)'
  <2>1. /\ up[a] # <<>> /\ a \in present /\ present' = present
        /\ Accepts(a) \/ Repeats(a)
    BY <1>8, RequestCases DEF Base, Silent
  <2>2. CASE Accepts(a)
    BY <1>2, <1>8, <2>1, <2>2, RequestEffect DEF Base
  <2>3. CASE Repeats(a)
    <3> DEFINE P == IF session[a].dst # Head(up[a]).run THEN {a} ELSE {}
    <3>1. UNCHANGED <<present, info, topology>> /\ session' = Named(a) /\ P \in SUBSET Peers
      BY <2>1, <2>3 DEF Repeats
    <3>2. Handed(P, Before)
      BY <1>8, <2>1, <2>3, RequestEffect DEF Base
    <3>3. CASE b \in P
      <4> HIDE DEF P
      <4> QED
        BY <1>1, <3>1, <3>2, <3>3, HandedSettles
    <3>4. CASE b \notin P
      <4>1. session'[b] = session[b]
        <5>1. CASE b = a
          <6>1. session[a].dst = Head(up[a]).run
            BY <3>4, <5>1
          <6> QED
            BY <2>1, <3>1, <5>1, <6>1, NamedSame DEF Named
        <5>2. CASE b # a
          BY <1>1, <3>1, <5>2 DEF Named
        <5> QED
          BY <5>1, <5>2
      <4>2. Settled(b) /\ Before.sync[b] = sync[b] /\ Before.out[b] = out[b]
        BY <3>1 DEF AllSettled, Before
      <4> HIDE DEF P
      <4>3. /\ ~Before.sync[b].inFlight => Covers(session[b], b)'
            /\ ~Before.sync[b].dirty /\ ~Before.sync[b].full =>
                  \A tx \in Before.out[b] : Covers(Committed(session[b], tx), b)'
        BY <1>6, <3>1, <4>1, <4>2 DEF Settled
      <4> QED
        BY <1>1, <3>1, <3>2, <4>3, HandedSettles
    <3> QED
      BY <3>3, <3>4
  <2> QED
    BY <2>1, <2>2, <2>3
<1>9. ASSUME NEW a \in Peers, Response(a)
      PROVE  Settled(b)'
  <2>1. /\ a \in present /\ up[a] # <<>> /\ UNCHANGED <<present, info, topology>>
    BY <1>9 DEF Response, Base, Silent, clientVars
  <2> DEFINE s == WithPeerSession(session[a], Head(up[a]).run)
             P == IF Waiting(a) THEN {a} ELSE {}
  <2>2. PICK tx \in Answered(a) :
            /\ session' = [session EXCEPT
                   ![a] = Committed(WithPeerSession(@, Head(up[a]).run), tx)]
            /\ out[a] = {tx} /\ AfterAnswer(a, tx).out[a] = {}
            /\ Handed(IF Waiting(a) THEN {a} ELSE {}, AfterAnswer(a, tx))
    BY <1>9, <2>1, ResponseEffect DEF Base
  <2> DEFINE io == AfterAnswer(a, tx)
  <2>3. Handed(P, io) /\ P \in SUBSET Peers
    BY <2>2
  <2>4. CASE b \in P
    <3> HIDE DEF P, io
    <3> QED
      BY <1>1, <2>3, <2>4, HandedSettles
  <2>5. CASE b = a /\ b \notin P
    <3>1. ~sync[a].dirty /\ ~sync[a].full /\ Settled(a) /\ tx \in out[a] /\ tx \in Updates
      BY <2>1, <2>2, <2>5 DEF Waiting, AllSettled, Base, Typed, FramesTyped
    <3>2. Covers(Committed(session[a], tx), a)
      BY <3>1 DEF Settled
    <3>3. s \in Sessions /\ s.seen = session[a].seen /\ s.topology = session[a].topology
      BY <2>1, NamedSame
    <3>4. session[a] \in Sessions /\ present \subseteq Peers
      BY DEF Base, Typed, StateTyped, IInv
    <3>5. session'[a] = Committed(s, tx)
      BY <2>2 DEF Base, Typed, StateTyped
    <3> HIDE DEF s
    <3>6. Covers(Committed(s, tx), a)
      BY <3>1, <3>2, <3>3, <3>4, CommittedSame
    <3>7. Covers(session[a], a)'
      BY <2>1, <3>5, <3>6 DEF Covers
    <3>8. io.out[b] = {}
      BY <2>2, <2>5
    <3> HIDE DEF P, io
    <3> QED
      BY <1>1, <2>3, <2>5, <3>7, <3>8, HandedSettles
  <2>6. CASE b # a
    <3>1. session'[b] = session[b] /\ io.sync[b] = sync[b] /\ io.out[b] = out[b]
      BY <1>1, <2>2, <2>6 DEF Base, Typed, StateTyped, IInv, Agree, AfterAnswer
    <3>2. Settled(b) /\ b \in present
      BY <2>1 DEF AllSettled
    <3> HIDE DEF P, io
    <3>3. /\ ~io.sync[b].inFlight => Covers(session[b], b)'
          /\ ~io.sync[b].dirty /\ ~io.sync[b].full =>
                \A u \in io.out[b] : Covers(Committed(session[b], u), b)'
      BY <1>6, <2>1, <3>1, <3>2 DEF Settled
    <3> QED
      BY <1>1, <2>3, <3>3, HandedSettles
  <2> QED
    BY <2>4, <2>5, <2>6
<1>10. ASSUME NEW S \in SUBSET Peers, Tick(S)
       PROVE  Settled(b)'
  <2> DEFINE P == GivingUp \cup S
             io == AfterGivingUp
  <2>1. UNCHANGED <<present, info, topology, session>> /\ Handed(P, io) /\ P \in SUBSET Peers
    BY <1>10, TickEffect DEF Tick, Base, GivingUp
  <2>2. CASE b \in P
    <3> HIDE DEF P, io
    <3> QED
      BY <1>1, <2>1, <2>2, HandedSettles
  <2>3. CASE b \notin P
    <3>1. io.sync[b] = sync[b] /\ io.out[b] \subseteq out[b]
      BY <1>1, <2>3 DEF AfterGivingUp
    <3>2. Settled(b) /\ b \in present
      BY <2>1 DEF AllSettled
    <3> HIDE DEF P, io
    <3>3. /\ ~io.sync[b].inFlight => Covers(session[b], b)'
          /\ ~io.sync[b].dirty /\ ~io.sync[b].full =>
                \A u \in io.out[b] : Covers(Committed(session[b], u), b)'
      BY <1>6, <2>1, <3>1, <3>2 DEF Settled
    <3> QED
      BY <1>1, <2>1, <3>3, HandedSettles
  <2> QED
    BY <2>2, <2>3
<1>11. ASSUME NEW a \in Peers, Elapse(a)
       PROVE  Settled(b)'
  <2>1. /\ UNCHANGED <<present, info, topology, session, out>>
        /\ sync' = [sync EXCEPT ![a].overdue = TRUE]
    BY <1>11 DEF Elapse
  <2>2. /\ sync'[b].inFlight = sync[b].inFlight /\ sync'[b].dirty = sync[b].dirty
        /\ sync'[b].full = sync[b].full
    BY <1>1, <2>1 DEF Base, IInv, Agree, SyncStates
  <2>3. Settled(b) /\ b \in present
    BY <2>1 DEF AllSettled
  <2> QED
    BY <1>6, <2>1, <2>2, <2>3 DEF Settled
<1>12. ASSUME NEW a \in Peers, \/ Learn(a) \/ Ignore(a)
                               \/ \E v \in 1 .. MaxVersion : Publish(a, v)
       PROVE  UNCHANGED <<present, info, topology, session, sync, out>>
  BY <1>12 DEF Learn, Ignore, Publish, serverVars
<1>13. CASE UNCHANGED vars
  BY <1>7, <1>13 DEF vars, serverVars
<1>14. ASSUME UNCHANGED <<present, info, topology, session, sync, out>>
       PROVE  Settled(b)'
  BY <1>7, <1>14
<1> QED
  BY <1>3, <1>4, <1>5, <1>8, <1>9, <1>10, <1>11, <1>12, <1>13, <1>14 DEF Next, Step

LEMMA SettledInvariant == Spec => [](Base /\ OwnSessions /\ AllSettled)
<1>1. Init => OwnSessions /\ AllSettled
  BY DEF Init, OwnSessions, OwnSession, AllSettled, NewSession
<1>2. Base /\ Base' /\ OwnSessions /\ AllSettled /\ [Next]_vars => OwnSessions' /\ AllSettled'
  BY OwnSessionsStep, SettledStep
<1> QED
  BY <1>1, <1>2, BaseInvariant, PTL DEF Spec

\* Whatever peers join, leave, restart, answer late or not at all: a peer that
\* nothing is in flight to was sent everything that the server has.
THEOREM QuietMeansSent == Spec => []QuiescentMeansSent
<1>1. AllSettled => QuiescentMeansSent
  BY DEF AllSettled, Settled, Covers, QuiescentMeansSent
<1> QED
  BY <1>1, SettledInvariant, PTL

-----------------------------------------------------------------------------
(* What a client knows, as long as no client restarts.                     *)

\* Information of one peer at most at version n, at least at version n, and in
\* the order of its versions.
UpTo(i, n)     == i # NoInfo => i.ver <= n
AtLeast(i, n)  == i # NoInfo /\ i.ver >= n
NotAfter(i, j) == i # NoInfo /\ j # NoInfo => i.ver <= j.ver

\* The updates d tell about x in the order of its versions, after k, up to n.
InOrder(k, d, x, n) ==
    /\ UpTo(k, n)
    /\ \A i \in DOMAIN d : UpTo(d[i].infos[x], n) /\ NotAfter(k, d[i].infos[x])
    /\ \A i, j \in DOMAIN d : i < j => NotAfter(d[i].infos[x], d[j].infos[x])

\* Updates under the transaction's id are the transaction's, and whoever
\* answered it, of the messages u, knows what it carried of x.
Matched(tx, x, d, u, k) ==
    /\ \A i \in DOMAIN d : d[i].id = tx.id => d[i].infos = tx.infos
    /\ \A i \in DOMAIN u :
          u[i].type = "answer" /\ u[i].id = tx.id /\ tx.infos[x] # NoInfo =>
              AtLeast(k, tx.infos[x].ver)

LEMMA VerNat ==
    /\ \A i \in Infos : i.ver \in Nat /\ i.ver >= 1
    /\ \A tx \in Updates : \A x \in Peers : tx.infos[x] \in Infos \cup {NoInfo}
BY DEF Infos, Updates, Told

LEMMA InOrderRises ==
    ASSUME NEW k \in Infos \cup {NoInfo}, NEW d \in Seq(Updates), NEW x \in Peers,
           NEW n \in Nat, NEW m \in Nat, n <= m, InOrder(k, d, x, n)
    PROVE  InOrder(k, d, x, m)
<1>1. ASSUME NEW j \in Infos \cup {NoInfo}, UpTo(j, n)
      PROVE  UpTo(j, m)
  BY <1>1, VerNat DEF UpTo
<1>2. \A i \in DOMAIN d : d[i].infos[x] \in Infos \cup {NoInfo}
  BY VerNat
<1> QED
  BY <1>1, <1>2 DEF InOrder

LEMMA InOrderTail ==
    ASSUME NEW k \in Infos \cup {NoInfo}, NEW d \in Seq(Updates), d # <<>>, NEW x \in Peers,
           NEW n \in Nat, InOrder(k, d, x, n)
    PROVE  InOrder(k, Tail(d), x, n)
<1>1. ASSUME NEW i \in DOMAIN Tail(d)
      PROVE  i \in Nat /\ i + 1 \in DOMAIN d /\ Tail(d)[i] = d[i + 1]
  BY TailElement
<1> HIDE DEF InOrder
<1>2. \A i \in DOMAIN Tail(d) : UpTo(Tail(d)[i].infos[x], n) /\ NotAfter(k, Tail(d)[i].infos[x])
  BY <1>1 DEF InOrder
<1>3. ASSUME NEW i \in DOMAIN Tail(d), NEW j \in DOMAIN Tail(d), i < j
      PROVE  NotAfter(Tail(d)[i].infos[x], Tail(d)[j].infos[x])
  <2>1. i + 1 < j + 1
    BY <1>1, <1>3
  <2> QED
    BY <1>1, <2>1 DEF InOrder
<1> QED
  BY <1>2, <1>3 DEF InOrder

\* The client takes over the first update.
LEMMA InOrderLearnt ==
    ASSUME NEW k \in Infos \cup {NoInfo}, NEW d \in Seq(Updates), d # <<>>, NEW x \in Peers,
           NEW n \in Nat, InOrder(k, d, x, n),
           NEW l, l = IF Head(d).infos[x] = NoInfo THEN k ELSE Head(d).infos[x]
    PROVE  InOrder(l, Tail(d), x, n) /\ \A v \in Nat : AtLeast(k, v) => AtLeast(l, v)
<1>1. InOrder(k, Tail(d), x, n)
  BY InOrderTail
<1>2. 1 \in DOMAIN d /\ Head(d) = d[1]
  BY HeadElement
<1>3. CASE Head(d).infos[x] = NoInfo
  BY <1>1, <1>3
<1>4. CASE Head(d).infos[x] # NoInfo
  <2>1. l = d[1].infos[x] /\ l \in Infos
    BY <1>2, <1>4, VerNat
  <2>2. UpTo(l, n) /\ NotAfter(k, l)
    BY <1>2, <2>1 DEF InOrder
  <2>3. ASSUME NEW i \in DOMAIN Tail(d)
        PROVE  NotAfter(l, Tail(d)[i].infos[x])
    <3>1. i + 1 \in DOMAIN d /\ 1 < i + 1 /\ Tail(d)[i] = d[i + 1]
      BY TailElement
    <3> QED
      BY <1>2, <2>1, <3>1 DEF InOrder
  <2>4. \A v \in Nat : AtLeast(k, v) => AtLeast(l, v)
    BY <2>1, <2>2, VerNat, NoInfoApart DEF AtLeast, NotAfter
  <2> QED
    BY <1>1, <2>2, <2>3, <2>4 DEF InOrder
<1> QED
  BY <1>3, <1>4

\* An update is built from the information that the server has of x.
LEMMA InOrderAppend ==
    ASSUME NEW k \in Infos \cup {NoInfo}, NEW d \in Seq(Updates), NEW x \in Peers,
           NEW n \in Nat, InOrder(k, d, x, n), NEW tx \in Updates,
           tx.infos[x] # NoInfo => tx.infos[x].ver = n
    PROVE  InOrder(k, Append(d, tx), x, n)
<1> DEFINE e == Append(d, tx)
<1>1. ASSUME NEW i \in DOMAIN e
      PROVE  (i \in DOMAIN d /\ e[i] = d[i]) \/ (i = Len(d) + 1 /\ e[i] = tx)
  BY AppendElement
<1>2. \A j : UpTo(j, n) => NotAfter(j, tx.infos[x])
  BY DEF UpTo, NotAfter
<1>3. UpTo(tx.infos[x], n)
  BY DEF UpTo
<1>4. ASSUME NEW i \in DOMAIN d
      PROVE  i < Len(d) + 1
  OBVIOUS
<1> HIDE DEF e
<1>5. \A i \in DOMAIN e : UpTo(e[i].infos[x], n) /\ NotAfter(k, e[i].infos[x])
  BY <1>1, <1>2, <1>3 DEF InOrder
<1>6. ASSUME NEW i \in DOMAIN e, NEW j \in DOMAIN e, i < j
      PROVE  NotAfter(e[i].infos[x], e[j].infos[x])
  <2>1. CASE j \in DOMAIN d /\ e[j] = d[j]
    <3>1. i \in DOMAIN d /\ e[i] = d[i]
      <4>1. j \in Nat /\ Len(d) \in Nat /\ j < Len(d) + 1
        BY <1>4, <2>1
      <4> QED
        BY <1>1, <1>6, <4>1
    <3> QED
      BY <1>6, <2>1, <3>1 DEF InOrder
  <2>2. CASE j = Len(d) + 1 /\ e[j] = tx
    <3>1. i \in DOMAIN d /\ e[i] = d[i]
      <4>1. Len(d) \in Nat
        OBVIOUS
      <4> QED
        BY <1>1, <1>6, <2>2, <4>1
    <3> QED
      BY <1>2, <2>2, <3>1 DEF InOrder
  <2> QED
    BY <1>1, <2>1, <2>2
<1> QED
  BY <1>5, <1>6 DEF InOrder, e

\* What is under way to a client that knows k of x, in which frames and
\* transactions, with its messages u and x at version n.
Fine(d, o, x, u, k, n) ==
    /\ InOrder(k, d, x, n)
    /\ \A tx \in o : Matched(tx, x, d, u, k)

LEMMA FineFewer ==
    ASSUME NEW k, NEW x, NEW n, NEW d, NEW o, NEW u, Fine(d, o, x, u, k, n),
           NEW p \in SUBSET o, NEW w,
           \A i \in DOMAIN w : w[i].type = "answer" => \E j \in DOMAIN u : w[i] = u[j]
    PROVE  Fine(d, p, x, w, k, n)
<1>1. ASSUME NEW tx \in p
      PROVE  Matched(tx, x, d, w, k)
  <2>1. Matched(tx, x, d, u, k)
    BY DEF Fine
  <2> QED
    BY <2>1 DEF Matched
<1> QED
  BY <1>1 DEF Fine

LEMMA FineRises ==
    ASSUME NEW k \in Infos \cup {NoInfo}, NEW d \in Seq(Updates), NEW x \in Peers,
           NEW n \in Nat, NEW m \in Nat, n <= m, NEW o, NEW u, Fine(d, o, x, u, k, n)
    PROVE  Fine(d, o, x, u, k, m) /\ Fine(<<>>, {}, x, u, k, m)
<1>1. InOrder(k, d, x, m)
  BY InOrderRises DEF Fine
<1>2. InOrder(k, <<>>, x, m)
  BY <1>1 DEF InOrder
<1> QED
  BY <1>1, <1>2 DEF Fine

LEMMA FineTail ==
    ASSUME NEW k \in Infos \cup {NoInfo}, NEW d \in Seq(Updates), d # <<>>, NEW x \in Peers,
           NEW n \in Nat, NEW o, NEW u, Fine(d, o, x, u, k, n)
    PROVE  Fine(Tail(d), o, x, u, k, n)
<1>1. InOrder(k, Tail(d), x, n)
  BY InOrderTail DEF Fine
<1>2. ASSUME NEW tx \in o
      PROVE  Matched(tx, x, Tail(d), u, k)
  <2>1. Matched(tx, x, d, u, k)
    BY DEF Fine
  <2>2. ASSUME NEW i \in DOMAIN Tail(d)
        PROVE  i + 1 \in DOMAIN d /\ Tail(d)[i] = d[i + 1]
    BY TailElement
  <2> QED
    BY <2>1, <2>2 DEF Matched
<1> QED
  BY <1>1, <1>2 DEF Fine

\* The client takes over the first update and answers it with m.
LEMMA FineLearnt ==
    ASSUME NEW k \in Infos \cup {NoInfo}, NEW d \in Seq(Updates), d # <<>>, NEW x \in Peers,
           NEW n \in Nat, NEW o \in SUBSET Updates, NEW u \in Seq(Messages),
           Fine(d, o, x, u, k, n), NEW m \in Messages, m.id = Head(d).id,
           NEW l, l = IF Head(d).infos[x] = NoInfo THEN k ELSE Head(d).infos[x]
    PROVE  Fine(Tail(d), o, x, Append(u, m), l, n)
<1>1. InOrder(l, Tail(d), x, n) /\ \A v \in Nat : AtLeast(k, v) => AtLeast(l, v)
  BY InOrderLearnt DEF Fine
<1>2. 1 \in DOMAIN d /\ Head(d) = d[1]
  BY HeadElement
<1>3. ASSUME NEW tx \in o
      PROVE  Matched(tx, x, Tail(d), Append(u, m), l)
  <2>1. Matched(tx, x, d, u, k) /\ Fine(Tail(d), o, x, u, k, n)
    BY FineTail DEF Fine
  <2>2. tx.infos[x] \in Infos \cup {NoInfo}
    BY VerNat
  <2>3. ASSUME NEW i \in DOMAIN Append(u, m), Append(u, m)[i].type = "answer",
               Append(u, m)[i].id = tx.id, tx.infos[x] # NoInfo
        PROVE  AtLeast(l, tx.infos[x].ver)
    <3>1. tx.infos[x].ver \in Nat
      BY <2>2, <2>3, VerNat
    <3>2. CASE i \in DOMAIN u /\ Append(u, m)[i] = u[i]
      BY <1>1, <2>1, <2>3, <3>1, <3>2 DEF Matched
    <3>3. CASE Append(u, m)[i] = m
      <4>1. l = tx.infos[x]
        BY <1>2, <2>1, <2>3, <3>3 DEF Matched
      <4> QED
        BY <2>3, <3>1, <4>1 DEF AtLeast
    <3> QED
      BY <3>2, <3>3, AppendElement
  <2> QED
    BY <2>1, <2>3 DEF Matched, Fine
<1> QED
  BY <1>1, <1>3 DEF Fine

\* The version of x that the others are told: the server's, or the next.
Reached(x) == IF info[x] # NoInfo THEN info[x].ver ELSE own[x].ver

LEMMA HandFine ==
    ASSUME Base', NEW b \in Peers, NEW x \in Peers, NEW P, NEW v, NEW io, NEW r,
           io.down[b] \in Seq(Updates), up[b] \in Seq(Messages),
           NEW k \in Infos \cup {NoInfo}, NEW n \in Nat,
           info'[x] # NoInfo => info'[x].ver = n,
           Fine(io.down[b], io.out[b], x, up[b], k, n),
           GetsUpdate(b, P, v, io, r) \/ GetsNone(b, P, io, r)
    PROVE  Fine(r.down[b], r.out[b], x, up[b], k, n)
<1>1. CASE GetsNone(b, P, io, r)
  BY <1>1 DEF GetsNone, Fine
<1>2. CASE GetsUpdate(b, P, v, io, r)
  <2> DEFINE d == io.down[b]
  <2>1. PICK tx \in Updates :
            /\ Carries(tx, b, v)
            /\ \A i \in DOMAIN d : d[i].id # tx.id
            /\ \A i \in DOMAIN up[b] : up[b][i].id # tx.id
            /\ r.out[b] = {tx}
            /\ r.down[b] = Append(d, tx)
    BY <1>2 DEF GetsUpdate
  <2>2. d \in Seq(Updates) /\ InOrder(k, d, x, n)
    BY DEF Fine
  <2> HIDE DEF d
  <2>3. tx.infos[x] # NoInfo => tx.infos[x].ver = n
    BY <2>1 DEF Carries
  <2>4. InOrder(k, Append(d, tx), x, n)
    BY <2>2, <2>3, InOrderAppend
  <2>5. ASSUME NEW i \in DOMAIN Append(d, tx), Append(d, tx)[i].id = tx.id
        PROVE  Append(d, tx)[i].infos = tx.infos
    BY <2>1, <2>2, <2>5, AppendElement
  <2>6. Matched(tx, x, Append(d, tx), up[b], k)
    BY <2>1, <2>5 DEF Matched
  <2> QED
    BY <2>1, <2>4, <2>6 DEF Fine
<1> QED
  BY <1>1, <1>2

\* What the server has of x is not newer than what x has, and what x published
\* and the server has not read yet is what x has.
Newest(x) ==
    /\ info[x] # NoInfo => info[x].ver <= own[x].ver
    /\ \A i \in DOMAIN up[x] : up[x][i].type = "publish" => up[x][i].info = own[x]

\* No client restarts.
OneRun == MaxRuns = 1

LEMMA InstanceStays ==
    ASSUME OneRun, Typed, NEW a \in Peers, NEW i \in Instances(a), Connects(a, i)
    PROVE  own' = own /\ know' = know
<1>1. own[a] \in Infos /\ own \in [Peers -> Infos]
  BY DEF Typed, StateTyped
<1>2. own[a].run \in 1 .. 1
  BY <1>1 DEF Infos, OneRun
<1>3. ~(own[a].run < MaxRuns)
  BY <1>2 DEF OneRun
<1>4. i = own[a]
  BY <1>3 DEF Instances
<1> QED
  BY <1>1, <1>4 DEF Connects

\* What a step may do to the information of x.
Moves(x) ==
    /\ own'[x] \in Infos /\ own[x].ver <= own'[x].ver
    /\ \/ info'[x] = info[x]
       \/ info'[x] = NoInfo
       \/ info'[x] = own[x] /\ own'[x] = own[x]

LEMMA MovesRise ==
    ASSUME Base, Base', NEW x \in Peers, Newest(x), Moves(x)
    PROVE  /\ Reached(x) \in Nat /\ Reached(x)' \in Nat /\ Reached(x) <= Reached(x)'
           /\ info'[x] # NoInfo => info'[x].ver = Reached(x)'
           /\ info'[x] # NoInfo => info'[x].ver <= own'[x].ver
<1>1. /\ info[x] \in Infos \cup {NoInfo} /\ info'[x] \in Infos \cup {NoInfo}
      /\ own[x] \in Infos /\ own'[x] \in Infos
  BY DEF Base, Typed, StateTyped
<1>2. /\ own[x].ver \in Nat /\ own'[x].ver \in Nat
      /\ info[x] # NoInfo => info[x].ver \in Nat
      /\ info'[x] # NoInfo => info'[x].ver \in Nat
  BY <1>1, VerNat
<1>3. Reached(x)' = IF info'[x] # NoInfo THEN info'[x].ver ELSE own'[x].ver
  BY DEF Reached
<1>4. Reached(x) \in Nat /\ Reached(x) <= own[x].ver
  BY <1>2 DEF Reached, Newest
<1>5. Reached(x)' \in Nat
  BY <1>2, <1>3
<1>6. CASE info'[x] = info[x]
  BY <1>2, <1>3, <1>4, <1>5, <1>6 DEF Moves, Reached, Newest
<1>7. CASE info'[x] = NoInfo
  BY <1>2, <1>3, <1>4, <1>5, <1>7 DEF Moves
<1>8. CASE info'[x] = own[x] /\ own'[x] = own[x]
  BY <1>1, <1>2, <1>3, <1>4, <1>5, <1>8, NoInfoApart DEF Moves
<1> QED
  BY <1>6, <1>7, <1>8 DEF Moves

LEMMA NewestStep ==
    ASSUME OneRun, Base, Base', \A x \in Peers : Newest(x), [Next]_vars, NEW x \in Peers
    PROVE  Moves(x) /\ Newest(x)'
<1>1. /\ own \in [Peers -> Infos] /\ own[x] \in Infos /\ own'[x] \in Infos
      /\ own[x].ver \in Nat /\ own'[x].ver \in Nat
      /\ info \in [Peers -> Infos \cup {NoInfo}]
      /\ up[x] \in Seq(Messages) /\ up \in [Peers -> Seq(Messages)] /\ Newest(x)
  BY VerNat DEF Base, Typed, StateTyped, FramesTyped
<1>2. ASSUME Moves(x), own'[x] = own[x],
             \A i \in DOMAIN up'[x] :
                 up'[x][i].type = "publish" => \E j \in DOMAIN up[x] : up'[x][i] = up[x][j]
      PROVE  Moves(x) /\ Newest(x)'
  <2>1. info'[x] # NoInfo => info'[x].ver <= own'[x].ver
    BY <1>1, <1>2, MovesRise
  <2> QED
    BY <1>1, <1>2, <2>1 DEF Newest
<1>3. ASSUME NEW a \in Peers, up[a] # <<>>, up' = [up EXCEPT ![a] = Tail(@)]
      PROVE  \A i \in DOMAIN up'[x] : \E j \in DOMAIN up[x] : up'[x][i] = up[x][j]
  <2>1. CASE a = x
    <3>1. up'[x] = Tail(up[x]) /\ up[x] # <<>>
      BY <1>1, <1>3, <2>1
    <3> QED
      BY <1>1, <3>1, TailElement
  <2>2. CASE a # x
    BY <1>1, <1>3, <2>2
  <2> QED
    BY <2>1, <2>2
<1>4. ASSUME NEW a \in Peers, NEW i \in Instances(a), Join(a, i)
      PROVE  Moves(x) /\ Newest(x)'
  <2>1. own' = own /\ info' = info /\ up' = up
    BY <1>4, InstanceStays DEF Join, Base
  <2> QED
    BY <1>1, <1>2, <2>1 DEF Moves
<1>5. ASSUME NEW a \in Peers, Leave(a) \/ LateResponse(a) \/ \E i \in Instances(a) : Reconnect(a, i)
      PROVE  Moves(x) /\ Newest(x)'
  <2>1. own' = own /\ info' = [info EXCEPT ![a] = NoInfo] /\ up' = [up EXCEPT ![a] = <<>>]
    BY <1>5, InstanceStays DEF Leave, LateResponse, Reconnect, Base
  <2>2. /\ info'[x] = info[x] \/ info'[x] = NoInfo
        /\ up'[x] = up[x] \/ up'[x] = <<>>
    BY <1>1, <2>1
  <2> QED
    BY <1>1, <1>2, <2>1, <2>2 DEF Moves
<1>6. ASSUME NEW a \in Peers, Request(a)
      PROVE  Moves(x) /\ Newest(x)'
  <2>1. /\ up[a] # <<>> /\ Head(up[a]).type = "publish" /\ own' = own
        /\ up' = [up EXCEPT ![a] = Tail(@)]
        /\ info' = info \/ info' = [info EXCEPT ![a] = Head(up[a]).info]
    BY <1>6, RequestCases DEF Accepts, Repeats
  <2>2. Head(up[a]).info = own[a]
    <3>1. up[a] \in Seq(Messages) /\ Newest(a)
      BY <1>1
    <3>2. 1 \in DOMAIN up[a] /\ Head(up[a]) = up[a][1]
      BY <2>1, <3>1, HeadElement
    <3> QED
      BY <2>1, <3>1, <3>2 DEF Newest
  <2>3. info'[x] = info[x] \/ info'[x] = own[x]
    BY <1>1, <2>1, <2>2
  <2> QED
    BY <1>1, <1>2, <1>3, <2>1, <2>3 DEF Moves
<1>7. ASSUME NEW a \in Peers, Response(a)
      PROVE  Moves(x) /\ Newest(x)'
  <2>1. up[a] # <<>> /\ own' = own /\ info' = info /\ up' = [up EXCEPT ![a] = Tail(@)]
    BY <1>7 DEF Response, clientVars
  <2> QED
    BY <1>1, <1>2, <1>3, <2>1 DEF Moves
<1>8. ASSUME NEW a \in Peers, NEW v \in 1 .. MaxVersion, Publish(a, v)
      PROVE  Moves(x) /\ Newest(x)'
  <2> DEFINE m == [type |-> "publish", id |-> 0, run |-> own[a].run, info |-> own'[a]]
  <2>1. /\ own' = [own EXCEPT ![a].ver = v] /\ v >= own[a].ver /\ own'[a].ver = v
        /\ \A i \in DOMAIN up[a] : up[a][i].type # "publish"
        /\ up' = [up EXCEPT ![a] = Append(@, m)] /\ info' = info
        /\ own'[a] \in Infos /\ own'[a].run = own[a].run
    BY <1>8, PublishEffect DEF Base
  <2>2. m \in Messages /\ m.info = own'[a]
    BY <2>1 DEF Messages, Infos
  <2> HIDE DEF m
  <2>3. CASE a = x
    <3>1. Moves(x)
      BY <1>1, <2>1, <2>3 DEF Moves
    <3>2. info'[x] # NoInfo => info'[x].ver <= own'[x].ver
      BY <1>1, <3>1, MovesRise
    <3>3. up'[x] = Append(up[x], m)
      BY <1>1, <2>1, <2>3
    <3>4. ASSUME NEW i \in DOMAIN Append(up[x], m), Append(up[x], m)[i].type = "publish"
          PROVE  Append(up[x], m)[i].info = own'[x]
      BY <1>1, <2>1, <2>2, <2>3, <3>4, AppendElement
    <3> QED
      BY <3>1, <3>2, <3>3, <3>4 DEF Newest
  <2>4. CASE a # x
    <3>1. own'[x] = own[x] /\ up'[x] = up[x]
      BY <1>1, <2>1, <2>4
    <3> QED
      BY <1>1, <1>2, <2>1, <3>1 DEF Moves
  <2> QED
    BY <2>3, <2>4
<1>9. ASSUME NEW a \in Peers, Learn(a)
      PROVE  Moves(x) /\ Newest(x)'
  <2> DEFINE m == [type |-> "answer", id |-> Head(down[a]).id, run |-> own[a].run,
                   info |-> NoInfo]
  <2>1. up' = [up EXCEPT ![a] = Append(@, m)] /\ UNCHANGED <<own, info>> /\ down[a] # <<>>
    BY <1>9, LearnEffect DEF Base
  <2>2. m \in Messages /\ m.type = "answer"
    <3>1. down[a] \in Seq(Updates) /\ own[a] \in Infos
      BY DEF Base, Typed, StateTyped, FramesTyped
    <3>2. Head(down[a]) \in Updates
      BY <2>1, <3>1
    <3> QED
      BY <3>1, <3>2 DEF Messages, Updates, Infos
  <2> HIDE DEF m
  <2>3. ASSUME NEW i \in DOMAIN up'[x], up'[x][i].type = "publish"
        PROVE  \E j \in DOMAIN up[x] : up'[x][i] = up[x][j]
    <3>1. CASE a = x
      <4>1. up'[x] = Append(up[x], m)
        BY <1>1, <2>1, <3>1
      <4> QED
        BY <1>1, <2>2, <2>3, <4>1, AppendElement
    <3>2. CASE a # x
      BY <1>1, <2>1, <2>3, <3>2
    <3> QED
      BY <3>1, <3>2
  <2> QED
    BY <1>1, <1>2, <2>1, <2>3 DEF Moves
<1>10. ASSUME UNCHANGED <<own, info, up>>
       PROVE  Moves(x) /\ Newest(x)'
  BY <1>1, <1>2, <1>10 DEF Moves
<1>11. ASSUME NEW a \in Peers, Ignore(a) \/ Elapse(a)
       PROVE  UNCHANGED <<own, info, up>>
  BY <1>11 DEF Ignore, Elapse, serverVars, clientVars
<1>12. ASSUME NEW S \in SUBSET Peers, Tick(S)
       PROVE  UNCHANGED <<own, info, up>>
  BY <1>12 DEF Tick, clientVars
<1>13. CASE UNCHANGED vars
  BY <1>10, <1>13 DEF vars, serverVars, clientVars
<1> QED
  BY <1>4, <1>5, <1>6, <1>7, <1>8, <1>9, <1>10, <1>11, <1>12, <1>13 DEF Next, Step

\* What a was told and will be told about x, in order, and what is saved of it.
Heard(a, x) ==
    /\ Fine(down[a], out[a], x, up[a], know[a][x], Reached(x))
    /\ session[a].seen[x] # 0 => AtLeast(know[a][x], session[a].seen[x])

\* A saved version that is not the one there was is none, or what was answered.
StillHeard(b, x) == session'[b].seen[x] # 0 => AtLeast(know[b][x], session'[b].seen[x])

LEMMA HandedHeard ==
    ASSUME Base, Base', NEW b \in Peers, NEW x \in Peers, NEW P, NEW io, Handed(P, io),
           Fine(io.down[b], io.out[b], x, up[b], know[b][x], Reached(x)'),
           Reached(x)' \in Nat, info'[x] # NoInfo => info'[x].ver = Reached(x)',
           \A i \in DOMAIN up'[b] : \E j \in DOMAIN up[b] : up'[b][i] = up[b][j],
           know' = know, StillHeard(b, x)
    PROVE  Heard(b, x)'
<1> DEFINE n == Reached(x)'
           k == know[b][x]
           v == topology'
           r == After
<1>1. /\ know[b][x] \in Infos \cup {NoInfo} /\ io.down[b] \in Seq(Updates)
      /\ up[b] \in Seq(Messages)
  BY DEF Base, Typed, StateTyped, FramesTyped, Told, Handed, Sendable, CanBuild
<1>2. /\ k \in Infos \cup {NoInfo} /\ n \in Nat
      /\ info'[x] # NoInfo => info'[x].ver = n
      /\ Fine(io.down[b], io.out[b], x, up[b], k, n)
      /\ GetsUpdate(b, P, v, io, r) \/ GetsNone(b, P, io, r)
  BY <1>1 DEF Handed
<1>3. r.down[b] = down'[b] /\ r.out[b] = out'[b]
  BY DEF After
<1> HIDE DEF n, k, v, r
<1>4. Fine(r.down[b], r.out[b], x, up[b], k, n)
  BY <1>1, <1>2, HandFine
<1>5. Fine(down'[b], out'[b], x, up'[b], k, n)
  BY <1>3, <1>4, FineFewer
<1>6. know'[b][x] = k
  BY DEF k
<1> QED
  BY <1>5, <1>6 DEF Heard, StillHeard, n, k

\* The answer at the head is from a client that knows what the update carried.
LEMMA AnswerHeard ==
    ASSUME Base, NEW a \in Peers, NEW x \in Peers, Heard(a, x), up[a] # <<>>,
           Head(up[a]).type = "answer", NEW tx \in Answered(a)
    PROVE  LET s == Committed(WithPeerSession(session[a], Head(up[a]).run), tx)
           IN  s.seen[x] # 0 => AtLeast(know[a][x], s.seen[x])
<1> DEFINE r == WithPeerSession(session[a], Head(up[a]).run)
           s == Committed(r, tx)
           k == know[a][x]
<1>1. tx \in out[a] /\ tx \in Updates /\ tx.id = Head(up[a]).id
  BY DEF Answered, Base, Typed, FramesTyped
<1>2. Head(up[a]).run \in 1 .. MaxRuns /\ session[a] \in Sessions
  BY HeadTyped DEF Base, Typed, StateTyped
<1>3. /\ r \in Sessions
      /\ r.seen = IF session[a].dst = Head(up[a]).run THEN session[a].seen ELSE NewSession.seen
  BY <1>2, PeerSessionTyped
<1>4. r.seen[x] = session[a].seen[x] \/ r.seen[x] = 0
  BY <1>3 DEF NewSession
<1>5. tx.infos[x] # NoInfo => AtLeast(k, tx.infos[x].ver)
  <2>1. up[a] \in Seq(Messages) /\ Matched(tx, x, down[a], up[a], k)
    BY <1>1 DEF Base, Typed, FramesTyped, Heard, Fine
  <2>2. 1 \in DOMAIN up[a] /\ Head(up[a]) = up[a][1]
    BY <2>1, HeadElement
  <2> QED
    BY <1>1, <2>1, <2>2 DEF Matched
<1> HIDE DEF r, k
<1>6. s.seen[x] = IF tx.infos[x] = NoInfo THEN r.seen[x]
                  ELSE Larger(r.seen[x], tx.infos[x].ver)
  BY <1>1, <1>3, CommittedTyped
<1>7. r.seen[x] # 0 => AtLeast(k, r.seen[x])
  BY <1>4 DEF Heard, k
<1> HIDE DEF s
<1>8. s.seen[x] # 0 => AtLeast(k, s.seen[x])
  BY <1>5, <1>6, <1>7 DEF Larger
<1> QED
  BY <1>8 DEF r, s, k

LEMMA HeardStep ==
    ASSUME OneRun, Base, Base', \A x \in Peers : Newest(x), \A a, x \in Peers : Heard(a, x),
           [Next]_vars, NEW b \in Peers, NEW x \in Peers
    PROVE  Heard(b, x)'
<1>1. /\ know \in [Peers -> Told] /\ know[b][x] \in Infos \cup {NoInfo}
      /\ down \in [Peers -> Seq(Updates)] /\ up \in [Peers -> Seq(Messages)]
      /\ session \in [Peers -> Sessions] /\ session[b] \in Sessions
      /\ out[b] \in SUBSET Updates /\ Heard(b, x)
  BY DEF Base, Typed, StateTyped, FramesTyped, Told
<1>2. /\ Reached(x) \in Nat /\ Reached(x)' \in Nat /\ Reached(x) <= Reached(x)'
      /\ info'[x] # NoInfo => info'[x].ver = Reached(x)'
  BY NewestStep, MovesRise
<1> DEFINE n == Reached(x)'
           k == know[b][x]
<1>3. Fine(down[b], out[b], x, up[b], k, n) /\ Fine(<<>>, {}, x, up[b], k, n)
  <2>1. n \in Nat /\ Reached(x) <= n /\ Fine(down[b], out[b], x, up[b], k, Reached(x))
    BY <1>1, <1>2 DEF Heard
  <2> HIDE DEF n
  <2> QED
    BY <1>1, <1>2, <2>1, FineRises
<1>4. ASSUME NEW a \in Peers, up[a] # <<>>, up' = [up EXCEPT ![a] = Tail(@)]
      PROVE  \A i \in DOMAIN up'[b] : \E j \in DOMAIN up[b] : up'[b][i] = up[b][j]
  <2>1. CASE a = b
    <3>1. up'[b] = Tail(up[b]) /\ up[b] # <<>> /\ up[b] \in Seq(Messages)
      BY <1>1, <1>4, <2>1
    <3> QED
      BY <3>1, TailElement
  <2>2. CASE a # b
    BY <1>1, <1>4, <2>2
  <2> QED
    BY <2>1, <2>2
<1>5. session'[b] = session[b] => StillHeard(b, x)
  BY <1>1 DEF StillHeard, Heard
<1>6. ASSUME NEW a \in Peers, NEW i \in Instances(a), Join(a, i)
      PROVE  Heard(b, x)'
  <2>1. /\ know' = know /\ session' = session /\ up' = up
        /\ Handed(present', Before)
    BY <1>6, InstanceStays, JoinEffect DEF Join, Base
  <2>2. Before.down[b] = down[b] /\ Before.out[b] = out[b]
    BY DEF Before
  <2> QED
    BY <1>2, <1>3, <1>5, <2>1, <2>2, HandedHeard
\* A connection of a is gone.
<1>7. ASSUME NEW a \in Peers, session' = Forgotten(a), up' = [up EXCEPT ![a] = <<>>]
      PROVE  /\ Fine(WithoutPeer(a).down[b], WithoutPeer(a).out[b], x, up[b], k, n)
             /\ StillHeard(b, x)
             /\ \A i \in DOMAIN up'[b] : \E j \in DOMAIN up[b] : up'[b][i] = up[b][j]
  <2>1. CASE a = b
    <3>1. /\ WithoutPeer(a).down[b] = <<>> /\ WithoutPeer(a).out[b] = {}
          /\ up'[b] = <<>> /\ session'[b] = NewSession
      BY <1>1, <1>7, <2>1, ForgottenTyped DEF WithoutPeer, Base, IInv, Agree
    <3>2. session'[b].seen[x] = 0
      BY <3>1 DEF NewSession
    <3> QED
      BY <1>3, <3>1, <3>2 DEF StillHeard
  <2>2. CASE a # b
    <3>1. /\ WithoutPeer(a).down[b] = down[b] /\ WithoutPeer(a).out[b] = out[b]
          /\ up'[b] = up[b] /\ session'[b] = Unseen(session[b], a)
      BY <1>1, <1>7, <2>2, ForgottenTyped DEF WithoutPeer, Base, IInv, Agree
    <3>2. session'[b].seen[x] = session[b].seen[x] \/ session'[b].seen[x] = 0
      BY <1>1, <3>1, UnseenTyped
    <3> QED
      BY <1>1, <1>3, <3>1, <3>2 DEF StillHeard, Heard
  <2> QED
    BY <2>1, <2>2
<1>8. ASSUME NEW a \in Peers, Leave(a) \/ LateResponse(a)
      PROVE  Heard(b, x)'
  <2>1. /\ know' = know /\ session' = Forgotten(a) /\ up' = [up EXCEPT ![a] = <<>>]
        /\ Handed(present', WithoutPeer(a))
    BY <1>8, LeaveEffect DEF Leave, LateResponse, Base
  <2> DEFINE io == WithoutPeer(a)
  <2>2. Handed(present', io) /\ Fine(io.down[b], io.out[b], x, up[b], know[b][x], Reached(x)')
    BY <1>7, <2>1
  <2> HIDE DEF io
  <2> QED
    BY <1>2, <1>7, <2>1, <2>2, HandedHeard
<1>9. ASSUME NEW a \in Peers, NEW i \in Instances(a), Reconnect(a, i)
      PROVE  Heard(b, x)'
  <2>1. know' = know /\ session' = Forgotten(a) /\ up' = [up EXCEPT ![a] = <<>>]
    BY <1>9, InstanceStays DEF Reconnect, Base
  <2> DEFINE w == WithoutPeer(a)
             P == present \ {a}
             v == topology + 1
  <2>2. PICK io : /\ Sendable(w, v)
                  /\ GetsUpdate(b, P, v, w, io) \/ GetsNone(b, P, w, io)
                  /\ Handed(present, io)
    BY <1>9, ReconnectEffect DEF Base
  <2>3. Fine(w.down[b], w.out[b], x, up[b], k, n)
    BY <1>7, <2>1
  <2>4. w.down[b] \in Seq(Updates) /\ up[b] \in Seq(Messages)
    BY <2>2 DEF Sendable, CanBuild
  <2>5. n \in Nat /\ (info'[x] # NoInfo => info'[x].ver = n) /\ k \in Infos \cup {NoInfo}
    BY <1>1, <1>2
  <2> HIDE DEF w, P, v, n, k
  <2>6. Fine(io.down[b], io.out[b], x, up[b], k, n)
    BY <2>2, <2>3, <2>4, <2>5, HandFine
  <2>7. Fine(io.down[b], io.out[b], x, up[b], know[b][x], Reached(x)')
    BY <2>6 DEF n, k
  <2> QED
    BY <1>2, <1>7, <2>1, <2>2, <2>7, HandedHeard
<1>10. ASSUME NEW a \in Peers, Request(a)
       PROVE  Heard(b, x)'
  <2>1. /\ up[a] # <<>> /\ up' = [up EXCEPT ![a] = Tail(@)] /\ know' = know
        /\ Accepts(a) \/ Repeats(a)
    BY <1>10, RequestCases
  <2>2. a \in present /\ \E P : Handed(P, Before)
    BY <1>10, <2>1, RequestEffect DEF Base, Silent
  <2>3. StillHeard(b, x)
    <3>1. session'[b] = Named(a)[b] \/ session'[b] = Cleared(Named(a)[b], a)
      BY <2>1 DEF Accepts, Repeats
    <3>2. /\ Named(a)[b] \in Sessions
          /\ Named(a)[b].seen[x] = session[b].seen[x] \/ Named(a)[b].seen[x] = 0
      <4>1. CASE a = b
        <5>1. Head(up[a]).run \in 1 .. MaxRuns
          BY <2>1, HeadTyped DEF Base
        <5>2. Named(a)[b] = WithPeerSession(session[b], Head(up[a]).run)
          BY <4>1 DEF Named
        <5>3. NewSession.seen[x] = 0
          BY DEF NewSession
        <5> DEFINE s == WithPeerSession(session[b], Head(up[a]).run)
        <5>4. /\ s \in Sessions
              /\ s.seen = session[b].seen \/ s.seen = NewSession.seen
          BY <1>1, <5>1, PeerSessionTyped
        <5> HIDE DEF s
        <5>5. Named(a)[b] = s
          BY <5>2 DEF s
        <5> QED
          BY <5>3, <5>4, <5>5
      <4>2. CASE a # b
        BY <1>1, <4>2 DEF Named
      <4> QED
        BY <4>1, <4>2
    <3>3. session'[b].seen[x] = session[b].seen[x] \/ session'[b].seen[x] = 0
      BY <3>1, <3>2, ClearedTyped
    <3> QED
      BY <1>1, <3>3 DEF StillHeard, Heard
  <2>4. Before.down[b] = down[b] /\ Before.out[b] = out[b]
    BY DEF Before
  <2> QED
    BY <1>2, <1>3, <1>4, <2>1, <2>2, <2>3, <2>4, HandedHeard
<1>11. ASSUME NEW a \in Peers, Response(a)
       PROVE  Heard(b, x)'
  <2>1. /\ up[a] # <<>> /\ Head(up[a]).type = "answer" /\ know' = know
        /\ up' = [up EXCEPT ![a] = Tail(@)]
    BY <1>11 DEF Response, clientVars
  <2>2. PICK tx \in Answered(a) :
            /\ session' = [session EXCEPT
                   ![a] = Committed(WithPeerSession(@, Head(up[a]).run), tx)]
            /\ Handed(IF Waiting(a) THEN {a} ELSE {}, AfterAnswer(a, tx))
    BY <1>11, <2>1, ResponseEffect DEF Base, Silent
  <2>3. StillHeard(b, x)
    <3>1. CASE a = b
      <4>1. Heard(a, x)
        BY <1>1, <3>1
      <4>2. session'[b] = Committed(WithPeerSession(session[a], Head(up[a]).run), tx)
        BY <1>1, <2>2, <3>1
      <4> QED
        BY <2>1, <3>1, <4>1, <4>2, AnswerHeard DEF StillHeard
    <3>2. CASE a # b
      BY <1>1, <1>5, <2>2, <3>2
    <3> QED
      BY <3>1, <3>2
  <2> DEFINE io == AfterAnswer(a, tx)
             P == IF Waiting(a) THEN {a} ELSE {}
  <2>4. io.down[b] = down[b] /\ io.out[b] \in SUBSET out[b] /\ Handed(P, io)
    BY <2>2 DEF AfterAnswer, Base, IInv, Agree
  <2> HIDE DEF io, P
  <2>5. Fine(io.down[b], io.out[b], x, up[b], know[b][x], Reached(x)')
    BY <1>3, <2>4 DEF Fine
  <2> QED
    BY <1>2, <1>4, <2>1, <2>3, <2>4, <2>5, HandedHeard
<1>12. ASSUME NEW S \in SUBSET Peers, Tick(S)
       PROVE  Heard(b, x)'
  <2>1. UNCHANGED <<session, up, know>> /\ Handed(GivingUp \cup S, AfterGivingUp)
    BY <1>12, TickEffect DEF Tick, Base, clientVars
  <2> DEFINE io == AfterGivingUp
  <2>2. io.down[b] = down[b] /\ io.out[b] \in SUBSET out[b]
    BY DEF AfterGivingUp
  <2>3. \E P : Handed(P, io)
    BY <2>1
  <2> HIDE DEF io
  <2>4. Fine(io.down[b], io.out[b], x, up[b], know[b][x], Reached(x)')
    BY <1>3, <2>2 DEF Fine
  <2> QED
    BY <1>2, <1>5, <2>1, <2>3, <2>4, HandedHeard
<1>13. ASSUME UNCHANGED <<session, out, down, know>>,
              \A i \in DOMAIN up'[b] :
                 up'[b][i].type = "answer" => \E j \in DOMAIN up[b] : up'[b][i] = up[b][j]
       PROVE  Heard(b, x)'
  <2>1. Fine(down[b], out[b], x, up'[b], k, n)
    BY <1>3, <1>13, FineFewer
  <2> QED
    BY <1>1, <1>13, <2>1 DEF Heard
<1>14. ASSUME NEW a \in Peers, NEW v \in 1 .. MaxVersion, Publish(a, v)
       PROVE  Heard(b, x)'
  <2> DEFINE m == [type |-> "publish", id |-> 0, run |-> own[a].run, info |-> own'[a]]
  <2>1. /\ up' = [up EXCEPT ![a] = Append(@, m)] /\ own'[a] \in Infos
        /\ own'[a].run = own[a].run /\ UNCHANGED <<session, out, down, know>>
    BY <1>14, PublishEffect DEF Base
  <2>2. m \in Messages /\ m.type = "publish"
    BY <2>1 DEF Messages, Infos
  <2> HIDE DEF m
  <2>3. ASSUME NEW i \in DOMAIN up'[b], up'[b][i].type = "answer"
        PROVE  \E j \in DOMAIN up[b] : up'[b][i] = up[b][j]
    <3>1. CASE a = b
      <4>1. up'[b] = Append(up[b], m) /\ up[b] \in Seq(Messages)
        BY <1>1, <2>1, <3>1
      <4> QED
        BY <2>2, <2>3, <4>1, AppendElement
    <3>2. CASE a # b
      BY <1>1, <2>1, <2>3, <3>2
    <3> QED
      BY <3>1, <3>2
  <2> QED
    BY <1>13, <2>1, <2>3
<1>15. ASSUME NEW a \in Peers, Learn(a)
       PROVE  Heard(b, x)'
  <2> DEFINE m == [type |-> "answer", id |-> Head(down[a]).id, run |-> own[a].run,
                   info |-> NoInfo]
             l == IF Head(down[a]).infos[x] = NoInfo THEN know[a][x]
                  ELSE Head(down[a]).infos[x]
  <2>1. /\ up' = [up EXCEPT ![a] = Append(@, m)] /\ UNCHANGED <<session, out>>
        /\ down' = [down EXCEPT ![a] = Tail(@)] /\ down[a] # <<>>
        /\ know' = [know EXCEPT ![a] = [y \in Peers |->
               IF Head(down[a]).infos[y] = NoInfo THEN know[a][y]
               ELSE Head(down[a]).infos[y]]]
    BY <1>15, LearnEffect DEF Base
  <2>2. m \in Messages /\ m.id = Head(down[a]).id
    <3>1. down[a] \in Seq(Updates) /\ own[a] \in Infos
      BY DEF Base, Typed, StateTyped, FramesTyped
    <3>2. Head(down[a]) \in Updates
      BY <2>1, <3>1
    <3> QED
      BY <3>1, <3>2 DEF Messages, Updates, Infos
  <2> HIDE DEF m
  <2>3. CASE a # b
    <3>1. up'[b] = up[b] /\ down'[b] = down[b] /\ know'[b] = know[b]
      BY <1>1, <2>1, <2>3
    <3> QED
      BY <1>1, <1>3, <2>1, <3>1 DEF Heard
  <2>4. CASE a = b
    <3>1. /\ up'[b] = Append(up[b], m) /\ down'[b] = Tail(down[b]) /\ know'[b][x] = l
          /\ down[b] # <<>> /\ m.id = Head(down[b]).id
          /\ down[b] \in Seq(Updates) /\ up[b] \in Seq(Messages)
      BY <1>1, <2>1, <2>2, <2>4
    <3>2. l = IF Head(down[b]).infos[x] = NoInfo THEN k ELSE Head(down[b]).infos[x]
      BY <2>4
    <3>3. n \in Nat /\ Fine(down[b], out[b], x, up[b], k, n)
      BY <1>2, <1>3
    <3>4. session[b].seen[x] \in Nat
      BY <1>1 DEF Sessions
    <3> HIDE DEF l, n
    <3>5. Fine(Tail(down[b]), out[b], x, Append(up[b], m), l, n)
      BY <1>1, <2>2, <3>1, <3>2, <3>3, FineLearnt
    <3>6. AtLeast(k, session[b].seen[x]) => AtLeast(l, session[b].seen[x])
      <4>1. InOrder(k, down[b], x, n)
        BY <3>3 DEF Fine
      <4>2. k \in Infos \cup {NoInfo}
        BY <1>1
      <4> HIDE DEF k
      <4>3. \A v \in Nat : AtLeast(k, v) => AtLeast(l, v)
        BY <3>1, <3>2, <3>3, <4>1, <4>2, InOrderLearnt
      <4> QED
        BY <3>4, <4>3
    <3> QED
      BY <1>1, <2>1, <3>1, <3>5, <3>6 DEF Heard, n
  <2> QED
    BY <2>3, <2>4
<1>16. ASSUME NEW a \in Peers, Ignore(a)
       PROVE  Heard(b, x)'
  <2>1. /\ down' = [down EXCEPT ![a] = Tail(@)] /\ down[a] # <<>>
        /\ UNCHANGED <<session, out, up, know>>
    BY <1>16, IgnoreEffect DEF Base
  <2>2. n \in Nat /\ down[b] \in Seq(Updates)
    BY <1>1, <1>2
  <2>3. CASE a = b
    <3>1. down'[b] = Tail(down[b]) /\ down[b] # <<>>
      BY <1>1, <2>1, <2>3
    <3> HIDE DEF n
    <3>2. Fine(Tail(down[b]), out[b], x, up[b], k, n)
      BY <1>1, <1>3, <2>2, <3>1, FineTail
    <3> QED
      BY <1>1, <2>1, <3>1, <3>2 DEF Heard, n
  <2>4. CASE a # b
    <3>1. down'[b] = down[b]
      BY <1>1, <2>1, <2>4
    <3> QED
      BY <1>1, <1>3, <2>1, <3>1 DEF Heard
  <2> QED
    BY <2>3, <2>4
<1>17. ASSUME NEW a \in Peers, Elapse(a)
       PROVE  UNCHANGED <<session, out, down, up, know>>
  BY <1>17 DEF Elapse, clientVars
<1>18. CASE UNCHANGED vars
  BY <1>13, <1>18 DEF vars, serverVars, clientVars
<1> QED
  BY <1>6, <1>8, <1>9, <1>10, <1>11, <1>12, <1>13, <1>14, <1>15, <1>16, <1>17, <1>18
     DEF Next, Step

LEMMA HeardInvariant ==
    ASSUME OneRun
    PROVE  Spec => [](Base /\ \A a, x \in Peers : Newest(x) /\ Heard(a, x))
<1> DEFINE HeardAll == \A a, x \in Peers : Newest(x) /\ Heard(a, x)
<1>1. Init => HeardAll
  BY DEF Init, Newest, Heard, Fine, InOrder, UpTo, NewSession
<1>2. Base /\ Base' /\ HeardAll /\ [Next]_vars => HeardAll'
  BY NewestStep, HeardStep
<1> HIDE DEF HeardAll
<1>3. Spec => [](Base /\ HeardAll)
  BY <1>1, <1>2, BaseInvariant, PTL DEF Spec
<1> QED
  BY <1>3 DEF HeardAll

\* As long as no client restarts, what the server takes a peer to know of
\* another the peer knows: an update leaves nothing out that the peer lacks.
THEOREM NothingMissed ==
    ASSUME MaxRuns = 1
    PROVE  Spec => []UpToDate
<1> DEFINE Known == Base /\ \A a, x \in Peers : Newest(x) /\ Heard(a, x)
<1>1. Known => UpToDate
  <2> SUFFICES ASSUME Known, NEW a \in present, NEW x \in present \ {a}, info[x] # NoInfo,
                      session[a].seen[x] >= info[x].ver
               PROVE  /\ know[a][x] # NoInfo
                      /\ know[a][x].run = info[x].run
                      /\ know[a][x].ver >= info[x].ver
    BY DEF UpToDate
  <2>1. a \in Peers /\ x \in Peers /\ Heard(a, x)
    BY DEF Base, IInv
  <2>2. /\ info[x] \in Infos /\ know[a][x] \in Infos \cup {NoInfo}
        /\ session[a].seen[x] \in Nat /\ info[x].ver \in Nat /\ info[x].ver >= 1
    BY <2>1, VerNat DEF Base, Typed, StateTyped, Sessions, Told
  <2>3. AtLeast(know[a][x], session[a].seen[x])
    BY <2>1, <2>2 DEF Heard
  <2>4. know[a][x] # NoInfo /\ know[a][x].ver >= info[x].ver
    BY <2>2, <2>3, VerNat DEF AtLeast
  <2>5. know[a][x].run \in 1 .. 1 /\ info[x].run \in 1 .. 1
    BY <2>2, <2>4 DEF Infos
  <2> QED
    BY <2>4, <2>5
<1>2. Spec => []Known
  BY HeardInvariant DEF OneRun
<1> HIDE DEF Known
<1> QED
  BY <1>1, <1>2, PTL

=============================================================================

-------------------------- MODULE ForwardingProofs --------------------------
(***************************************************************************)
(* Proofs about Forwarding, for any networks, peers, frames and hop limit, *)
(* and whatever hop counters frames are made with.                         *)
(***************************************************************************)
EXTENDS Forwarding, TLAPS

\* A frame has passed the relay no more often than its counter says, which the
\* relay looks at before it raises both.
PassesCounted(r) == r.passes <= r.counter /\ r.passes <= MaxHops + 1

\* What was handled as an RPC packet was so for the peer that made it.
Served(r) == r.place = "served" /\ r.kind # "ping" => r.author = r.holder

Sound(r) ==
    /\ r \in Frame
    /\ PassesCounted(r)
    /\ r.holder[1] = r.author[1]
    /\ Served(r)

IInv ==
    /\ online \subseteq Ids
    /\ failing \subseteq online
    /\ frames \in [Frames -> Frame \cup {NoFrame}]
    /\ \A f \in Frames : Made(f) => Sound(frames[f])
    /\ \A f \in Frames : Arriving(f) => frames[f].holder \in online

LEMMA InitInv == Init => IInv
BY DEF Init, IInv, Made, Arriving

\* removeConnection of D leaves every frame sound, and what is still under way
\* is on a connection that is left.
LEMMA CloseInv ==
    ASSUME IInv, NEW D \in SUBSET Ids, NEW fr \in [Frames -> Frame \cup {NoFrame}],
           \A f \in Frames : fr[f] # NoFrame => Sound(fr[f]),
           \A f \in Frames :
              fr[f] # NoFrame /\ fr[f].place = "toRelay" => fr[f].holder \in online,
           Close(D, fr)
    PROVE  IInv'
<1> DEFINE gone(f) == [fr[f] EXCEPT !.place = "gone"]
<1>1. online' = online \ D /\ failing' = failing \ D
  BY DEF Close
<1>2. ASSUME NEW f \in Frames, fr[f] # NoFrame
      PROVE  gone(f) \in Frame /\ Sound(gone(f)) /\ gone(f).place = "gone"
  BY <1>2 DEF Sound, PassesCounted, Served, Frame, Places
<1>3. ASSUME NEW f \in Frames
      PROVE  \/ frames'[f] = fr[f]
                /\ ~(fr[f] # NoFrame /\ fr[f].place = "toRelay" /\ fr[f].holder \in D)
             \/ frames'[f] = gone(f) /\ fr[f] # NoFrame
  BY DEF Close
<1>4. frames' \in [Frames -> Frame \cup {NoFrame}]
  <2>1. frames' = [f \in Frames |-> frames'[f]]
    BY DEF Close
  <2>2. \A f \in Frames : frames'[f] \in Frame \cup {NoFrame}
    BY <1>2, <1>3
  <2> QED
    BY <2>1, <2>2
<1>5. \A f \in Frames : frames'[f] # NoFrame => Sound(frames'[f])
  BY <1>2, <1>3
<1>6. \A f \in Frames :
          frames'[f] # NoFrame /\ frames'[f].place = "toRelay"
              => frames'[f].holder \in online'
  BY <1>1, <1>2, <1>3
<1> QED
  BY <1>1, <1>4, <1>5, <1>6 DEF IInv, Made, Arriving

\* Cascades close receivers of the network.
LEMMA CascadeIds == ASSUME IInv, NEW c, NEW F \in Cascade(c) PROVE F \in SUBSET Ids
BY DEF Cascade, IInv

\* A frame that goes to another place, handled or not, is sound there.
LEMMA AtSound ==
    ASSUME IInv, NEW f \in Frames, Made(f), NEW p \in {"served", "gone"},
           p = "served" /\ frames[f].kind # "ping" =>
               frames[f].author = frames[f].holder
    PROVE  /\ At(f, p) \in [Frames -> Frame \cup {NoFrame}]
           /\ \A g \in Frames : At(f, p)[g] # NoFrame => Sound(At(f, p)[g])
           /\ \A g \in Frames :
                 At(f, p)[g] # NoFrame /\ At(f, p)[g].place = "toRelay" =>
                     At(f, p)[g].holder \in online
<1> DEFINE r == [frames[f] EXCEPT !.place = p]
<1>1. frames[f] \in Frame /\ Sound(frames[f])
  BY DEF IInv, Made, Sound
<1>2. r \in Frame /\ Sound(r) /\ r.place = p
  BY <1>1 DEF Sound, PassesCounted, Served, Frame, Places
<1>3. At(f, p) = [frames EXCEPT ![f] = r]
  BY DEF At, IInv
<1>4. \A g \in Frames : At(f, p)[g] = IF g = f THEN r ELSE frames[g]
  BY <1>3 DEF IInv
<1> HIDE DEF r
<1>5. At(f, p) \in [Frames -> Frame \cup {NoFrame}]
  BY <1>2, <1>3 DEF IInv
<1> QED
  BY <1>2, <1>4, <1>5 DEF IInv, Made, Arriving

-----------------------------------------------------------------------------
(* Clients.                                                                *)

LEMMA JoinInv ==
    ASSUME IInv, NEW id \in Ids, NEW F \in SUBSET failing, Join(id, F)
    PROVE  IInv'
<1> DEFINE over(f) == Arriving(f) /\ frames[f].holder \in F
<1>1. /\ online' \subseteq Ids /\ online \ F \subseteq online'
      /\ failing' \subseteq online'
  BY DEF Join, IInv
<1>2. ASSUME NEW f \in Frames, over(f)
      PROVE  /\ frames'[f] = [frames[f] EXCEPT !.place = "gone"]
             /\ Sound(frames'[f]) /\ frames'[f] \in Frame
             /\ frames'[f].place = "gone"
  BY <1>2 DEF Join, IInv, Arriving, Made, Sound, PassesCounted, Served, Frame, Places
<1>3. ASSUME NEW f \in Frames, ~over(f)
      PROVE  frames'[f] = frames[f]
  BY <1>3 DEF Join
<1>4. frames' \in [Frames -> Frame \cup {NoFrame}]
  <2>1. frames' = [f \in Frames |-> frames'[f]]
    BY DEF Join
  <2>2. \A f \in Frames : frames'[f] \in Frame \cup {NoFrame}
    BY <1>2, <1>3 DEF IInv
  <2> QED
    BY <2>1, <2>2
<1>5. \A f \in Frames : frames'[f] # NoFrame => Sound(frames'[f])
  BY <1>2, <1>3 DEF IInv, Made
<1>6. ASSUME NEW f \in Frames, frames'[f] # NoFrame, frames'[f].place = "toRelay"
      PROVE  frames'[f].holder \in online'
  BY <1>1, <1>2, <1>3, <1>6 DEF IInv, Arriving, Made
<1> QED
  BY <1>1, <1>4, <1>5, <1>6 DEF IInv, Made, Arriving

\* One frame becomes another one that is sound and, if it is on its way to the
\* relay, on a connection of the relay.
LEMMA FrameInv ==
    ASSUME IInv, NEW f \in Frames, NEW r \in Frame,
           frames' = [frames EXCEPT ![f] = r], UNCHANGED online,
           failing' \subseteq online,
           Sound(r), r # NoFrame, r.place = "toRelay" => r.holder \in online
    PROVE  IInv'
<1>1. \A g \in Frames : frames'[g] = IF g = f THEN r ELSE frames[g]
  BY DEF IInv
<1>2. frames' \in [Frames -> Frame \cup {NoFrame}]
  BY DEF IInv
<1> QED
  BY <1>1, <1>2 DEF IInv, Made, Arriving

LEMMA ClientInv ==
    ASSUME IInv,
           \/ \E id \in Ids : Stall(id) \/ Recover(id)
           \/ \E id \in Ids, F \in SUBSET failing : Join(id, F) \/ Leave(id, F)
           \/ \E f \in Frames, id \in Ids, from \in Peers, to \in Peers \cup {Server},
                 kind \in Kinds, n \in StartCounters : Make(f, id, from, to, kind, n)
           \/ \E f \in Frames, id \in Ids : Mesh(f, id)
           \/ \E f \in Frames : Submit(f)
    PROVE  IInv'
<1>1. ASSUME NEW id \in Ids, Stall(id) \/ Recover(id) PROVE IInv'
  BY <1>1 DEF Stall, Recover, IInv, Made, Arriving
<1>2. ASSUME NEW id \in Ids, NEW F \in SUBSET failing, Leave(id, F) PROVE IInv'
  BY <1>2, CloseInv DEF Leave, IInv, Made, Arriving
<1>3. ASSUME NEW f \in Frames, NEW id \in Ids, NEW from \in Peers,
             NEW to \in Peers \cup {Server}, NEW kind \in Kinds,
             NEW n \in StartCounters, Make(f, id, from, to, kind, n)
      PROVE  IInv'
  <2> DEFINE r == [place |-> "held", holder |-> id, author |-> id, from |-> from,
                   to |-> to, kind |-> kind, counter |-> n, passes |-> 0]
  <2>1. r \in Frame /\ Sound(r) /\ r.place = "held"
    BY Hops DEF Frame, Places, Sound, PassesCounted, Served
  <2>2. r # NoFrame
    BY <2>1, NoFrameApart
  <2>3. frames' = [frames EXCEPT ![f] = r] /\ UNCHANGED <<online, failing>>
    BY <1>3 DEF Make
  <2> HIDE DEF r
  <2> QED
    BY <2>1, <2>2, <2>3, FrameInv DEF IInv
<1>4. ASSUME NEW f \in Frames, NEW id \in Ids, Mesh(f, id) PROVE IInv'
  <2> DEFINE r == [frames[f] EXCEPT !.holder = id]
  <2>1. frames[f] \in Frame /\ Sound(frames[f]) /\ frames[f].place = "held"
    BY <1>4 DEF IInv, Mesh, Made, Sound
  <2>2. r \in Frame /\ Sound(r) /\ r.place = "held"
    BY <1>4, <2>1 DEF Mesh, Frame, Places, Sound, PassesCounted, Served
  <2>3. frames' = [frames EXCEPT ![f] = r] /\ UNCHANGED <<online, failing>>
    BY <1>4 DEF Mesh, IInv
  <2> HIDE DEF r
  <2> QED
    BY <2>2, <2>3, FrameInv, NoFrameApart DEF IInv
<1>5. ASSUME NEW f \in Frames, Submit(f) PROVE IInv'
  <2> DEFINE r == [frames[f] EXCEPT !.place = "toRelay"]
  <2>1. frames[f] \in Frame /\ Sound(frames[f]) /\ frames[f].place = "held"
    BY <1>5 DEF IInv, Submit, Made, Sound
  <2>2. r \in Frame /\ Sound(r) /\ r.holder \in online
    BY <1>5, <2>1 DEF Submit, Frame, Places, Sound, PassesCounted, Served
  <2>3. frames' = [frames EXCEPT ![f] = r] /\ UNCHANGED <<online, failing>>
    BY <1>5 DEF Submit, At, IInv
  <2> HIDE DEF r
  <2> QED
    BY <2>2, <2>3, FrameInv, NoFrameApart DEF IInv
<1> QED
  BY <1>1, <1>2, <1>3, <1>4, <1>5, JoinInv

-----------------------------------------------------------------------------
(* The relay.                                                              *)

\* A frame is handled, with D closed.
LEMMA ClosedInv ==
    ASSUME IInv, NEW f \in Frames, Arriving(f), NEW D \in SUBSET Ids,
           NEW p \in {"served", "gone"},
           p = "served" /\ frames[f].kind # "ping" =>
               frames[f].author = frames[f].holder,
           Close(D, At(f, p))
    PROVE  IInv'
BY AtSound, CloseInv DEF Arriving

\* A frame is handled and nobody is closed.
LEMMA GoneInv ==
    ASSUME IInv, NEW f \in Frames, Arriving(f), frames' = At(f, "gone"),
           UNCHANGED <<online, failing>>
    PROVE  IInv'
<1>1. /\ At(f, "gone") \in [Frames -> Frame \cup {NoFrame}]
      /\ \A g \in Frames : At(f, "gone")[g] # NoFrame => Sound(At(f, "gone")[g])
      /\ \A g \in Frames :
            At(f, "gone")[g] # NoFrame /\ At(f, "gone")[g].place = "toRelay" =>
                At(f, "gone")[g].holder \in online
  BY AtSound DEF Arriving
<1> QED
  BY <1>1 DEF IInv, Made, Arriving

\* The hop limit is tested before the counter is raised.
LEMMA ForwardInv ==
    ASSUME IInv, NEW f \in Frames, NEW target \in Ids, Forward(f, target)
    PROVE  IInv'
<1> DEFINE r == [frames[f] EXCEPT !.place = "held", !.holder = target,
                                  !.counter = Onward(@), !.passes = Counted(@)]
<1>1. frames[f] \in Frame /\ Sound(frames[f])
  BY DEF Forward, Arriving, Made, IInv, Sound
<1>2. target \in online /\ target = <<frames[f].holder[1], frames[f].to>>
  BY DEF Forward, Target
<1>3. frames[f].counter <= MaxHops
  BY <1>1, <1>2, Hops DEF Forward, Throws, HopLimit, Frame, Target
<1>4. /\ frames[f].passes \in Nat /\ frames[f].counter \in Nat
      /\ frames[f].passes <= frames[f].counter /\ frames[f].passes <= MaxHops
  BY <1>1, <1>3, Hops DEF Sound, PassesCounted, Frame
<1>5. /\ Counted(frames[f].passes) = frames[f].passes + 1
      /\ Onward(frames[f].counter) = frames[f].counter + 1
  BY <1>4, Hops DEF Counted, Onward
<1>6. r \in Frame
  <2>1. /\ Counted(frames[f].passes) \in 0 .. MaxHops + 2
        /\ Onward(frames[f].counter) \in Nat
    BY <1>4, <1>5, Hops
  <2> DEFINE old == frames[f]  n == Onward(old.counter)  m == Counted(old.passes)
  <2>2. r = [old EXCEPT !.place = "held", !.holder = target,
                        !.counter = n, !.passes = m]
    OBVIOUS
  <2>3. old \in Frame /\ n \in Nat /\ m \in 0 .. MaxHops + 2
    BY <1>1, <2>1
  <2> HIDE DEF old, n, m, r
  <2> QED
    BY <2>2, <2>3 DEF Frame, Places
<1>7. PassesCounted(r) /\ Served(r) /\ r.place = "held"
  BY <1>1, <1>4, <1>5, Hops DEF Frame, PassesCounted, Served
<1>8. r.holder[1] = r.author[1]
  BY <1>1, <1>2 DEF Frame, Sound
<1>9. frames' = [frames EXCEPT ![f] = r] /\ UNCHANGED <<online, failing>>
  BY DEF Forward, IInv
<1> HIDE DEF r
<1> QED
  BY <1>6, <1>7, <1>8, <1>9, FrameInv, NoFrameApart DEF IInv, Sound

LEMMA HandleInv ==
    ASSUME IInv, NEW f \in Frames, Handle(f)
    PROVE  IInv'
<1>1. Arriving(f) /\ frames[f] \in Frame /\ frames[f].holder \in online
  BY DEF Handle, Drop, Ignore, Undecrypted, Forward, Reject, Serve, ServeFails,
         ForwardRejected, IInv, Arriving, Made, Sound
<1>2. frames[f].holder \in Ids
  BY <1>1 DEF IInv
<1>3. CASE Drop(f) \/ Ignore(f) \/ Undecrypted(f)
  BY <1>1, <1>3, GoneInv DEF Drop, Ignore, Undecrypted
<1>4. ASSUME NEW id \in online, Forward(f, id) PROVE IInv'
  <2>1. id \in Ids
    BY DEF IInv
  <2> QED
    BY <1>4, <2>1, ForwardInv
<1>5. ASSUME NEW F \in SUBSET failing, Reject(f, F) \/ ServeFails(f, F) PROVE IInv'
  <2>1. F \cup {frames[f].holder} \in SUBSET Ids
    BY <1>2 DEF IInv
  <2> QED
    BY <1>1, <1>5, <2>1, ClosedInv DEF Reject, ServeFails
<1>6. ASSUME NEW F \in SUBSET failing, Serve(f, F) PROVE IInv'
  <2>1. F \in SUBSET Ids
    BY DEF IInv
  <2>2. frames[f].kind # "ping" => frames[f].author = frames[f].holder
    BY <1>6 DEF Serve, Opens, Throws, WronglySealed
  <2> QED
    BY <1>1, <1>6, <2>1, <2>2, ClosedInv DEF Serve
<1>7. ASSUME NEW id \in failing, NEW F \in SUBSET failing, ForwardRejected(f, id, F)
      PROVE  IInv'
  <2>1. F \cup {id} \in SUBSET Ids
    BY DEF IInv
  <2> QED
    BY <1>1, <1>7, <2>1, ClosedInv DEF ForwardRejected, Blamed
<1> QED
  BY <1>3, <1>4, <1>5, <1>6, <1>7 DEF Handle

THEOREM Invariance == Spec => []IInv
<1>1. IInv /\ [Next]_vars => IInv'
  <2> SUFFICES ASSUME IInv, [Next]_vars
               PROVE  IInv'
    OBVIOUS
  <2>1. CASE UNCHANGED vars
    BY <2>1 DEF vars, IInv, Made, Arriving
  <2>2. CASE \E f \in Frames : Handle(f)
    BY <2>2, HandleInv
  <2> QED
    BY <2>1, <2>2, ClientInv DEF Next
<1> QED
  BY <1>1, InitInv, PTL DEF Spec

-----------------------------------------------------------------------------
(* The theorems.                                                           *)

\* MAX_FORWARD_HOPS holds for a frame, not for a header: however often clients
\* hand it back, prepare_forward lets it pass MaxHops + 1 times at most.
THEOREM HopsLimited == Spec => []HopsBounded
<1>1. IInv => HopsBounded
  BY DEF IInv, HopsBounded, Sound, PassesCounted
<1> QED
  BY <1>1, Invariance, PTL

\* Every variable has its type, frames are read from registered connections
\* only, and findPeer lets none of them leave its network.
THEOREM FramesContained == Spec => []Contained
<1>1. IInv => Contained
  BY DEF IInv, Contained, TypeOK, NetworksApart, Sound
<1> QED
  BY <1>1, Invariance, PTL

\* handleReadyPacket handles no RPC packet of another peer than the one whose
\* connection it came over.
THEOREM RpcOwned == Spec => []RpcFromItsPeer
<1>1. IInv => RpcFromItsPeer
  BY DEF IInv, RpcFromItsPeer, Sound, Served
<1> QED
  BY <1>1, Invariance, PTL

\* The relay throws for a frame it cannot deliver, or that is for itself.
LEMMA BadFrame ==
    ASSUME IInv, NEW f \in Frames, Arriving(f),
           Throws(frames[f]) \/ ForServer(frames[f])
    PROVE  ~Deliverable(frames[f])
<1>1. frames[f] \in Frame
  BY DEF IInv, Arriving, Made
<1>2. CASE ForServer(frames[f])
  <2>1. <<frames[f].holder[1], frames[f].to>> \notin Ids
    BY <1>2, ServerNoPeer DEF ForServer, Ids
  <2> QED
    BY <2>1 DEF Deliverable, IInv
<1>3. CASE frames[f].kind = "malformed"
  BY <1>3 DEF Deliverable
<1>4. CASE HopLimit(frames[f])
  BY <1>1, <1>4, Hops DEF HopLimit, Deliverable, Frame
<1> QED
  BY <1>2, <1>3, <1>4 DEF Throws

LEMMA CauseStep ==
    ASSUME IInv, [Next]_vars, NEW id \in online \ online', id \notin failing
    PROVE  \E f \in Frames : /\ Arriving(f) /\ frames[f].holder = id
                             /\ frames'[f].place = "gone"
                             /\ ~Deliverable(frames[f])
<1>1. ASSUME NEW f \in Frames, NEW F \in SUBSET failing,
             Reject(f, F) \/ ServeFails(f, F)
      PROVE  /\ Arriving(f) /\ frames[f].holder = id
             /\ frames'[f].place = "gone" /\ ~Deliverable(frames[f])
  <2>1. Arriving(f) /\ Close(F \cup {frames[f].holder}, At(f, "gone"))
    BY <1>1 DEF Reject, ServeFails
  <2>2. F \subseteq failing
    BY <1>1 DEF Reject, ServeFails, Cascade
  <2>3. frames[f].holder = id
    BY <2>1, <2>2 DEF Close
  <2>4. frames[f] \in Frame
    BY <2>1 DEF IInv, Arriving, Made
  <2>5. At(f, "gone")[f] = [frames[f] EXCEPT !.place = "gone"]
    BY DEF At, IInv
  <2>6. At(f, "gone")[f].place = "gone"
    BY <2>4, <2>5 DEF Frame
  <2>7. frames'[f] = At(f, "gone")[f]
    BY <2>1, <2>6 DEF Close
  <2>8. ~Deliverable(frames[f])
    BY <1>1, <2>1, BadFrame DEF Reject, ServeFails
  <2> QED
    BY <2>1, <2>3, <2>6, <2>7, <2>8
<1>2. ASSUME NEW f \in Frames, NEW F \in SUBSET failing, Serve(f, F)
      PROVE  FALSE
  BY <1>2 DEF Serve, Close, Cascade
<1>3. ASSUME NEW f \in Frames, NEW t \in failing, NEW F \in SUBSET failing,
             ForwardRejected(f, t, F)
      PROVE  FALSE
  BY <1>3 DEF ForwardRejected, Close, Cascade, Blamed
<1>4. ASSUME NEW f \in Frames, \/ Drop(f) \/ Ignore(f) \/ Undecrypted(f) \/ Submit(f)
                               \/ \E t \in online : Forward(f, t)
                               \/ \E t \in Ids : Mesh(f, t)
      PROVE  FALSE
  BY <1>4 DEF Drop, Ignore, Undecrypted, Submit, Forward, Mesh
<1>5. ASSUME NEW c \in Ids, NEW F \in SUBSET failing,
             Join(c, F) \/ Leave(c, F) \/ Stall(c) \/ Recover(c)
      PROVE  FALSE
  BY <1>5 DEF Join, Leave, Stall, Recover, Close, Cascade
<1>6. ASSUME NEW f \in Frames, NEW c \in Ids, NEW from \in Peers,
             NEW to \in Peers \cup {Server}, NEW kind \in Kinds,
             NEW n \in StartCounters, Make(f, c, from, to, kind, n)
      PROVE  FALSE
  BY <1>6 DEF Make
<1>7. CASE UNCHANGED vars
  BY <1>7 DEF vars
<1>8. ASSUME NEW f \in Frames, Handle(f)
      PROVE  \E F \in SUBSET failing : Reject(f, F) \/ ServeFails(f, F)
  BY <1>2, <1>3, <1>4, <1>8 DEF Handle
<1> QED
  BY <1>1, <1>4, <1>5, <1>6, <1>7, <1>8 DEF Next

\* failConnection and close reach a connection only for its own frame or its
\* own socket: a receiver that cannot take a frame does not cost its sender.
THEOREM OnlyForCause == Spec => ClosedForCause
<1>1. IInv /\ [Next]_vars =>
        [\A id \in online \ online' :
            \/ id \in failing
            \/ \E f \in Frames : /\ Arriving(f) /\ frames[f].holder = id
                                 /\ frames'[f].place = "gone"
                                 /\ ~Deliverable(frames[f])]_vars
  BY CauseStep
<1> QED
  BY <1>1, Invariance, PTL DEF Spec, ClosedForCause
=============================================================================

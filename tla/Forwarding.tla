----------------------------- MODULE Forwarding -----------------------------
(***************************************************************************)
(* What the relay does with a frame of a ready connection (server.ts:      *)
(* handleMessage and handleReadyPacket; wasm/src/packet.rs).  A frame for  *)
(* another peer of the network is passed on unread, with its hop counter   *)
(* raised; a frame for the relay itself is a control packet, accepted from *)
(* its own peer only.  Everything that throws closes the sender, except a  *)
(* send that the receiver cannot take, which closes the receiver.          *)
(*                                                                         *)
(* The handshake before and the registries behind a connection are Relay's *)
(* subject: here a connection is the id it is registered for.  Clients are *)
(* a mesh: a frame may reach the relay from another peer of the network    *)
(* than the one that made it, may be sent to the relay again after the     *)
(* relay delivered it, and may carry any header.                           *)
(***************************************************************************)
EXTENDS Naturals

CONSTANTS
    Networks, Peers,
    Server,         \* SERVER_PEER_ID
    Frames,         \* frames, each made once
    NoFrame,        \* a frame that is not made yet
    MaxHops,        \* MAX_FORWARD_HOPS, 7 in the code
    StartCounters   \* hop counters frames are made with, 1 by the relay's own
                    \* build_packet

Ids == Networks \X Peers

ASSUME ServerNoPeer == Server \notin Peers
ASSUME Hops         == MaxHops \in Nat /\ StartCounters \subseteq Nat

\* Frames as handleReadyPacket tells them apart.  "malformed": a text message,
\* one above MAX_FRAME_BYTES or one whose length contradicts its header;
\* "sealedPing": a Ping or Pong with ENCRYPTED_FLAG; "clearRpc" an RPC packet
\* without it; "data": every other type.
Kinds == {"malformed", "data", "ping", "sealedPing", "pong", "rpc", "clearRpc"}

\* Where a frame is: with a client, on its way to the relay, or done.
Places == {"held", "toRelay", "served", "gone"}

Frame == [place : Places, holder : Ids, author : Ids, from : Peers,
          to : Peers \cup {Server}, kind : Kinds, counter : Nat,
          passes : 0 .. MaxHops + 2]

ASSUME NoFrameApart == NoFrame \notin Frame

VARIABLES
    online,    \* ids with a ready connection (RoomRegistry)
    failing,   \* ids whose next send would throw: the socket is not open any
               \* more or its send window is full
    frames     \* each frame: its header, who made it, who has it

vars == <<online, failing, frames>>

Init ==
    /\ online = {}
    /\ failing = {}
    /\ frames = [f \in Frames |-> NoFrame]

-----------------------------------------------------------------------------
(* Faulty variants of definitions below, for checking that each property   *)
(* is sensitive to the code it is about.  No specification uses them.      *)

\* prepare_forward that returns the frame as it is.
CounterKept(n) == n

\* A registry with one level: peers looked up by their peer id alone.
TargetInAnyNetwork(c, p) == {id \in online : id[2] = p}

\* handleReadyPacket that looks at the seal of Ping and Pong only.
OnlyPingsChecked(f) == f.kind = "sealedPing"

\* handleReadyPacket without the try around target.send.
SenderPays(c, target) == {c}

\* removeConnection after which messages of the socket are still handled.
CloseKeepsListening(D, fr) ==
    /\ online' = online \ D
    /\ failing' = failing \ D
    /\ frames' = fr

-----------------------------------------------------------------------------
Made(f)      == frames[f] # NoFrame
Arriving(f)  == Made(f) /\ frames[f].place = "toRelay"
Net(n)       == {id \in online : id[1] = n}

\* findPeer, in the network of the connection the frame came from.
Target(c, p) == {id \in online : id = <<c[1], p>>}

\* What a frame becomes.
At(f, place) == [frames EXCEPT ![f].place = place]

\* removeConnection of D: what they had under way is not read any more.
Close(D, fr) ==
    /\ online' = online \ D
    /\ failing' = failing \ D
    /\ frames' = [f \in Frames |->
           IF fr[f] # NoFrame /\ fr[f].place = "toRelay" /\ fr[f].holder \in D
           THEN [fr[f] EXCEPT !.place = "gone"] ELSE fr[f]]

\* Whom the broadcasts in a network can close: failing receivers.
Cascade(c) == SUBSET (Net(c[1]) \cap failing)

-----------------------------------------------------------------------------
(* The clients and their connections.                                      *)

\* A handshake completes, and its broadcast reaches the network.
Join(id, F) ==
    /\ id \notin online
    /\ F \in Cascade(id)
    /\ online' = (online \cup {id}) \ F
    /\ failing' = failing \ (F \cup {id})
    /\ frames' = [f \in Frames |->
           IF Arriving(f) /\ frames[f].holder \in F
           THEN [frames[f] EXCEPT !.place = "gone"] ELSE frames[f]]

\* A socket leaves the state OPEN, or its send window fills up.
Stall(id) ==
    /\ id \in online
    /\ failing' = failing \cup {id}
    /\ UNCHANGED <<online, frames>>

\* Its send window starts anew.
Recover(id) ==
    /\ failing' = failing \ {id}
    /\ UNCHANGED <<online, frames>>

\* The close event of a socket.
Leave(id, F) ==
    /\ id \in online \cap failing
    /\ F \in Cascade(id)
    /\ Close(F \cup {id}, frames)

\* A client makes a frame, with a header of its choice.
Make(f, id, from, to, kind, n) ==
    /\ ~Made(f)
    /\ frames' = [frames EXCEPT ![f] =
           [place |-> "held", holder |-> id, author |-> id, from |-> from,
            to |-> to, kind |-> kind, counter |-> n, passes |-> 0]]
    /\ UNCHANGED <<online, failing>>

\* A client gives a frame to another one of its network, past the relay.
Mesh(f, id) ==
    /\ Made(f) /\ frames[f].place = "held"
    /\ id[1] = frames[f].holder[1]
    /\ frames' = [frames EXCEPT ![f].holder = id]
    /\ UNCHANGED <<online, failing>>

\* A client sends a frame to the relay, made by itself or by another one.
Submit(f) ==
    /\ Made(f) /\ frames[f].place = "held"
    /\ frames[f].holder \in online
    /\ frames' = At(f, "toRelay")
    /\ UNCHANGED <<online, failing>>

-----------------------------------------------------------------------------
(* The relay.  Each of these handles a frame that arrived.                 *)

ForServer(f) == f.to = Server

\* prepare_forward.
HopLimit(f) == f.counter > MaxHops
Onward(n)   == n + 1

\* A control packet whose source is not the peer of the connection.
NotItsOwn(f) == f.from # f.holder[2]

\* A Ping or Pong that is sealed, an RPC packet that is not.
WronglySealed(f) == f.kind \in {"sealedPing", "clearRpc"}

\* handleReadyPacket throws before it does anything.
Throws(f) ==
    \/ f.kind = "malformed"
    \/ ~ForServer(f) /\ Target(f.holder, f.to) # {} /\ HopLimit(f)
    \/ ForServer(f) /\ (NotItsOwn(f) \/ WronglySealed(f))

\* failConnection: the sender is closed (4401).
Reject(f, F) ==
    /\ Arriving(f)
    /\ Throws(frames[f])
    /\ F \in Cascade(frames[f].holder)
    /\ Close(F \cup {frames[f].holder}, At(f, "gone"))

\* A frame for another peer that is not there is dropped without a word.
Drop(f) ==
    /\ Arriving(f)
    /\ ~Throws(frames[f]) /\ ~ForServer(frames[f])
    /\ Target(frames[f].holder, frames[f].to) = {}
    /\ frames' = At(f, "gone")
    /\ UNCHANGED <<online, failing>>

\* passes is history, counted up to one more than the limit can allow.
Counted(n) == IF n <= MaxHops + 1 THEN n + 1 ELSE n

Forward(f, target) ==
    /\ Arriving(f)
    /\ ~Throws(frames[f]) /\ ~ForServer(frames[f])
    /\ target \in Target(frames[f].holder, frames[f].to) \ failing
    /\ frames' = [frames EXCEPT ![f].place = "held", ![f].holder = target,
                                ![f].counter = Onward(@), ![f].passes = Counted(@)]
    /\ UNCHANGED <<online, failing>>

\* target.send throws: 1013 for the target.
Blamed(c, target) == {target}

ForwardRejected(f, target, F) ==
    /\ Arriving(f)
    /\ ~Throws(frames[f]) /\ ~ForServer(frames[f])
    /\ target \in Target(frames[f].holder, frames[f].to) \cap failing
    /\ F \in Cascade(target)
    /\ Close(F \cup Blamed(frames[f].holder, target), At(f, "gone"))

\* A Pong, and every type the relay has no use for, is ignored.
Ignore(f) ==
    /\ Arriving(f)
    /\ ~Throws(frames[f]) /\ ForServer(frames[f])
    /\ frames[f].kind \in {"pong", "data"}
    /\ frames' = At(f, "gone")
    /\ UNCHANGED <<online, failing>>

\* decrypt_packet opens what this connection's peer sealed, and lets a packet
\* that is not sealed through.
Opens(f) == f.kind = "clearRpc" \/ f.author = f.holder

\* A Ping is answered; an RPC packet that opens is handled, which may change
\* the routes and then broadcasts.
Serve(f, F) ==
    /\ Arriving(f)
    /\ ~Throws(frames[f]) /\ ForServer(frames[f])
    /\ \/ frames[f].kind = "ping" /\ F = {}
       \/ frames[f].kind \in {"rpc", "clearRpc"} /\ Opens(frames[f])
    /\ frames[f].kind = "ping" => frames[f].holder \notin failing
    /\ F \in Cascade(frames[f].holder)
    /\ Close(F, At(f, "served"))

\* decrypt_packet returns nothing: a replay, or one of the first nine failures.
Undecrypted(f) ==
    /\ Arriving(f)
    /\ ~Throws(frames[f]) /\ ForServer(frames[f])
    /\ frames[f].kind = "rpc"
    /\ frames' = At(f, "gone")
    /\ UNCHANGED <<online, failing>>

\* The handler throws on the way: the answer cannot be sent, the tenth failure
\* to decrypt, an RPC packet that is not understood.
ServeFails(f, F) ==
    /\ Arriving(f)
    /\ ~Throws(frames[f]) /\ ForServer(frames[f])
    /\ \/ frames[f].kind = "ping" /\ frames[f].holder \in failing
       \/ frames[f].kind \in {"rpc", "clearRpc"}
    /\ F \in Cascade(frames[f].holder)
    /\ Close(F \cup {frames[f].holder}, At(f, "gone"))

Handle(f) ==
    /\ Arriving(f)
    /\ \/ Drop(f) \/ Ignore(f) \/ Undecrypted(f)
       \/ \E id \in online : Forward(f, id)
       \/ \E F \in SUBSET failing : Reject(f, F) \/ Serve(f, F) \/ ServeFails(f, F)
       \/ \E id \in failing, F \in SUBSET failing : ForwardRejected(f, id, F)

Next ==
    \/ \E id \in Ids : Stall(id) \/ Recover(id)
    \/ \E id \in Ids, F \in SUBSET failing : Join(id, F) \/ Leave(id, F)
    \/ \E f \in Frames, id \in Ids, from \in Peers, to \in Peers \cup {Server},
          kind \in Kinds, n \in StartCounters : Make(f, id, from, to, kind, n)
    \/ \E f \in Frames, id \in Ids : Mesh(f, id)
    \/ \E f \in Frames : Submit(f) \/ Handle(f)

Spec == Init /\ [][Next]_vars

\* The runtime delivers the messages of a socket while it is registered.
Fairness == \A f \in Frames : WF_vars(Handle(f))

FairSpec == Spec /\ Fairness

-----------------------------------------------------------------------------
(* Correctness.                                                            *)

\* Every variable has its type, and whatever is on its way to the relay comes
\* over a connection the relay still has (removeConnection).
TypeOK ==
    /\ online \subseteq Ids
    /\ failing \subseteq online
    /\ frames \in [Frames -> Frame \cup {NoFrame}]
    /\ \A f \in Frames : Arriving(f) => frames[f].holder \in online

\* A frame passes the relay at most MAX_FORWARD_HOPS + 1 times, however often
\* clients hand it back: the hop counter ends every loop through the relay.
HopsBounded == \A f \in Frames : Made(f) => frames[f].passes <= MaxHops + 1

\* Nothing of one network reaches a peer of another, whatever its header says
\* (findPeer looks in the network the sender has proved to be in).
NetworksApart ==
    \A f \in Frames : Made(f) => frames[f].holder[1] = frames[f].author[1]

\* Frames stay in their network, and on connections that are there.
Contained == TypeOK /\ NetworksApart

\* An RPC packet is handled only for the peer that made it, although peers
\* pass each other's packets on and the header's source can be any.
RpcFromItsPeer ==
    \A f \in Frames :
        Made(f) /\ frames[f].place = "served" /\ frames[f].kind # "ping" =>
            frames[f].author = frames[f].holder

\* A frame that another peer should get and that is within the hop limit.
Deliverable(f) ==
    /\ f.kind # "malformed"
    /\ <<f.holder[1], f.to>> \in online \ {f.holder}
    /\ f.counter <= MaxHops

\* A connection is closed when its own socket cannot take a packet, or for a
\* frame that it sent itself and that was no good: a receiver that is slow or
\* gone never costs the sender its connection, nor anybody else.
ClosedForCause ==
    [][\A id \in online \ online' :
          \/ id \in failing
          \/ \E f \in Frames : /\ Arriving(f) /\ frames[f].holder = id
                               /\ frames'[f].place = "gone"
                               /\ ~Deliverable(frames[f])]_vars

\* Every frame comes to rest: sooner or later no client's handing it back
\* brings it to the relay any more.
FramesSettle == \A f \in Frames : <>[]~Arriving(f)
=============================================================================

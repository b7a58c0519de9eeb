----------------------------- MODULE Broadcast -----------------------------
(***************************************************************************)
(* How route updates are handed out in one network (server.ts:             *)
(* broadcastRouteUpdate, removeConnection, close, the maintenance          *)
(* callback; core/rpc.ts: EasyTierRpc), call by call.  Relay takes the     *)
(* cascade that a failed send starts as one step; here it is what the code *)
(* does: a send that fails inside the loop of a broadcast closes its       *)
(* receiver, which changes the room that is iterated and runs another      *)
(* broadcast before the loop goes on.                                      *)
(*                                                                         *)
(* stack is the call stack of the one thread: an event begins when it is   *)
(* empty, and the call on top of it does the next step.  A loop over a Map *)
(* visits what is in it when the loop gets there and nothing twice; any    *)
(* order stands for the order of insertion.  What an update says is        *)
(* RouteSync's subject: here a peer is behind if something changed after   *)
(* its last update was built, or if that update was given up.              *)
(***************************************************************************)
EXTENDS Naturals, Sequences, FiniteSets

CONSTANTS Peers, NoPeer, NoState

ASSUME Sentinel    == NoPeer \notin Peers
ASSUME FinitePeers == IsFiniteSet(Peers)

VARIABLES
    room,     \* peers registered in the RoomRegistry
    ready,    \* those of them whose connection is ready
    sync,     \* EasyTierRpc.routeSyncStates
    behind,   \* ready peers that have not been sent the routes as they are
    stack     \* calls under way, the innermost one first

vars == <<room, ready, sync, behind, stack>>

\* RouteSyncState; when a transaction is overdue is left to the clock.
SyncStates == [inFlight : BOOLEAN, dirty : BOOLEAN, full : BOOLEAN]
Idle == [inFlight |-> FALSE, dirty |-> FALSE, full |-> FALSE]

ASSUME NoStateApart == NoState \notin SyncStates

\* A call: whom a broadcast leaves out or who arrives, the peers a loop has
\* visited and those it has still to look at.
Call(op, peer, done, todo) == [op |-> op, peer |-> peer, done |-> done, todo |-> todo]
ToAllBut(a) == Call("broadcast", a, {}, {})
ToAll == ToAllBut(NoPeer)

Init ==
    /\ room = {}
    /\ ready = {}
    /\ sync = [a \in Peers |-> NoState]
    /\ behind = {}
    /\ stack = <<>>

-----------------------------------------------------------------------------
(* Faulty variants of definitions below, for checking that each property   *)
(* is sensitive to the code it is about.  No specification uses them.      *)

\* cleanExpired whose failures nobody closes.
FailuresLogged(failed) == {}

\* removePeer that leaves the state of the peer in routeSyncStates.
StateKept(s, a) == s

\* removeConnection that does not change the phase.
ReadyKept(a) == ready

\* A broadcast that registers its receiver anew: a Map visits an entry again
\* that was deleted and set while it is iterated.
VisitedAnew(done, a) == {a}

-----------------------------------------------------------------------------
(* EasyTierRpc.                                                            *)

StateOf(a) == IF sync[a] = NoState THEN Idle ELSE sync[a]

\* sendRouteUpdate's share before it flushes.
Dirty(s) == [s EXCEPT !.dirty = TRUE]

\* flushRouteUpdate while a transaction is in flight, after it, when the
\* update cannot be built (the flags are lost), when it cannot be sent.
Waits(s) == s
Sent     == [Idle EXCEPT !.inFlight = TRUE]
Unbuilt  == Idle
Unsent(s) == [s EXCEPT !.dirty = TRUE]

Without(s, a) == [s EXCEPT ![a] = NoState]

\* flushRouteUpdate of a whose state is s: what becomes of the state, whether
\* a has the current routes then and whether the call throws.
Flush(a, s, next, current, throws) ==
    \/ /\ s.inFlight \/ ~(s.dirty \/ s.full)
       /\ next = Waits(s) /\ current = FALSE /\ throws = FALSE
    \/ /\ ~s.inFlight /\ (s.dirty \/ s.full)
       /\ \/ next = Sent /\ current = TRUE /\ throws = FALSE
          \/ next \in {Unbuilt, Unsent(s)} /\ current = FALSE /\ throws = TRUE

Outcomes(a, s) ==
    {o \in [next : SyncStates, current : BOOLEAN, throws : BOOLEAN] :
        Flush(a, s, o.next, o.current, o.throws)}

-----------------------------------------------------------------------------
(* Closing.                                                                *)

RoomWithout(a)  == room \ {a}
ReadyWithout(a) == ready \ {a}

\* close and removeConnection of the ready connection a, up to the broadcast,
\* which runs before the calls of rest go on.
CloseThen(a, s, rest) ==
    /\ room' = RoomWithout(a)
    /\ ready' = ReadyWithout(a)
    /\ sync' = Without(s, a)
    /\ behind' = ready'
    /\ stack' = <<ToAll>> \o rest

\* An update for a after which the calls of rest go on, or a's end.
UpdateThen(a, s, rest) ==
    \E o \in Outcomes(a, s) :
        IF o.throws THEN CloseThen(a, [sync EXCEPT ![a] = o.next], rest)
        ELSE /\ sync' = [sync EXCEPT ![a] = o.next]
             /\ behind' = IF o.current THEN behind \ {a} ELSE behind
             /\ stack' = rest
             /\ UNCHANGED <<room, ready>>

-----------------------------------------------------------------------------
(* The events.                                                             *)

AtRest == stack = <<>>

\* registerConnection of a peer that is not there, completeHandshake.
Join(a) ==
    /\ AtRest /\ a \notin room
    /\ room' = room \cup {a}
    /\ ready' = ready \cup {a}
    /\ sync' = Without(sync, a)
    /\ behind' = ready'
    /\ stack' = <<ToAll>>

\* registerConnection of a peer whose old connection is ready: the new one is
\* in the room, and not ready yet, when the old one is removed.
Reconnect(a) ==
    /\ AtRest /\ a \in ready
    /\ ready' = ready \ {a}
    /\ sync' = Without(sync, a)
    /\ behind' = ready \ {a}
    /\ stack' = <<ToAll, Call("arrive", a, {}, {})>>
    /\ UNCHANGED room

\* A ready connection ends, for whatever reason.
Leave(a) == AtRest /\ a \in ready /\ CloseThen(a, sync, <<>>)

\* handleRequest changed the routes, and the answer cannot be sent: the error
\* ends the connection, and nobody was marked for the change.
RouteUnanswered(a) == Leave(a)

\* handleRequest changed the routes: an update for the sender, then for the
\* others of its network.
RouteRequest(a) ==
    /\ AtRest /\ a \in ready
    /\ \E o \in Outcomes(a, Dirty(StateOf(a))) :
          IF o.throws THEN CloseThen(a, [sync EXCEPT ![a] = o.next], <<>>)
          ELSE /\ sync' = [sync EXCEPT ![a] = o.next]
               /\ behind' = IF o.current THEN ready \ {a} ELSE ready
               /\ stack' = <<ToAllBut(a)>>
               /\ UNCHANGED <<room, ready>>

\* handleRequest met a new session of the sender: an update for the sender.
SessionRequest(a) ==
    /\ AtRest /\ a \in ready
    /\ \E o \in Outcomes(a, Dirty(StateOf(a))) :
          IF o.throws THEN CloseThen(a, [sync EXCEPT ![a] = o.next], <<>>)
          ELSE /\ sync' = [sync EXCEPT ![a] = o.next]
               /\ behind' = IF o.current THEN behind \ {a} ELSE behind \cup {a}
               /\ UNCHANGED <<room, ready, stack>>

\* handleResponse: the transaction is complete, and what waited is sent.
Response(a) ==
    /\ AtRest /\ a \in ready
    /\ sync[a] # NoState /\ sync[a].inFlight
    /\ UpdateThen(a, [sync[a] EXCEPT !.inFlight = FALSE], <<>>)

\* The maintenance timer fires: the transactions of overdue have been in
\* flight for too long, the peers of due are due for a refresh if they are
\* idle when it is their turn.
Maintenance(overdue, due) ==
    /\ AtRest
    /\ overdue \subseteq {a \in Peers : sync[a] # NoState /\ sync[a].inFlight}
    /\ due \subseteq ready
    /\ overdue \cup due # {}
    /\ stack' = <<Call("clean", NoPeer, {}, overdue), Call("maintain", NoPeer, {}, due)>>
    /\ UNCHANGED <<room, ready, sync, behind>>

-----------------------------------------------------------------------------
(* The calls.                                                              *)

Top  == Head(stack)
Rest == Tail(stack)
Doing(op) == stack # <<>> /\ Top.op = op

Visited(done, a) == done \cup {a}

\* One turn of broadcastRouteUpdate's loop, or its end.
BroadcastStep ==
    /\ Doing("broadcast")
    /\ \/ \E a \in room \ Top.done :
             LET loop == <<[Top EXCEPT !.done = Visited(@, a)]>> \o Rest
             IN  IF a = Top.peer \/ a \notin ready
                 THEN stack' = loop /\ UNCHANGED <<room, ready, sync, behind>>
                 ELSE UpdateThen(a, Dirty(StateOf(a)), loop)
       \/ /\ room \subseteq Top.done
          /\ stack' = Rest
          /\ UNCHANGED <<room, ready, sync, behind>>

\* The rest of registerConnection and of handleHandshakeMessage3.
ArriveStep ==
    /\ Doing("arrive")
    /\ ready' = ready \cup {Top.peer}
    /\ sync' = Without(sync, Top.peer)
    /\ behind' = ready'
    /\ stack' = <<ToAll>> \o Rest
    /\ UNCHANGED room

\* What the retry of an overdue transaction starts from.
Retried(s) == [s EXCEPT !.inFlight = FALSE, !.dirty = TRUE, !.full = TRUE]

\* The failures of cleanExpired that the callback closes.
ToClose(failed) == failed

\* One turn of cleanExpired's loop, which collects its failures, or its end.
CleanStep ==
    /\ Doing("clean")
    /\ \/ \E a \in Top.todo :
             \E r \in Outcomes(a, Retried(sync[a])) :
                 /\ sync' = [sync EXCEPT ![a] = r.next]
                 /\ behind' = IF r.current THEN behind \ {a} ELSE behind \cup {a}
                 /\ stack' = <<[Top EXCEPT !.todo = @ \ {a},
                                           !.done = IF r.throws THEN @ \cup {a} ELSE @]>>
                             \o Rest
                 /\ UNCHANGED <<room, ready>>
       \/ /\ Top.todo = {}
          /\ stack' = <<Call("close", NoPeer, {}, ToClose(Top.done))>> \o Rest
          /\ UNCHANGED <<room, ready, sync, behind>>

\* findPeer and close for each failure.
CloseStep ==
    /\ Doing("close")
    /\ \/ \E a \in Top.todo :
             LET loop == <<[Top EXCEPT !.todo = @ \ {a}]>> \o Rest
             IN  IF a \in room THEN CloseThen(a, sync, loop)
                 ELSE stack' = loop /\ UNCHANGED <<room, ready, sync, behind>>
       \/ /\ Top.todo = {}
          /\ stack' = Rest
          /\ UNCHANGED <<room, ready, sync, behind>>

\* maintainPeer for each ready connection.
MaintainStep ==
    /\ Doing("maintain")
    /\ \/ \E a \in Top.todo :
             LET loop == <<[Top EXCEPT !.todo = @ \ {a}]>> \o Rest
             IN  IF a \in ready /\ sync[a] # NoState /\ ~StateOf(a).inFlight
                 THEN UpdateThen(a, Dirty(sync[a]), loop)
                 ELSE stack' = loop /\ UNCHANGED <<room, ready, sync, behind>>
       \/ /\ Top.todo = {}
          /\ stack' = Rest
          /\ UNCHANGED <<room, ready, sync, behind>>

Step == \/ BroadcastStep \/ ArriveStep \/ CleanStep \/ CloseStep \/ MaintainStep

Next ==
    \/ \E a \in Peers : \/ Join(a) \/ Reconnect(a) \/ Leave(a) \/ RouteUnanswered(a)
                        \/ RouteRequest(a) \/ SessionRequest(a) \/ Response(a)
    \/ \E overdue, due \in SUBSET Peers : Maintenance(overdue, due)
    \/ Step

Spec == Init /\ [][Next]_vars

\* The thread goes on until its event is handled.
FairSpec == Spec /\ WF_vars(Step)

-----------------------------------------------------------------------------
(* Correctness.                                                            *)

Calls == [op : {"broadcast", "arrive", "clean", "close", "maintain"},
          peer : Peers \cup {NoPeer}, done : SUBSET Peers, todo : SUBSET Peers]

\* Every variable has its type, and calls nest no deeper than one for each
\* peer and two for the event.
TypeOK ==
    /\ ready \subseteq room /\ room \subseteq Peers
    /\ sync \in [Peers -> SyncStates \cup {NoState}]
    /\ behind \subseteq ready
    /\ stack \in Seq(Calls)
    /\ Len(stack) <= Cardinality(Peers) + 2

\* Once an event is handled, everybody who lacks a change has a transaction in
\* flight whose end, an answer or its timeout, sends it: no failure on the
\* way, of whomever in whichever loop, loses an update for a peer that stays.
NobodyForgotten ==
    AtRest => \A a \in behind : /\ sync[a] # NoState /\ sync[a].inFlight
                                /\ sync[a].dirty \/ sync[a].full

\* EasyTierRpc keeps states of ready peers only, so the maintenance never
\* sends to a connection that is gone.
StatesOfPresent ==
    AtRest => /\ room = ready
              /\ \A a \in Peers : sync[a] # NoState => a \in ready

\* Nesting is bounded and nothing is left of those it removes.
StatesExact == TypeOK /\ StatesOfPresent

\* The cascade of closes and broadcasts ends, whoever fails at whatever turn.
CascadesEnd == ~AtRest ~> AtRest
=============================================================================

----------------------------- MODULE RouteSync -----------------------------
(***************************************************************************)
(* Route synchronisation inside one network: RouteState                    *)
(* (src/cloudflare/wasm/src/route_state.rs), the outstanding route         *)
(* transactions of WasmRpcCore (wasm/src/rpc.rs) and the send state that   *)
(* EasyTierRpc keeps for each peer (src/core/rpc.ts), composed with the    *)
(* clients and the WebSockets between them.                                *)
(*                                                                         *)
(* The server tells every peer the route information of the others.  It    *)
(* sends a peer one update at a time and remembers, once the answer is     *)
(* there, which versions the peer was sent; an update leaves out what is   *)
(* remembered.  Peers connect, leave and come back meanwhile, and answers  *)
(* may be slow.  The group of a network is independent of all others, so   *)
(* one is modelled.  The server's own route information never changes      *)
(* after its first configuration and is left out.                          *)
(***************************************************************************)
EXTENDS Naturals, Sequences, FiniteSets

CONSTANTS
    Peers,      \* peer ids of the network
    NoInfo,     \* no route information
    Restarts,   \* peers whose client may restart and come back as a new instance
    Flaky,      \* bound: peers that lose connections while their client runs
    Unreliable, \* bound: connections made while clients drop and delay updates
    MaxVersion, \* bound: versions of a peer's route information
    MaxRuns,    \* bound: instances of a client
    MaxJoins,   \* bound: connections ever made
    MaxFrames   \* bound: frames under way when a transaction becomes overdue;
                \* none once the clients are reliable

ASSUME FinitePeers == IsFiniteSet(Peers)
ASSUME Bounds ==
    /\ Restarts \subseteq Peers /\ Flaky \subseteq Peers
    /\ {Unreliable, MaxJoins, MaxFrames} \subseteq Nat
    /\ {MaxVersion, MaxRuns} \subseteq Nat \ {0}

VARIABLES
    present,   \* RouteGroupData.peers: peers with a ready connection
    info,      \* RouteGroupData.peer_infos
    topology,  \* RouteGroupData.topology_version
    session,   \* RouteGroupData.sessions
    sync,      \* EasyTierRpc.routeSyncStates
    out,       \* WasmRpcCore.outstanding_routes of each peer
    down, up,  \* frames on the way to and from each client
    own,       \* each client's own route information
    know,      \* what each client was told about the others
    joins      \* connections made so far

serverVars == <<present, info, topology, session, sync, out>>
clientVars == <<own, know, joins>>
vars       == <<serverVars, down, up, clientVars>>

\* RoutePeerInfo: the instance id and the version within the instance.
Infos    == [run : 1 .. MaxRuns, ver : 1 .. MaxVersion]
Told     == [Peers -> Infos \cup {NoInfo}]

ASSUME NoInfoApart == NoInfo \notin Infos

\* SessionState: the peer's session id (0 for none; a client's instance has
\* one), peer_info_ver_map (0 for none) and last_topology_version.
Sessions   == [dst : 0 .. MaxRuns, seen : [Peers -> 0 .. MaxVersion], topology : Nat]
NewSession == [dst |-> 0, seen |-> [x \in Peers |-> 0], topology |-> 0]

\* RouteSyncState; overdue once sentAt is more than ROUTE_SYNC_TIMEOUT_MS ago.
SyncStates == [inFlight : BOOLEAN, dirty : BOOLEAN, full : BOOLEAN,
               overdue : BOOLEAN]
Idle       == [inFlight |-> FALSE, dirty |-> FALSE, full |-> FALSE,
               overdue |-> FALSE]
Sent       == [Idle EXCEPT !.inFlight = TRUE]

Init ==
    /\ present = {}
    /\ info = [a \in Peers |-> NoInfo]
    /\ topology = 1
    /\ session = [a \in Peers |-> NewSession]
    /\ sync = [a \in Peers |-> Idle]
    /\ out = [a \in Peers |-> {}]
    /\ down = [a \in Peers |-> <<>>]
    /\ up = [a \in Peers |-> <<>>]
    /\ own = [a \in Peers |-> [run |-> 1, ver |-> 1]]
    /\ know = [a \in Peers |-> [x \in Peers |-> NoInfo]]
    /\ joins = 0

Larger(m, n) == IF m >= n THEN m ELSE n

-----------------------------------------------------------------------------
(* Faulty variants, for checking the sensitivity of the properties.        *)

\* flushRouteUpdate that clears the flags before it looks at inFlight.
MarkedLost(s) == s

\* sendRouteUpdate that does not wait for the transaction in flight.
NeverWaits(P, sy) == P

\* commit_route_update that saves the version that is current at the answer.
SavesCurrent(s, tx) ==
    [s EXCEPT !.seen = [x \in Peers |->
                  IF info[x] # NoInfo THEN info[x].ver ELSE s.seen[x]],
              !.topology = topology]

\* handleResponse that does not look at the flags.
NeverWaiting(a) == FALSE

\* build_sync_route_info_request without SAVED_ROUTE_VERSION_TTL_MS.
NeverOld(P) == {}

\* cleanExpired that leaves the transaction's flags alone.
RetryForgotten(a) == FALSE

-----------------------------------------------------------------------------
(* Route updates.                                                          *)

\* Of the saved versions <<a, x>> any may be older than SAVED_ROUTE_VERSION_TTL_MS
\* by the time an update for a, one of P, is built.
MayBeOld(P) ==
    {d \in P \X Peers : info'[d[2]] # NoInfo /\ session'[d[1]].seen[d[2]] # 0}

\* The route information an update for a carries: all of it when the update is
\* forced or a's session is unknown, otherwise what a was not sent lately.
Contents(a, full, old) == [x \in Peers |->
    IF /\ x # a /\ info'[x] # NoInfo
       /\ \/ full \/ session'[a].dst = 0 \/ <<a, x>> \in old
          \/ info'[x].ver > session'[a].seen[x]
    THEN info'[x] ELSE NoInfo]

\* build_conn_info: no connection information for a peer that has it.  That it
\* is repeated after the same time changes nothing that is modelled.
Topology(a, v) == IF session'[a].topology = v THEN 0 ELSE v

\* next_transaction_id: an id that nothing still under way uses.
FreshId(a, o, d) ==
    CHOOSE id \in 1 .. (Cardinality(o[a]) + Len(d[a]) + Len(up[a]) + 1) :
        /\ \A tx \in o[a] : tx.id # id
        /\ \A i \in DOMAIN d[a] : d[a][i].id # id
        /\ \A i \in DOMAIN up[a] : up[a][i].id # id

\* build_route_update for a, at topology version v.
Update(a, full, old, v, o, d) ==
    [id |-> FreshId(a, o, d), infos |-> Contents(a, full, old),
     topology |-> Topology(a, v)]

\* flushRouteUpdate returns at once while a transaction is in flight.
CanSend(P, sy) == {a \in P : ~sy[a].inFlight}

\* What sendRouteUpdate leaves in the state of a peer it cannot send to yet.
Marked(s) == [s EXCEPT !.dirty = TRUE]

\* sendRouteUpdate(peer, false) for the peers P at topology version v, with the saved
\* versions old: the send states, transactions and frames that io becomes.  The
\* other variables of the server have their new values by then.  Building an
\* update first drops every transaction that is overdue (clean_rpc_state).
Sending(P, old, v, io) ==
    LET now   == CanSend(P, io.sync)
        kept  == [a \in Peers |->
                     IF now # {} /\ io.sync[a].overdue THEN {} ELSE io.out[a]]
        tx(a) == Update(a, io.sync[a].full, old, v, kept, io.down)
    IN  [sync |-> [a \in Peers |-> IF a \in now THEN Sent
                                   ELSE IF a \in P THEN Marked(io.sync[a])
                                   ELSE io.sync[a]],
         out  |-> [a \in Peers |->
                      IF a \in now THEN kept[a] \cup {tx(a)} ELSE kept[a]],
         down |-> [a \in Peers |->
                      IF a \in now THEN Append(io.down[a], tx(a)) ELSE io.down[a]]]

Becomes(io) == sync' = io.sync /\ out' = io.out /\ down' = io.down

SendUpdates(P, io) ==
    \E old \in SUBSET MayBeOld(P) : Becomes(Sending(P, old, topology', io))

-----------------------------------------------------------------------------
(* Peers come and go.                                                      *)

\* What may connect as a: its client, or the next instance of it.
Instances(a) == {own[a]} \cup
    IF a \in Restarts /\ own[a].run < MaxRuns
    THEN {[run |-> own[a].run + 1, ver |-> 1]} ELSE {}

\* A client that started anew knows nothing.
Connects(a, i) ==
    /\ joins < MaxJoins
    /\ joins' = joins + 1
    /\ own' = [own EXCEPT ![a] = i]
    /\ know' = IF i = own[a] THEN know
               ELSE [know EXCEPT ![a] = [x \in Peers |-> NoInfo]]

\* registerConnection and the broadcast after it: add_peer raises the topology
\* version, and everyone is sent an update, the new peer included.
Join(a, i) ==
    /\ a \notin present
    /\ Connects(a, i)
    /\ present' = present \cup {a}
    /\ topology' = topology + 1
    /\ UNCHANGED <<info, session, up>>
    /\ SendUpdates(present', [sync |-> sync, out |-> out, down |-> down])

\* remove_peer: everything about a is forgotten, what the others are known to
\* have been sent of it included.
Forgotten(a) == [b \in Peers |->
    IF b = a THEN NewSession
    ELSE [session[b] EXCEPT !.seen[a] = 0, !.topology = 0]]

\* removePeer: a's send state, transactions and frames are gone.
WithoutPeer(a) == [sync |-> [sync EXCEPT ![a] = Idle],
                   out  |-> [out EXCEPT ![a] = {}],
                   down |-> [down EXCEPT ![a] = <<>>]]

\* removeConnection of a's ready connection, for whatever reason, and the
\* broadcast to the others.
Leave(a) ==
    /\ a \in present
    /\ present' = present \ {a}
    /\ info' = [info EXCEPT ![a] = NoInfo]
    /\ topology' = topology + 1
    /\ session' = Forgotten(a)
    /\ up' = [up EXCEPT ![a] = <<>>]
    /\ UNCHANGED <<own, know, joins>>
    /\ SendUpdates(present', WithoutPeer(a))

\* a connects anew while it is present: its old connection is removed first,
\* with the broadcast that entails, then the new one is added and everyone is
\* sent an update.
Reconnect(a, i) ==
    /\ a \in present
    /\ Connects(a, i)
    /\ info' = [info EXCEPT ![a] = NoInfo]
    /\ topology' = topology + 2
    /\ session' = Forgotten(a)
    /\ up' = [up EXCEPT ![a] = <<>>]
    /\ UNCHANGED present
    /\ \E old \in SUBSET MayBeOld(present \ {a}) :
          Becomes(Sending(present, old, topology',
                          Sending(present \ {a}, old, topology + 1, WithoutPeer(a))))

-----------------------------------------------------------------------------
(* The server handles a frame or the timer.                                *)

\* A new session id makes the server forget what it sent to the old session.
WithPeerSession(s, id) == IF s.dst = id THEN s ELSE [NewSession EXCEPT !.dst = id]

\* Connection information changes with the first information of a peer only.
NeedsBump(a) == info[a] = NoInfo

\* handle_sync_route_info_request: a published its information.
Request(a) ==
    LET m       == Head(up[a])
        new     == info[a] = NoInfo \/ info[a].run # m.info.run
                       \/ m.info.ver > info[a].ver
        swapped == info[a] # NoInfo /\ info[a].run # m.info.run
        changed == session[a].dst # m.run
        mine    == WithPeerSession(session[a], m.run)
    IN  /\ up[a] # <<>> /\ m.type = "publish"
        /\ up' = [up EXCEPT ![a] = Tail(@)]
        /\ session' = [b \in Peers |->
               LET s == IF b = a THEN mine ELSE session[b]
               IN  IF new /\ swapped THEN [s EXCEPT !.seen[a] = 0] ELSE s]
        /\ info' = IF new THEN [info EXCEPT ![a] = m.info] ELSE info
        /\ topology' = IF new /\ NeedsBump(a) THEN topology + 1 ELSE topology
        /\ UNCHANGED <<present, clientVars>>
        /\ SendUpdates(CASE new -> present
                         [] ~new /\ changed -> {a}
                         [] OTHER -> {},
                       [sync |-> sync, out |-> out, down |-> down])

\* The transaction that the answer at the head of a's frames belongs to.
Answered(a) == {tx \in out[a] : tx.id = Head(up[a]).id}

\* commit_route_update: what the update carried is now saved as sent.
Committed(s, tx) ==
    [s EXCEPT !.seen = [x \in Peers |-> IF tx.infos[x] = NoInfo THEN s.seen[x]
                                       ELSE Larger(s.seen[x], tx.infos[x].ver)],
              !.topology = Larger(@, tx.topology)]

\* What became dirty while the transaction was in flight.
Waiting(a) == sync[a].dirty \/ sync[a].full

\* handle_response and handleResponse: a answered in time, and what had to
\* wait is sent now.
Response(a) ==
    LET m == Head(up[a]) IN
    /\ up[a] # <<>> /\ m.type = "answer"
    /\ ~sync[a].overdue
    /\ \E tx \in Answered(a) :
          /\ session' = [session EXCEPT
                 ![a] = Committed(WithPeerSession(@, m.run), tx)]
          /\ up' = [up EXCEPT ![a] = Tail(@)]
          /\ UNCHANGED <<present, info, topology, clientVars>>
          /\ SendUpdates(IF Waiting(a) THEN {a} ELSE {},
                         [sync |-> [sync EXCEPT ![a].inFlight = FALSE],
                          out  |-> [out EXCEPT ![a] = @ \ {tx}],
                          down |-> down])

\* An answer after the deadline, or to a transaction that was given up, is an
\* error, and failConnection closes the peer's connection.
LateResponse(a) ==
    /\ up[a] # <<>> /\ Head(up[a]).type = "answer"
    /\ sync[a].overdue \/ Answered(a) = {}
    /\ Leave(a)

\* cleanExpired gives up what has been in flight for too long.
GivenUp(a) == sync[a].inFlight /\ sync[a].overdue

\* The maintenance callback: what is overdue is given up and sent in full, and
\* the idle peers S, unsent for ROUTE_MAINTENANCE_INTERVAL_MS, get a refresh.
Tick(S) ==
    LET P == {a \in Peers : GivenUp(a)} IN
    /\ S \subseteq {a \in present : ~sync[a].inFlight}
    /\ P \cup S # {}
    /\ UNCHANGED <<present, info, topology, session, up, clientVars>>
    /\ SendUpdates(P \cup S,
           [sync |-> [a \in Peers |-> IF a \in P THEN [Idle EXCEPT !.full = TRUE]
                                     ELSE sync[a]],
            out  |-> [a \in Peers |-> IF sync[a].overdue THEN {} ELSE out[a]],
            down |-> down])

-----------------------------------------------------------------------------
(* Time.                                                                   *)

\* ROUTE_SYNC_TIMEOUT_MS and ROUTE_RPC_TIMEOUT_MS, both 3 s from the same
\* moment, have passed since a was sent an update.
Elapse(a) ==
    /\ sync[a].inFlight /\ ~sync[a].overdue
    /\ Len(down[a]) + Len(up[a]) <= IF joins <= Unreliable THEN MaxFrames ELSE 0
    /\ sync' = [sync EXCEPT ![a].overdue = TRUE]
    /\ UNCHANGED <<present, info, topology, session, out, down, up, clientVars>>

-----------------------------------------------------------------------------
(* The clients, as far as the server relies on them.                       *)

\* A client publishes its information while the server lacks it, or when it
\* changes.
Publish(a, v) ==
    /\ a \in present
    /\ v \in {own[a].ver, own[a].ver + 1} \cap 1 .. MaxVersion
    /\ v = own[a].ver => info[a] # own[a]
    /\ \A i \in DOMAIN up[a] : up[a][i].type # "publish"
    /\ own' = [own EXCEPT ![a].ver = v]
    /\ up' = [up EXCEPT ![a] = Append(@,
                 [type |-> "publish", id |-> 0, run |-> own[a].run, info |-> own'[a]])]
    /\ UNCHANGED <<serverVars, down, know, joins>>

\* A client takes over an update and answers it.
Learn(a) ==
    /\ down[a] # <<>>
    /\ know' = [know EXCEPT ![a] = [x \in Peers |->
           IF Head(down[a]).infos[x] = NoInfo THEN @[x] ELSE Head(down[a]).infos[x]]]
    /\ down' = [down EXCEPT ![a] = Tail(@)]
    /\ up' = [up EXCEPT ![a] = Append(@,
                 [type |-> "answer", id |-> Head(down[a]).id, run |-> own[a].run,
                  info |-> NoInfo])]
    /\ UNCHANGED <<serverVars, own, joins>>

\* ... or drops it.
Ignore(a) ==
    /\ joins <= Unreliable
    /\ down[a] # <<>>
    /\ down' = [down EXCEPT ![a] = Tail(@)]
    /\ UNCHANGED <<serverVars, up, clientVars>>

Step(a) ==
    \/ \E i \in Instances(a) :
          \/ Join(a, i)
          \/ (i # own[a] \/ a \in Flaky) /\ Reconnect(a, i)
    \/ a \in Flaky /\ Leave(a)
    \/ Request(a) \/ Response(a) \/ LateResponse(a)
    \/ Elapse(a)
    \/ \E v \in 1 .. MaxVersion : Publish(a, v)
    \/ Learn(a) \/ Ignore(a)

Next ==
    \/ \E a \in Peers : Step(a)
    \/ \E S \in SUBSET Peers : Tick(S)

Spec == Init /\ [][Next]_vars

\* Maintenance that finds a idle with everything saved about the others old.
Refresh(a) ==
    /\ a \in present /\ ~sync[a].inFlight
    /\ \E S \in SUBSET Peers :
          /\ a \in S
          /\ Tick(S)
          /\ \E tx \in out'[a] : \A x \in Peers \ {a} : tx.infos[x] = info[x]

\* The timer fires for as long as there are connections, every 10 s, and what
\* was saved grows old unless it is sent again; time passes; frames are read;
\* clients publish and do not ignore every update.  Nothing forces a peer to
\* connect or to stay.
Fairness ==
    /\ WF_vars(Tick({}))
    /\ \A a \in Peers :
          /\ WF_vars(Elapse(a))
          /\ WF_vars(\E v \in 1 .. MaxVersion : Publish(a, v))
          /\ WF_vars(Request(a) \/ Response(a) \/ LateResponse(a))
          /\ SF_vars(Refresh(a)) /\ SF_vars(Learn(a))

FairSpec == Spec /\ Fairness

-----------------------------------------------------------------------------
(* Correctness.                                                            *)

\* The variables have their types, and a connection raises the topology version
\* three times at most: when it is added, for the information it publishes
\* first, and when it is removed.
TypeOK ==
    /\ present \subseteq Peers
    /\ info \in [Peers -> Infos \cup {NoInfo}] /\ own \in [Peers -> Infos]
    /\ know \in [Peers -> Told]
    /\ topology \in 1 .. (3 * MaxJoins + 1)
    /\ session \in [Peers -> Sessions]
    /\ sync \in [Peers -> SyncStates]
    /\ joins \in 0 .. MaxJoins
    /\ \A a \in Peers : \A tx \in out[a] :
          tx.infos \in Told /\ tx.topology \in 0 .. topology

\* A peer has at most one route transaction at a time, the send state of
\* EasyTierRpc and the transactions of WasmRpcCore agree about it although each
\* keeps its own timeout, and a peer that left has neither.
OneTransaction == \A a \in Peers :
    /\ Cardinality(out[a]) <= 1
    /\ out[a] # {} => sync[a].inFlight
    /\ sync[a].inFlight /\ ~sync[a].overdue => out[a] # {}
    /\ sync[a].inFlight => a \in present

\* The state is consistent: its types and the transactions.
Consistent == TypeOK /\ OneTransaction

\* An update that had to wait has something that will send it: the answer to
\* the transaction in flight, or its timeout.
PendingHasTrigger == \A a \in Peers :
    sync[a].dirty \/ sync[a].full => sync[a].inFlight

\* When nothing is in flight to a peer, everything the server has was sent to
\* it and acknowledged: no broadcast that came while it was busy was lost.
QuiescentMeansSent == \A a \in present : ~sync[a].inFlight =>
    /\ session[a].topology = topology
    /\ \A x \in present \ {a} : info[x] # NoInfo =>
           session[a].seen[x] >= info[x].ver

\* What the server takes a peer to know of another, it knows: an update leaves
\* nothing out that the peer lacks.
UpToDate == \A a \in present : \A x \in present \ {a} :
    /\ info[x] # NoInfo
    /\ session[a].dst # 0
    /\ session[a].seen[x] >= info[x].ver
    => /\ know[a][x] # NoInfo
       /\ know[a][x].run = info[x].run
       /\ know[a][x].ver >= info[x].ver

\* Every client is told the information that the others have in the end.
Synchronised == \A a \in present : \A x \in present \ {a} :
    info[x] = own[x] /\ know[a][x] = info[x]
Converges == <>[]Synchronised

=============================================================================

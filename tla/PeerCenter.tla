----------------------------- MODULE PeerCenter -----------------------------
(***************************************************************************)
(* The reports of the peers of one network about whom they are connected   *)
(* to (wasm/src/peer_center.rs).  A peer polls with the digest of the last *)
(* map it was sent, and gets a map only if the digest has changed since.   *)
(* Groups of different networks share nothing: clean_outdated does to each *)
(* what it does to one.                                                    *)
(*                                                                         *)
(* The hash is taken to be free of collisions: the digest of a map is what *)
(* the map says.  Requests come from peers with a ready connection, since  *)
(* server.ts hands over no others, in the same step in which they arrive.  *)
(***************************************************************************)
EXTENDS Naturals, FiniteSets

CONSTANTS
    Peers,    \* peers that connect to this relay
    Others,   \* peers they may be connected to besides
    Infos,    \* DirectConnectedPeerInfo
    Nothing,  \* what a map has not, and the digest 0
    Reports(_), \* what a peer may report of each destination, itself included
    TTL       \* PEER_CENTER_TTL_SECONDS, 180, in steps of the clock

ASSUME NothingApart == Nothing \notin Infos \cup Nat
ASSUME TTLPositive  == TTL \in Nat \ {0}

VARIABLES
    present,  \* peers with a ready connection
    exists,   \* groups has an entry for the network
    info,     \* global_peer_map: info of each pair
    age,      \* time since update_time_ms of each pair
    reported, \* peer_report_time: time since, or Nothing
    digest,   \* PeerCenterGroupData.digest
    held,     \* each peer's copy of the map, by which it knows the digest
    polled    \* history: peers answered since the map last changed

group == <<exists, info, age, reported, digest>>
vars  == <<present, exists, info, age, reported, digest, held, polled>>

Destinations == Peers \cup Others
Pairs == Peers \X Destinations
Ages  == 0 .. TTL
Maps  == [Pairs -> Infos \cup {Nothing}]
ASSUME ReportsTyped ==
    \A p \in Peers : Reports(p) \subseteq [Destinations -> Infos \cup {Nothing}]

Empty == [d \in Pairs |-> Nothing]
Young == [d \in Pairs |-> 0]
Silent == [p \in Peers |-> Nothing]

Init ==
    /\ present = {}
    /\ exists = FALSE
    /\ info = Empty /\ age = Young /\ reported = Silent /\ digest = Nothing
    /\ held = [p \in Peers |-> Nothing]
    /\ polled = {}

-----------------------------------------------------------------------------
(* Faulty variants of definitions below, for checking that each property   *)
(* is sensitive to the code it is about.  No specification uses them.      *)

\* A digest of the pairs without their infos.
DigestOfPairs(m) == [d \in Pairs |-> m[d] # Nothing]

\* remove_peer that removes what the peer reported about others and keeps
\* what it reported of itself.
OwnPairsKept(p) == [d \in Pairs |-> IF d[2] = p THEN Nothing ELSE info[d]]

\* remove_peer and clean_outdated that do not compute the digest anew.
KeepsDigest(i, a, r) ==
    IF exists /\ ~(i = Empty /\ r = Silent)
    THEN exists' = TRUE /\ info' = i /\ age' = a /\ reported' = r /\ digest' = digest
    ELSE /\ exists' = FALSE /\ info' = Empty /\ age' = Young /\ reported' = Silent
         /\ digest' = Nothing

\* clean_outdated that asks how old the last report of the peer is.
CleanedByReport ==
    {d \in Pairs : info[d] # Nothing /\ reported[d[1]] # Nothing /\ reported[d[1]] < TTL}

\* A poll answered "unchanged" to whoever has a digest.
AnyDigest(p) == held[p] # Nothing

-----------------------------------------------------------------------------
(* calc_digest_internal; of a map without pairs too it is not 0.           *)
DigestOf(m) == m

\* The history: what changes the map leaves every earlier answer behind.
Answered == polled' = IF info' = info THEN polled ELSE {}

\* report_peers: r is what the report of p says of each destination.
Said(p, r) == [d \in Pairs |-> IF d[1] = p /\ r[d[2]] # Nothing THEN r[d[2]] ELSE info[d]]
Dated(p, r) == [d \in Pairs |-> IF d[1] = p /\ r[d[2]] # Nothing THEN 0 ELSE age[d]]

Report(p, r) ==
    /\ p \in present
    /\ exists' = TRUE
    /\ info' = Said(p, r)
    /\ age' = Dated(p, r)
    /\ reported' = [reported EXCEPT ![p] = 0]
    /\ digest' = DigestOf(info')
    /\ Answered
    /\ UNCHANGED <<present, held>>

\* get_global_peer_map, with the digest of what the peer holds: group_mut
\* creates the group when there is none, with the digest 0.
Unchanged(p) == held[p] # Nothing /\ DigestOf(held[p]) = digest

Get(p) ==
    /\ p \in present
    /\ exists' = TRUE
    /\ held' = IF Unchanged(p) THEN held
               ELSE [held EXCEPT ![p] = IF digest = Nothing THEN Nothing ELSE info]
    /\ polled' = polled \cup {p}
    /\ UNCHANGED <<present, info, age, reported, digest>>

\* A group is removed when it has neither pairs nor report times, and what
\* replaces it is the default.
Keep(i, a, r) ==
    IF exists /\ ~(i = Empty /\ r = Silent)
    THEN /\ exists' = TRUE /\ info' = i /\ age' = a /\ reported' = r
         /\ digest' = DigestOf(i)
    ELSE /\ exists' = FALSE /\ info' = Empty /\ age' = Young /\ reported' = Silent
         /\ digest' = Nothing

\* remove_peer, called when the ready connection of p is removed.
Left(p) == [d \in Pairs |-> IF p \in {d[1], d[2]} THEN Nothing ELSE info[d]]

\* The age of a pair that is not in the map is 0.
AgesOf(i) == [d \in Pairs |-> IF i[d] = Nothing THEN 0 ELSE age[d]]

Leave(p) ==
    /\ p \in present
    /\ present' = present \ {p}
    /\ Keep(Left(p), AgesOf(Left(p)), [reported EXCEPT ![p] = Nothing])
    /\ Answered
    /\ UNCHANGED held

Join(p) ==
    /\ p \notin present
    /\ present' = present \cup {p}
    /\ UNCHANGED <<group, held, polled>>

\* clean_outdated, called by the maintenance timer, which runs while there is
\* a connection.
Fresh  == {d \in Pairs : info[d] # Nothing /\ age[d] < TTL}
Recent == {p \in Peers : reported[p] # Nothing /\ reported[p] < TTL}
Kept   == [d \in Pairs |-> IF d \in Fresh THEN info[d] ELSE Nothing]

Clean ==
    /\ present # {}
    /\ Keep(Kept, AgesOf(Kept),
            [p \in Peers |-> IF p \in Recent THEN reported[p] ELSE Nothing])
    /\ Answered
    /\ UNCHANGED <<present, held>>

\* The clock; beyond the TTL ages make no difference.
Older(n) == IF n < TTL THEN n + 1 ELSE n

Elapse ==
    /\ age' = [d \in Pairs |-> IF info[d] = Nothing THEN 0 ELSE Older(age[d])]
    /\ reported' = [p \in Peers |-> IF reported[p] = Nothing THEN Nothing
                                    ELSE Older(reported[p])]
    /\ UNCHANGED <<present, exists, info, digest, held, polled>>

Next ==
    \/ \E p \in Peers : \/ Join(p) \/ Leave(p) \/ Get(p)
                        \/ \E r \in Reports(p) : Report(p, r)
    \/ Clean
    \/ Elapse

Spec == Init /\ [][Next]_vars

\* The maintenance timer fires while there are connections; time passes.
LiveSpec == Spec /\ WF_vars(Clean) /\ WF_vars(Elapse)

-----------------------------------------------------------------------------
(* Correctness.                                                            *)

\* Every variable has its type; without a group there is nothing in it.
TypeOK ==
    /\ present \subseteq Peers
    /\ exists \in BOOLEAN
    /\ info \in Maps
    /\ age \in [Pairs -> Ages]
    /\ reported \in [Peers -> Ages \cup {Nothing}]
    /\ digest \in Maps \cup {Nothing}
    /\ held \in [Peers -> Maps \cup {Nothing}]
    /\ polled \subseteq Peers
    /\ ~exists => info = Empty /\ reported = Silent /\ digest = Nothing

\* The digest a poll is compared with is that of the map as it is, whatever
\* reports, departures and expiries there were; only a map without pairs may
\* still have the digest 0.
DigestCurrent ==
    \/ digest = DigestOf(info)
    \/ digest = Nothing /\ info = Empty

\* What peer_center.rs keeps belongs to peers that are there: a peer takes its
\* report time and its pairs with it, a pair is never older than the report
\* time that keeps its group, and the last peer leaves nothing.
OfPresent ==
    /\ exists => present # {}
    /\ \A p \in Peers : reported[p] # Nothing => p \in present
    /\ \A d \in Pairs : info[d] # Nothing => /\ reported[d[1]] # Nothing
                                             /\ reported[d[1]] <= age[d]

\* The group and its digest agree with each other and with who is present.
GroupExact == TypeOK /\ DigestCurrent /\ OfPresent

\* A peer that was answered since the map last changed holds the map as it is,
\* even if the answer was "unchanged" for a map it was sent long before, of a
\* group that has changed back or was removed and created anew; it has none if
\* the map is empty and the digest still 0.
PolledMeansCurrent ==
    \A p \in polled : held[p] = info \/ (held[p] = Nothing /\ info = Empty)

\* Once a peer reports nothing about a destination any more, the relay stops
\* telling others about it.
StaleForgotten ==
    \A d \in Pairs :
        <>[][\A r \in Reports(d[1]) : Report(d[1], r) => r[d[2]] = Nothing]_vars
            => <>[](info[d] = Nothing)
=============================================================================

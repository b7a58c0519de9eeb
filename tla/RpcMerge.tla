------------------------------ MODULE RpcMerge ------------------------------
(***************************************************************************)
(* The reassembly of fragmented RPC packets (wasm/src/rpc.rs,              *)
(* merge_packet): every peer may have several merges under way, and all of *)
(* them count against limits of the whole relay, whose two counters are    *)
(* kept apart from the merges and must be given back on completion,        *)
(* expiry, a declared count that changes, a limit exceeded and the removal *)
(* of the peer.                                                            *)
(*                                                                         *)
(* A body is its length: merging depends on nothing else of it.  A packet  *)
(* in one piece touches no merge, and an error before clean_pending is     *)
(* like any other reason for which the connection ends (Depart).  An error *)
(* reported by merge_packet ends the connection too: handleMessage's catch *)
(* leads to removeConnection and remove_peer, in the same step.            *)
(***************************************************************************)
EXTENDS Naturals, FiniteSets

CONSTANTS
    Peers,             \* network and peer id of a connection
    Txns,              \* transaction id and direction (RpcKey)
    Sizes,             \* lengths of bodies
    NoPiece,           \* a piece that has not arrived
    MaxPieces,         \* MAX_RPC_PIECES, 32768 in the code
    MaxTransactions,   \* MAX_PENDING_TRANSACTIONS_PER_PEER, 64
    MaxPendingPieces,  \* MAX_PENDING_PIECES, 32768
    MaxPendingBytes,   \* MAX_PENDING_BYTES, 32 MiB
    TTL                \* RPC_FRAGMENT_TTL_MS, 10 s, in steps of the clock

ASSUME FinitePeers == IsFiniteSet(Peers) /\ IsFiniteSet(Txns)
ASSUME SizesNat    == Sizes \subseteq Nat
ASSUME NoPieceNaN  == NoPiece \notin Nat
ASSUME Limits      == /\ MaxPieces \in Nat \ {0} /\ MaxTransactions \in Nat
                      /\ MaxPendingPieces \in Nat /\ MaxPendingBytes \in Nat
                      /\ TTL \in Nat

VARIABLES
    present,        \* peers with a ready connection
    merges,         \* WasmRpcCore.pending
    pendingPieces,  \* WasmRpcCore.pending_pieces
    pendingBytes    \* WasmRpcCore.pending_bytes

vars == <<present, merges, pendingPieces, pendingBytes>>

Keys      == Peers \X Txns
KeysOf(p) == {p} \X Txns
Indices   == 0 .. MaxPieces - 1

\* PendingRpc; age is the time since updated_at_ms, and a total of 0 stands
\* for a key that pending does not contain.
Merge == [total : 0 .. MaxPieces, pieces : [Indices -> Nat \cup {NoPiece}],
          first : BOOLEAN, received : Nat, bytes : Nat, age : 0 .. TTL]
NoPieces == [i \in Indices |-> NoPiece]
NewMerge(n) == [total |-> n, pieces |-> NoPieces,
                first |-> FALSE, received |-> 0, bytes |-> 0, age |-> 0]
NoMerge == NewMerge(0)

Init ==
    /\ present = {}
    /\ merges = [k \in Keys |-> NoMerge]
    /\ pendingPieces = 0
    /\ pendingBytes = 0

-----------------------------------------------------------------------------
(* Faulty variants of definitions below, for checking that each property   *)
(* is sensitive to the code it is about.  No specification uses them.      *)

\* remove_pending that gives back the pieces but not the bytes.
BytesKept(D) == 0

\* merge_packet that counts a duplicate as one more piece.
CountsDuplicates(m, i) == TRUE

\* merge_packet without its clean_pending.
NothingCleaned == {}

\* remove_peer that leaves the fragments of the peer to the expiry.
FragmentsLeft(p) == {}

\* The limit on bytes tested before the new body is added.
BytesTestedBefore(b, s) == b <= MaxPendingBytes

\* A limit on transactions with > in the place of >=.
OneTransactionTooMany(m, p) ==
    Cardinality({k \in KeysOf(p) : m[k].total > 0}) <= MaxTransactions

\* clean_pending that looks at the peers that are gone only.
ExpiresAbsent == {k \in Keys : merges[k].total > 0 /\ k[1] \notin present}

-----------------------------------------------------------------------------
(* Reading merges.                                                         *)

\* The sum of f over D, by counting its units; saturating_sub.
Sum(f, D)   == Cardinality(UNION {{k} \X (1 .. f[k]) : k \in D})
Minus(a, b) == IF b <= a THEN a - b ELSE 0

Totals(m) == [k \in Keys |-> m[k].total]
Bytes(m)  == [k \in Keys |-> m[k].bytes]

LengthOf(piece) == IF piece = NoPiece THEN 0 ELSE piece
Lengths(m)      == [i \in Indices |-> LengthOf(m.pieces[i])]
Arrived(m)      == {i \in Indices : m.pieces[i] # NoPiece}

-----------------------------------------------------------------------------
(* remove_pending for all of D.                                            *)

Without(D)    == [k \in Keys |-> IF k \in D THEN NoMerge ELSE merges[k]]
BytesHeld(D)  == Sum(Bytes(merges), D)
PiecesLeft(D) == Minus(pendingPieces, Sum(Totals(merges), D))
BytesLeft(D)  == Minus(pendingBytes, BytesHeld(D))

Remove(D) ==
    /\ merges' = Without(D)
    /\ pendingPieces' = PiecesLeft(D)
    /\ pendingBytes' = BytesLeft(D)

\* clean_pending and the first half of clean_rpc_state.
Expired == {k \in Keys : merges[k].total > 0 /\ merges[k].age >= TTL}

\* The keys remove_peer takes out.
Forgotten(p) == KeysOf(p)

-----------------------------------------------------------------------------
(* merge_packet for piece i of n, of s bytes, after clean_pending.         *)

\* Not "fragmented RPC changed its declared piece count".
SameCount(m, n) == m.total \in {0, n}

\* Not "too many pending fragmented RPC transactions".
MayOpen(m, p) == Cardinality({k \in KeysOf(p) : m[k].total > 0}) < MaxTransactions

\* Not "pending fragmented RPC byte limit exceeded".
BytesAllowed(b, s) == b + s <= MaxPendingBytes

\* The merge the piece belongs to, which is inserted when there is none.
Opened(m, n) == IF m.total = 0 THEN NewMerge(n) ELSE m
Declared(m, n) == IF m.total = 0 THEN n ELSE 0

CountsAsNew(m, i) == m.pieces[i] = NoPiece

\* The piece is stored, in the place of an earlier one with its index.
Stored(m, i, s) ==
    [total    |-> m.total,
     pieces   |-> [m.pieces EXCEPT ![i] = s],
     first    |-> m.first \/ i = 0,
     received |-> IF CountsAsNew(m, i) THEN m.received + 1 ELSE m.received,
     bytes    |-> Minus(m.bytes, LengthOf(m.pieces[i])) + s,
     age      |-> 0]

\* A piece passes every test.
Accepted(k, n, i, s) ==
    LET m == Without(Expired)
    IN  /\ SameCount(m[k], n)
        /\ m[k].total = 0 => /\ MayOpen(m, k[1])
                             /\ PiecesLeft(Expired) + n <= MaxPendingPieces
        /\ BytesAllowed(Minus(BytesLeft(Expired), LengthOf(m[k].pieces[i])), s)

\* The merge of k with the piece in it, and the counters with it.
Merged(k, n, i, s) == Stored(Opened(Without(Expired)[k], n), i, s)
PiecesWith(k, n) == PiecesLeft(Expired) + Declared(Without(Expired)[k], n)
BytesWith(k, i, s) ==
    Minus(BytesLeft(Expired), LengthOf(Without(Expired)[k].pieces[i])) + s

\* MergedPacket::Pending
Piece(k, n, i, s) ==
    /\ k[1] \in present
    /\ Accepted(k, n, i, s)
    /\ Merged(k, n, i, s).received # n
    /\ merges' = [Without(Expired) EXCEPT ![k] = Merged(k, n, i, s)]
    /\ pendingPieces' = PiecesWith(k, n)
    /\ pendingBytes' = BytesWith(k, i, s)
    /\ UNCHANGED present

\* MergedPacket::Complete: the merge is taken out and its pieces and bytes
\* are given back.
LastPiece(k, n, i, s) ==
    /\ k[1] \in present
    /\ Accepted(k, n, i, s)
    /\ Merged(k, n, i, s).received = n
    /\ merges' = [Without(Expired) EXCEPT ![k] = NoMerge]
    /\ pendingPieces' = Minus(PiecesWith(k, n), Merged(k, n, i, s).total)
    /\ pendingBytes' = Minus(BytesWith(k, i, s), Merged(k, n, i, s).bytes)
    /\ UNCHANGED present

\* The piece fails a test.  Whatever merge_packet had inserted or found for k
\* is removed, and so are the other merges of the peer with its connection.
Refused(k, n, i, s) ==
    /\ k[1] \in present
    /\ ~Accepted(k, n, i, s)
    /\ Remove(Expired \cup Forgotten(k[1]))
    /\ present' = present \ {k[1]}

\* registerConnection, add_peer
Arrive(p) ==
    /\ p \notin present
    /\ present' = present \cup {p}
    /\ UNCHANGED <<merges, pendingPieces, pendingBytes>>

\* removeConnection, remove_peer
Depart(p) ==
    /\ p \in present
    /\ Remove(Forgotten(p))
    /\ present' = present \ {p}

\* clean_expired of the maintenance timer, and build_route_update.
Clean ==
    /\ Expired # {}
    /\ Remove(Expired)
    /\ UNCHANGED present

\* Time passes.
Elapse ==
    /\ \E k \in Keys : merges[k].total > 0 /\ merges[k].age < TTL
    /\ merges' = [k \in Keys |->
           IF merges[k].total > 0 /\ merges[k].age < TTL
           THEN [merges[k] EXCEPT !.age = @ + 1] ELSE merges[k]]
    /\ UNCHANGED <<present, pendingPieces, pendingBytes>>

\* A fragment with a valid envelope.
Fragment(k) ==
    \E n \in 2 .. MaxPieces, s \in Sizes : \E i \in 0 .. n - 1 :
        Piece(k, n, i, s) \/ LastPiece(k, n, i, s) \/ Refused(k, n, i, s)

Next ==
    \/ \E k \in Keys : Fragment(k)
    \/ \E p \in Peers : Arrive(p) \/ Depart(p)
    \/ Clean
    \/ Elapse

\* The maintenance timer is armed while there is a connection (Relay's
\* TimersExact), and merges are only those of connected peers.
Spec     == Init /\ [][Next]_vars
LiveSpec == Spec /\ WF_vars(Clean) /\ WF_vars(Elapse)

-----------------------------------------------------------------------------
(* Correctness.                                                            *)

\* Every variable has its type, and the counters stay within the limits
\* merge_packet tests them against.
TypeOK ==
    /\ present \subseteq Peers
    /\ merges \in [Keys -> Merge]
    /\ pendingPieces \in 0 .. MaxPendingPieces
    /\ pendingBytes \in 0 .. MaxPendingBytes

\* What a merge of m.total pieces that is still under way looks like.
MergeExact(m) ==
    /\ Arrived(m) \subseteq 0 .. m.total - 1
    /\ m.received = Cardinality(Arrived(m))
    /\ m.bytes = Sum(Lengths(m), Indices)
    /\ m.first <=> m.pieces[0] # NoPiece
    /\ m.total > 0 => m.received < m.total

\* Each merge has counted every index that arrived once and every byte of the
\* pieces it holds, knows the first packet exactly when it holds piece 0, and
\* still misses a piece: the errors "first piece was not received" and
\* "contains a missing piece" cannot be met, and no merge is complete and
\* waiting.
MergesExact == \A k \in Keys : MergeExact(merges[k])

\* The two counters are what the merges declare and hold, through completion,
\* expiry, refusals and disconnections: nothing is given back twice or never,
\* so the saturating subtractions never saturate and the relay does not lose
\* its capacity to merge over time.
CountersExact ==
    /\ pendingPieces = Sum(Totals(merges), Keys)
    /\ pendingBytes = Sum(Bytes(merges), Keys)

\* No peer has more merges under way than it may.
PeerLimited ==
    \A p \in Peers :
        Cardinality({k \in KeysOf(p) : merges[k].total > 0}) <= MaxTransactions

\* Fragments of a peer go with its connection: what the next connection of
\* the peer sends is never joined to them (remove_peer).
OnlyPresent ==
    \A k \in Keys : merges[k].total > 0 => k[1] \in present

\* What peers can make the relay hold stays limited, for all of them, for each
\* of them, and for those that are gone to nothing.
LimitsKept == TypeOK /\ PeerLimited /\ OnlyPresent

\* A fragment completes the message of k.
Completes(k) ==
    \E n \in 2 .. MaxPieces, s \in Sizes : \E i \in 0 .. n - 1 : LastPiece(k, n, i, s)

\* A piece is never joined to a merge that has waited for the time to live,
\* although nothing has cleaned it yet (merge_packet's own clean_pending): it
\* does not complete the message, which would be put together from pieces of two
\* sendings, and is at most the first piece of a merge that is begun anew.
NoLateJoin ==
    [][\A k \in Keys :
          merges[k].total > 0 /\ merges[k].age >= TTL =>
              /\ ~Completes(k)
              /\ \/ merges'[k] \in {merges[k], NoMerge}
                 \/ merges'[k].received = 1]_vars

\* A merge that is never completed is given up unless its pieces keep coming.
AbandonedGivenUp ==
    \A k \in Keys :
        []<>(merges[k].total = 0) \/ []<><<Fragment(k)>>_vars
=============================================================================

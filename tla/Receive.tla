------------------------------- MODULE Receive -------------------------------
(***************************************************************************)
(* What the server accepts of the packets a peer seals in one secure       *)
(* session (wasm/src/secure.rs: decrypt_payload, precheck_replay,          *)
(* commit_replay, evict_old_rx_slots, the Sync branch of upsert_session).  *)
(* Packets come over several WebSockets, so they arrive in any order, may  *)
(* be lost, and here also arrive again.  SecureSession has the handshakes  *)
(* and the sharing of this state, Windows the bitmaps that slots hold.     *)
(*                                                                         *)
(* The peer is external: like the server it starts over with sequence      *)
(* number 0 in the epoch a Sync gives it, goes on to the next epoch after  *)
(* any packet, and does not reset the numbers then; it does not jump over  *)
(* epochs, as it could (SecureSession has a peer that does).               *)
(* decrypt_fail_count, which ends a connection after packets that do not   *)
(* open, is left out.                                                      *)
(***************************************************************************)
EXTENDS Windows, FiniteSets

CONSTANTS
    EpochsAhead,  \* MAX_ACCEPTED_RX_EPOCH_AHEAD, 3 in the code
    NoSlot,       \* an EpochRxSlot that is not valid
    MaxEpoch,     \* bound: epochs, 2^32 in the code, where they wrap
    MaxSeq,       \* bound: the last number the peer uses before a Sync ...
    LongRun       \* ... and the last if it never leaves its first epoch

ASSUME Limits == EpochsAhead \in Nat \ {0}
ASSUME Bounds == {MaxEpoch, MaxSeq, LongRun} \subseteq Nat /\ MaxSeq <= LongRun
\* ROTATE_AFTER_PACKETS bounds the numbers of one epoch, and every epoch has a
\* window of its own.
ASSUME WithinWord == LongRun < Word
ASSUME NoSlotApart ==
    NoSlot \notin [epoch : Nat,
                 window : [valid : BOOLEAN, maxSeq : Nat,
                           bitmap : [Index -> SUBSET Bits]]]

VARIABLES
    cur, prev,    \* rx_slots of the peer's direction
    gcur, gprev,  \* sync_rx_grace.slots, NoSlot if it is not valid
    sendEpoch,    \* next_epoch: the server's own sending epoch
    peer,         \* the peer's epoch and number, the epoch last delivered
    sealed,       \* what it sealed and may still be under way
    heard,        \* history: what was ever delivered
    known,        \* history: what was delivered and has not been forgotten
    evicted,      \* history: of that, what only the order of epochs tells
    again,        \* history: something known was delivered again
    lost          \* history: something was dropped without a cause

slots   == <<cur, prev, gcur, gprev>>
vars    == <<slots, sendEpoch, peer, sealed, heard, known, evicted, again, lost>>

Epochs  == 0 .. MaxEpoch
Packets == [epoch : Epochs, seq : 0 .. LongRun]

\* EpochRxSlot, without the time of its last packet.
Slot(e, w) == [epoch |-> e, window |-> w]

Init ==
    /\ cur = NoSlot /\ prev = NoSlot /\ gcur = NoSlot /\ gprev = NoSlot
    /\ sendEpoch = 0
    /\ peer = [arrived |-> 0, epoch |-> 0, seq |-> 0]
    /\ sealed = {} /\ heard = {} /\ known = {} /\ evicted = {}
    /\ again = FALSE /\ lost = FALSE

Now == [cur |-> cur, prev |-> prev, gcur |-> gcur, gprev |-> gprev]

For(s, e) == s # NoSlot /\ s.epoch = e
EpochsOf(S) == {s.epoch : s \in S \ {NoSlot}}
Largest(S) == CHOOSE x \in S : \A y \in S : x >= y

-----------------------------------------------------------------------------
(* Faulty variants of definitions below, for checking that each property   *)
(* is sensitive to the code it is about.  No specification uses them.      *)

\* Sync that keeps no grace.
NoGrace(s) == NoSlot

\* Epochs compared with those received only.
BaselineOfSlots(s) == Largest({0} \cup EpochsOf({s.cur, s.prev}))

-----------------------------------------------------------------------------
(* The receive slots.                                                      *)

\* evict_old_rx_slots: any of the slots may have been idle for too long, and
\* the grace may be over.  Of two slots with one epoch the first has had all
\* packets since it was set up, so the second has been idle for longer.
OldestFirst(first, second, a, b) ==
    first # NoSlot /\ For(second, first.epoch) /\ a = NoSlot => b = NoSlot

Aged ==
    {s \in [cur : {cur, NoSlot}, prev : {prev, NoSlot},
            gcur : {gcur, NoSlot}, gprev : {gprev, NoSlot}] :
        /\ OldestFirst(cur, prev, s.cur, s.prev)
        /\ OldestFirst(gcur, gprev, s.gcur, s.gprev)}

\* The slot whose window judges the packets of epoch e; without a current slot
\* the previous one is not consulted.
Judge(s, e) ==
    IF For(s.gcur, e) THEN "gcur"
    ELSE IF For(s.gprev, e) THEN "gprev"
    ELSE IF s.cur = NoSlot THEN "none"
    ELSE IF For(s.cur, e) THEN "cur"
    ELSE IF For(s.prev, e) THEN "prev"
    ELSE "none"

Baseline(s) == Largest({sendEpoch} \cup EpochsOf({s.cur, s.prev}))

\* precheck_replay.
MayAccept(s, n) ==
    LET j == Judge(s, n.epoch)
    IN  IF j # "none" THEN CanAccept(s[j].window, n.seq)
        ELSE s.cur # NoSlot =>
                n.epoch > s.cur.epoch /\ n.epoch <= Baseline(s) + EpochsAhead

\* commit_replay of a packet that may be accepted.
InSlot(slot, n) == Slot(n.epoch, Accept(slot.window, n.seq))
Fresh(n) == Slot(n.epoch, Accept(EmptyWindow, n.seq))
Committed(s, n) ==
    LET j == Judge(s, n.epoch)
    IN  IF j # "none" THEN [s EXCEPT ![j] = InSlot(@, n)]
        ELSE IF s.cur = NoSlot THEN [s EXCEPT !.cur = Fresh(n)]
        ELSE [s EXCEPT !.cur = Fresh(n), !.prev = s.cur]

Becomes(s) == cur' = s.cur /\ prev' = s.prev /\ gcur' = s.gcur /\ gprev' = s.gprev

\* What is known not to be delivered again once the slots have aged to s.  An
\* eviction leaves the epochs of the grace slots and those up to that of the
\* current slot: what the slot that recorded it forgets, the order of epochs
\* tells until the next Sync.
StillKnown(s) ==
    {n \in known : \/ s = Now
                   \/ n.epoch \in EpochsOf({s.gcur, s.gprev})
                   \/ s.cur # NoSlot /\ n.epoch <= s.cur.epoch}

HeldEpochs(s) == EpochsOf({s.cur, s.prev, s.gcur, s.gprev})

NowEvicted(s) ==
    {n \in StillKnown(s) :
        n \in evicted \/ n.epoch \in HeldEpochs(Now) \ HeldEpochs(s)}

\* Aging forgets no more than that.
Ages(s) == known' = StillKnown(s) /\ evicted' = NowEvicted(s)

-----------------------------------------------------------------------------
(* The peer.                                                               *)

\* Bound: after a long run in the first epoch neither side goes on to another.
ShortRun == peer.seq <= MaxSeq + 1

\* The peer seals a packet, having gone on to the next epoch or not.  Bound:
\* it goes no further than EpochsAhead beyond the last packet that arrived.
Seal ==
    /\ peer.seq <= IF peer.epoch = 0 /\ sendEpoch = 0 THEN LongRun ELSE MaxSeq
    /\ \E e \in {peer.epoch, peer.epoch + 1} \cap Epochs :
          /\ e > peer.epoch => ShortRun /\ e <= peer.arrived + EpochsAhead
          /\ sealed' = sealed \cup {[epoch |-> e, seq |-> peer.seq]}
          /\ peer' = [peer EXCEPT !.epoch = e, !.seq = @ + 1]
    /\ UNCHANGED <<slots, sendEpoch, heard, known, evicted, again, lost>>

\* Bound: nothing is under way while its sender goes through an epoch, which
\* takes ten minutes or a million packets, or is given two by Syncs.
Timely(n) == \A m \in sealed : m.epoch <= n.epoch + 1

\* It or something newer was delivered: of a later epoch, or of its own epoch
\* and out of reach of the window.
Superseded(n) ==
    \E m \in heard : \/ m = n
                     \/ m.epoch > n.epoch
                     \/ m.epoch = n.epoch /\ m.seq >= n.seq + Width

-----------------------------------------------------------------------------
(* decrypt_payload.                                                        *)

\* The packet opens and is delivered.
Deliver(n) ==
    /\ n \in sealed /\ Timely(n)
    /\ \E s \in Aged :
          /\ MayAccept(s, n)
          /\ Becomes(Committed(s, n))
          /\ known' = StillKnown(s) \cup {n}
          /\ evicted' = NowEvicted(s) \ {n}
          /\ again' = (again \/ n \in StillKnown(s))
    /\ heard' = heard \cup {n}
    /\ peer' = [peer EXCEPT !.arrived = n.epoch]
    /\ UNCHANGED <<sendEpoch, sealed, lost>>

\* The packet is dropped by precheck_replay.
Reject(n) ==
    /\ n \in sealed /\ Timely(n)
    /\ \E s \in Aged :
          /\ ~MayAccept(s, n)
          /\ Becomes(s)
          /\ Ages(s)
    /\ lost' = (lost \/ ~Superseded(n))
    /\ UNCHANGED <<sendEpoch, peer, sealed, heard, again>>

\* Faulty variant of Garbled: the packet is recorded before it is opened.
CommitsFirst ==
    /\ \E s \in Aged, n \in sealed :
          MayAccept(s, n) /\ Becomes(Committed(s, n)) /\ Ages(s)
    /\ UNCHANGED <<sendEpoch, peer, sealed, heard, again, lost>>

\* The packet does not open: it was damaged or sealed with another root key.
Garbled ==
    /\ \E s \in Aged : Becomes(s) /\ Ages(s)
    /\ UNCHANGED <<sendEpoch, peer, sealed, heard, again, lost>>

\* maybe_rotate_epoch of the server's own direction.
Rotate ==
    /\ ShortRun
    /\ sendEpoch < MaxEpoch
    /\ sendEpoch' = sendEpoch + 1
    /\ UNCHANGED <<slots, peer, sealed, heard, known, evicted, again, lost>>

-----------------------------------------------------------------------------
(* upsert_session, Sync: a peer that has lost its session is given the next *)
(* epoch.  What it sealed before may still be under way on its old socket.  *)

SyncEpoch == Largest({sendEpoch} \cup EpochsOf({cur, prev})) + 1

Grace(slot) == slot

\* What the grace of the Sync before has recorded, which the next one overwrites.
Overwritten == {n \in known : n.epoch \in EpochsOf({gcur, gprev})}

Sync ==
    /\ ShortRun
    /\ SyncEpoch \in Epochs
    /\ sendEpoch' = SyncEpoch
    /\ peer' = [arrived |-> SyncEpoch, epoch |-> SyncEpoch, seq |-> 0]
    /\ gcur' = Grace(cur) /\ gprev' = Grace(prev)
    /\ cur' = NoSlot /\ prev' = NoSlot
    /\ known' = known \ (Overwritten \cup evicted) /\ evicted' = {}
    /\ UNCHANGED <<sealed, heard, again, lost>>

Next ==
    \/ Seal \/ Rotate \/ Sync \/ Garbled
    \/ \E n \in sealed : Deliver(n) \/ Reject(n)

Spec == Init /\ [][Next]_vars

-----------------------------------------------------------------------------
(* Correctness.                                                            *)

\* Every variable has its type, and windows hold only what was delivered: a
\* packet that does not open must not use up the number it claims.
TypeOK ==
    /\ \A s \in {cur, prev, gcur, gprev} \ {NoSlot} :
          /\ s.epoch \in Epochs
          /\ s.window.bitmap \in [Index -> SUBSET Bits]
          /\ s.window.valid /\ TestBit(s.window.bitmap, 0)
          /\ \A q \in Remembered(s.window) : [epoch |-> s.epoch, seq |-> q] \in heard
    /\ sendEpoch \in Epochs
    /\ peer \in [arrived : Epochs, epoch : Epochs, seq : 0 .. LongRun + 1]
    /\ sealed \subseteq Packets /\ heard \subseteq sealed /\ known \subseteq heard
    /\ evicted \subseteq known
    /\ again \in BOOLEAN /\ lost \in BOOLEAN

\* A packet that is still under way is delivered once, whatever socket brings it
\* again and whatever was sealed, rotated or synchronised since.  There are two
\* exceptions: that an eviction took the slot that recorded it (or the current
\* slot, without which the previous one is not consulted), and the order of
\* epochs does not tell either; and that a second Sync overwrote the grace that
\* recorded it, after which any epoch is accepted again.  One Sync forgets
\* nothing that the current or the previous slot has recorded.
AtMostOnce == ~again

\* A packet is dropped only if it or something newer was delivered: neither
\* an eviction nor a Sync nor epochs that the two sides rotate on their own
\* makes the server deaf to what the peer sends now.
RejectedForCause == ~lost
=============================================================================

----------------------------- MODULE SendWindow -----------------------------
(***************************************************************************)
(* The send window of one connection (runtime/connection.ts:               *)
(* sendConnection).  Everything the relay sends to a peer, forwarded       *)
(* frames, answers and route updates alike, counts against a limit of      *)
(* bytes and of frames.  The window is not moved with time: it is started  *)
(* anew by the first send after its end.  A send that is refused throws,   *)
(* and every caller then closes the connection it wanted to send to.       *)
(*                                                                         *)
(* recentBytes and recentFrames are history: what was sent in the last k   *)
(* steps of the clock, for every k up to the length of a window.           *)
(*                                                                         *)
(* The prefix SW keeps the names of this specification apart from those of *)
(* Receive, the other half of a connection, where both are extended.       *)
(***************************************************************************)
EXTENDS Naturals

CONSTANTS
    Sizes,      \* byteLength of the packets sent
    Window,     \* SEND_WINDOW_MS, in steps of the clock
    MaxBytes,   \* MAX_SEND_BYTES_PER_WINDOW, 32 MiB in the code
    MaxFrames   \* MAX_SEND_FRAMES_PER_WINDOW, 4096

ASSUME WindowLimits == /\ Sizes \subseteq Nat /\ Window \in Nat \ {0}
                       /\ MaxBytes \in Nat /\ MaxFrames \in Nat

VARIABLES
    socket,         \* "open": readyState is OPEN; "broken": it is not, but the
                    \* relay has not heard of it; "closed": connection removed
    elapsed,        \* time since sendWindowStartedAt, up to Window
    sentBytes,      \* Connection.sentBytesInWindow
    sentFrames,     \* Connection.sentFramesInWindow
    recentBytes, recentFrames

counts  == <<sentBytes, sentFrames>>
history == <<recentBytes, recentFrames>>
swvars  == <<socket, elapsed, counts, history>>

Spans == 1 .. Window

SWInit ==
    /\ socket = "open"
    /\ elapsed = 0
    /\ sentBytes = 0
    /\ sentFrames = 0
    /\ recentBytes = [k \in Spans |-> 0]
    /\ recentFrames = [k \in Spans |-> 0]

-----------------------------------------------------------------------------
(* Faulty variants of definitions below, for checking that each property   *)
(* is sensitive to the code it is about.  No specification uses them.      *)

\* A reset that does not set sendWindowStartedAt.
StartKept(e) == e

\* sendConnection that never resets its window.
NeverOver(e) == FALSE

-----------------------------------------------------------------------------
\* now - connection.sendWindowStartedAt >= SEND_WINDOW_MS
Over(e) == e >= Window

StartedAt(e) == IF Over(e) THEN 0 ELSE e
Counted(n)   == IF Over(elapsed) THEN 0 ELSE n

\* The test of sendConnection for a packet of s bytes.
Full(s, b, f) == b + s > MaxBytes \/ f >= MaxFrames
Refuses(s)    == Full(s, Counted(sentBytes), Counted(sentFrames))

\* sendConnection hands the packet to the socket.
Send(s) ==
    /\ socket = "open"
    /\ ~Refuses(s)
    /\ elapsed' = StartedAt(elapsed)
    /\ sentBytes' = Counted(sentBytes) + s
    /\ sentFrames' = Counted(sentFrames) + 1
    /\ recentBytes' = [k \in Spans |-> recentBytes[k] + s]
    /\ recentFrames' = [k \in Spans |-> recentFrames[k] + 1]
    /\ UNCHANGED socket

\* sendConnection throws, and the caller closes the connection: the target of
\* a forwarded frame (1013), the receiver of a route update (1011) or the
\* sender of the packet that is answered (4401).
Refuse(s) ==
    /\ socket \in {"open", "broken"}
    /\ Refuses(s) \/ socket = "broken"
    /\ socket' = "closed"
    /\ UNCHANGED <<elapsed, counts, history>>

\* The socket closes: first its readyState changes, then the event comes.
Break ==
    /\ socket = "open"
    /\ socket' = "broken"
    /\ UNCHANGED <<elapsed, counts, history>>

CloseEvent ==
    /\ socket = "broken"
    /\ socket' = "closed"
    /\ UNCHANGED <<elapsed, counts, history>>

\* What was sent in the last k - 1 steps was sent in the last k after another.
Older(r) == [k \in Spans |-> IF k = 1 THEN 0 ELSE r[k - 1]]

Tick ==
    /\ socket # "closed"
    /\ elapsed' = IF elapsed < Window THEN elapsed + 1 ELSE elapsed
    /\ recentBytes' = Older(recentBytes)
    /\ recentFrames' = Older(recentFrames)
    /\ UNCHANGED <<socket, counts>>

SWNext ==
    \/ \E s \in Sizes : Send(s) \/ Refuse(s)
    \/ Break
    \/ CloseEvent
    \/ Tick

SWSpec == SWInit /\ [][SWNext]_swvars

-----------------------------------------------------------------------------
(* Correctness.                                                            *)

\* Every variable has its type, and a window holds no more than its limits.
SWTypeOK ==
    /\ socket \in {"open", "broken", "closed"}
    /\ elapsed \in 0 .. Window
    /\ sentBytes \in 0 .. MaxBytes
    /\ sentFrames \in 0 .. MaxFrames
    /\ recentBytes \in [Spans -> Nat]
    /\ recentFrames \in [Spans -> Nat]

\* In no SEND_WINDOW_MS, wherever it begins, a peer is sent more than twice
\* the limits: a reset window does not add up with more than one other.
BurstBounded ==
    /\ recentBytes[Window] <= 2 * MaxBytes
    /\ recentFrames[Window] <= 2 * MaxFrames

\* A connection whose socket is open is closed for its window only if that
\* much really was sent within the last SEND_WINDOW_MS: a stale count never
\* costs a quiet peer its connection.
RefusedOnlyWhenBusy ==
    [][socket = "open" /\ socket' = "closed" =>
         \/ recentFrames[Window] >= MaxFrames
         \/ \E s \in Sizes : recentBytes[Window] + s > MaxBytes]_swvars
=============================================================================

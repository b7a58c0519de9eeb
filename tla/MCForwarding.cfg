\* Two networks with two peer ids each, one frame and a hop limit of 1: every
\* addressing and kind, every way through the mesh and back.
CONSTANTS
    Networks = {n1, n2}
    Peers = {p1, p2}
    Server = Server
    Frames = {f1}
    NoFrame = NoFrame
    MaxHops = 1
    StartCounters = {0}
SPECIFICATION FairSpec
INVARIANTS
    HopsBounded Contained RpcFromItsPeer
PROPERTIES
    ClosedForCause FramesSettle

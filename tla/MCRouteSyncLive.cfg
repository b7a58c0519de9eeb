\* A client comes back as a new instance, and updates are dropped while the
\* first two connections are made; no symmetry, as liveness is checked.
CONSTANTS
    Peers = {p1, p2}
    NoInfo = NoInfo
    Restarts = {p1}
    Flaky = {}
    Unreliable = 2
    MaxVersion = 1
    MaxRuns = 2
    MaxJoins = 3
    MaxFrames = 0
SPECIFICATION FairSpec
PROPERTIES
    Converges
\* The model stops when every connection it may make was made and is gone.
CHECK_DEADLOCK FALSE

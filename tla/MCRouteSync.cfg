\* Both peers lose connections and come back; until the third connection, updates
\* are dropped, time out and are answered late.
CONSTANTS
    Peers = {p1, p2}
    NoInfo = NoInfo
    Restarts = {}
    Flaky = {p1, p2}
    Unreliable = 2
    MaxVersion = 1
    MaxRuns = 1
    MaxJoins = 3
    MaxFrames = 1
SYMMETRY Symmetry
SPECIFICATION Spec
INVARIANTS
    Consistent PendingHasTrigger QuiescentMeansSent UpToDate
\* The model stops when every connection it may make was made and is gone.
CHECK_DEADLOCK FALSE

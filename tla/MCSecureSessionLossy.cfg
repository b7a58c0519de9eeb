\* Message 2 may be lost with its root key.
CONSTANTS
    Conns = {c1, c2}
    NoSession = NoSession
    RotateAfter = 2
    EpochsAhead = 1
    LosesRoots = TRUE
    MaxRoots = 2
    MaxEpoch = 1
    MaxPackets = 1
SYMMETRY Symmetry
SPECIFICATION Spec
INVARIANTS
    RootAgreement

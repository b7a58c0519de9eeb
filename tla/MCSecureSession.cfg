\* Two sockets, two root keys, three epochs (0 follows 2 again), three packets
\* sealed or opened; answers without a root key are lost.
CONSTANTS
    Conns = {c1, c2}
    NoSession = NoSession
    RotateAfter = 2
    EpochsAhead = 1
    LosesRoots = FALSE
    MaxRoots = 2
    MaxEpoch = 2
    MaxPackets = 3
SYMMETRY Symmetry
SPECIFICATION Spec
INVARIANTS
    SharedSession NonceUnique SyncFresh EpochPacketsBounded RootAgreement

\* Four peers: a cascade of four closes inside one another.
CONSTANTS
    Peers = {p1, p2, p3, p4}
    NoPeer = NoPeer
    NoState = NoState
SPECIFICATION FairSpec
INVARIANTS
    NobodyForgotten StatesExact
PROPERTIES
    CascadesEnd

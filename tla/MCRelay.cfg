\* Four slots of which three can be open, two networks with two peer ids each,
\* and a session store for two of the four identities.
CONSTANTS
    Conns = {c1, c2, c3, c4}
    Networks = {n1, n2}
    Peers = {p1, p2}
    Keys = {k1, k2}
    NoConn = NoConn
    NoKey = NoKey
    NoId = NoId
    MaxConnections = 3
    MaxSessions = 2
SPECIFICATION FairSpec
INVARIANTS
    RegistriesExact SessionsExact WithinCapacity TimersExact
PROPERTIES
    ImplementsDirectory HandshakeResolves

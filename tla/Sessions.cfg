SPECIFICATION FairSpec
CONSTANTS
    k1 = k1
    k2 = k2
    h1 = h1
    None = None
    Keys = {k1, k2}
    Host <- MCHost
    OutKeys = {k1}
    InKeys = {k1}
    MaxPeers = 1
    Manager = manager
    Callers = {c}
    Keepalive = keepalive
    Readers = {r}
    Known = {k1, k2}
    Target = 1
    Weights <- MCWeights
    BanThreshold = 1
INVARIANTS
    TypeOK
    ConnectionsHeld
    RegisteredAreReady
    OutboundBounded
PROPERTIES
    StaleAreCleared

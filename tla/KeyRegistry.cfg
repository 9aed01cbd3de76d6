\* Four peers compete for a registry of two, with two sends in flight.
CONSTANTS
    p1 = p1
    p2 = p2
    p3 = p3
    p4 = p4
    t1 = t1
    t2 = t2
    PeerId = {p1, p2, p3, p4}
    Task = {t1, t2}
    Key <- MCKey
    KeyId <- MCKeyId
    Bounded = TRUE
    MaxSize = 2
SPECIFICATION Spec
SYMMETRY Symmetry
INVARIANTS
    GossipOrderIsExact
    KeysBindTheirPeer
PROPERTIES
    ConfirmedLeavesOnlyByFailedXK
    ImplementsCache

\* d joins a triangle; one message of three, two of them sealed; frames lost and
\* repeated, cache entries expiring.
SPECIFICATION FairSpec
CONSTANTS
    o = o
    w = w
    x = x
    y = y
    d = d
    m1 = m1
    m2 = m2
    m3 = m3
    Node = {o, x, y, d}
    Link <- Fork
    Met <- Triangle
    MaxTTL = 2
    Msg = {m1, m2, m3}
    Sealed = {m2, m3}
    From <- Sender
    Dest <- Receiver
    MaxSent = 1
    MaxFault = 1
INVARIANTS
    TypeOK
    AtMostOnce
    Covered
PROPERTY
    FloodEnds
CHECK_DEADLOCK FALSE

\* The copy that went the long way comes first.
SPECIFICATION Spec
CONSTANTS
    o = o
    w = w
    x = x
    y = y
    d = d
    m1 = m1
    m2 = m2
    m3 = m3
    Node = {o, w, x, y, d}
    Link <- Detour
    Met <- Detour
    MaxTTL = 2
    Msg = {m1}
    Sealed = {}
    From <- Sender
    Dest <- Receiver
    MaxSent = 1
    MaxFault = 0
INVARIANT
    Covered
CHECK_DEADLOCK FALSE

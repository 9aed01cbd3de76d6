\* d joins after the keys of o and x have been announced.
SPECIFICATION Spec
CONSTANTS
    o = o
    w = w
    x = x
    y = y
    d = d
    m1 = m1
    m2 = m2
    m3 = m3
    Node = {o, x, d}
    Link <- Line
    Met <- NoLink
    MaxTTL = 2
    Msg = {m1}
    Sealed = {m1}
    From <- Sender
    Dest <- Receiver
    MaxSent = 1
    MaxFault = 0
INVARIANT
    SealedOpens
CHECK_DEADLOCK FALSE

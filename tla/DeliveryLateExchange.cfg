\* The reply to the address exchange comes after its timeout.
SPECIFICATION Spec
CONSTANTS
    Tables <- OneAddress
    Cost <- FreeFirst
    Ticks = {}
    MaxOutside = 0
    MaxSends = 1
    MaxConns = 2
    DedupTTL = 60
INVARIANT
    OkMeansDelivered
CHECK_DEADLOCK FALSE

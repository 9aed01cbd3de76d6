\* Two addresses of the destination, one that is now another node's, or one that is silent.
\* Every timed wait may run to its deadline; 17 s more may pass anywhere: 44 - 2 + 17 < 60.
SPECIFICATION FairSpec
CONSTANTS
    Tables <- TwoAddresses
    Cost <- FreeFirst
    Ticks = {17}
    MaxOutside = 17
    MaxSends = 1
    MaxConns = 2
    DedupTTL = 60
INVARIANTS
    AckIsGenuine
    AtMostOnce
PROPERTY
    SendReturns
CHECK_DEADLOCK FALSE

\* Properties that do not hold: give TLC one of the six cases at a time.
SPECIFICATION FairSpec
CONSTANTS
    Cost <- FreeFirst
    MaxConns = 2
    DedupTTL = 60
\* The peer accepts the connection and never answers the handshake.
    Tables <- MuteAddress
    Ticks = {}
    MaxOutside = 0
    MaxSends = 1
PROPERTY SendAlwaysReturns
\* A handshake takes a minute.
\*  Tables <- OneAddress
\*  Ticks = {60}
\*  MaxOutside = 60
\*  MaxSends = 1
\* INVARIANT NeverTwice
\* One second more than AtMostOnce allows: 44 - 2 + 18 = 60.
\*  Tables <- TwoAddresses
\*  Ticks = {18}
\*  MaxOutside = 18
\*  MaxSends = 1
\* INVARIANT NeverTwice
\* Three addresses: the retries alone outlast the deduplication window.
\*  Tables <- ThreeAddresses
\*  Ticks = {}
\*  MaxOutside = 0
\*  MaxSends = 1
\* INVARIANT NeverTwice
\* The message is drained again a minute later.
\*  Tables <- OneAddress
\*  Ticks = {60}
\*  MaxOutside = 60
\*  MaxSends = 2
\* INVARIANT NeverTwice
\* Another peer answers at the address.
\*  Tables <- StaleAddress
\*  Ticks = {}
\*  MaxOutside = 0
\*  MaxSends = 1
\* INVARIANT OkFromThatPeer
CHECK_DEADLOCK FALSE

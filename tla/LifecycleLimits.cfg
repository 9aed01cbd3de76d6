\* Properties that do not hold: give TLC one of the three cases at a time.
SPECIFICATION FairSpec
CONSTANTS
    wifi = wifi
    cellular = cellular
    none = none
    Addr = {wifi, cellular, none}
    CostOf <- Costs
\* peer_stream is busy while the transport restarts.
    Setups <- Once
PROPERTY DiscoveryFollowsRestart
\* The network changes while start() runs and back before the next poll.
\*  Setups <- Thrice
\* PROPERTY AddressFollowsNetwork
\* Two of three transports go down at the same time.
\*  Setups <- Three
\* INVARIANT LastEventIsUp
CHECK_DEADLOCK FALSE

\* Restarts on network changes, with start() failing in between.
SPECIFICATION FairSpec
CONSTANTS
    wifi = wifi
    cellular = cellular
    none = none
    Addr = {wifi, cellular, none}
    CostOf <- Costs
    Setups <- AloneOrTwo
INVARIANTS
    TypeOK
    AvailableMeansUp
    LastEventOfTwoIsUp
PROPERTIES
    Settles
    AcceptFollowsRestart
CHECK_DEADLOCK FALSE

\* A lone central and a crowd on each platform, with one restart.
SPECIFICATION FairSpec
CONSTANTS
    c1 = c1
    c2 = c2
    Platforms = {"linux", "windows", "macos"}
    Setups <- LoneAndCrowd
    MaxStarts = 2
INVARIANTS ReturningCentralIsServed NeverStuckTwice
PROPERTIES StopReturns StopEndsHandlers
CHECK_DEADLOCK FALSE

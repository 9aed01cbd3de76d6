\* Properties that do not hold; TLC stops at the first, so give it one at a time.
SPECIFICATION FairSpec
CONSTANTS
    Platforms = {"linux"}
    MaxStarts <- OneRestarts
    MaxConnects = 2
    MaxGroups = 1
CHECK_DEADLOCK FALSE
PROPERTY StopReturns
\* INVARIANT OwnerDoesNotDial
\* INVARIANT RoleIsKept
\* PROPERTY NoStaleListener

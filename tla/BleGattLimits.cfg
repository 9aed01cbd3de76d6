\* Properties that do not hold; TLC stops at the first, so give it one at a time.
SPECIFICATION Spec
CONSTANTS
    c1 = c1
    c2 = c2
    Platforms = {"linux"}
    Setups <- LoneAndCrowd
    MaxStarts = 1
CHECK_DEADLOCK FALSE
INVARIANT NextSubscriberIsServed
\* INVARIANT SecondSubscriberIsDropped

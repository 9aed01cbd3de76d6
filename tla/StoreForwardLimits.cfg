\* Properties that do not hold; TLC stops at the first, so give it one at a time.
CONSTANTS
    p1 = p1
    evt = evt
    api = api
    Peer = {p1}
    Drainer = {evt, api}
    EventTask = evt
    Setups <- Crowded
SPECIFICATION FairSpec
CHECK_DEADLOCK FALSE
INVARIANT NeverStranded
\* INVARIANT FifoOrder
\* INVARIANT DepthWithinBound
\* PROPERTY AppearanceStartsDrain
\* PROPERTY EventTaskReturns

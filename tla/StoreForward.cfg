\* Overlapping drains, and the event task alone.
CONSTANTS
    p1 = p1
    evt = evt
    api = api
    Peer = {p1}
    Drainer = {evt, api}
    EventTask = evt
    Setups <- OverlapAndAlone
SPECIFICATION FairSpec
INVARIANTS
    Conservation
    LoneDrainKeepsOrder
VIEW CheckedState
PROPERTIES
    DrainsEnd
    AppearanceIsServed
CHECK_DEADLOCK FALSE

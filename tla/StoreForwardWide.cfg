\* Three messages of both kinds; safety only.
CONSTANTS
    p1 = p1
    evt = evt
    api = api
    Peer = {p1}
    Drainer = {evt, api}
    EventTask = evt
    Setups <- Three
SPECIFICATION Spec
INVARIANTS
    Conservation
VIEW CheckedState
CHECK_DEADLOCK FALSE

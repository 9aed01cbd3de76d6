\* One session, and a late read of the peer's cached data.
SPECIFICATION Spec
CONSTANTS
    Node <- TwoNodes
    Absent = {}
    Dialers = {"a"}
    Restarting = {}
    Calls = 2
    Airings = 1
    Backlog = 1
INVARIANT
    RechecksCollapse
CHECK_DEADLOCK FALSE

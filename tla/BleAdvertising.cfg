\* Two nodes that may both dial, three frames, and of dials, restarts and rechecks two in all.
SPECIFICATION FairSpec
CONSTANTS
    Node <- TwoNodes
    Absent = {}
    Dialers <- TwoNodes
    Restarting = {"b"}
    Calls = 2
    Airings = 3
    Backlog = 1
INVARIANTS
    StreamsAreInOrder
    StopReleases
PROPERTY
    CiphertextsAreHandedOver
CHECK_DEADLOCK FALSE

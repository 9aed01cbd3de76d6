\* A node dials twice and sends the first frame of each session.
SPECIFICATION FairSpec
CONSTANTS
    Node <- TwoNodes
    Absent <- OneAbsent
    Dialers = {"a"}
    Restarting = {}
    Calls = 2
    Airings = 2
    Backlog = 1
PROPERTY
    FramesAreHandedOver
CHECK_DEADLOCK FALSE

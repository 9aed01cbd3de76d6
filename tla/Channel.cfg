\* A stream and a radio, all three keys; two messages one way and one the other, one fault anywhere.
SPECIFICATION FairSpec
CONSTANTS
    Kinds = {"stream", "radio"}
    Keys = {"none", "right", "stale"}
    Mtu = 150
    Bodies <- TwoBodies
    BodyLen <- BodySizes
    MaxSent <- TwoAndOne
    MaxFaults = 1
INVARIANTS
    Agreement
    PendingIsBounded
PROPERTIES
    ImplementsSecureChannel
    CalmChannelDelivers
CHECK_DEADLOCK FALSE

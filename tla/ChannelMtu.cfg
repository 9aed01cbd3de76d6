\* A message of 216 bytes in three fragments at an MTU of 150.
SPECIFICATION Spec
CONSTANTS
    Kinds = {"radio"}
    Keys = {"none"}
    Mtu = 150
    Bodies <- ThreeFragments
    BodyLen <- ThreeFragmentsSize
    MaxSent <- TwoAndOne
    MaxFaults = 0
INVARIANT
    BundlesFitMtu
CHECK_DEADLOCK FALSE

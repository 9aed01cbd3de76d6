\* Properties that do not hold; TLC stops at the first, so give it one at a time.
SPECIFICATION FairSpec
CONSTANTS
    me = me
    ann = ann
    bob = bob
    me1 = me1
    ann1 = ann1
    bob1 = bob1
    bob2 = bob2
    a1 = a1
    a2 = a2
    any = any
    nowhere = nowhere
    Peer = {me, ann, bob}
    Self = me
    Port = {me1, ann1, bob1, bob2}
    Of <- Owner
    Addr = {a1, a2}
    AnyAddr = any
    Nowhere = nowhere
    Wild = {ann1}
    Homes <- Places
    MaxMove = 2
    MaxRestart = 1
    MaxApi = 1
CHECK_DEADLOCK FALSE
INVARIANT AppearanceReported
\* INVARIANT NoDuplicateAddress
\* INVARIANT GoneMeansGone
\* INVARIANT AdvertisedOnly
\* INVARIANT OwnAddressesOnly
\* PROPERTY RestartResumesListing

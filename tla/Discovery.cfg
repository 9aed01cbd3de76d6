\* Peers come, go and take over addresses; calls write the table meanwhile.
SPECIFICATION FairSpec
CONSTANTS
    me = me
    ann = ann
    bob = bob
    me1 = me1
    ann1 = ann1
    bob1 = bob1
    bob2 = bob2
    a1 = a1
    a2 = a2
    any = any
    nowhere = nowhere
    Peer = {me, ann, bob}
    Self = me
    Port = {me1, ann1, bob1, bob2}
    Of <- Owner
    Addr = {a1, a2}
    AnyAddr = any
    Nowhere = nowhere
    Wild = {ann1}
    Homes <- Places
    MaxMove = 2
    MaxRestart = 1
    MaxApi = 1
INVARIANTS
    AddressesBelong
VIEW CheckedState
PROPERTY
    FreshIsListed
CHECK_DEADLOCK FALSE

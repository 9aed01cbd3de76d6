CONSTANTS
    MaxByte = 7
    HighBit = 4
    IdLen = 2
    HashLen = 1
    ShortLen = 2
    V4Len = 2
    V6Len = 3
    MAX_TTL = 3
    MaxHops = 3
    AddrLists <- MCAddrLists
    Messages <- MCMessages
    Foreign <- MCForeign
SPECIFICATION Spec
INVARIANTS
    TypeOK
    Understood
    AcceptedIsPrefix
PROPERTY
    RelayChangesOnlyTtl
CHECK_DEADLOCK FALSE

\* One node restarts; one group forms.
SPECIFICATION FairSpec
CONSTANTS
    Platforms = {"linux", "windows"}
    MaxStarts <- OneRestarts
    MaxConnects = 2
    MaxGroups = 1
INVARIANTS GreaterIsOwner
PROPERTIES InboundIsAccepted WindowsStopReturns
CHECK_DEADLOCK FALSE

CONSTANTS
    SCAN_ARRAY_SIZE = 2
    MaxNetworks = 3
    MaxEvents = 3
SPECIFICATION Spec
INVARIANTS BitFollowsLink ScanIsExact
PROPERTY Reconnects

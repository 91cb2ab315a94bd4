SPECIFICATION FairSpec
CONSTANTS
    MaxFaults = 1
    MaxRequests = 2
    MaxEvents = 2
INVARIANTS
    SetupWindowBounded
    ScanAccounted
    AssociationWatched
    SettingsNotLost
PROPERTIES
    SetupReachable
    Reconnects

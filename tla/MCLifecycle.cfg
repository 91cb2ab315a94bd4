SPECIFICATION Spec
CONSTANTS
    BaseMs = 2
    CeilingMs = 5
    MaxShift = 2
    MaxFailures = 3
    MaxTime = 9
    Hints = {0, 3, 6}
    Randoms = {0, 1, 2}
INVARIANTS
    FlagsMatchState
    HintHonoured
PROPERTIES
    FinalUntilStopped
    ImplementsAvailability

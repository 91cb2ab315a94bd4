SPECIFICATION Spec
CONSTANTS
    NsPerMs = 3
    Delays <- MCDelays
INVARIANTS
    OneQuestionAtATime
    CapabilityBalance
    RejectionIsGenuine

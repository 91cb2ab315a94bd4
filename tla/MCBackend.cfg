SPECIFICATION BackendFairSpec
CONSTANTS
    Streams = {s1, s2, s3}
    AppMax = 1
    AppLimit = 1
    NoStream = NoStream
INVARIANTS
    RecordsAccounted
    RejectedNeverExecuted
PROPERTY IdleReclaimed

SPECIFICATION WireSpec
CONSTANTS
    U = 2
    Capacity = 16
    MessageMax = 20
    MaxSegments = 8
    Streams <- MCStreams
    HopMax = 2
    LabelsMax = 3
    NameMax = 5
    RecordMax = 3
    Packets <- MCPackets
    Zones <- MCZones
    MaxAttempts = 6
    Budget = 6
    DepthMax = 3
    OffsetMod = 1024
    Room = 5
    Messages <- MCMessages
    Indexes = {0, 1}
    Sizes = {0, 1, 2}
    Lengths = {0, 8}
    WireMax = 7
    DecodedMax = 3
    HeaderMax = 2
    Fragments <- MCFragments
INVARIANTS
    FragmentationInvisible
    NamesRead
    FailoverReachesAll
    EdgeIsAdvertised
    ReadsInBounds
    BuiltReadsBack
    HeadersCanonical
CHECK_DEADLOCK FALSE

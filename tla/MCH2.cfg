SPECIFICATION Spec
CONSTANTS
    Streams = {s1, s2, s3, s4}
    AppMax = 1
    AppLimit = 1
    NoStream = NoStream
SYMMETRY StreamSymmetry
INVARIANTS
    SlotsAccounted

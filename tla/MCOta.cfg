SPECIFICATION FairSpec
CONSTANTS
    Images <- MCImages
    Announced <- MCAnnounced
    Chunks <- MCChunks
    FactoryImage <- MCFactory
INVARIANTS
    AlwaysBootable
    BootsWhatWasAnnounced
PROPERTY UpdateEnds

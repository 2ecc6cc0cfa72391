SPECIFICATION FairTaskSpec
CONSTANTS
    MaxNetworks = 4
    MaxRequests = 2
    ImageBlocks = 2
    BufferBlocks = 2
INVARIANTS
    NamedAreReported
    WholeBodyInstalls
PROPERTIES
    OnlineOutlivesSessionOnlyBySkip
    BothEndsAgreeAgain
    ScanAnswered
    UpdateEnds

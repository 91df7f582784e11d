CONSTANTS
    Messages <- MCMessages
    MAX_MULTIPART_PARTS = 3
    Slots = 2
    MULTIPART_TIMEOUT = 1
    MaxPass = 1
    ClockMod = 4
SPECIFICATION FairSpec
INVARIANTS
    CountExact
    AgeBounded
    WholeUnlessOverlap
    NothingLostMeansDelivered
PROPERTIES
    ImplementsPartTable
    SessionsEnd

CONSTANTS
    MAX_PENDING_REQUESTS = 2
    CONFIRMATION_TIMEOUT = 2
    REQUEST_TIMEOUT = 4
    ClockMod = 7
    MaxPass = 1
    MaxRequests = 4
SPECIFICATION FairSpec
INVARIANTS
    QueueIsExact
    WaitsAreBounded
PROPERTIES
    NoEarlyExpiry
    NoEarlyTimeout
    ImplementsTurns
    QueuedLeaves
    FlightEnds

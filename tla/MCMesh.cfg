CONSTANTS
    Nodes <- MCNodes
    Links <- MCLinks
    Gateways = {"g"}
    Requests <- MCRequests
    Everyone = Everyone
    None = None
    ShortLen = 2
    MaxLen = 6
SPECIFICATION FairSpec
INVARIANTS  AnsweredUnlessLost RelayedUnlessLost
PROPERTIES QuietInTheEnd InRangeIsAnswered RelayReachesGateway
CHECK_DEADLOCK FALSE

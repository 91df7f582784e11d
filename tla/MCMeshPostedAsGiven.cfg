CONSTANTS
    Nodes <- MCNodes
    Links <- MCLinks
    Gateways = {"g"}
    Requests <- MCRequests
    Everyone = Everyone
    None = None
    ShortLen = 2
    MaxLen = 6
SPECIFICATION Spec
INVARIANT PostedAsGiven
CHECK_DEADLOCK FALSE

CONSTANTS
    Addresses = {a, b}
    Broadcast = bc
    Unset = zero
    MaxParts = 2
SPECIFICATION FairSpec
INVARIANTS
    NeverDeaf
    EachPingAcknowledgedOnce
    V2AckGoesToPinger
    V2AckIsTransmitted
    TransactionPartsAreTransmitted
    ConfirmationIsTransmitted
PROPERTIES
    PingIsAcknowledged
    V2ListensAgain

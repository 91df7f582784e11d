CONSTANTS
    Addresses = {a, b}
    Broadcast = bc
    Unset = zero
    MaxParts = 1
SPECIFICATION Spec
INVARIANTS
    AckGoesToPinger

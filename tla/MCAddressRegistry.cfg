CONSTANTS
    Wallets = {v, w}
    Addresses = {a, b}
    Pins = {zero, p}
    ZeroPin = zero
    NoEntry = NoEntry
    MaxSent = 3
SYMMETRY Symmetry
SPECIFICATION Spec
INVARIANTS PinsAgree NextRequestFits 
PROPERTIES BalanceIsReadable

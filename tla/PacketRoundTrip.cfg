SPECIFICATION ExchangeSpec
CONSTANTS
    MaxPacketSize = 2047
    MaxSends = 3
    Lens = {0, 24, 32}
    Counts = {0, 1, 5}
    Sent <- AllClasses
INVARIANTS RoundTrip FirstIsWhole
CHECK_DEADLOCK FALSE

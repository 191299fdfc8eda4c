SPECIFICATION Spec
CONSTANTS
    Rt <- MCRt
    Packets <- MCPackets
    Known <- MCKnown
    Encoded <- OnSend
    HeaderOf <- Header
    BodyOf <- Body
    DamageAt = {6, 7, 8, 9}
    DamageBits = {1, 128}
    Links = {"client", "server", "isc"}
    MaxPackets = 2
INVARIANTS FramesIntact DamageStops
PROPERTY HandledOrTold
CHECK_DEADLOCK FALSE

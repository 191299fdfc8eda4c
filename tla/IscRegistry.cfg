SPECIFICATION Spec
CONSTANTS
    Maps = {"map1", "map2"}
    MaxConns = 4
    MaxFaults = 2
INVARIANTS TypeOK NoGhostChannel
PROPERTIES ChannelsMatch CharListed
CHECK_DEADLOCK FALSE

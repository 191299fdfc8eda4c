SPECIFICATION Spec
CONSTANTS
    Kinds = {"sword", "potion", "relic"}
    Stackable = {"potion"}
    Broken = {"relic"}
    MaxEquip = 2
    MaxItems = 4
    StartRows <- FewRows
    MaxPackets = 2
    MaxQueue = 2
    MaxLoads = 2
    MaxCrashes = 1
INVARIANTS TypeOK NothingLost UntouchedSafe
PROPERTIES SameOnReturn HiddenOnlyWhenFull
CHECK_DEADLOCK FALSE

SPECIFICATION FairSpec
CONSTANTS
    o1 = o1
    o2 = o2
    Object = {o1, o2}
    Item = {i1, i2}
    Thread = {}
    Events <- LevelEvents
    Capacity = 1
    MaxPending = 2
    MaxRequests = 0
    UsesThreadFlags = TRUE
    NULL = NULL
PROPERTIES
    LevelServed
    StopHonoured
\* A failed furi_check halts the device.
CHECK_DEADLOCK FALSE

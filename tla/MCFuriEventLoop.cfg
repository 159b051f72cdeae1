SPECIFICATION Spec
CONSTANTS
    o1 = o1
    o2 = o2
    Object = {o1, o2}
    Item = {i1, i2, i3}
    Thread = {t1}
    Events <- MixedEvents
    Capacity = 1
    MaxPending = 1
    MaxRequests = 1
    UsesThreadFlags = FALSE
    NULL = NULL
SYMMETRY Symmetry
INVARIANTS
    ItemsLive
    LevelNotMissed
    WakeupsKept
\* A failed furi_check halts the device.
CHECK_DEADLOCK FALSE

SPECIFICATION Spec
CONSTANTS
    Timer = {t1}
    Periodic = {t1}
    Interval = {1, 2}
    TickInterval = {0, 1, 2}
    Wrap = 5
    MaxAge = 4
    Sources = {"Event", "Stop"}
    NULL = NULL
INVARIANTS
    NoDrift
    FreeFindsNoTimer
PROPERTY StopSilences

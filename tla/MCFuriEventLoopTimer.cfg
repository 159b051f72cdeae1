SPECIFICATION FairSpec
CONSTANTS
    Timer = {t1, t2}
    Periodic = {t1}
    Interval = {1, 2}
    Wrap = 3
    MaxAge = 2
    TickInterval = {}
    Sources = {}
    NULL = NULL
INVARIANT TimerListsExact
PROPERTY TimerFires

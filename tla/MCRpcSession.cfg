SPECIFICATION FairSpec
CONSTANTS
    s1 = s1
    s2 = s2
    g1 = g1
    g2 = g2
    Thread = {s1, s2, g1, g2}
    Joined = {g1, g2}
    Streamer <- MCStreamer
    StreamSize = 1
    TimerQueueSize = 1
    MaxEvents = 5
    NULL = NULL
INVARIANTS
    ContextAlive
    OwnersSafe
    FreedOnlyClosed

    
    
CHECK_DEADLOCK FALSE

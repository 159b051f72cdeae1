SPECIFICATION FairSpec
CONSTANTS
    Thread = {a, b, c}
    Joined = {a}
    QueueSize = 1
    NULL = NULL
INVARIANTS
    TaskMemorySafe
    ScrubTouchesLive
PROPERTIES
    ImplementsLife
    ReportedInOrder
    JoinReturns

SPECIFICATION FairSpec
CONSTANTS
    Serial = {usart, lpuart}
    Control = Control
    App = App
    Thread = {w1}
    Joined = {w1}
    NULL = NULL
    QueueSize = 2
    SerialQueueSize = 2
    LogPorts = {usart}
    MaxEvents = 6
INVARIANTS
    ListenExact
    DetectionArmed
    DisableHolds
    WorkerCleansUp
PROPERTIES
    CallsReturn
    DetectionReturns
CHECK_DEADLOCK FALSE

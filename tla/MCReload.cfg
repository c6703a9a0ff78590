SPECIFICATION Spec
CONSTANTS
    Adapters = {"openilink"}
    MaxGeneration = 2
    StatusBuffer = 1
    Senders = {s1}
    Rejectable = {1}
    MayShutDown = FALSE
INVARIANTS
    ShownFollowsClient
    ReloadConsistent
    ListenerStaysUp
CHECK_DEADLOCK FALSE

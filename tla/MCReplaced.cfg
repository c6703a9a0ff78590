SPECIFICATION FairSpec
CONSTANTS
    Adapters = {"telegram"}
    MaxGeneration = 2
    StatusBuffer = 1
    Senders = {}
    Rejectable = {}
    MayShutDown = TRUE
PROPERTIES
    ReplacedClientEnds
CHECK_DEADLOCK FALSE

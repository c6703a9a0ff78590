SPECIFICATION InboundSpec
CONSTANTS
    MaxClients = 2
    MaxUpdates = 3
    Events = {e1, e2, e3, e4}
    MaxRemembered = 2
    MaxLog = 5
INVARIANTS
    NoUpdateLost
    NoDuplicateInWindow
PROPERTY
    ImplementsMailbox
CHECK_DEADLOCK FALSE

CONSTANTS
    NoKey = NoKey
    Keys = {k1, k2}
    Defs = {d1}
    Intervals = {1}
    Limits = {1}
    Threads = {t1, t2}
    Starters = {c1}
    Subscribers = {}
    Operations = {"queue", "keepalive", "stop", "adhoc", "shutdown"}
    NameLists = {{k1}}
    MaxRunID = 2
SPECIFICATION FairSpec
PROPERTIES
    CancelledWorkEnds
    ShutdownDrains

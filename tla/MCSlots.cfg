CONSTANTS
    NoKey = NoKey
    Keys = {k1, k2}
    Defs = {d1}
    Intervals = {1, 2}
    Limits = {1, 2}
    Threads = {t1, t2}
    Starters = {c1}
    Subscribers = {}
    Operations = {"queue", "keepalive", "settings"}
    NameLists = {{}, {k1}, {k2}, {k1, k2}}
    MaxRunID = 2
SYMMETRY Symmetry
SPECIFICATION Spec
INVARIANTS
    SlotAccounting
    NoLostSlotSignal
    ScheduleFresh
    PublishedCurrent
PROPERTIES
    ImplementsPool

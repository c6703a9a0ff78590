CONSTANTS
    NoKey = NoKey
    Keys = {k1, k2}
    Defs = {d1, d2}
    Intervals = {1}
    Limits = {1}
    Threads = {t1}
    Starters = {c1}
    Subscribers = {}
    Operations = {"queue", "adhoc", "edit"}
    NameLists = {{}, {k1}, {k2}, {k1, k2}}
    MaxRunID = 2
SYMMETRY Symmetry
SPECIFICATION Spec
INVARIANTS
    WorkHasTarget
PROPERTIES
    NoEditUnderWork

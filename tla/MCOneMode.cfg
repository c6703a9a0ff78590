CONSTANTS
    NoKey = NoKey
    Keys = {k1}
    Defs = {d1}
    Intervals = {1}
    Limits = {1}
    Threads = {t1, t2}
    Starters = {c1}
    Subscribers = {}
    Operations = {"queue", "stop", "adhoc"}
    NameLists = {{}, {k1}}
    MaxRunID = 2
SYMMETRY Symmetry
SPECIFICATION Spec
INVARIANTS
    OneModePerTarget

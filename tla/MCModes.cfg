CONSTANTS
    NoKey = NoKey
    Keys = {k1}
    Defs = {d1}
    Intervals = {1}
    Limits = {2}
    Threads = {t1, t2, t3}
    Starters = {c1, c2}
    Subscribers = {s1}
    Operations = {"queue", "keepalive", "stop", "adhoc"}
    NameLists = {{}, {k1}}
    MaxRunID = 3
SYMMETRY Symmetry
SPECIFICATION Spec
INVARIANTS
    OneProcessPerTarget
    ModesExclusive
    TargetStaysFree
    WorkerCount
    WorkersCancellable
    NoLostTargetSignal
    TargetHeld

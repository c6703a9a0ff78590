SPECIFICATION FairSpec
CONSTANTS
    Targets = {t1, t2}
    Calls = {c1, c2}
    None = None
INVARIANTS
    ShownIsTrue
PROPERTIES
    AbortEndsProcess

SPECIFICATION FairSpec
CONSTANTS
    Adapters = {"telegram"}
    Tokens = {k1}
    None = None
    Targets = {"t1"}
    Readers = {1}
    Savers = {1, 2}
    MaxRev = 3
INVARIANTS
    OneSave
    EnabledHasToken
PROPERTIES
    RevisionNeverBack
    FormsUnlock
CHECK_DEADLOCK FALSE

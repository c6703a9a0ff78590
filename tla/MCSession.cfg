CONSTANTS
    Tabs = {t1}
    Calls = {c1, c2}
    MaxSession = 3
    MaxAccount = 2
    None = None
    Keep = Keep
SPECIFICATION FairSpec
INVARIANTS
    EndedStaysEnded
    OneFounder
    PageHasItsRequest
PROPERTIES
    NoPageHangs

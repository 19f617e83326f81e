SPECIFICATION Spec
CONSTANTS
    t1 = t1
    t2 = t2
    TestList <- MCTestList
    Kept = {0, 1}
    Ignored = {0, 1}
    Absent = Absent
    Empty = Empty
    TIMEOUT = 10
    Star = Star
INVARIANTS
    LogsSound
    PostComplete
    LoggedOnce
    EveryTestListed
    VerdictRight
PROPERTIES
    ImplementsPipeline
    CampaignEnds

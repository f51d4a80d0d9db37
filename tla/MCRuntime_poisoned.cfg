SPECIFICATION FairSpec

CONSTANTS
    a = a
    NULL = NULL
    Call = {a}
    Task = {t1}
    SafetyNet = net
    Row = {1, 2}
    About <- FirstEvent
    Bad = {1}
    Batch = 2
    MaxConcurrent = 1

PROPERTIES
    InboxDrained

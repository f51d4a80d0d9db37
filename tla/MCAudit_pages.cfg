SPECIFICATION PagesSpec

CONSTANTS
    NULL = NULL
    Txn = {t1, t2}
    Campaign = {1, 2}
    PageLimit = 2
    MaxRows = 4
    MaxNow = 1

SYMMETRY Interchangeable

INVARIANTS
    WalkComplete
    NoRowTwice

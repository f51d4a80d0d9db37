SPECIFICATION AuditSpec

CONSTANTS
    NULL = NULL
    Txn = {t1}
    Campaign = {1, 2}
    Selections = {{1}, {1, 2}}
    PageLimit = 1
    MaxRows = 2
    MaxNow = 0
    MaxInflight = 2
    MaxHistory = 1

INVARIANTS
    AuditTypeOK
    ShownIsCurrent

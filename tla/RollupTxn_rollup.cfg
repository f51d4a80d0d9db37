SPECIFICATION TxnSpec

CONSTANTS
    Call = {a, b, c}
    Worker = {w1, w2, w3}
    NULL = NULL

PROPERTIES
    AtomicRollup

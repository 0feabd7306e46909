SPECIFICATION Spec
CONSTANTS
    Sids = {s1, s2, s3, s4, s5}
    NoSid = NoSid
    Unnamed = {s5}
    Threshold = 3
    Durable = 1
    MaxLedger = 3
    NoEdit = NoEdit
SYMMETRY Symmetry
INVARIANTS LedgerInv NoSessionForgotten LoginRespectsCapacity
PROPERTIES CleanupIsConservative LedgerMovesForward

CONSTANTS
    IdemKeys = {k1, k2, k3}
    NoIdem = NoIdem
    Callers = {c1, c2, c3}
    Nobody = Nobody
    NoCount = NoCount
SPECIFICATION Spec
SYMMETRY Symmetry
INVARIANTS
    UnsettledIsOnRecord
    RecordTellsTheTruth
    DoubleClickBuysOnce
PROPERTIES
    KeyReplacedOnlyWhenSettled

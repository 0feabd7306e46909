SPECIFICATION Spec
CONSTANTS
    IdemKeys = {k1, k2, k3}
    NoIdem = NoIdem
    Callers = {c1, c2}
    Nobody = Nobody
    LastDay = 1
SYMMETRY Symmetry
INVARIANTS PassInv OnePassADay
PROPERTY KeyReplacedOnlyUncharged

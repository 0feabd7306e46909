SPECIFICATION Spec
CONSTANTS
    Callers = {c1, c2}
    Nobody = Nobody
    Ops = {"parent", "lottery", "reauth"}
    MaxToken = 3
    MaxTrouble = 1
    NoEdit = NoEdit
SYMMETRY Symmetry
INVARIANTS BrokerInv PasswordIsLastEntered
PROPERTIES NoNeedlessSession SavesMoveForward
